-------------------------------- MODULE Lent --------------------------------
(***************************************************************************)
(* The variables the parts of the desk are lent: each takes the first ones *)
(* for its own, and parts that keep no state in common take the same.      *)
(***************************************************************************)
CONSTANT Unset    \* no value, told from every other

VARIABLES v1, v2, v3, v4, v5, v6, v7, v8, v9, v10, v11, v12, v13, v14
=============================================================================
