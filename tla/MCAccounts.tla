----------------------------- MODULE MCAccounts -----------------------------
(* Finite instances of Accounts: two superusers, one of them a client by   *)
(* role, and an identifier to give out.                                    *)
EXTENDS Accounts, TLC

CONSTANTS u1, u2

TwoSupers == [u \in Users |->
  IF u = u1 THEN [role |-> "technician", super |-> "yes"]
  ELSE IF u = u2 THEN [role |-> "client", super |-> "yes"]
  ELSE NoRow]

Symmetry == Permutations(Requests)
=============================================================================
