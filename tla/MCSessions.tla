----------------------------- MODULE MCSessions -----------------------------
(* Finite instances of Sessions. *)
EXTENDS Sessions, TLC

(* Requests are interchangeable: no safety property tells them apart. *)
Symmetry == Permutations(Requests)
=============================================================================
