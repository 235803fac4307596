----------------------------- MODULE MCTickets -----------------------------
(* Finite instances of Tickets. *)
EXTENDS Tickets, TLC

Symmetry ==
  Permutations(Users) \cup Permutations(Tickets) \cup Permutations(Modules)
    \cup Permutations(Requests)
=============================================================================
