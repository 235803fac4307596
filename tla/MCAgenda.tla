------------------------------ MODULE MCAgenda ------------------------------
(* Finite instances of Agenda. *)
EXTENDS Agenda, TLC

Symmetry == Permutations(Requests) \cup Permutations(Tickets)
=============================================================================
