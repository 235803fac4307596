---------------------------- MODULE MCApiClient ----------------------------
(* Finite instances of ApiClient: one tab, or two with the calls shared. *)
EXTENDS ApiClient, TLC

CONSTANTS t1, t2, c1, c2, c3

OneTab  == [c \in Calls |-> t1]
TwoTabs == [c \in Calls |-> IF c = c1 THEN t1 ELSE t2]
LikeCalls == Permutations({c2, c3})
=============================================================================
