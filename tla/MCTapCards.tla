----------------------------- MODULE MCTapCards -----------------------------
(* Instance of TapCards for model checking.                                 *)
EXTENDS TapCards, TLC

Alike == Permutations(Request) \cup Permutations(Field)
=============================================================================
