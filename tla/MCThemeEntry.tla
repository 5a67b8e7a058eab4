---------------------------- MODULE MCThemeEntry ----------------------------
(* The bounded instance of ThemeEntry: requests and questions are            *)
(* interchangeable.                                                          *)
EXTENDS ThemeEntry, TLC

Symmetry == Permutations(Request) \cup Permutations(Question)
=============================================================================
