---- MODULE MCGraphEdits ----
EXTENDS GraphEdits, TLC
CONSTANTS A, B

\* "A", and "B, also A".
Two        == <<A, B>>
TwoAliases == <<{}, {A}>>
Symmetry == Permutations(Scanner) \cup Permutations(Writer) \cup Permutations(New)
====
