---- MODULE MCThreadQuestions ----
EXTENDS ThreadQuestions, TLC
CONSTANTS p1

OnePattern == [e \in Extraction |-> p1]
Symmetry == Permutations(Extraction) \cup Permutations(Worker)
====
