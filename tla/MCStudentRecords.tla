------------------------- MODULE MCStudentRecords -------------------------
EXTENDS StudentRecords, TLC

\* One set of model values stands for the requests of every desk.
RequestSymmetry == Permutations(Requests)
=============================================================================
