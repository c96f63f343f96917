--------------------------- MODULE MCConfirmGate ---------------------------
EXTENDS ConfirmGate, TLC

\* Two calls of the job, which nothing tells apart.
JobCallSymmetry == Permutations(JobCall)
=============================================================================
