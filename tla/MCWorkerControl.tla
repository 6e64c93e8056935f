-------------------------- MODULE MCWorkerControl --------------------------
EXTENDS WorkerControl, TLC

CONSTANTS p1, p2, p3, p4, m1, m2

Symmetry == Permutations(Procs) \cup Permutations(Masters)
=============================================================================
