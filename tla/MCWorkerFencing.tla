--------------------------- MODULE MCWorkerFencing ---------------------------
\* The worker fencing model with symmetric worker identities.
EXTENDS WorkerFencing, TLC
CONSTANTS w1, w2
Symmetry == Permutations(Workers)
=============================================================================
