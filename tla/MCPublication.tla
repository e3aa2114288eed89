--------------------------- MODULE MCPublication ----------------------------
(* The result store under publishers, lookups and faults, for TLC.         *)
EXTENDS Publication, TLC

CONSTANTS w1, w2, p1, p2

MCWorkloads == {w1, w2}
MCAttempts  == {1, 2}
MCProcesses == {p1, p2}
MCReaders   == {p1}

Symmetry == Permutations(Workloads)

=============================================================================
