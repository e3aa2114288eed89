--------------------------- MODULE MCEngineWorker ---------------------------
(* Workers and callers on one queue, for TLC.                              *)
EXTENDS EngineWorker, TLC

CONSTANTS b1, w1, w2, c1, lockA, lockB

MCBodies  == {b1}
TwoWorkers == {w1, w2}
MCParts   == {c1}
MCClasses == {INFRASTRUCTURE}
TwoLocks  == {lockA, lockB}
AnyLocks  == [Workers -> Locks]

\* Workers are alike, and locks are; the run has no liveness.
Symmetry == Permutations(Workers) \cup Permutations(Locks)
=============================================================================
