----------------------------- MODULE MCAttempts -----------------------------
(* Submissions, retries and restarts on a small store, for TLC.            *)
EXTENDS Attempts, TLC

CONSTANTS w1, w2, s1, s2

MCWorkloads     == {w1, w2}
MCSubmissionIds == {s1, s2}
MCOldStores     == MCWorkloads \X MCSubmissionIds

Symmetry == Permutations(Workloads) \cup Permutations(SubmissionIds)
=============================================================================
