--------------------------- MODULE MCWorkerHosts ---------------------------
(* A set of two hosts and its callers on one queue, for TLC.               *)
EXTENDS WorkerHosts, TLC

CONSTANTS b1, w1

MCBodies  == {b1}
MCWorkers == {w1}
MCClasses == {INFRASTRUCTURE, "bad-terms"}
\* A message of one full chunk and a short one.
MCLength  == b1 :> 3
=============================================================================
