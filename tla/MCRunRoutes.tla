---------------------------- MODULE MCRunRoutes -----------------------------
(* Requests on one queue, its worker doing whatever a worker may, for TLC. *)
EXTENDS RunRoutes, TLC

CONSTANTS k1, b1, b2, w1, r1, r2

MCKeys     == {k1}
MCBodies   == {b1, b2}
MCWorkers  == {w1}
MCClasses  == {INFRASTRUCTURE}
MCRequests == {r1, r2}

\* A submission, another with its key and another body, and one to keep.
MCPosts    == {[key |-> k1, body |-> b1, keep |-> FALSE],
               [key |-> k1, body |-> b2, keep |-> FALSE],
               [key |-> None, body |-> b1, keep |-> TRUE]}

Symmetry == Permutations(Requests)
\* Retention outlasts a request by far (30 days by default, a wait at most 30
\* seconds): time enough to purge a row never passes within one.
DaysSpec == RoutesInit /\ [][RoutesNext /\ (now' # now => \A r \in Requests : req[r].at = "idle")]_servedVars
=============================================================================
