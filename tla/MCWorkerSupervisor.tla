------------------------- MODULE MCWorkerSupervisor -------------------------
(* Two API processes of one host, with two threads and one, for TLC.       *)
EXTENDS WorkerSupervisor, TLC

CONSTANTS a1, a2, r1, r2, r3, q1, q2, w1, w2, w3

MCApis     == {a1, a2}
MCRequests == {r1, r2, r3}
MCApiOf    == (r1 :> a1) @@ (r2 :> a1) @@ (r3 :> a2)
MCQueues   == {q1, q2}
MCWorkers  == {w1, w2, w3}
MCSetups   == {[a \in Apis |-> q1], (a1 :> q1) @@ (a2 :> q2)}


Symmetry == Permutations({r1, r2}) \cup Permutations(Workers)
=============================================================================
