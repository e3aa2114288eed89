---------------------------- MODULE RunLifecycle ----------------------------
(***************************************************************************)
(* What the run queue promises the caller of POST /runs, with no worker,   *)
(* lock, attempt or restart in sight: an accepted run ends, once, and is   *)
(* then kept until it is forgotten.  The queue by itself (JobQueue) and    *)
(* the queue with its workers (EngineWorker) implement it.                 *)
(***************************************************************************)
EXTENDS Integers

CONSTANTS Runs,      \* the run numbers, 1 .. n
          Outcomes   \* how a run can end

VARIABLES run,   \* each run: "none", "accepted", one of Outcomes, or "gone"
          count  \* how many runs have been accepted

vars == <<run, count>>

Init == run = [i \in Runs |-> "none"] /\ count = 0

\* Runs are numbered as they are accepted; a number is never used again.
Accept == /\ count + 1 \in Runs
          /\ run' = [run EXCEPT ![count + 1] = "accepted"]
          /\ count' = count + 1

\* Some runs end together: one by its worker or its caller, or all those a
\* dead worker left behind.
End(S) == /\ \A i \in S : run[i] = "accepted"
          /\ \E outcome \in [S -> Outcomes] :
               run' = [i \in Runs |-> IF i \in S THEN outcome[i] ELSE run[i]]
          /\ UNCHANGED count

Forget(S) == /\ \A i \in S : run[i] \in Outcomes
             /\ run' = [i \in Runs |-> IF i \in S THEN "gone" ELSE run[i]]
             /\ UNCHANGED count

Next == \/ Accept
        \/ \E S \in (SUBSET Runs) \ {{}} : End(S) \/ Forget(S)

Safety == Init /\ [][Next]_vars

\* Every accepted run ends.
EndsEventually == \A i \in Runs : (run[i] = "accepted") ~> (run[i] # "accepted")

Spec == Safety /\ EndsEventually
=============================================================================
