---------------------------- MODULE MCDeployments ---------------------------
(* The two deployments of a queue's workers, each with the restarts it has: *)
(* the API's own workers, and a worker set that others keep running.       *)
EXTENDS EngineWorker, TLC

CONSTANTS b1, w1, w2, lockA

MCBodies  == {b1}
MCWorkers == {w1, w2}
MCLocks   == {lockA}
MCClasses == {INFRASTRUCTURE}
MCSetups  == {[w \in Workers |-> lockA]}

VARIABLE deployment  \* "spawn" or "external", as JAX_RISK_WORKER

Set == INSTANCE EngineWorker
         WITH HostCount <- 2, Workers <- {w1}, Draining <- {w1}, MaxFaults <- 3, MaxTime <- 2,
              LockSetups <- {[w \in {w1} |-> lockA]}

Own      == deployment = "spawn"
External == deployment = "external"

MCInit == (Own /\ Init) \/ (External /\ Set!Init)
MCNext == ((Own /\ Next) \/ (External /\ Set!Next)) /\ UNCHANGED deployment

MCFairness == /\ \A w \in MCWorkers : WF_vars(Own /\ GoesOn(w))
              /\ WF_vars(Own /\ PollStarts)
              /\ WF_vars(External /\ Set!GoesOn(w1))
              /\ WF_vars(External /\ Set!Restarts(w1))

MCSpec == MCInit /\ [][MCNext]_<<vars, deployment>> /\ MCFairness
=============================================================================
