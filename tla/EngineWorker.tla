---------------------------- MODULE EngineWorker ----------------------------
(***************************************************************************)
(* The engine worker (src/engine/api/worker.py) and the host's worker lock *)
(* (src/engine/api/job_queue.py), on the queue of module JobQueue: workers *)
(* are launched, one takes the host's lock and the queue over, runs the    *)
(* runs one at a time with a look at the cancel flag at each phase         *)
(* boundary, and closes each row; API callers submit and cancel at any     *)
(* point, and a worker may be killed at any point.                         *)
(*                                                                         *)
(* HostCount > 1 is a worker set on the hosts of a pod slice seen from its *)
(* primary, process 0, which alone touches the queue; what happens inside  *)
(* the set is in module WorkerHosts.                                       *)
(***************************************************************************)
EXTENDS JobQueue

CONSTANTS
  Locks,          \* worker lock paths (JAX_RISK_WORKER_LOCK)
  LockSetups,     \* ways the workers may have been given their locks
  Draining,       \* the workers told to exit once nothing is pending
  HostCount,      \* hosts of the worker set; 1: a worker by itself
  Boundaries,     \* phase boundaries of a run after its "start"
  PurgeInterval,  \* PURGE_INTERVAL_SECONDS
  MaxFaults       \* bound: workers killed and parents lost

ASSUME WorkerAssumption == /\ LockSetups \subseteq [Workers -> Locks]
                           /\ Draining \subseteq Workers
                           /\ HostCount \in Nat \ {0}
                           /\ Boundaries \in Nat
                           /\ PurgeInterval \in Nat \ {0}
                           /\ MaxFaults \in Nat
                           /\ None \notin Locks

VARIABLES
  lockOf,       \* the lock each worker is started with, fixed from the start
  holder,       \* each lock: the worker holding it, or None
  at,           \* where each worker process is
  job,          \* the run it is on, 0 when none
  phase,        \* the boundaries of that run it has passed
  ending,       \* how the run ended, once it has
  parentAlive,  \* whether the API process that launched it is running
  nextPurge,    \* the earliest time of its next purge
  faults        \* faults so far

workerVars == <<lockOf, holder, at, job, phase, ending, parentAlive, nextPurge, faults>>
vars == <<jobs, artifacts, lastSeq, now, lockOf, holder, at, job,
          phase, ending, parentAlive, nextPurge, faults>>

\* A worker's life: not running; waiting for the lock; holding it, the queue
\* not taken over; having put runs back; about to look; about to claim; and on
\* a run: at a phase boundary, between two, about to close the row, or about
\* to fail it because its result could not be stored.
OnRun    == {"boundary", "pricing", "closing", "unstored"}
Serving  == {"looking", "claiming"} \cup OnRun
Owning   == {"opening", "putback"} \cup Serving
Places   == {"off", "locking"} \cup Owning

NotEnded == [status |-> RUNNING, parts |-> {}, class |-> None]
Endings  == [status : {RUNNING, DONE, FAILED, CANCELLED},
             parts  : SUBSET Parts,
             class  : FAILURE_CLASSES \cup {None}]

WorkerTypeOK == /\ TypeOK
                /\ lockOf \in LockSetups
                /\ holder \in [Locks -> Workers \cup {None}]
                /\ at \in [Workers -> Places]
                /\ job \in [Workers -> RunIds \cup {0}]
                /\ phase \in [Workers -> 0 .. Boundaries]
                /\ ending \in [Workers -> Endings]
                /\ parentAlive \in [Workers -> BOOLEAN]
                /\ nextPurge \in [Workers -> Nat]
                /\ faults \in 0 .. MaxFaults

Init == /\ QueueInit
        /\ lockOf \in LockSetups
        /\ holder = [l \in Locks |-> None]
        /\ at = [w \in Workers |-> "off"]
        /\ job = [w \in Workers |-> 0]
        /\ phase = [w \in Workers |-> 0]
        /\ ending = [w \in Workers |-> NotEnded]
        /\ parentAlive = [w \in Workers |-> FALSE]
        /\ nextPurge = [w \in Workers |-> 0]
        /\ faults = 0

----------------------------------------------------------------------------
(* Starting: the lock, then the queue.                                     *)

Go(w, place) == at' = [at EXCEPT ![w] = place]

\* The process is gone, by whatever way: the OS drops its lock, and a run it
\* was on stays as its row says.
Exit(w) ==
  /\ Go(w, "off")
  /\ holder' = [l \in Locks |-> IF holder[l] = w THEN None ELSE holder[l]]
  /\ job' = [job EXCEPT ![w] = 0]
  /\ phase' = [phase EXCEPT ![w] = 0]
  /\ ending' = [ending EXCEPT ![w] = NotEnded]
  /\ parentAlive' = [parentAlive EXCEPT ![w] = FALSE]
  /\ nextPurge' = [nextPurge EXCEPT ![w] = 0]

\* A supervisor launches a worker when its probe finds the lock free (two
\* supervisors' probes may both find it so), or whoever runs a set's hosts does.
Start(w) ==
  /\ at[w] = "off"
  /\ holder[lockOf[w]] = None
  /\ Go(w, "locking")
  /\ parentAlive' = [parentAlive EXCEPT ![w] = TRUE]
  /\ UNCHANGED <<queueVars, holder, job, phase, ending, nextPurge, faults>>

\* Mutant: takes a lock another worker holds.
Acquire_Shared(w) ==
  /\ at[w] = "locking"
  /\ holder' = [holder EXCEPT ![lockOf[w]] = w]
  /\ Go(w, "opening")
  /\ UNCHANGED <<queueVars, job, phase, ending, parentAlive, nextPurge, faults>>

Acquire(w) ==
  /\ at[w] = "locking"
  /\ holder[lockOf[w]] = None
  /\ holder' = [holder EXCEPT ![lockOf[w]] = w]
  /\ Go(w, "opening")
  /\ UNCHANGED <<queueVars, job, phase, ending, parentAlive, nextPurge, faults>>

\* The lock was held throughout LOCK_WAIT_SECONDS: exit 3.
GiveUp(w) ==
  /\ at[w] = "locking"
  /\ holder[lockOf[w]] # None
  /\ Exit(w)
  /\ UNCHANGED <<queueVars, faults>>

\* The primary of a set puts back the runs its set may run again ...
PutBack(w) ==
  /\ at[w] = "opening" /\ HostCount > 1
  /\ Requeue
  /\ Go(w, "putback")
  /\ UNCHANGED <<holder, job, phase, ending, parentAlive, nextPurge, faults>>

\* Mutant: leaves the running rows of a dead worker as they are.
TakeOver_LeavesRunning(w) ==
  /\ at[w] = IF HostCount > 1 THEN "putback" ELSE "opening"
  /\ Go(w, "looking")
  /\ UNCHANGED <<queueVars, holder, job, phase, ending, parentAlive, nextPurge, faults>>

\* Mutant: runs again what a dead worker left, set or not.
TakeOver_RunsAgain(w) ==
  /\ at[w] = IF HostCount > 1 THEN "putback" ELSE "opening"
  /\ Requeue
  /\ Go(w, "looking")
  /\ UNCHANGED <<holder, job, phase, ending, parentAlive, nextPurge, faults>>

\* ... and any worker marks what is still running interrupted.
TakeOver(w) ==
  /\ at[w] = IF HostCount > 1 THEN "putback" ELSE "opening"
  /\ Interrupt
  /\ Go(w, "looking")
  /\ UNCHANGED <<holder, job, phase, ending, parentAlive, nextPurge, faults>>

----------------------------------------------------------------------------
(* The loop: stop, purge, claim.                                           *)

Look(w) ==
  /\ at[w] = "looking" /\ parentAlive[w]
  /\ \/ /\ now >= nextPurge[w]
        /\ Purge(now - KeepFor)
        /\ nextPurge' = [nextPurge EXCEPT ![w] = now + PurgeInterval]
     \/ /\ now < nextPurge[w]
        /\ UNCHANGED <<queueVars, nextPurge>>
  /\ Go(w, "claiming")
  /\ UNCHANGED <<holder, job, phase, ending, parentAlive, faults>>

StopOrphan(w) ==
  /\ at[w] = "looking" /\ ~parentAlive[w]
  /\ Exit(w)
  /\ UNCHANGED <<queueVars, faults>>

ClaimNext(w) ==
  /\ at[w] = "claiming"
  /\ \E i \in RunIds : Claim(w, i) /\ job' = [job EXCEPT ![w] = i]
  /\ phase' = [phase EXCEPT ![w] = 0]
  /\ Go(w, "boundary")
  /\ UNCHANGED <<holder, ending, parentAlive, nextPurge, faults>>

Idle(w) ==
  /\ at[w] = "claiming" /\ w \notin Draining
  /\ InStatus(PENDING) = {}
  /\ Go(w, "looking")
  /\ UNCHANGED <<queueVars, holder, job, phase, ending, parentAlive, nextPurge, faults>>

StopDrained(w) ==
  /\ at[w] = "claiming" /\ w \in Draining
  /\ InStatus(PENDING) = {}
  /\ Exit(w)
  /\ UNCHANGED <<queueVars, faults>>

----------------------------------------------------------------------------
(* One run, from its claim to its closed row.                              *)

End(w, e) == /\ ending' = [ending EXCEPT ![w] = e]
             /\ Go(w, "closing")

\* A look at the cancel flag, before the run starts and at each phase.
PhaseBoundary(w) ==
  /\ at[w] = "boundary"
  /\ IF jobs[job[w]].cancel_requested
     THEN End(w, [NotEnded EXCEPT !.status = CANCELLED])
     ELSE Go(w, "pricing") /\ UNCHANGED ending
  /\ UNCHANGED <<queueVars, holder, job, phase, parentAlive, nextPurge, faults>>

\* The work of one phase: on to the next boundary, or to the run's end.
PricePhase(w) ==
  /\ at[w] = "pricing"
  /\ \/ /\ phase[w] < Boundaries
        /\ phase' = [phase EXCEPT ![w] = @ + 1]
        /\ Go(w, "boundary")
        /\ UNCHANGED ending
     \/ /\ phase[w] = Boundaries
        /\ \E parts \in SUBSET Parts :
             End(w, [NotEnded EXCEPT !.status = DONE, !.parts = parts])
        /\ UNCHANGED phase
     \/ \* raised; on a set, INFRASTRUCTURE is hosts that ended it differently
        /\ \E class \in FailureClasses :
             End(w, [NotEnded EXCEPT !.status = FAILED, !.class = class])
        /\ UNCHANGED phase
  /\ UNCHANGED <<queueVars, holder, job, parentAlive, nextPurge, faults>>

\* A failure that may be one host's own stops the whole set (fail_stop).
FailStop(w) ==
  /\ at[w] = "pricing" /\ HostCount > 1
  /\ faults < MaxFaults
  /\ faults' = faults + 1
  /\ Exit(w)
  /\ UNCHANGED queueVars

BackToLoop(w) ==
  /\ Go(w, "looking")
  /\ job' = [job EXCEPT ![w] = 0]
  /\ phase' = [phase EXCEPT ![w] = 0]
  /\ ending' = [ending EXCEPT ![w] = NotEnded]
  /\ UNCHANGED <<holder, parentAlive, nextPurge, faults>>

CloseRow(w) ==
  /\ at[w] = "closing"
  /\ \/ ending[w].status = CANCELLED /\ CancelRunning(job[w])
     \/ ending[w].status = FAILED /\ Fail(job[w], ending[w].class)
     \/ ending[w].status = DONE /\ Finish(job[w], ending[w].parts)
  /\ BackToLoop(w)

\* The result cannot be stored, or its row is no longer running: finish is
\* rolled back, and the run is to be failed instead.
StoreFails(w) ==
  /\ at[w] = "closing" /\ ending[w].status = DONE
  /\ Go(w, "unstored")
  /\ UNCHANGED <<queueVars, holder, job, phase, ending, parentAlive, nextPurge, faults>>

FailUnstored(w) ==
  /\ at[w] = "unstored"
  /\ Fail(job[w], INFRASTRUCTURE)
  /\ BackToLoop(w)

\* Closing a row that is not running raises, which nothing catches: the
\* worker exits.
CloseRaises(w) ==
  /\ \/ at[w] = "unstored"
     \/ at[w] = "closing" /\ ending[w].status # DONE
  /\ jobs[job[w]].status # RUNNING
  /\ Exit(w)
  /\ UNCHANGED <<queueVars, faults>>

----------------------------------------------------------------------------
(* Faults, and the specification.                                          *)

\* Killed at any point (a crash, the supervisor's stop, a set member's death).
Kill(w) ==
  /\ at[w] # "off"
  /\ faults < MaxFaults
  /\ faults' = faults + 1
  /\ Exit(w)
  /\ UNCHANGED queueVars

ParentDies(w) ==
  /\ parentAlive[w]
  /\ faults < MaxFaults
  /\ faults' = faults + 1
  /\ parentAlive' = [parentAlive EXCEPT ![w] = FALSE]
  /\ UNCHANGED <<queueVars, holder, at, job, phase, ending, nextPurge>>

Work(w) == \/ Acquire(w) \/ GiveUp(w) \/ PutBack(w) \/ TakeOver(w)
           \/ Look(w) \/ StopOrphan(w) \/ ClaimNext(w) \/ Idle(w) \/ StopDrained(w)
           \/ PhaseBoundary(w) \/ PricePhase(w)
           \/ CloseRow(w) \/ StoreFails(w) \/ FailUnstored(w) \/ CloseRaises(w)

Fault(w) == FailStop(w) \/ Kill(w) \/ ParentDies(w)

Callers == (ClientStep \/ Tick) /\ UNCHANGED workerVars

Next == \/ Callers
        \/ /\ \E w \in Workers : Start(w) \/ Work(w) \/ Fault(w)
           /\ UNCHANGED lockOf

Spec == Init /\ [][Next]_vars

\* A worker process that runs goes on running.
GoesOn(w) == Work(w) /\ UNCHANGED lockOf

\* A worker by itself is the API's child: the caller of an unfinished run keeps
\* polling it, and each poll starts a worker if none serves the host
\* (routes.get_run, _ensure_worker, WorkerSupervisor.ensure_running).
PollStarts == /\ HostCount = 1 /\ Unfinished # {}
              /\ \E w \in Workers : Start(w)
              /\ UNCHANGED lockOf

\* A set's API starts nothing: whoever runs the hosts restarts a worker that
\* exited, whether or not a caller polls (systemd's Restart=always, a container's
\* restart policy, a pod's process manager: supervisor.py, JAX_RISK_WORKER=external).
Restarts(w) == HostCount > 1 /\ Start(w) /\ UNCHANGED lockOf

Fairness == /\ \A w \in Workers : WF_vars(GoesOn(w)) /\ WF_vars(Restarts(w))
            /\ WF_vars(PollStarts)

FairSpec == Spec /\ Fairness

----------------------------------------------------------------------------
(* What the workers promise.                                               *)

\* Whether all workers of the queue are started with one lock, as by default.
OneLock == \A v, w \in Workers : lockOf[v] = lockOf[w]

\* A worker on a run has its row: running, and claimed by it.  Nobody else
\* ended it or ran it meanwhile, so closing it never raises (run_job,
\* _close_running), as long as all workers of a queue share one lock.
RunnerOwnsRow ==
  OneLock => \A w \in Workers : at[w] \in OnRun =>
               jobs[job[w]].status = RUNNING /\ jobs[job[w]].worker = w

\* A row never reads running without a worker on it, once a worker has taken
\* the queue over: what a dead worker left behind is dealt with before
\* anything is claimed (interrupt_running, requeue_running).  Needs one lock:
\* under two, a worker may die while another already serves the queue.
RunningHasRunner ==
  OneLock => \A i \in InStatus(RUNNING) :
    \/ \E w \in Workers : at[w] \in OnRun /\ job[w] = i
    \/ \A w \in Workers : at[w] \notin Serving

\* No two worker sets share the queue under two locks: there the second would
\* put back, and run again, what the first is running.
NoTwoSets == HostCount = 1 \/ OneLock

\* A run is priced by one worker at a time, and again only by a set whose
\* host failed (requeue_running): a worker by itself never runs again what may
\* have run already, even where two locks let two workers share the queue.
RunAgainOnlyOnSets ==
  /\ \A i \in RunIds : jobs[i].attempts <= IF HostCount > 1 THEN MAX_ATTEMPTS ELSE 1
  /\ NoTwoSets => \A v, w \in Workers :
       at[v] \in OnRun /\ at[w] \in OnRun /\ job[v] = job[w] => v = w

\* A result is stored only by the worker that claimed the run and passed its
\* last phase, even when workers under two locks share the queue and one
\* marks the other's run interrupted (finish, _close_running).
ResultIsItsRunners ==
  [][NoTwoSets => \A i \in RunIds :
       jobs[i].status = RUNNING /\ jobs'[i].status = DONE =>
         \E w \in Workers : /\ jobs[i].worker = w /\ job[w] = i
                            /\ at[w] = "closing" /\ phase[w] = Boundaries]_vars

\* Queue and workers together keep the lifecycle's whole promise: every
\* accepted run ends, whatever workers and hosts failed on the way, provided its
\* caller keeps polling it (a worker the API starts) or the set is restarted
\* (worker.py's --distributed, which only an external supervisor starts).
EveryRunEnds == Lifecycle!Spec
=============================================================================
