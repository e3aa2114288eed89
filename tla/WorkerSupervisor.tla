-------------------------- MODULE WorkerSupervisor --------------------------
(***************************************************************************)
(* Keeping an engine worker alive behind the API processes of one host     *)
(* (src/engine/api/supervisor.py), through the host's lock file and the    *)
(* record its holder leaves in it (WorkerLock, worker_lock_held and        *)
(* lock_owner of src/engine/api/job_queue.py), as the routes use them      *)
(* (src/engine/api/routes.py: _validate_and_queue, get_run).               *)
(*                                                                         *)
(* To look whether the lock is held a process takes it and drops it again, *)
(* so a look is itself a holder for an instant; each step of a look is an  *)
(* action here.  Runs are only counted: their life is JobQueue's.          *)
(***************************************************************************)
EXTENDS Integers, FiniteSets

CONSTANTS
  Apis,         \* API processes
  Requests,     \* request threads
  ApiOf,        \* the process each thread belongs to
  Queues,       \* job queues
  QueueSetups,  \* the ways the processes may have been given their queues
  Workers,      \* worker processes
  None,
  MaxRuns,      \* bound: runs submitted to a queue
  MaxInFlight,  \* bound: requests in progress at once
  MaxFaults     \* bound: workers and processes that die, launches that fail

ASSUME SupervisorAssumption ==
  /\ ApiOf \in [Requests -> Apis]
  /\ QueueSetups \subseteq [Apis -> Queues]
  /\ MaxRuns \in Nat /\ MaxInFlight \in Nat /\ MaxFaults \in Nat
  /\ None \notin Apis \cup Requests \cup Workers \cup Queues
  /\ None \notin [who : Workers, queue : Queues]
  /\ Workers \cap Requests = {}

ERROR           == 1   \* any exit status but 0 and EXIT_HOST_OWNED
EXIT_HOST_OWNED == 3
FAILED_STARTS_REPORTED == 2

VARIABLES
  queueOf,  \* the queue each API process is given, fixed from the start
  holder,   \* the worker or thread holding the host's lock, or None
  record,   \* what the lock file says: who wrote it last, and its queue
  proc,     \* the worker processes
  sup,      \* each API process's supervisor
  req,      \* each request thread
  runs,     \* runs submitted to each queue
  pending,  \* runs queued and not claimed yet
  faults

vars == <<queueOf, holder, record, proc, sup, req, runs, pending, faults>>
queueVars == <<runs, pending>>

\* A worker: where it is, the API process that launched it and still runs, its
\* queue, its exit status, and whether it has claimed a run.
NoProcess == [at |-> "off", parent |-> None, serves |-> None, status |-> 0, worked |-> FALSE]

\* A supervisor: its child, the thread in its lock, its failed starts, whether
\* the last could not even launch, whether a run of its queue was claimed since
\* it last started one; and how many of its starts in a row came to nothing.
NewSupervisor == [child |-> None, mutex |-> None, failed |-> 0, launchFailed |-> FALSE,
                  claimed |-> FALSE, barren |-> 0]

\* A request: where it is and what it answers; what lock_owner returned to it;
\* the failed starts it read; and the worker that has served its queue since it began.
NoRequest == [pc |-> "idle", task |-> None, owner |-> None,
              failed |-> 0, servedBy |-> None]

Alive(w)     == proc[w].at \in {"locking", "holding", "serving"}
Serves(w, q) == proc[w].at = "serving" /\ proc[w].serves = q

Init == /\ queueOf \in QueueSetups
        /\ holder = None /\ record = None
        /\ proc = [w \in Workers |-> NoProcess]
        /\ sup = [a \in Apis |-> NewSupervisor]
        /\ req = [t \in Requests |-> NoRequest]
        /\ runs = [q \in Queues |-> 0]
        /\ pending = [q \in Queues |-> 0]
        /\ faults = 0

\* The requests once the workers `gone` no longer serve.
SeenGone(gone) == [t \in Requests |-> IF req[t].servedBy \in gone
                                      THEN [req[t] EXCEPT !.servedBy = None] ELSE req[t]]
Drops(gone)    == holder' = IF holder \in gone THEN None ELSE holder
Fault          == faults < MaxFaults /\ faults' = faults + 1

----------------------------------------------------------------------------
(* A worker process, as far as the lock and its supervisor see it.         *)

TakeLock(w) ==
  /\ proc[w].at = "locking" /\ holder = None
  /\ holder' = w
  /\ proc' = [proc EXCEPT ![w].at = "holding"]
  /\ UNCHANGED <<record, sup, req, queueVars, faults>>

\* The lock is taken first and the record written after.
WriteRecord(w) ==
  /\ proc[w].at = "holding"
  /\ record' = [who |-> w, queue |-> proc[w].serves]
  /\ proc' = [proc EXCEPT ![w].at = "serving"]
  /\ UNCHANGED <<holder, sup, req, queueVars, faults>>

\* What is left of a worker that is gone: a status for its parent to read,
\* and its record in the lock file.
Exits(w, status) ==
  /\ Drops({w})
  /\ proc' = [proc EXCEPT ![w] = IF @.parent = None THEN NoProcess
                                 ELSE [@ EXCEPT !.at = "exited", !.status = status]]
  /\ req' = SeenGone({w})

\* Mutant: a redundant worker has written its record when it finds the lock held.
GiveUp_Recorded(w) ==
  /\ proc[w].at = "locking" /\ holder \in Workers
  /\ Exits(w, EXIT_HOST_OWNED)
  /\ record' = [who |-> w, queue |-> proc[w].serves]
  /\ UNCHANGED <<sup, queueVars, faults>>

\* Another worker held the lock all the time this one tried.
GiveUp(w) ==
  /\ proc[w].at = "locking" /\ holder \in Workers
  /\ Exits(w, EXIT_HOST_OWNED)
  /\ UNCHANGED <<record, sup, queueVars, faults>>

ClaimRun(w) ==
  /\ proc[w].at = "serving" /\ proc[w].parent # None
  /\ pending[proc[w].serves] > 0
  /\ pending' = [pending EXCEPT ![proc[w].serves] = @ - 1]
  /\ proc' = [proc EXCEPT ![w].worked = TRUE]
  /\ sup' = [a \in Apis |-> IF queueOf[a] = proc[w].serves
                            THEN [sup[a] EXCEPT !.claimed = TRUE] ELSE sup[a]]
  /\ UNCHANGED <<holder, record, req, runs, faults>>

\* Its parent is gone: it exits at its next look (_ParentWatch).
Orphaned(w) ==
  /\ proc[w].at = "serving" /\ proc[w].parent = None
  /\ Exits(w, 0)
  /\ UNCHANGED <<record, sup, queueVars, faults>>

WorkerDies(w) ==
  /\ Alive(w)
  /\ Fault
  /\ Exits(w, ERROR)
  /\ UNCHANGED <<record, sup, queueVars>>

----------------------------------------------------------------------------
(* ensure_running, in the supervisor's lock.                               *)

Sup(t)  == ApiOf[t]
Goes(t, place) == req' = [req EXCEPT ![t].pc = place]

\* A submission is answered; a poll goes on to the worker's status.
LeaveEnsure(t, supervisor) ==
  /\ sup' = [sup EXCEPT ![Sup(t)] = [supervisor EXCEPT !.mutex = None]]
  /\ IF req[t].task = "submit" THEN req' = [req EXCEPT ![t] = NoRequest]
                               ELSE Goes(t, "status")

\* Mutant: any exit without a claimed run is a failed start.
FailedStart_AnyStatus(a) == ~sup[a].claimed

\* The child exited with an error, no run of the queue claimed since.
FailedStart(a) == /\ proc[sup[a].child].status \notin {0, EXIT_HOST_OWNED}
                  /\ ~sup[a].claimed

\* _record_exit: what the supervisor makes of its child's exit.
Recorded(a) ==
  LET child == proc[sup[a].child] IN
  [sup[a] EXCEPT !.child  = None,
                 !.failed = IF FailedStart(a) THEN @ + 1 ELSE 0,
                 !.barren = IF child.status = ERROR /\ ~child.worked THEN @ + 1 ELSE 0]
Reaped(a) == [proc EXCEPT ![sup[a].child] = NoProcess]
HasExited(a) == sup[a].child # None /\ ~Alive(sup[a].child)

\* Mutant: two threads may check and start at a time.
Free_Always(a) == TRUE

Free(a) == sup[a].mutex = None

\* A live child is all that is needed; an exited one is recorded first.
CheckChild(t) ==
  LET a == Sup(t) IN
  /\ req[t].pc = "ensure" /\ Free(a)
  /\ \/ /\ sup[a].child # None /\ ~HasExited(a)
        /\ LeaveEnsure(t, sup[a])
        /\ UNCHANGED proc
     \/ /\ HasExited(a)
        /\ sup' = [sup EXCEPT ![a] = [Recorded(a) EXCEPT !.mutex = t]]
        /\ proc' = Reaped(a)
        /\ Goes(t, "probe")
     \/ /\ sup[a].child = None
        /\ sup' = [sup EXCEPT ![a].mutex = t]
        /\ Goes(t, "probe")
        /\ UNCHANGED proc
  /\ UNCHANGED <<holder, record, queueVars, faults>>

\* worker_lock_held: the lock is taken to see whether it is free ...
ProbeHeld(t) ==
  /\ req[t].pc = "probe" /\ holder # None
  /\ LeaveEnsure(t, sup[Sup(t)])
  /\ UNCHANGED <<holder, record, proc, queueVars, faults>>

ProbeFree(t) ==
  /\ req[t].pc = "probe" /\ holder = None
  /\ holder' = t
  /\ Goes(t, "drop")
  /\ UNCHANGED <<record, proc, sup, queueVars, faults>>

\* ... and dropped; the worker launched takes it later, if nobody did before.
Launch(t) ==
  LET a == Sup(t) IN
  /\ req[t].pc = "drop"
  /\ holder' = None
  /\ \/ \E w \in Workers :
          /\ proc[w].at = "off"
          /\ proc' = [proc EXCEPT ![w] = [NoProcess EXCEPT !.at = "locking", !.parent = a,
                                                           !.serves = queueOf[a]]]
          /\ LeaveEnsure(t, [sup[a] EXCEPT !.child = w, !.launchFailed = FALSE,
                                           !.claimed = FALSE])
          /\ UNCHANGED faults
     \/ \* OSError: counted, never raised
        /\ Fault
        /\ LeaveEnsure(t, [sup[a] EXCEPT !.child = None, !.launchFailed = TRUE,
                                         !.failed = @ + 1, !.barren = @ + 1])
        /\ UNCHANGED proc
  /\ UNCHANGED <<record, queueVars>>

Ensure(t) == CheckChild(t) \/ ProbeHeld(t) \/ ProbeFree(t) \/ Launch(t)

----------------------------------------------------------------------------
(* lock_owner: a look at the lock, then a read of the record.              *)

OwnerHeld(t) ==
  /\ req[t].pc = "owner" /\ holder # None
  /\ Goes(t, "read")
  /\ UNCHANGED <<holder, record, proc, sup, queueVars, faults>>

OwnerFree(t) ==
  /\ req[t].pc = "owner" /\ holder = None
  /\ holder' = t
  /\ Goes(t, "free")
  /\ UNCHANGED <<record, proc, sup, queueVars, faults>>

OwnerDrop(t) ==
  /\ req[t].pc = "free"
  /\ holder' = None
  /\ Goes(t, "answer")
  /\ UNCHANGED <<record, proc, sup, queueVars, faults>>

ReadRecord(t) ==
  /\ req[t].pc = "read"
  /\ req' = [req EXCEPT ![t].owner = record,
                        ![t].pc = "answer"]
  /\ UNCHANGED <<holder, record, proc, sup, queueVars, faults>>

LockOwner(t) == OwnerHeld(t) \/ OwnerFree(t) \/ OwnerDrop(t) \/ ReadRecord(t)

\* _conflict, and what makes status() say a worker serves the queue.
Conflict(t) == req[t].owner # None /\ req[t].owner.queue # queueOf[Sup(t)]
Serving(t)  == req[t].owner # None /\ ~Conflict(t)

----------------------------------------------------------------------------
(* The routes.                                                             *)

\* A request begins, under the eyes of whatever worker serves its queue.
Begins(t, task, place) ==
  LET serving == {w \in Workers : Serves(w, queueOf[Sup(t)])} IN
  /\ req[t].pc = "idle"
  /\ Cardinality({u \in Requests : req[u].pc # "idle"}) < MaxInFlight
  /\ req' = [req EXCEPT ![t] =
       [NoRequest EXCEPT !.task = task, !.pc = place,
                         !.servedBy = IF serving = {} THEN None ELSE CHOOSE w \in serving : TRUE]]
  /\ UNCHANGED <<holder, record, proc, sup, pending, faults>>

\* POST /runs asks first whether the host's worker serves another queue.
Submit(t) ==
  LET q == queueOf[Sup(t)] IN
  /\ runs[q] < MaxRuns
  /\ runs' = [runs EXCEPT ![q] = @ + 1]
  /\ Begins(t, "submit", "owner")

\* GET /runs/{id} of an unfinished run makes sure of a worker first.
Poll(t) == Begins(t, "poll", "ensure") /\ UNCHANGED runs

\* A run is queued unless it does; then a worker is made sure of.
Queue(t) ==
  LET q == queueOf[Sup(t)] IN
  /\ req[t].pc = "answer" /\ req[t].task = "submit"
  /\ \/ /\ Conflict(t)   \* 503
        /\ req' = [req EXCEPT ![t] = NoRequest]
        /\ UNCHANGED pending
     \/ /\ ~Conflict(t)
        /\ pending' = [pending EXCEPT ![q] = @ + 1]
        /\ req' = [req EXCEPT ![t] = [NoRequest EXCEPT !.task = "submit", !.pc = "ensure"]]
  /\ UNCHANGED <<holder, record, proc, sup, runs, faults>>

\* status(), its part in the supervisor's lock; lock_owner follows outside.
ReadStatus(t) ==
  LET a   == Sup(t)
      now == IF HasExited(a) THEN Recorded(a) ELSE sup[a]
  IN
  /\ req[t].pc = "status" /\ Free(a)
  /\ sup' = [sup EXCEPT ![a] = now]
  /\ proc' = IF HasExited(a) THEN Reaped(a) ELSE proc
  /\ req' = [req EXCEPT ![t].pc = "owner",
                        ![t].failed = IF now.launchFailed THEN FAILED_STARTS_REPORTED
                                      ELSE now.failed]
  /\ UNCHANGED <<holder, record, queueVars, faults>>

\* What a pending run's poll says, when no worker serves and none can start.
CannotStart(t) == ~Serving(t) /\ ~Conflict(t) /\ req[t].failed >= FAILED_STARTS_REPORTED

Answer(t) ==
  /\ req[t].pc = "answer" /\ req[t].task = "poll"
  /\ req' = [req EXCEPT ![t] = NoRequest]
  /\ UNCHANGED <<holder, record, proc, sup, queueVars, faults>>

----------------------------------------------------------------------------
(* An API process stops, and is started again.                             *)

ThreadsOf(a) == {t \in Requests : Sup(t) = a}

\* shutdown_worker: the child is terminated and waited for.
Shutdown(a) ==
  LET w == sup[a].child IN
  /\ \A t \in ThreadsOf(a) : req[t].pc = "idle"
  /\ w # None
  /\ Fault
  /\ sup' = [sup EXCEPT ![a] = NewSupervisor]
  /\ proc' = [proc EXCEPT ![w] = NoProcess]
  /\ Drops({w})
  /\ req' = SeenGone({w})
  /\ UNCHANGED <<record, queueVars>>

\* Killed: its child goes on until it looks for its parent.
ApiDies(a) ==
  /\ Fault
  /\ Drops(ThreadsOf(a))
  /\ req' = [t \in Requests |-> IF Sup(t) = a THEN NoRequest ELSE req[t]]
  /\ sup' = [sup EXCEPT ![a] = NewSupervisor]
  /\ proc' = [w \in Workers |-> IF proc[w].parent # a THEN proc[w]
                                ELSE IF Alive(w) THEN [proc[w] EXCEPT !.parent = None]
                                ELSE NoProcess]
  /\ UNCHANGED <<record, queueVars>>

----------------------------------------------------------------------------
(* The specification.                                                      *)

WorkerStep(w) == TakeLock(w) \/ WriteRecord(w) \/ GiveUp(w) \/ ClaimRun(w) \/ Orphaned(w)

ThreadStep(t) == Ensure(t) \/ LockOwner(t) \/ Queue(t) \/ ReadStatus(t) \/ Answer(t)

Next == /\ \/ \E w \in Workers : WorkerStep(w) \/ WorkerDies(w)
           \/ \E t \in Requests : ThreadStep(t) \/ Submit(t) \/ Poll(t)
           \/ \E a \in Apis : Shutdown(a) \/ ApiDies(a)
        /\ UNCHANGED queueOf

Spec == Init /\ [][Next]_vars

----------------------------------------------------------------------------
(* What the supervisors promise.                                           *)

\* An API process has at most one worker of its own that is starting or
\* serving, however its request threads interleave (ensure_running's lock).
OneChildPerApi ==
  \A a \in Apis : Cardinality({w \in Workers : proc[w].parent = a /\ Alive(w)}) <= 1

\* Only a start of its own that failed, or a child of its own that died in an
\* error without a run, counts as a failed start: never a redundant child, a
\* child that worked, or another process's worker (_record_exit).
FailedStartsAreItsOwn == \A a \in Apis : sup[a].failed <= sup[a].barren

\* A request during which one worker served the API's queue from start to end
\* sees it: a submission is not refused, a poll reports it serving and no
\* error, whatever other processes' looks and redundant workers do to the
\* lock and its record meanwhile (lock_owner, status, host_conflict).
ServingIsSeen ==
  \A t \in Requests : req[t].pc = "answer" /\ req[t].servedBy # None =>
    Serving(t) /\ ~CannotStart(t)
=============================================================================
