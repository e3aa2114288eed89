------------------------------ MODULE JobQueue ------------------------------
(***************************************************************************)
(* The durable job queue of the engine's API: one SQLite file whose rows   *)
(* are runs, written by the API processes and by the host's engine worker  *)
(* (src/engine/api/job_queue.py).                                          *)
(*                                                                         *)
(* Each operation of JobQueue is one SQLite statement or one BEGIN         *)
(* IMMEDIATE transaction, so each is one action here; what happens between *)
(* two operations of one caller is the business of the modules that extend *)
(* this one.  A run's id is random in the code and never reused; here it   *)
(* is the row's AUTOINCREMENT number `seq`, which is not reused either.    *)
(***************************************************************************)
EXTENDS Integers

CONSTANTS
  Keys,            \* idempotency keys callers send
  Bodies,          \* request bodies, told apart by their sha256
  Workers,         \* engine worker processes (host:pid)
  Parts,           \* the artifact chunks a result document can refer to
  FailureClasses,  \* the failure classes of this instance
  None,            \* SQL's NULL
  MaxRuns,         \* bound: rows ever inserted
  MaxTime,         \* bound: the wall clock
  KeepFor          \* the retention period (JAX_RISK_RETENTION_DAYS)

PENDING     == "pending"
RUNNING     == "running"
DONE        == "done"
FAILED      == "failed"
INTERRUPTED == "interrupted"
CANCELLED   == "cancelled"
ABSENT      == "absent"     \* no row has this id: not inserted yet, or purged
TERMINAL    == {DONE, FAILED, INTERRUPTED, CANCELLED}
STATUSES    == {PENDING, RUNNING} \cup TERMINAL

INFRASTRUCTURE  == "infrastructure"
FAILURE_CLASSES == {"bad-terms", "missing-market-data", "unsupported-product",
                    "numerical-failure", INFRASTRUCTURE}

\* How many times a worker set may claim one run.
MAX_ATTEMPTS == 2

RunIds == 1 .. MaxRuns

ASSUME BoundsAssumption  == MaxRuns \in Nat /\ MaxTime \in Nat
ASSUME KeepForAssumption == KeepFor \in Nat \ {0}
ASSUME ClassesAssumption == /\ FailureClasses \subseteq FAILURE_CLASSES
                            /\ INFRASTRUCTURE \in FailureClasses
ASSUME NoneAssumption    == None \notin Keys \cup Bodies \cup Workers \cup FAILURE_CLASSES

VARIABLES
  jobs,       \* the table `jobs`, by id
  artifacts,  \* the table `artifacts`: the <<id, chunk>> stored
  lastSeq,    \* sqlite_sequence: the last seq given out
  now         \* time.time()

queueVars == <<jobs, artifacts, lastSeq, now>>

Row == [status           : STATUSES \cup {ABSENT},
        request          : Bodies \cup {None},
        idempotency_key  : Keys \cup {None},
        keep             : BOOLEAN,
        worker           : Workers \cup {None},
        attempts         : Nat,
        cancel_requested : BOOLEAN,
        failure_class    : FAILURE_CLASSES \cup {None},
        result           : SUBSET Parts,   \* the chunks its document refers to
        finished         : 0 .. MaxTime]

NoRow == [status           |-> ABSENT,
          request          |-> None,
          idempotency_key  |-> None,
          keep             |-> FALSE,
          worker           |-> None,
          attempts         |-> 0,
          cancel_requested |-> FALSE,
          failure_class    |-> None,
          result           |-> {},
          finished         |-> 0]

TypeOK == /\ jobs \in [RunIds -> Row]
          /\ artifacts \subseteq RunIds \X Parts
          /\ lastSeq \in 0 .. MaxRuns
          /\ now \in 0 .. MaxTime

QueueInit == /\ jobs = [i \in RunIds |-> NoRow]
             /\ artifacts = {}
             /\ lastSeq = 0
             /\ now = 0

----------------------------------------------------------------------------
(* Reading the table.                                                      *)

InStatus(s) == {i \in RunIds : jobs[i].status = s}
Unfinished  == InStatus(PENDING) \cup InStatus(RUNNING)
\* Mutant: only an unfinished run holds its key.
KeyTaken_WhileUnfinished(key) ==
  key # None /\ \E i \in Unfinished : jobs[i].idempotency_key = key

KeyTaken(key) == key # None /\ \E i \in RunIds : jobs[i].idempotency_key = key

\* Mutant: claims without ORDER BY seq.
OldestPending_AnyPending(i) == jobs[i].status = PENDING

\* The rows `claim` picks its row from: none pending precedes the one it takes.
OldestPending(i) == /\ jobs[i].status = PENDING
                    /\ \A j \in InStatus(PENDING) : i <= j

----------------------------------------------------------------------------
(* The API's operations.                                                   *)

\* A new run.  With a key some row holds, nothing is inserted: the caller is
\* answered that row's id, or refused if its body differs (RunRoutes).
Submit(key, body, keep) ==
  /\ ~KeyTaken(key)
  /\ lastSeq < MaxRuns
  /\ lastSeq' = lastSeq + 1
  /\ jobs' = [jobs EXCEPT ![lastSeq + 1] =
                [NoRow EXCEPT !.status = PENDING, !.request = body,
                              !.idempotency_key = key, !.keep = keep]]
  /\ UNCHANGED <<artifacts, now>>

\* A pending run is cancelled at once, a running one is flagged for its
\* worker, a finished or unknown one is left as it is.
Cancel(i) ==
  /\ \/ /\ jobs[i].status = PENDING
        /\ jobs' = [jobs EXCEPT ![i] = [@ EXCEPT !.status = CANCELLED, !.finished = now]]
     \/ /\ jobs[i].status = RUNNING
        /\ jobs' = [jobs EXCEPT ![i] = [@ EXCEPT !.cancel_requested = TRUE]]
  /\ UNCHANGED <<artifacts, lastSeq, now>>

----------------------------------------------------------------------------
(* The worker's operations.                                                *)

Claim(w, i) ==
  /\ OldestPending(i)
  /\ jobs' = [jobs EXCEPT ![i] = [@ EXCEPT !.status = RUNNING, !.worker = w,
                                           !.attempts = jobs[i].attempts + 1]]
  /\ UNCHANGED <<artifacts, lastSeq, now>>

\* Mutant: closes without looking at the row's status.
CloseRunning_AnyRow(i, status, result, class) ==
  /\ jobs[i].status # ABSENT
  /\ jobs' = [jobs EXCEPT ![i] = [@ EXCEPT !.status = status, !.result = result,
                                           !.failure_class = class, !.finished = now]]
  /\ UNCHANGED <<lastSeq, now>>

\* The close every outcome goes through: only a running row, else it raises
\* and whatever its transaction wrote is rolled back.
CloseRunning(i, status, result, class) ==
  /\ jobs[i].status = RUNNING
  /\ jobs' = [jobs EXCEPT ![i] = [@ EXCEPT !.status = status, !.result = result,
                                           !.failure_class = class, !.finished = now]]
  /\ UNCHANGED <<lastSeq, now>>

Finish(i, parts) ==
  /\ CloseRunning(i, DONE, parts, None)
  /\ artifacts' = artifacts \cup ({i} \X parts)

\* Mutant: swaps the status and the failure class.
Fail_Swapped(i, class) ==
  /\ CloseRunning(i, class, {}, FAILED)
  /\ UNCHANGED artifacts

Fail(i, class) ==
  /\ CloseRunning(i, FAILED, {}, class)
  /\ UNCHANGED artifacts

CancelRunning(i) ==
  /\ CloseRunning(i, CANCELLED, {}, None)
  /\ UNCHANGED artifacts

\* Mutant: puts back a run whose cancel was asked for.
Requeue_ForgetsCancel ==
  /\ jobs' = [i \in RunIds |->
                IF jobs[i].status = RUNNING /\ jobs[i].attempts < MAX_ATTEMPTS
                THEN [jobs[i] EXCEPT !.status = PENDING, !.worker = None]
                ELSE jobs[i]]
  /\ UNCHANGED <<artifacts, lastSeq, now>>

\* A worker set that has just started: a flagged run is cancelled, one with
\* an attempt left goes back to pending; the others stay for Interrupt.
Requeue ==
  /\ jobs' = [i \in RunIds |->
                IF jobs[i].status # RUNNING THEN jobs[i]
                ELSE IF jobs[i].cancel_requested
                THEN [jobs[i] EXCEPT !.status = CANCELLED, !.finished = now]
                ELSE IF jobs[i].attempts < MAX_ATTEMPTS
                THEN [jobs[i] EXCEPT !.status = PENDING, !.worker = None]
                ELSE jobs[i]]
  /\ UNCHANGED <<artifacts, lastSeq, now>>

\* Mutant: marks every row, not the running ones only.
Interrupt_EveryRow ==
  /\ jobs' = [i \in RunIds |->
                IF jobs[i].status # ABSENT
                THEN [jobs[i] EXCEPT !.status = INTERRUPTED, !.finished = now]
                ELSE jobs[i]]
  /\ UNCHANGED <<artifacts, lastSeq, now>>

Interrupt ==
  /\ jobs' = [i \in RunIds |->
                IF jobs[i].status = RUNNING
                THEN [jobs[i] EXCEPT !.status = INTERRUPTED, !.finished = now]
                ELSE jobs[i]]
  /\ UNCHANGED <<artifacts, lastSeq, now>>

\* Mutant: purges what was to be kept.
Purgeable_KeptToo(cutoff) == {i \in RunIds : /\ jobs[i].status \in TERMINAL
                                             /\ jobs[i].finished < cutoff}

Purgeable(cutoff) == {i \in RunIds : /\ jobs[i].status \in TERMINAL
                                     /\ ~jobs[i].keep
                                     /\ jobs[i].finished < cutoff}

\* Mutant: deletes the rows and leaves their artifacts.
Purge_RowsOnly(cutoff) ==
  /\ jobs' = [i \in RunIds |-> IF i \in Purgeable(cutoff) THEN NoRow ELSE jobs[i]]
  /\ UNCHANGED <<artifacts, lastSeq, now>>

\* Rows and artifacts go in one transaction.
Purge(cutoff) ==
  /\ artifacts' = {a \in artifacts : a[1] \notin Purgeable(cutoff)}
  /\ jobs' = [i \in RunIds |-> IF i \in Purgeable(cutoff) THEN NoRow ELSE jobs[i]]
  /\ UNCHANGED <<lastSeq, now>>

Tick == /\ now < MaxTime
        /\ now' = now + 1
        /\ UNCHANGED <<jobs, artifacts, lastSeq>>

----------------------------------------------------------------------------
(* The queue by itself: every operation, by any caller, in any order.      *)

ClientStep == \/ \E key \in Keys \cup {None}, body \in Bodies, keep \in BOOLEAN :
                    Submit(key, body, keep)
              \/ \E i \in RunIds : Cancel(i)

WorkerStep == \/ \E w \in Workers, i \in RunIds : Claim(w, i)
              \/ \E i \in RunIds, parts \in SUBSET Parts : Finish(i, parts)
              \/ \E i \in RunIds, class \in FailureClasses : Fail(i, class)
              \/ \E i \in RunIds : CancelRunning(i)
              \/ Requeue
              \/ Interrupt
              \/ Purge(now - KeepFor)

QueueNext == ClientStep \/ WorkerStep \/ Tick

QueueSpec == QueueInit /\ [][QueueNext]_queueVars

----------------------------------------------------------------------------
(* What the queue promises its callers.                                    *)

\* Two rows never hold one idempotency key, whatever was submitted, purged and
\* submitted again in between: a retried POST /runs finds its run (submit).
KeyNamesOneRow ==
  \A i, j \in RunIds : /\ jobs[i].idempotency_key # None
                       /\ jobs[i].idempotency_key = jobs[j].idempotency_key
                       => i = j

\* The artifacts stored are exactly those the done rows' documents refer to:
\* a reader of a done run finds every chunk, and no chunk outlives its row or
\* belongs to a run that did not finish (finish, purge).
ArtifactsMatchResults ==
  \A i \in RunIds, c \in Parts :
    <<i, c>> \in artifacts <=> jobs[i].status = DONE /\ c \in jobs[i].result

\* No run is priced more than MAX_ATTEMPTS times over any number of restarts
\* of its worker set, and one waits only if it may still be claimed: it has an
\* attempt left, no worker, and no cancel that was asked for and forgotten
\* (claim, requeue_running).
PendingMayRun ==
  /\ \A i \in RunIds : jobs[i].attempts <= MAX_ATTEMPTS
  /\ \A i \in InStatus(PENDING) : /\ jobs[i].attempts < MAX_ATTEMPTS
                                  /\ ~jobs[i].cancel_requested
                                  /\ jobs[i].worker = None

\* Runs start in submission order: while one has never been claimed, none
\* submitted after it has been (claim's ORDER BY seq).
StartedInOrder ==
  \A i, j \in RunIds : /\ i < j
                       /\ jobs[i].status = PENDING
                       /\ jobs[i].attempts = 0
                       => jobs[j].attempts = 0

\* An outcome is final: a finished row never changes again, and disappears
\* only once its retention period is over, never if it was submitted with
\* keep (_close_running, interrupt_running, cancel, purge).
OutcomeIsFinal ==
  [][\A i \in RunIds :
       jobs[i].status \in TERMINAL =>
         \/ jobs'[i] = jobs[i]
         \/ /\ jobs'[i] = NoRow
            /\ ~jobs[i].keep
            /\ now - jobs[i].finished > KeepFor]_queueVars

\* The queue seen as the lifecycle a caller of POST /runs is promised: the
\* attempts, workers and flags of an unfinished row are its own business.
Seen(i) == IF jobs[i].status \in {PENDING, RUNNING} THEN "accepted"
           ELSE IF jobs[i].status \in TERMINAL THEN jobs[i].status
           ELSE IF i <= lastSeq THEN "gone" ELSE "none"

Lifecycle == INSTANCE RunLifecycle WITH
               Runs     <- RunIds,
               Outcomes <- TERMINAL,
               run      <- [i \in RunIds |-> Seen(i)],
               count    <- lastSeq

\* A run is accepted once under its number, ends at most once and is forgotten
\* only after it ended, whatever the order of operations and their callers.
ImplementsLifecycle == Lifecycle!Safety
=============================================================================
