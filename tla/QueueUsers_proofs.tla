------------------------- MODULE QueueUsers_proofs -------------------------
(***************************************************************************)
(* Proofs about the two users of the job queue, each on the queue by       *)
(* itself.                                                                 *)
(*                                                                         *)
(* The workers, for any number of workers, locks, runs, hosts of a set and *)
(* faults, and any assignment of locks to workers: who owns a row, that no *)
(* row is left running, that nothing is run twice by single workers, that  *)
(* a result is its runner's, and that the workers and callers use the      *)
(* queue as module JobQueue lets them, so that every theorem about the     *)
(* queue holds of it with its workers.                                     *)
(*                                                                         *)
(* WorkerInv is the inductive invariant.  The step of a worker has one of  *)
(* ten shapes (WorkerShape), which keep from an action what it does to the *)
(* worker, its lock and the queue; each conjunct is then shown preserved   *)
(* by the shapes.  What happens to a row is RowStep of JobQueue_proofs.    *)
(*                                                                         *)
(* The run routes, for any number of requests, runs, keys and bodies, and  *)
(* a worker that does whatever a worker may: what callers were told,       *)
(* answered and acknowledged stays true of the queue.                      *)
(*                                                                         *)
(* RoutesInv is the inductive invariant.  Three facts about a row, once    *)
(* true, stay true whatever the queue does: Settled (its outcome), Stuck   *)
(* (it will not run uncancelled again) and OwnRun (it is of the submission *)
(* it was accepted for).  A request only adds to what was told, acked and  *)
(* accepted, or to what it holds, where such a fact holds (RouteShape).    *)
(***************************************************************************)
EXTENDS EngineWorker, RunRoutes, JobQueue_proofs, FiniteSetTheorems

----------------------------------------------------------------------------
(* The engine worker.                                                      *)


\* A worker past the lock holds it.
OwnersHoldLocks == \A w \in Workers : at[w] \in Owning => holder[lockOf[w]] = w

\* A worker on a run is on one that was accepted and claimed.
RunnersHaveRuns ==
  \A w \in Workers : at[w] \in OnRun =>
    /\ job[w] \in RunIds /\ job[w] <= lastSeq
    /\ jobs[job[w]].status = ABSENT \/ jobs[job[w]].attempts > 0

\* The ending a row is closed with: a failure has its class, a result has
\* passed every phase.
EndingFits(w) ==
  at[w] = "closing" =>
    /\ ending[w].status \in {DONE, FAILED, CANCELLED}
    /\ ending[w].status = FAILED => ending[w].class \in FailureClasses
    /\ ending[w].status = DONE => phase[w] = Boundaries

EndingsFit == \A w \in Workers : EndingFits(w)

\* A single worker puts nothing back: a pending row was never claimed.
SinglesClaimOnce ==
  HostCount = 1 => \A i \in RunIds :
    /\ jobs[i].attempts <= 1
    /\ jobs[i].status = PENDING => jobs[i].attempts = 0

\* A running row is that of the worker on it.
RowsAreRunners ==
  NoTwoSets => \A w \in Workers :
    at[w] \in OnRun /\ jobs[job[w]].status = RUNNING => jobs[job[w]].worker = w

WorkerInv == /\ WorkerTypeOK
             /\ QueueInv
             /\ OwnersHoldLocks
             /\ RunnersHaveRuns
             /\ EndingsFit
             /\ SinglesClaimOnce
             /\ RowsAreRunners
             /\ RunnerOwnsRow
             /\ RunningHasRunner
             /\ RunAgainOnlyOnSets

----------------------------------------------------------------------------
(* What a step does to the worker that takes it.                           *)

Leaves(w) ==
  /\ at'[w] = "off"
  /\ \A l \in Locks : holder'[l] = IF holder[l] = w THEN None ELSE holder[l]
  /\ UNCHANGED queueVars

Starts(w) ==
  /\ at[w] = "off" /\ at'[w] = "locking"
  /\ UNCHANGED <<holder, queueVars>>

Takes(w) ==
  /\ at[w] = "locking" /\ at'[w] = "opening"
  /\ holder[lockOf[w]] = None
  /\ holder' = [holder EXCEPT ![lockOf[w]] = w]
  /\ UNCHANGED queueVars

TakesQueue(w) ==
  /\ at[w] \in {"opening", "putback"}
  /\ \/ HostCount > 1 /\ Requeue /\ at'[w] = "putback"
     \/ Interrupt /\ at'[w] = "looking"
  /\ UNCHANGED holder

Waits(w) ==
  /\ at[w] \in {"looking", "claiming"} /\ at'[w] \in {"looking", "claiming"}
  /\ Purge(now - KeepFor) \/ UNCHANGED queueVars
  /\ UNCHANGED holder

Claims(w) ==
  /\ at[w] = "claiming" /\ at'[w] = "boundary"
  /\ job'[w] \in RunIds /\ Claim(w, job'[w])
  /\ UNCHANGED holder

Runs(w) ==
  /\ at[w] \in OnRun /\ at'[w] \in OnRun
  /\ job'[w] = job[w]
  /\ EndingFits(w)'
  /\ UNCHANGED <<holder, queueVars>>

Closes(w) ==
  /\ at[w] \in {"closing", "unstored"} /\ at'[w] = "looking"
  /\ \/ CancelRunning(job[w])
     \/ \E class \in FailureClasses : Fail(job[w], class)
     \/ /\ at[w] = "closing" /\ phase[w] = Boundaries
        /\ \E parts \in SUBSET Parts : Finish(job[w], parts)
  /\ UNCHANGED holder

OthersRest(w) ==
  \A v \in Workers \ {w} : /\ at'[v] = at[v] /\ job'[v] = job[v]
                           /\ phase'[v] = phase[v] /\ ending'[v] = ending[v]

Moves(w) == \/ Leaves(w) \/ Starts(w) \/ Takes(w) \/ TakesQueue(w)
            \/ Waits(w) \/ Claims(w) \/ Runs(w) \/ Closes(w)

AllRest == UNCHANGED <<lockOf, holder, at, job, phase, ending>>

WorkerShape == \/ \E w \in Workers : Moves(w) /\ OthersRest(w) /\ lockOf' = lockOf
               \/ AllRest /\ (ClientStep \/ Tick \/ UNCHANGED queueVars)

LEMMA ExitShape ==
  ASSUME WorkerTypeOK, NEW w \in Workers, Exit(w), UNCHANGED queueVars
  PROVE  Leaves(w) /\ OthersRest(w)
BY DEF WorkerTypeOK, Exit, Go, Leaves, OthersRest

LEMMA PlaceNames ==
  /\ {"opening", "putback"} \cap Serving = {}
  /\ Serving \cup {"opening", "putback"} = Owning
  /\ OnRun \subseteq Serving
  /\ "off" \notin Owning /\ "locking" \notin Owning
  /\ "looking" \in Serving \ OnRun /\ "claiming" \in Serving \ OnRun
  /\ {"boundary", "pricing", "closing", "unstored"} = OnRun
BY DEF OnRun, Serving, Owning

LEMMA StartingShapes ==
  ASSUME WorkerInv, NEW w \in Workers,
         Start(w) \/ Acquire(w) \/ GiveUp(w) \/ PutBack(w) \/ TakeOver(w)
  PROVE  Moves(w) /\ OthersRest(w)
<1>t. WorkerTypeOK
  BY DEF WorkerInv
<1>1. CASE Start(w)
  BY <1>t, <1>1 DEF WorkerTypeOK, Start, Go, Moves, Starts, OthersRest
<1>2. CASE Acquire(w)
  BY <1>t, <1>2 DEF WorkerTypeOK, Acquire, Go, Moves, Takes, OthersRest
<1>3. CASE GiveUp(w)
  BY <1>t, <1>3, ExitShape DEF GiveUp, Moves, queueVars
<1>4. CASE PutBack(w)
  BY <1>t, <1>4 DEF WorkerTypeOK, PutBack, Go, Moves, TakesQueue, OthersRest
<1>5. CASE TakeOver(w)
  BY <1>t, <1>5 DEF WorkerTypeOK, TakeOver, Go, Moves, TakesQueue, OthersRest
<1>. QED
  BY <1>1, <1>2, <1>3, <1>4, <1>5

LEMMA LoopShapes ==
  ASSUME WorkerInv, NEW w \in Workers,
         Look(w) \/ StopOrphan(w) \/ ClaimNext(w) \/ Idle(w) \/ StopDrained(w)
  PROVE  Moves(w) /\ OthersRest(w)
<1>t. WorkerTypeOK
  BY DEF WorkerInv
<1>1. CASE Look(w)
  BY <1>t, <1>1 DEF WorkerTypeOK, Look, Go, Moves, Waits, OthersRest
<1>2. CASE StopOrphan(w)
  BY <1>t, <1>2, ExitShape DEF StopOrphan, Moves, queueVars
<1>3. CASE ClaimNext(w)
  <2>1. PICK i \in RunIds : Claim(w, i) /\ job' = [job EXCEPT ![w] = i]
    BY <1>3 DEF ClaimNext
  <2>2. job'[w] = i /\ Claims(w) /\ OthersRest(w)
    BY <1>t, <1>3, <2>1 DEF WorkerTypeOK, ClaimNext, Go, Claims, OthersRest
  <2>. QED
    BY <2>2 DEF Moves
<1>4. CASE Idle(w)
  BY <1>t, <1>4 DEF WorkerTypeOK, Idle, Go, Moves, Waits, OthersRest
<1>5. CASE StopDrained(w)
  BY <1>t, <1>5, ExitShape DEF StopDrained, Moves, queueVars
<1>. QED
  BY <1>1, <1>2, <1>3, <1>4, <1>5

LEMMA RunShapes ==
  ASSUME WorkerInv, NEW w \in Workers,
         PhaseBoundary(w) \/ PricePhase(w) \/ StoreFails(w)
  PROVE  Moves(w) /\ OthersRest(w)
<1>t. WorkerTypeOK
  BY DEF WorkerInv
<1> USE PlaceNames
<1>1. CASE PhaseBoundary(w)
  <2>1. CASE jobs[job[w]].cancel_requested
    <3>1. /\ at' = [at EXCEPT ![w] = "closing"] /\ ending'[w].status = CANCELLED
          /\ OthersRest(w)
      BY <1>t, <1>1, <2>1 DEF WorkerTypeOK, PhaseBoundary, End, Go, NotEnded, OthersRest
    <3>2. EndingFits(w)'
      BY <3>1 DEF EndingFits, DONE, FAILED, CANCELLED
    <3>. QED
      BY <1>t, <1>1, <3>1, <3>2 DEF WorkerTypeOK, PhaseBoundary, Moves, Runs
  <2>2. CASE ~jobs[job[w]].cancel_requested
    BY <1>t, <1>1, <2>2
       DEF WorkerTypeOK, PhaseBoundary, Go, Moves, Runs, OthersRest, EndingFits
  <2>. QED
    BY <2>1, <2>2
<1>2. CASE PricePhase(w)
  <2>1. CASE Go(w, "boundary") /\ UNCHANGED ending /\ phase' = [phase EXCEPT ![w] = @ + 1]
    BY <1>t, <1>2, <2>1 DEF WorkerTypeOK, PricePhase, Go, Moves, Runs, OthersRest, EndingFits
  <2>2. ASSUME phase[w] = Boundaries, UNCHANGED phase, NEW parts \in SUBSET Parts,
               End(w, [NotEnded EXCEPT !.status = DONE, !.parts = parts])
        PROVE  Moves(w) /\ OthersRest(w)
    <3>1. /\ at' = [at EXCEPT ![w] = "closing"] /\ ending'[w].status = DONE
          /\ OthersRest(w)
      BY <1>t, <1>2, <2>2 DEF WorkerTypeOK, PricePhase, End, Go, NotEnded, OthersRest
    <3>2. EndingFits(w)'
      BY <2>2, <3>1 DEF EndingFits, DONE, FAILED
    <3>. QED
      BY <1>t, <1>2, <3>1, <3>2 DEF WorkerTypeOK, PricePhase, Moves, Runs
  <2>3. ASSUME UNCHANGED phase, NEW class \in FailureClasses,
               End(w, [NotEnded EXCEPT !.status = FAILED, !.class = class])
        PROVE  Moves(w) /\ OthersRest(w)
    <3>1. /\ at' = [at EXCEPT ![w] = "closing"]
          /\ ending'[w].status = FAILED /\ ending'[w].class = class
          /\ OthersRest(w)
      BY <1>t, <1>2, <2>3 DEF WorkerTypeOK, PricePhase, End, Go, NotEnded, OthersRest
    <3>2. EndingFits(w)'
      BY <3>1 DEF EndingFits, DONE, FAILED
    <3>. QED
      BY <1>t, <1>2, <3>1, <3>2 DEF WorkerTypeOK, PricePhase, Moves, Runs
  <2>. QED
    BY <1>2, <2>1, <2>2, <2>3 DEF PricePhase
<1>3. CASE StoreFails(w)
  BY <1>t, <1>3 DEF WorkerTypeOK, StoreFails, Go, Moves, Runs, OthersRest, EndingFits
<1>. QED
  BY <1>1, <1>2, <1>3

LEMMA ClosingShapes ==
  ASSUME WorkerInv, NEW w \in Workers, CloseRow(w) \/ FailUnstored(w) \/ CloseRaises(w)
  PROVE  Moves(w) /\ OthersRest(w)
<1>t. WorkerTypeOK /\ EndingFits(w) /\ ending[w].parts \in SUBSET Parts
  BY DEF WorkerInv, EndingsFit, WorkerTypeOK, Endings
<1>1. CASE CloseRow(w)
  <2>1. at[w] = "closing" /\ at'[w] = "looking" /\ UNCHANGED holder /\ OthersRest(w)
    BY <1>t, <1>1 DEF WorkerTypeOK, CloseRow, BackToLoop, Go, OthersRest
  <2>2. \/ CancelRunning(job[w])
        \/ Fail(job[w], ending[w].class) /\ ending[w].class \in FailureClasses
        \/ Finish(job[w], ending[w].parts) /\ phase[w] = Boundaries
    BY <1>t, <1>1, <2>1 DEF CloseRow, EndingFits
  <2>. QED
    BY <1>t, <2>1, <2>2 DEF Moves, Closes
<1>2. CASE FailUnstored(w)
  <2>1. INFRASTRUCTURE \in FailureClasses
    BY ClassesAssumption
  <2>. QED
    BY <1>t, <1>2, <2>1 DEF WorkerTypeOK, FailUnstored, BackToLoop, Go, OthersRest, Moves, Closes
<1>3. CASE CloseRaises(w)
  BY <1>t, <1>3, ExitShape DEF CloseRaises, Moves, queueVars
<1>. QED
  BY <1>1, <1>2, <1>3

LEMMA StepShape == WorkerInv /\ [Next]_vars => WorkerShape
<1> SUFFICES ASSUME WorkerInv, [Next]_vars PROVE WorkerShape
  OBVIOUS
<1>t. WorkerTypeOK
  BY DEF WorkerInv
<1>1. CASE Callers \/ UNCHANGED vars
  BY <1>1 DEF Callers, vars, workerVars, queueVars, WorkerShape, AllRest
<1>2. ASSUME NEW w \in Workers, Start(w) \/ Work(w) \/ Fault(w), lockOf' = lockOf
      PROVE  WorkerShape
  <2>1. CASE Start(w) \/ Work(w)
    BY <1>2, <2>1, StartingShapes, LoopShapes, RunShapes, ClosingShapes
       DEF Work, WorkerShape
  <2>2. CASE FailStop(w) \/ Kill(w)
    BY <1>t, <1>2, <2>2, ExitShape DEF FailStop, Kill, queueVars, WorkerShape, Moves
  <2>3. CASE ParentDies(w)
    BY <1>2, <2>3 DEF ParentDies, queueVars, WorkerShape, AllRest
  <2>. QED
    BY <1>2, <2>1, <2>2, <2>3 DEF Fault
<1>. QED
  BY <1>1, <1>2 DEF Next

----------------------------------------------------------------------------
(* Types, and the queue below the workers.                                 *)

LEMMA ExitTypes ==
  ASSUME WorkerTypeOK, NEW w \in Workers, Exit(w), TypeOK', lockOf' = lockOf,
         faults' \in 0 .. MaxFaults
  PROVE  WorkerTypeOK'
<1>1. NotEnded \in Endings
  BY DEF NotEnded, Endings
<1>2. holder' \in [Locks -> Workers \cup {None}]
  BY DEF WorkerTypeOK, Exit
<1>. QED
  BY <1>1, <1>2, WorkerAssumption DEF WorkerTypeOK, Exit, Go, Places

LEMMA WorkerTypes ==
  ASSUME WorkerInv, [Next]_vars, TypeOK'
  PROVE  WorkerTypeOK'
<1> USE WorkerAssumption
<1>t. WorkerTypeOK
  BY DEF WorkerInv
<1>n. NotEnded \in Endings
  BY DEF NotEnded, Endings
<1>p. "opening" \in Places /\ "putback" \in Places /\ "looking" \in Places
      /\ "claiming" \in Places /\ OnRun \subseteq Places /\ "locking" \in Places
  BY PlaceNames DEF Places
<1>1. CASE Callers \/ UNCHANGED vars
  BY <1>t, <1>1 DEF Callers, vars, workerVars, WorkerTypeOK
<1>2. ASSUME NEW w \in Workers, lockOf' = lockOf,
             Start(w) \/ Acquire(w) \/ PutBack(w) \/ TakeOver(w)
      PROVE  WorkerTypeOK'
  <2>1. at' \in [Workers -> Places]
    BY <1>t, <1>p, <1>2 DEF WorkerTypeOK, Start, Acquire, PutBack, TakeOver, Go
  <2>2. parentAlive' \in [Workers -> BOOLEAN]
    BY <1>t, <1>2 DEF WorkerTypeOK, Start, Acquire, PutBack, TakeOver
  <2>3. holder' \in [Locks -> Workers \cup {None}]
    BY <1>t, <1>2 DEF WorkerTypeOK, Start, Acquire, PutBack, TakeOver
  <2>. QED
    BY <1>t, <1>2, <2>1, <2>2, <2>3 DEF WorkerTypeOK, Start, Acquire, PutBack, TakeOver
<1>3. ASSUME NEW w \in Workers, lockOf' = lockOf, UNCHANGED faults,
             GiveUp(w) \/ StopOrphan(w) \/ StopDrained(w) \/ CloseRaises(w)
      PROVE  WorkerTypeOK'
  BY <1>t, <1>3, ExitTypes DEF GiveUp, StopOrphan, StopDrained, CloseRaises, WorkerTypeOK
<1>4. ASSUME NEW w \in Workers, lockOf' = lockOf, FailStop(w) \/ Kill(w)
      PROVE  WorkerTypeOK'
  <2>1. faults' \in 0 .. MaxFaults
    BY <1>t, <1>4 DEF WorkerTypeOK, FailStop, Kill
  <2>. QED
    BY <1>t, <1>4, <2>1, ExitTypes DEF FailStop, Kill
<1>5. ASSUME NEW w \in Workers, lockOf' = lockOf, Look(w) PROVE WorkerTypeOK'
  <2>1. now + PurgeInterval \in Nat
    BY <1>t, BoundsAssumption DEF WorkerTypeOK, TypeOK
  <2>. QED
    BY <1>t, <1>p, <1>5, <2>1 DEF WorkerTypeOK, Look, Go
<1>6. ASSUME NEW w \in Workers, lockOf' = lockOf, ClaimNext(w) \/ Idle(w)
      PROVE  WorkerTypeOK'
  <2>1. job' \in [Workers -> RunIds \cup {0}]
    BY <1>t, <1>6 DEF WorkerTypeOK, ClaimNext, Idle
  <2>2. phase' \in [Workers -> 0 .. Boundaries] /\ at' \in [Workers -> Places]
    BY <1>t, <1>p, <1>6, PlaceNames DEF WorkerTypeOK, ClaimNext, Idle, Go
  <2>. QED
    BY <1>t, <1>6, <2>1, <2>2 DEF WorkerTypeOK, ClaimNext, Idle
<1>7. ASSUME NEW w \in Workers, lockOf' = lockOf, PhaseBoundary(w) PROVE WorkerTypeOK'
  <2>1. [NotEnded EXCEPT !.status = CANCELLED] \in Endings
    BY DEF NotEnded, Endings
  <2>. QED
    BY <1>t, <1>p, <1>7, <2>1, PlaceNames DEF WorkerTypeOK, PhaseBoundary, End, Go
<1>8. ASSUME NEW w \in Workers, lockOf' = lockOf, PricePhase(w) PROVE WorkerTypeOK'
  <2>1. \A parts \in SUBSET Parts : [NotEnded EXCEPT !.status = DONE, !.parts = parts] \in Endings
    BY DEF NotEnded, Endings
  <2>2. \A class \in FailureClasses :
          [NotEnded EXCEPT !.status = FAILED, !.class = class] \in Endings
    BY ClassesAssumption DEF NotEnded, Endings
  <2>3. phase' \in [Workers -> 0 .. Boundaries]
    <3>1. phase[w] \in 0 .. Boundaries /\ (phase[w] < Boundaries => phase[w] + 1 \in 0 .. Boundaries)
      BY <1>t DEF WorkerTypeOK
    <3>. QED
      BY <1>t, <1>8, <3>1 DEF WorkerTypeOK, PricePhase
  <2>4. at' \in [Workers -> Places]
    BY <1>t, <1>p, <1>8, PlaceNames DEF WorkerTypeOK, PricePhase, End, Go
  <2>5. ending' \in [Workers -> Endings]
    <3>1. UNCHANGED ending \/ \E e \in Endings : ending' = [ending EXCEPT ![w] = e]
      BY <1>8, <2>1, <2>2 DEF PricePhase, End
    <3>. QED
      BY <1>t, <3>1 DEF WorkerTypeOK
  <2>. QED
    BY <1>t, <1>8, <2>3, <2>4, <2>5 DEF WorkerTypeOK, PricePhase
<1>9. ASSUME NEW w \in Workers, lockOf' = lockOf, CloseRow(w) \/ StoreFails(w) \/ FailUnstored(w)
      PROVE  WorkerTypeOK'
  BY <1>t, <1>n, <1>p, <1>9, PlaceNames
     DEF WorkerTypeOK, CloseRow, StoreFails, FailUnstored, BackToLoop, Go
<1>10. ASSUME NEW w \in Workers, lockOf' = lockOf, ParentDies(w) PROVE WorkerTypeOK'
  BY <1>t, <1>10 DEF WorkerTypeOK, ParentDies
<1>. QED
  BY <1>1, <1>2, <1>3, <1>4, <1>5, <1>6, <1>7, <1>8, <1>9, <1>10
     DEF Next, Work, Fault, GiveUp, StopOrphan, StopDrained, CloseRaises

\* The workers use the queue's operations only, on runs that exist.
LEMMA UsesQueue ==
  ASSUME WorkerInv, WorkerShape
  PROVE  [QueueNext]_queueVars
<1>1. ASSUME NEW w \in Workers, Moves(w) PROVE [QueueNext]_queueVars
  <2>1. CASE Leaves(w) \/ Starts(w) \/ Takes(w) \/ Runs(w)
    BY <2>1 DEF Leaves, Starts, Takes, Runs
  <2>2. CASE TakesQueue(w) \/ Waits(w) \/ Claims(w)
    BY <2>2 DEF TakesQueue, Waits, Claims, QueueNext, WorkerStep
  <2>3. CASE Closes(w)
    <3>1. job[w] \in RunIds
      BY <2>3, PlaceNames DEF Closes, WorkerInv, RunnersHaveRuns
    <3>. QED
      BY <2>3, <3>1 DEF Closes, QueueNext, WorkerStep
  <2>. QED
    BY <1>1, <2>1, <2>2, <2>3 DEF Moves
<1>. QED
  BY <1>1 DEF WorkerShape, QueueNext

\* What a step does to one row, the step that leaves the queue alone included.
LEMMA RowOfStep ==
  ASSUME WorkerInv, WorkerShape, NEW i \in RunIds
  PROVE  /\ RowStep(i)
         /\ lastSeq \in Nat /\ lastSeq' \in {lastSeq, lastSeq + 1}
         /\ i \in Nat /\ jobs[i].attempts \in Nat
<1>1. TypeOK /\ UnusedAreAbsent
  BY DEF WorkerInv, QueueInv
<1>2. CASE QueueNext
  BY <1>1, <1>2, RowEffect, RowTypes
<1>3. CASE UNCHANGED queueVars
  BY <1>1, <1>3, RowTypes DEF queueVars, RowStep, Kept, SameChunks
<1>. QED
  BY <1>2, <1>3, UsesQueue

LEMMA ClaimEffect ==
  ASSUME TypeOK, NEW w \in Workers, NEW i \in RunIds, Claim(w, i)
  PROVE  /\ jobs[i].status = PENDING
         /\ jobs'[i].status = RUNNING /\ jobs'[i].worker = w
         /\ jobs'[i].attempts = jobs[i].attempts + 1
         /\ \A j \in RunIds : j # i => jobs'[j] = jobs[j]
         /\ lastSeq' = lastSeq
<1>1. jobs[i] \in Row
  BY DEF TypeOK
<1>2. /\ jobs'[i] = [jobs[i] EXCEPT !.status = RUNNING, !.worker = w,
                                    !.attempts = jobs[i].attempts + 1]
      /\ \A j \in RunIds : j # i => jobs'[j] = jobs[j]
  BY OneRow DEF Claim
<1>3. jobs'[i].worker = w
  BY <1>1, <1>2 DEF Row
<1>4. jobs'[i].status = RUNNING /\ jobs'[i].attempts = jobs[i].attempts + 1
  BY <1>1, <1>2, ClaimedFields DEF SameSubmission
<1>5. jobs[i].status = PENDING /\ lastSeq' = lastSeq
  BY DEF Claim, OldestPending
<1>. QED
  BY <1>2, <1>3, <1>4, <1>5

----------------------------------------------------------------------------
(* The conjuncts.                                                          *)

LEMMA LocksStep ==
  ASSUME WorkerInv, WorkerShape
  PROVE  OwnersHoldLocks'
<1>t. /\ WorkerTypeOK /\ OwnersHoldLocks
      /\ \A v \in Workers : lockOf[v] \in Locks /\ v # None
  BY WorkerAssumption, NoneAssumption DEF WorkerInv, WorkerTypeOK
<1>1. CASE AllRest
  BY <1>t, <1>1 DEF AllRest, OwnersHoldLocks
<1>2. ASSUME NEW w \in Workers, Moves(w), OthersRest(w), lockOf' = lockOf
      PROVE  OwnersHoldLocks'
  <2> SUFFICES ASSUME NEW v \in Workers, at'[v] \in Owning PROVE holder'[lockOf[v]] = v
    BY <1>2 DEF OwnersHoldLocks
  <2>1. CASE Leaves(w)
    BY <1>t, <1>2, <2>1, PlaceNames DEF Leaves, OthersRest, OwnersHoldLocks
  <2>2. CASE Starts(w)
    BY <1>t, <1>2, <2>2, PlaceNames DEF Starts, OthersRest, OwnersHoldLocks
  <2>3. CASE Takes(w)
    BY <1>t, <1>2, <2>3, PlaceNames DEF Takes, OthersRest, OwnersHoldLocks, WorkerTypeOK
  <2>4. CASE TakesQueue(w) \/ Waits(w) \/ Claims(w) \/ Runs(w) \/ Closes(w)
    <3>1. at[w] \in Owning /\ UNCHANGED holder
      BY <2>4, PlaceNames DEF TakesQueue, Waits, Claims, Runs, Closes
    <3>. QED
      BY <1>t, <1>2, <3>1 DEF OthersRest, OwnersHoldLocks
  <2>. QED
    BY <1>2, <2>1, <2>2, <2>3, <2>4 DEF Moves
<1>. QED
  BY <1>1, <1>2 DEF WorkerShape

\* A worker on a run was on it before, or claims it with this step.
LEMMA RunnerShape ==
  ASSUME WorkerInv, WorkerShape, NEW v \in Workers, at'[v] \in OnRun
  PROVE  \/ at[v] \in OnRun /\ job'[v] = job[v]
         \/ Claims(v) /\ OthersRest(v) /\ lockOf' = lockOf
<1>1. CASE AllRest
  BY <1>1 DEF AllRest
<1>2. ASSUME NEW w \in Workers, Moves(w), OthersRest(w), lockOf' = lockOf
      PROVE  \/ at[v] \in OnRun /\ job'[v] = job[v]
             \/ Claims(v) /\ OthersRest(v) /\ lockOf' = lockOf
  <2>1. CASE v # w
    BY <1>2, <2>1 DEF OthersRest
  <2>2. CASE v = w
    BY <1>2, <2>2, PlaceNames
       DEF Moves, Leaves, Starts, Takes, TakesQueue, Waits, Runs, Closes
  <2>. QED
    BY <2>1, <2>2
<1>. QED
  BY <1>1, <1>2 DEF WorkerShape

LEMMA HaveRunsStep ==
  ASSUME WorkerInv, WorkerShape
  PROVE  RunnersHaveRuns'
<1> SUFFICES ASSUME NEW v \in Workers, at'[v] \in OnRun
             PROVE  /\ job'[v] \in RunIds /\ job'[v] <= lastSeq'
                    /\ jobs'[job'[v]].status = ABSENT \/ jobs'[job'[v]].attempts > 0
  BY DEF RunnersHaveRuns
<1> DEFINE i == job'[v]
<1>1. CASE at[v] \in OnRun /\ job'[v] = job[v]
  <2>1. i \in RunIds /\ i <= lastSeq /\ (jobs[i].status = ABSENT \/ jobs[i].attempts > 0)
    BY <1>1 DEF WorkerInv, RunnersHaveRuns
  <2>2. RowStep(i) /\ lastSeq' >= lastSeq /\ i \in Nat /\ lastSeq \in Nat /\ lastSeq' \in Nat
        /\ jobs[i].attempts \in Nat
    BY <2>1, RowOfStep
  <2>3. ~Inserted(i)
    BY <2>1, <2>2 DEF Inserted
  <2>4. jobs'[i].status = ABSENT \/ jobs'[i].attempts > 0
    BY <2>1, <2>2, <2>3, NoRowFields, StatusesDiffer
       DEF RowStep, Changed, Kept, Removed, Claimed, Flagged, SentBack, Closed
  <2>. QED
    BY <2>1, <2>2, <2>4
<1>2. CASE Claims(v)
  <2>1. i \in RunIds /\ jobs[i].status = PENDING
    BY <1>2 DEF Claims, Claim, OldestPending
  <2>2. jobs'[i].attempts = jobs[i].attempts + 1 /\ lastSeq' = lastSeq
    BY <1>2, <2>1, ClaimEffect DEF Claims, WorkerInv, WorkerTypeOK
  <2>3. i <= lastSeq
    BY <2>1, NoRowFields, StatusesDiffer, RowOfStep DEF WorkerInv, QueueInv, UnusedAreAbsent
  <2>. QED
    BY <2>1, <2>2, <2>3, RowOfStep
<1>. QED
  BY <1>1, <1>2, RunnerShape

LEMMA EndingsStep ==
  ASSUME WorkerInv, WorkerShape
  PROVE  EndingsFit'
<1> SUFFICES ASSUME NEW v \in Workers PROVE EndingFits(v)'
  BY DEF EndingsFit
<1>0. EndingFits(v)
  BY DEF WorkerInv, EndingsFit
<1>1. CASE \E w \in Workers \ {v} : OthersRest(w)
  BY <1>0, <1>1 DEF OthersRest, EndingFits
<1>2. CASE AllRest
  BY <1>0, <1>2 DEF AllRest, EndingFits
<1>3. CASE Moves(v)
  BY <1>3 DEF Moves, Leaves, Starts, Takes, TakesQueue, Waits, Claims, Runs, Closes, EndingFits
<1>. QED
  BY <1>1, <1>2, <1>3 DEF WorkerShape

\* The callers neither start a row running nor end one that is.
LEMMA CallersLeaveRunning ==
  ASSUME TypeOK, UnusedAreAbsent, NEW i \in RunIds,
         ClientStep \/ Tick \/ UNCHANGED queueVars
  PROVE  jobs'[i].status = RUNNING <=> jobs[i].status = RUNNING
<1>1. ASSUME NEW key \in Keys \cup {None}, NEW body \in Bodies, NEW keep \in BOOLEAN,
             Submit(key, body, keep)
      PROVE  jobs'[i].status = RUNNING <=> jobs[i].status = RUNNING
  <2>1. lastSeq + 1 \in RunIds /\ jobs[lastSeq + 1] = NoRow
    BY <1>1, BoundsAssumption DEF Submit, TypeOK, RunIds, UnusedAreAbsent
  <2>2. /\ jobs'[lastSeq + 1] = [NoRow EXCEPT !.status = PENDING, !.request = body,
                                     !.idempotency_key = key, !.keep = keep]
        /\ \A j \in RunIds : j # lastSeq + 1 => jobs'[j] = jobs[j]
    BY <1>1, <2>1, OneRow DEF Submit
  <2>3. jobs'[lastSeq + 1].status = PENDING
    BY <2>2, NoRowIsRow, InsertedFields
  <2>. QED
    BY <2>1, <2>2, <2>3, NoRowFields, StatusesDiffer
<1>2. ASSUME NEW j \in RunIds, Cancel(j)
      PROVE  jobs'[i].status = RUNNING <=> jobs[i].status = RUNNING
  BY <1>2 DEF Cancel, TypeOK, Row, PENDING, RUNNING, CANCELLED
<1>3. CASE Tick \/ UNCHANGED queueVars
  BY <1>3 DEF Tick, queueVars
<1>. QED
  BY <1>1, <1>2, <1>3 DEF ClientStep

\* Closing a run ends it and no other.
LEMMA ClosesEffect ==
  ASSUME WorkerInv, NEW w \in Workers, Closes(w)
  PROVE  /\ job[w] \in RunIds
         /\ jobs[job[w]].status = RUNNING /\ jobs'[job[w]].status \in TERMINAL
         /\ jobs'[job[w]].status = DONE => at[w] = "closing" /\ phase[w] = Boundaries
         /\ \A j \in RunIds : j # job[w] => jobs'[j] = jobs[j]
<1> DEFINE i == job[w]
<1>1. i \in RunIds /\ TypeOK
  BY PlaceNames DEF Closes, WorkerInv, RunnersHaveRuns, QueueInv
<1>2. DONE \in TERMINAL /\ FAILED \in TERMINAL \ {DONE} /\ CANCELLED \in TERMINAL \ {DONE}
  BY DEF TERMINAL, DONE, FAILED, CANCELLED
<1>3. CASE CancelRunning(i)
  BY <1>1, <1>2, <1>3, CloseEffect DEF CancelRunning
<1>4. CASE \E class \in FailureClasses : Fail(i, class)
  BY <1>1, <1>2, <1>4, CloseEffect DEF Fail
<1>5. ASSUME at[w] = "closing", phase[w] = Boundaries,
             NEW parts \in SUBSET Parts, Finish(i, parts)
      PROVE  /\ jobs[i].status = RUNNING /\ jobs'[i].status \in TERMINAL
             /\ \A j \in RunIds : j # i => jobs'[j] = jobs[j]
  BY <1>1, <1>2, <1>5, CloseEffect DEF Finish
<1>. QED
  BY <1>1, <1>3, <1>4, <1>5 DEF Closes

LEMMA InterruptEffect ==
  ASSUME TypeOK, NEW i \in RunIds, Interrupt
  PROVE  jobs'[i].status = IF jobs[i].status = RUNNING THEN INTERRUPTED ELSE jobs[i].status
<1>1. jobs[i] \in Row
  BY DEF TypeOK
<1>2. jobs'[i] = IF jobs[i].status = RUNNING
                 THEN [jobs[i] EXCEPT !.status = INTERRUPTED, !.finished = now]
                 ELSE jobs[i]
  BY DEF Interrupt
<1>3. [jobs[i] EXCEPT !.status = INTERRUPTED, !.finished = now].status = INTERRUPTED
  BY <1>1, CancelledFields DEF SameSubmission
<1>. QED
  BY <1>2, <1>3

LEMMA NothingPutBack ==
  ASSUME WorkerInv, WorkerShape, HostCount = 1, NEW i \in RunIds, jobs[i].status = RUNNING
  PROVE  jobs'[i].status # PENDING
<1>t. TypeOK /\ UnusedAreAbsent /\ jobs[i] \in Row
  BY DEF WorkerInv, QueueInv, TypeOK
<1> USE StatusesDiffer
<1>1. CASE ClientStep \/ Tick \/ UNCHANGED queueVars
  BY <1>t, <1>1, CallersLeaveRunning
<1>2. ASSUME NEW w \in Workers, Moves(w) PROVE jobs'[i].status # PENDING
  <2>1. CASE Leaves(w) \/ Starts(w) \/ Takes(w) \/ Runs(w)
    BY <1>t, <2>1, CallersLeaveRunning DEF Leaves, Starts, Takes, Runs, queueVars
  <2>2. CASE TakesQueue(w)
    <3>1. Interrupt
      BY <2>2 DEF TakesQueue
    <3>. QED
      BY <1>t, <3>1, InterruptEffect DEF PENDING, INTERRUPTED
  <2>3. CASE Waits(w)
    BY <2>3, NoRowFields DEF Waits, Purge, queueVars
  <2>4. CASE Claims(w)
    BY <1>t, <2>4, ClaimEffect DEF Claims
  <2>5. CASE Closes(w)
    BY <2>5, ClosesEffect
  <2>. QED
    BY <1>2, <2>1, <2>2, <2>3, <2>4, <2>5 DEF Moves
<1>. QED
  BY <1>1, <1>2 DEF WorkerShape

LEMMA ClaimOnceStep ==
  ASSUME WorkerInv, WorkerShape
  PROVE  SinglesClaimOnce'
<1> SUFFICES ASSUME HostCount = 1, NEW i \in RunIds
             PROVE  /\ jobs'[i].attempts <= 1
                    /\ jobs'[i].status = PENDING => jobs'[i].attempts = 0
  BY DEF SinglesClaimOnce
<1>1. /\ jobs[i].attempts <= 1 /\ jobs[i].attempts \in Nat
      /\ jobs[i].status = PENDING => jobs[i].attempts = 0
  BY RowOfStep DEF WorkerInv, SinglesClaimOnce
<1>2. RowStep(i) /\ ~SentBack(i)
  BY RowOfStep, NothingPutBack DEF SentBack
<1>. QED
  BY <1>1, <1>2, NoRowFields, StatusesDiffer
     DEF RowStep, Changed, Kept, Inserted, Removed, Claimed, Flagged, Closed

LEMMA OneOwner ==
  ASSUME WorkerInv, OneLock, NEW v \in Workers, NEW w \in Workers,
         at[v] \in Owning, at[w] \in Owning
  PROVE  v = w
BY DEF WorkerInv, OwnersHoldLocks, OneLock

LEMMA LocksFixed ==
  ASSUME WorkerShape
  PROVE  (OneLock' <=> OneLock) /\ (NoTwoSets' <=> NoTwoSets)
BY DEF WorkerShape, AllRest, OneLock, NoTwoSets

\* The run a worker claims is not one that a worker is on.
LEMMA ClaimIsNew ==
  ASSUME WorkerInv, NoTwoSets, NEW v \in Workers, NEW w \in Workers,
         at[v] \in OnRun, Claims(w)
  PROVE  job'[w] # job[v]
<1>1. job'[w] \in RunIds /\ jobs[job'[w]].status = PENDING
  BY DEF Claims, Claim, OldestPending
<1>2. CASE HostCount = 1
  BY <1>1, <1>2, StatusesDiffer DEF WorkerInv, SinglesClaimOnce, RunnersHaveRuns
<1>3. CASE OneLock
  BY <1>3, OneOwner, PlaceNames DEF Claims
<1>. QED
  BY <1>2, <1>3 DEF NoTwoSets

LEMMA OneRunnerStep ==
  ASSUME WorkerInv, WorkerShape, NoTwoSets, NEW v \in Workers, NEW w \in Workers,
         at'[v] \in OnRun, at'[w] \in OnRun, job'[v] = job'[w]
  PROVE  v = w
<1>1. CASE at[v] \in OnRun /\ at[w] \in OnRun /\ job'[v] = job[v] /\ job'[w] = job[w]
  BY <1>1 DEF WorkerInv, RunAgainOnlyOnSets
<1>2. CASE Claims(v) /\ at[w] \in OnRun /\ job'[w] = job[w]
  BY <1>2, ClaimIsNew
<1>3. CASE Claims(w) /\ at[v] \in OnRun /\ job'[v] = job[v]
  BY <1>3, ClaimIsNew
<1>4. CASE Claims(v) /\ OthersRest(v) /\ Claims(w)
  BY <1>4, PlaceNames DEF Claims, OthersRest
<1>. QED
  BY <1>1, <1>2, <1>3, <1>4, RunnerShape

LEMMA RowsStep ==
  ASSUME WorkerInv, WorkerShape
  PROVE  RowsAreRunners'
<1> SUFFICES ASSUME NoTwoSets, NEW v \in Workers, at'[v] \in OnRun,
                    jobs'[job'[v]].status = RUNNING
             PROVE  jobs'[job'[v]].worker = v
  BY LocksFixed DEF RowsAreRunners
<1>1. CASE Claims(v)
  BY <1>1, ClaimEffect DEF Claims, WorkerInv, QueueInv
<1>2. CASE at[v] \in OnRun /\ job'[v] = job[v]
  <2> DEFINE i == job[v]
  <2>1. i \in RunIds /\ RowStep(i) /\ (jobs[i].status = RUNNING => jobs[i].worker = v)
    BY <1>2, RowOfStep DEF WorkerInv, RunnersHaveRuns, RowsAreRunners
  <2>2. jobs[i].status # PENDING
    BY <1>2, <2>1, StatusesDiffer
       DEF WorkerInv, NoTwoSets, RunnersHaveRuns, SinglesClaimOnce, RunnerOwnsRow
  <2>3. Kept(i) \/ Flagged(i)
    BY <1>2, <2>1, <2>2, NoRowFields, StatusesDiffer
       DEF RowStep, Changed, Inserted, Removed, Claimed, SentBack, Closed
  <2>. QED
    BY <1>2, <2>1, <2>3 DEF Kept, Flagged
<1>. QED
  BY <1>1, <1>2, RunnerShape

LEMMA OwnsRowStep ==
  ASSUME WorkerInv, WorkerShape
  PROVE  RunnerOwnsRow'
<1> SUFFICES ASSUME OneLock, NEW v \in Workers, at'[v] \in OnRun
             PROVE  jobs'[job'[v]].status = RUNNING
  BY LocksFixed, RowsStep DEF RunnerOwnsRow, RowsAreRunners, NoTwoSets
<1>t. TypeOK /\ UnusedAreAbsent
  BY DEF WorkerInv, QueueInv
<1>1. CASE Claims(v)
  BY <1>t, <1>1, ClaimEffect DEF Claims
<1>2. CASE at[v] \in OnRun /\ job'[v] = job[v]
  <2>1. job[v] \in RunIds /\ jobs[job[v]].status = RUNNING
    BY <1>2 DEF WorkerInv, RunnersHaveRuns, RunnerOwnsRow
  <2>2. CASE ClientStep \/ Tick \/ UNCHANGED queueVars
    BY <1>t, <1>2, <2>1, <2>2, CallersLeaveRunning
  <2>3. ASSUME NEW w \in Workers, Moves(w) PROVE UNCHANGED queueVars
    <3>1. CASE w = v
      BY <1>2, <2>3, <3>1, PlaceNames
         DEF Moves, Leaves, Starts, Takes, TakesQueue, Waits, Claims, Runs, Closes
    <3>2. CASE w # v
      <4>1. at[w] \notin Owning
        BY <1>2, <3>2, OneOwner, PlaceNames
      <4>. QED
        BY <2>3, <4>1, PlaceNames
           DEF Moves, Leaves, Starts, Takes, TakesQueue, Waits, Claims, Runs, Closes
    <3>. QED
      BY <3>1, <3>2
  <2>. QED
    BY <2>2, <2>3 DEF WorkerShape
<1>. QED
  BY <1>1, <1>2, RunnerShape

\* The holder of the only lock, once it serves, has no running row but its own.
LEMMA RunningIsItsOwn ==
  ASSUME WorkerInv, OneLock, NEW w \in Workers, at[w] \in Serving,
         NEW i \in RunIds, jobs[i].status = RUNNING
  PROVE  at[w] \in OnRun /\ job[w] = i
<1>1. \E v \in Workers : at[v] \in OnRun /\ job[v] = i
  BY DEF WorkerInv, RunningHasRunner, InStatus
<1>. QED
  BY <1>1, OneOwner, PlaceNames

LEMMA HasRunnerStep ==
  ASSUME WorkerInv, WorkerShape
  PROVE  RunningHasRunner'
<1> DEFINE Runner(i) == \E w \in Workers : at'[w] \in OnRun /\ job'[w] = i
           NobodyServes == \A w \in Workers : at'[w] \notin Serving
<1> SUFFICES ASSUME OneLock, NEW i \in RunIds, jobs'[i].status = RUNNING
             PROVE  Runner(i) \/ NobodyServes
  BY LocksFixed DEF RunningHasRunner, InStatus
<1>t. TypeOK /\ UnusedAreAbsent
  BY DEF WorkerInv, QueueInv
<1>1. CASE AllRest /\ (ClientStep \/ Tick \/ UNCHANGED queueVars)
  <2>1. jobs[i].status = RUNNING
    BY <1>t, <1>1, CallersLeaveRunning
  <2>. QED
    BY <1>1, <2>1 DEF AllRest, WorkerInv, RunningHasRunner, InStatus
<1>2. ASSUME NEW w \in Workers, Moves(w), OthersRest(w) PROVE Runner(i) \/ NobodyServes
  <2>0. ASSUME NEW v \in Workers, at'[v] \in Serving, v # w, at[w] \in Owning PROVE FALSE
    BY <1>2, <2>0, OneOwner, PlaceNames DEF OthersRest
  <2>1. CASE Leaves(w) \/ Starts(w) \/ Takes(w)
    <3>1. jobs[i].status = RUNNING /\ at'[w] \notin Serving
      BY <2>1, PlaceNames DEF Leaves, Starts, Takes, queueVars, Serving, OnRun
    <3>2. CASE at[w] \in Owning
      BY <2>0, <3>1, <3>2
    <3>3. CASE at[w] \notin Owning
      BY <1>2, <3>1, <3>3, PlaceNames DEF OthersRest, WorkerInv, RunningHasRunner, InStatus
    <3>. QED
      BY <3>2, <3>3
  <2>2. CASE TakesQueue(w)
    <3>1. CASE at'[w] = "putback"
      BY <2>0, <2>2, <3>1, PlaceNames DEF TakesQueue
    <3>2. CASE Interrupt
      BY <1>t, <3>2, InterruptEffect DEF RUNNING, INTERRUPTED
    <3>. QED
      BY <2>2, <3>1, <3>2 DEF TakesQueue
  <2>3. CASE Waits(w)
    <3>1. jobs[i].status = RUNNING
      BY <2>3, NoRowFields, StatusesDiffer DEF Waits, Purge, queueVars
    <3>. QED
      BY <2>3, <3>1, RunningIsItsOwn, PlaceNames DEF Waits
  <2>4. CASE Claims(w)
    <3>1. job'[w] # i => jobs[i].status = RUNNING
      BY <1>t, <2>4, ClaimEffect DEF Claims
    <3>. QED
      BY <2>4, <3>1, RunningIsItsOwn, PlaceNames DEF Claims
  <2>5. CASE Runs(w)
    BY <2>5, RunningIsItsOwn, PlaceNames DEF Runs, queueVars
  <2>6. CASE Closes(w)
    <3>1. job[w] # i /\ jobs[i].status = RUNNING
      BY <2>6, ClosesEffect, StatusesDiffer
    <3>. QED
      BY <2>6, <3>1, RunningIsItsOwn, PlaceNames DEF Closes
  <2>. QED
    BY <1>2, <2>1, <2>2, <2>3, <2>4, <2>5, <2>6 DEF Moves
<1>. QED
  BY <1>1, <1>2 DEF WorkerShape

LEMMA RunAgainStep ==
  ASSUME WorkerInv, WorkerShape, QueueInv', SinglesClaimOnce'
  PROVE  RunAgainOnlyOnSets'
<1>1. ASSUME NEW i \in RunIds
      PROVE  jobs'[i].attempts <= IF HostCount > 1 THEN MAX_ATTEMPTS ELSE 1
  BY WorkerAssumption DEF QueueInv, PendingMayRun, SinglesClaimOnce
<1>2. NoTwoSets' => \A v, w \in Workers :
        at'[v] \in OnRun /\ at'[w] \in OnRun /\ job'[v] = job'[w] => v = w
  BY LocksFixed, OneRunnerStep
<1>. QED
  BY <1>1, <1>2 DEF RunAgainOnlyOnSets

LEMMA WorkerInvInit == Init => WorkerInv
<1> SUFFICES ASSUME Init PROVE WorkerInv
  OBVIOUS
<1> USE PlaceNames
<1>1. QueueInv
  BY QueueInvInit DEF Init
<1>2. \A i \in RunIds : jobs[i] = NoRow
  BY DEF Init, QueueInit
<1>3. WorkerTypeOK
  <2>1. NotEnded \in Endings /\ "off" \in Places
    BY DEF NotEnded, Endings, Places
  <2>. QED
    BY <1>1, <2>1, WorkerAssumption DEF Init, WorkerTypeOK, QueueInv
<1>4. \A w \in Workers : at[w] \notin Owning
  BY DEF Init
<1>5. OwnersHoldLocks /\ RunnersHaveRuns /\ RowsAreRunners /\ RunnerOwnsRow
  BY <1>4 DEF OwnersHoldLocks, RunnersHaveRuns, RowsAreRunners, RunnerOwnsRow
<1>6. EndingsFit
  BY <1>4 DEF EndingsFit, EndingFits
<1>7. SinglesClaimOnce /\ RunningHasRunner
  BY <1>2, NoRowFields, StatusesDiffer DEF SinglesClaimOnce, RunningHasRunner, InStatus
<1>8. RunAgainOnlyOnSets
  BY <1>2, <1>4, NoRowFields DEF RunAgainOnlyOnSets, MAX_ATTEMPTS
<1>. QED
  BY <1>1, <1>3, <1>5, <1>6, <1>7, <1>8 DEF WorkerInv

LEMMA WorkerInvStep == WorkerInv /\ [Next]_vars => WorkerInv'
<1> SUFFICES ASSUME WorkerInv, [Next]_vars PROVE WorkerInv'
  OBVIOUS
<1>1. WorkerShape
  BY StepShape
<1>2. QueueInv'
  BY <1>1, UsesQueue, QueueInvStep DEF WorkerInv
<1>3. WorkerTypeOK'
  BY <1>2, WorkerTypes DEF QueueInv
<1>4. SinglesClaimOnce'
  BY <1>1, ClaimOnceStep
<1>. QED
  BY <1>1, <1>2, <1>3, <1>4, LocksStep, HaveRunsStep, EndingsStep, RowsStep,
     OwnsRowStep, HasRunnerStep, RunAgainStep
     DEF WorkerInv

----------------------------------------------------------------------------
(* The theorems.                                                           *)

\* All the conjuncts of WorkerInv hold, whoever is launched, killed, orphaned
\* or cancelled, and whenever.
THEOREM WorkerInvariant == Spec => []WorkerInv
BY WorkerInvInit, WorkerInvStep, PTL DEF Spec

\* Workers and callers use the queue as JobQueue says it may be used, so that
\* whatever is proved of QueueSpec holds of the queue with its workers.
THEOREM WorkersUseQueue == Spec => QueueSpec
<1>1. Init => QueueInit
  BY DEF Init
<1>2. WorkerInv /\ [Next]_vars => [QueueNext]_queueVars
  BY StepShape, UsesQueue
<1>. QED
  BY <1>1, <1>2, WorkerInvariant, PTL DEF Spec, QueueSpec

\* A worker on a run has its row, running and claimed by it, as long as the
\* workers share one lock (run_job, _close_running).
THEOREM RunnersOwnRows == Spec => []RunnerOwnsRow
<1>1. WorkerInv => RunnerOwnsRow
  BY DEF WorkerInv
<1>. QED
  BY <1>1, WorkerInvariant, PTL

\* No row is left running by a worker that is gone, once another serves
\* (interrupt_running, requeue_running).
THEOREM RunningRowsHaveRunners == Spec => []RunningHasRunner
<1>1. WorkerInv => RunningHasRunner
  BY DEF WorkerInv
<1>. QED
  BY <1>1, WorkerInvariant, PTL

\* Nothing is priced twice at once, nor again but by a set (requeue_running).
THEOREM NothingRunsTwice == Spec => []RunAgainOnlyOnSets
<1>1. WorkerInv => RunAgainOnlyOnSets
  BY DEF WorkerInv
<1>. QED
  BY <1>1, WorkerInvariant, PTL

\* A result is stored by the worker that claimed the run and passed its last
\* phase (finish, _close_running).
THEOREM ResultsAreRunners == Spec => ResultIsItsRunners
<1> DEFINE Stored == NoTwoSets => \A i \in RunIds :
                       jobs[i].status = RUNNING /\ jobs'[i].status = DONE =>
                         \E w \in Workers : /\ jobs[i].worker = w /\ job[w] = i
                                            /\ at[w] = "closing" /\ phase[w] = Boundaries
<1>1. WorkerInv /\ [Next]_vars => [Stored]_vars
  <2> SUFFICES ASSUME WorkerInv, [Next]_vars, NoTwoSets, NEW i \in RunIds,
                      jobs[i].status = RUNNING, jobs'[i].status = DONE
               PROVE  \E w \in Workers : /\ jobs[i].worker = w /\ job[w] = i
                                         /\ at[w] = "closing" /\ phase[w] = Boundaries
    OBVIOUS
  <2>t. WorkerShape /\ TypeOK /\ UnusedAreAbsent
    BY StepShape DEF WorkerInv, QueueInv
  <2>1. CASE ClientStep \/ Tick \/ UNCHANGED queueVars
    BY <2>t, <2>1, CallersLeaveRunning, StatusesDiffer
  <2>2. ASSUME NEW w \in Workers, Moves(w), ~(UNCHANGED queueVars)
        PROVE  jobs[i].worker = w /\ job[w] = i /\ at[w] = "closing" /\ phase[w] = Boundaries
    <3>1. ~TakesQueue(w)
      <4>1. Interrupt => jobs'[i].status = INTERRUPTED
        BY <2>t, InterruptEffect
      <4>2. ASSUME Requeue PROVE jobs'[i].status # DONE
        <5>1. jobs[i] \in Row
          BY <2>t DEF TypeOK
        <5>2. /\ [jobs[i] EXCEPT !.status = CANCELLED, !.finished = now].status = CANCELLED
              /\ [jobs[i] EXCEPT !.status = PENDING, !.worker = None].status = PENDING
          BY <5>1 DEF Row
        <5>3. jobs'[i] \in {[jobs[i] EXCEPT !.status = CANCELLED, !.finished = now],
                            [jobs[i] EXCEPT !.status = PENDING, !.worker = None], jobs[i]}
          BY <4>2 DEF Requeue
        <5>. QED
          BY <5>2, <5>3, StatusesDiffer DEF CANCELLED, DONE
      <4>. QED
        BY <4>1, <4>2 DEF TakesQueue, INTERRUPTED, DONE
    <3>2. ~Waits(w)
      BY <2>2, NoRowFields, StatusesDiffer DEF Waits, Purge
    <3>3. ~Claims(w)
      BY <2>t, ClaimEffect, StatusesDiffer DEF Claims
    <3>4. Closes(w)
      BY <2>2, <3>1, <3>2, <3>3 DEF Moves, Leaves, Starts, Takes, Runs
    <3>5. job[w] = i /\ at[w] = "closing" /\ phase[w] = Boundaries
      BY <3>4, ClosesEffect, StatusesDiffer
    <3>. QED
      BY <3>5, PlaceNames DEF WorkerInv, RowsAreRunners
  <2>. QED
    BY <2>t, <2>1, <2>2 DEF WorkerShape
<1>. QED
  BY <1>1, WorkerInvariant, PTL DEF Spec, ResultIsItsRunners

\* The queue with its workers is the lifecycle its callers were promised, but
\* for liveness: an accepted run ends at most once, however many workers died.
THEOREM WorkersImplementLifecycle == Spec => ImplementsLifecycle
BY WorkersUseQueue, QueueImplementsLifecycle

----------------------------------------------------------------------------
(* The run routes.                                                         *)


\* Run i has ended in status s, or has been purged since.
Settled(i, s) == i <= lastSeq /\ jobs[i].status \in {s, ABSENT}

\* Run i will not start: it has ended, or runs with its cancel asked for.
Stuck(i) == /\ i <= lastSeq
            /\ jobs[i].status # PENDING
            /\ jobs[i].status = RUNNING => jobs[i].cancel_requested

\* The row of an accepted submission is of that submission, while there is one.
OwnRun(a) == /\ a.id <= lastSeq
             /\ jobs[a.id].status # ABSENT => /\ jobs[a.id].idempotency_key = a.post.key
                                              /\ SameBody(a.id, a.post)

\* A row that is gone has left nothing.
AbsentIsNoRow == \A i \in InStatus(ABSENT) : jobs[i] = NoRow

\* What a request holds: a run that exists; on its way to the document, one
\* that is done; on its way to answering a cancel, one that is stuck.
HeldFits(r) == /\ req[r].at # "idle" => req[r].run \in RunIds
               /\ req[r].at = "splicing" => Settled(req[r].run, DONE)
               /\ req[r].at = "recheck" => Stuck(req[r].run)

RequestsFit == \A r \in Requests : HeldFits(r)
ToldFit     == \A i \in RunIds : told[i] # {} =>
                 \E s \in TERMINAL : told[i] = {s} /\ Settled(i, s)
AckedFit    == \A i \in acked : Stuck(i)
AcceptedFit == \A a \in accepted : OwnRun(a)
OneBody     == \A a, b \in accepted : a.id = b.id => a.post = b.post

RoutesInv == /\ RoutesTypeOK
             /\ QueueInv
             /\ AbsentIsNoRow
             /\ RequestsFit
             /\ ToldFit
             /\ AckedFit
             /\ AcceptedFit
             /\ OneBody

----------------------------------------------------------------------------
(* What stays true of a row.                                               *)

LEMMA RowOfQueueStep ==
  ASSUME TypeOK, UnusedAreAbsent, [QueueNext]_queueVars, NEW i \in RunIds
  PROVE  /\ RowStep(i) /\ i \in Nat /\ lastSeq \in Nat
         /\ lastSeq' \in Nat /\ lastSeq' >= lastSeq
         /\ i <= lastSeq => ~Inserted(i)
<1>1. i \in Nat /\ lastSeq \in Nat
  BY RowTypes
<1>2. CASE QueueNext
  BY <1>1, <1>2, RowEffect DEF Inserted
<1>3. CASE UNCHANGED queueVars
  BY <1>1, <1>3 DEF queueVars, RowStep, Kept, SameChunks, Inserted
<1>. QED
  BY <1>2, <1>3

LEMMA SettledStays ==
  ASSUME TypeOK, UnusedAreAbsent, [QueueNext]_queueVars,
         NEW i \in RunIds, NEW s \in TERMINAL, Settled(i, s)
  PROVE  Settled(i, s)'
<1>1. RowStep(i) /\ ~Inserted(i) /\ i <= lastSeq'
  BY RowOfQueueStep DEF Settled
<1>2. jobs'[i].status \in {s, ABSENT}
  BY <1>1, NoRowFields, StatusesDiffer
     DEF Settled, RowStep, Changed, Kept, Removed, Claimed, Flagged, SentBack, Closed
<1>. QED
  BY <1>1, <1>2 DEF Settled

LEMMA StuckStays ==
  ASSUME TypeOK, UnusedAreAbsent, [QueueNext]_queueVars, NEW i \in RunIds, Stuck(i)
  PROVE  Stuck(i)'
<1>1. RowStep(i) /\ ~Inserted(i) /\ i <= lastSeq'
  BY RowOfQueueStep DEF Stuck
<1>2. jobs'[i].status # PENDING /\ (jobs'[i].status = RUNNING => jobs'[i].cancel_requested)
  BY <1>1, NoRowFields, StatusesDiffer
     DEF Stuck, RowStep, Changed, Kept, Removed, Claimed, Flagged, SentBack, Closed
<1>. QED
  BY <1>1, <1>2 DEF Stuck

LEMMA OwnRunStays ==
  ASSUME TypeOK, UnusedAreAbsent, AbsentIsNoRow, [QueueNext]_queueVars,
         NEW a \in [id : RunIds, post : Post], OwnRun(a)
  PROVE  OwnRun(a)'
<1> DEFINE i == a.id
<1>0. i \in RunIds
  OBVIOUS
<1>1. RowStep(i) /\ ~Inserted(i) /\ i <= lastSeq'
  BY <1>0, RowOfQueueStep DEF OwnRun
<1>2. CASE Kept(i)
  BY <1>1, <1>2 DEF Kept, OwnRun, SameBody
<1>3. CASE Changed(i)
  BY <1>1, <1>3, NoRowFields, StatusesDiffer
     DEF Changed, Claimed, Flagged, SentBack, Closed, OwnRun, SameBody, SameSubmission
<1>4. CASE Removed(i)
  BY <1>1, <1>4, NoRowFields DEF Removed, OwnRun
<1>. QED
  BY <1>1, <1>2, <1>3, <1>4 DEF RowStep

LEMMA AbsentStays ==
  ASSUME TypeOK, UnusedAreAbsent, AbsentIsNoRow, [QueueNext]_queueVars
  PROVE  AbsentIsNoRow'
<1> SUFFICES ASSUME NEW i \in RunIds, jobs'[i].status = ABSENT PROVE jobs'[i] = NoRow
  BY DEF AbsentIsNoRow, InStatus
<1>1. RowStep(i)
  BY RowOfQueueStep
<1>. QED
  BY <1>1, StatusesDiffer
     DEF RowStep, Changed, Kept, Removed, Inserted, Claimed, Flagged, SentBack, Closed,
         AbsentIsNoRow, InStatus

----------------------------------------------------------------------------
(* What a step adds to what callers and requests know.                     *)

RequestAdds(r) == req'[r] = req[r] \/ HeldFits(r)'

ToldAdds == \/ told' = told
            \/ \E i \in RunIds : /\ jobs'[i].status \in TERMINAL
                                 /\ told' = [told EXCEPT ![i] = @ \cup {jobs'[i].status}]

AckedAdds == acked' = acked \/ \E i \in RunIds : Stuck(i)' /\ acked' = acked \cup {i}

AcceptedAdds ==
  \/ accepted' = accepted
  \/ \E a \in [id : RunIds, post : Post] :
       /\ accepted' = accepted \cup {a}
       /\ OwnRun(a)' /\ jobs'[a.id].status # ABSENT

RouteShape == /\ [QueueNext]_queueVars
              /\ \A r \in Requests : RequestAdds(r)
              /\ ToldAdds /\ AckedAdds /\ AcceptedAdds
              /\ req' \in [Requests -> [at : RequestPlaces, run : RunIds \cup {0}]]

LEMMA GoEffect ==
  ASSUME RoutesTypeOK, NEW r \in Requests, NEW place \in RequestPlaces, NEW i \in RunIds \cup {0},
         req' = [req EXCEPT ![r] = [at |-> place, run |-> i]]
  PROVE  /\ req' \in [Requests -> [at : RequestPlaces, run : RunIds \cup {0}]]
         /\ req'[r].at = place /\ req'[r].run = i
         /\ \A q \in Requests : q # r => req'[q] = req[q]
BY DEF RoutesTypeOK

LEMMA AnswerEffect ==
  ASSUME RoutesTypeOK, NEW r \in Requests, Answer(r)
  PROVE  /\ req' \in [Requests -> [at : RequestPlaces, run : RunIds \cup {0}]]
         /\ \A q \in Requests : RequestAdds(q)
<1>1. "idle" \in RequestPlaces
  BY DEF RequestPlaces
<1>2. /\ req' \in [Requests -> [at : RequestPlaces, run : RunIds \cup {0}]]
      /\ req'[r].at = "idle"
      /\ \A q \in Requests : q # r => req'[q] = req[q]
  BY <1>1, GoEffect, "idle" \in RequestPlaces DEF Answer, NoRequest
<1>. QED
  BY <1>2 DEF RequestAdds, HeldFits

LEMMA SameRequests ==
  ASSUME RoutesTypeOK, UNCHANGED req
  PROVE  /\ req' \in [Requests -> [at : RequestPlaces, run : RunIds \cup {0}]]
         /\ \A q \in Requests : RequestAdds(q)
BY DEF RoutesTypeOK, RequestAdds

LEMMA TellEffect ==
  ASSUME RoutesTypeOK, NEW i \in RunIds, NEW s, Tell(i, s),
         s \in TERMINAL => jobs'[i].status = s
  PROVE  ToldAdds
<1>1. told \in [RunIds -> SUBSET TERMINAL]
  BY DEF RoutesTypeOK
<1>2. CASE s \in TERMINAL
  <2>1. {s} \cap TERMINAL = {jobs'[i].status} /\ jobs'[i].status \in TERMINAL
    BY <1>2
  <2>. QED
    BY <2>1 DEF Tell, ToldAdds
<1>3. CASE s \notin TERMINAL
  <2>1. told[i] \cup ({s} \cap TERMINAL) = told[i]
    BY <1>3
  <2>2. told' = [told EXCEPT ![i] = told[i]]
    BY <2>1 DEF Tell
  <2>. QED
    BY <1>1, <2>2 DEF ToldAdds
<1>. QED
  BY <1>2, <1>3

\* A row that is there is a row that was given out.
LEMMA PresentIsUsed ==
  ASSUME TypeOK, UnusedAreAbsent, NEW i \in RunIds, jobs[i].status # ABSENT
  PROVE  i <= lastSeq
BY RowTypes, NoRowFields DEF UnusedAreAbsent

LEMMA AcceptEffect ==
  ASSUME NEW i \in RunIds, NEW post \in Post, Accept(i, post),
         i <= lastSeq', jobs'[i].status # ABSENT,
         jobs'[i].idempotency_key = post.key,
         jobs'[i].request = post.body, jobs'[i].keep = post.keep
  PROVE  AcceptedAdds
<1> DEFINE a == [id |-> i, post |-> post]
<1>1. a \in [id : RunIds, post : Post] /\ a.id = i /\ a.post = post
  OBVIOUS
<1>2. OwnRun(a)' /\ jobs'[a.id].status # ABSENT
  BY <1>1 DEF OwnRun, SameBody
<1>3. accepted' = accepted \/ accepted' = accepted \cup {a}
  BY DEF Accept
<1>. QED
  BY <1>1, <1>2, <1>3 DEF AcceptedAdds

LEMMA PostNewShape ==
  ASSUME RoutesInv, NEW r \in Requests, PostNew(r)
  PROVE  RouteShape
<1>1. RoutesTypeOK /\ TypeOK
  BY DEF RoutesInv, RoutesTypeOK
<1>2. PICK post \in Posts : /\ Submit(post.key, post.body, post.keep)
                            /\ Accept(lastSeq + 1, post)
  BY DEF PostNew
<1>3. post \in Post /\ post.key \in Keys \cup {None} /\ post.body \in Bodies /\ post.keep \in BOOLEAN
  BY PostsAssumption DEF Post
<1>4. QueueNext
  BY <1>2, <1>3 DEF QueueNext, ClientStep
<1>5. PICK n \in RunIds : n = lastSeq + 1 /\ n <= lastSeq'
  BY <1>1, <1>2, BoundsAssumption DEF TypeOK, Submit, RunIds
<1>6. /\ jobs'[n].status = PENDING
      /\ jobs'[n].request = post.body /\ jobs'[n].keep = post.keep
      /\ jobs'[n].idempotency_key = post.key
  <2> DEFINE row == [NoRow EXCEPT !.status = PENDING, !.request = post.body,
                                  !.idempotency_key = post.key, !.keep = post.keep]
  <2>1. jobs' = [jobs EXCEPT ![n] = row]
    BY <1>2, <1>5 DEF Submit
  <2>2. jobs'[n] = row
    BY <1>1, <2>1, OneRow
  <2>3. /\ row.status = PENDING /\ row.request = post.body
        /\ row.keep = post.keep /\ row.idempotency_key = post.key
    BY NoRowIsRow, InsertedFields
  <2>. QED
    BY <2>2, <2>3
<1>7. AcceptedAdds
  BY <1>2, <1>3, <1>5, <1>6, AcceptEffect, StatusesDiffer
<1>8. UNCHANGED <<req, told, acked>>
  BY DEF PostNew
<1>. QED
  BY <1>1, <1>4, <1>7, <1>8, SameRequests DEF RouteShape, ToldAdds, AckedAdds

LEMMA PostAgainShape ==
  ASSUME RoutesInv, NEW r \in Requests, PostAgain(r)
  PROVE  RouteShape
<1>1. RoutesTypeOK /\ TypeOK /\ UnusedAreAbsent /\ AbsentIsNoRow
  BY DEF RoutesInv, RoutesTypeOK, QueueInv
<1>2. PICK post \in Posts, i \in RunIds :
        /\ KeyTaken(post.key) /\ jobs[i].idempotency_key = post.key
        /\ IF SameBody(i, post) THEN Accept(i, post) ELSE UNCHANGED accepted
  BY DEF PostAgain
<1>3. UNCHANGED <<jobs, artifacts, lastSeq, now, req, told, acked>>
  BY DEF PostAgain, queueVars
<1>4. AcceptedAdds
  <2>1. CASE UNCHANGED accepted
    BY <2>1 DEF AcceptedAdds
  <2>2. CASE SameBody(i, post) /\ Accept(i, post)
    <3>1. jobs[i].status # ABSENT
      BY <1>1, <1>2, NoRowFields DEF KeyTaken, AbsentIsNoRow, InStatus
    <3>2. i <= lastSeq'
      BY <1>1, <1>3, <3>1, PresentIsUsed
    <3>. QED
      BY <1>2, <1>3, <2>2, <3>1, <3>2, PostsAssumption, AcceptEffect DEF SameBody
  <2>. QED
    BY <1>2, <2>1, <2>2
<1>. QED
  BY <1>1, <1>3, <1>4, SameRequests DEF RouteShape, ToldAdds, AckedAdds, queueVars

LEMMA RespondShape ==
  ASSUME RoutesInv, NEW r \in Requests, NEW i \in RunIds, Respond(r, i)
  PROVE  RouteShape
<1>1. RoutesTypeOK /\ TypeOK /\ UnusedAreAbsent
  BY DEF RoutesInv, RoutesTypeOK, QueueInv
<1>2. UNCHANGED <<jobs, artifacts, lastSeq, now, accepted, acked>>
  BY DEF Respond, queueVars
<1>3. CASE jobs[i].status \in TERMINAL \ {DONE} /\ Answer(r) /\ Tell(i, jobs[i].status)
  BY <1>1, <1>2, <1>3, AnswerEffect, TellEffect
     DEF RouteShape, AckedAdds, AcceptedAdds, queueVars
<1>4. CASE jobs[i].status = DONE /\ GoTo(r, "splicing", i) /\ UNCHANGED told
  <2>1. /\ req' \in [Requests -> [at : RequestPlaces, run : RunIds \cup {0}]]
        /\ req'[r].at = "splicing" /\ req'[r].run = i
        /\ \A q \in Requests : q # r => req'[q] = req[q]
    BY <1>1, <1>4, GoEffect DEF GoTo, RequestPlaces
  <2>2. Settled(i, DONE)'
    BY <1>1, <1>2, <1>4, PresentIsUsed, StatusesDiffer DEF Settled
  <2>3. \A q \in Requests : RequestAdds(q)
    BY <2>1, <2>2 DEF RequestAdds, HeldFits
  <2>. QED
    BY <1>2, <1>4, <2>1, <2>3 DEF RouteShape, ToldAdds, AckedAdds, AcceptedAdds, queueVars
<1>5. CASE jobs[i].status \in {PENDING, RUNNING} /\ GoTo(r, "waiting", i) /\ UNCHANGED told
  <2>1. /\ req' \in [Requests -> [at : RequestPlaces, run : RunIds \cup {0}]]
        /\ req'[r].at = "waiting" /\ req'[r].run = i
        /\ \A q \in Requests : q # r => req'[q] = req[q]
    BY <1>1, <1>5, GoEffect DEF GoTo, RequestPlaces
  <2>2. \A q \in Requests : RequestAdds(q)
    BY <2>1 DEF RequestAdds, HeldFits
  <2>. QED
    BY <1>2, <1>5, <2>1, <2>2 DEF RouteShape, ToldAdds, AckedAdds, AcceptedAdds, queueVars
<1>. QED
  BY <1>3, <1>4, <1>5 DEF Respond

LEMMA WaitShape ==
  ASSUME RoutesInv, NEW r \in Requests,
         Wait(r) \/ RaiseIfGone(r) \/ ErrorAnswered(r)
  PROVE  RouteShape
<1>1. RoutesTypeOK /\ HeldFits(r)
  BY DEF RoutesInv, RequestsFit
<1>2. UNCHANGED <<jobs, artifacts, lastSeq, now, accepted, told, acked>>
  BY DEF Wait, RaiseIfGone, ErrorAnswered, queueVars
<1>3. /\ req' \in [Requests -> [at : RequestPlaces, run : RunIds \cup {0}]]
      /\ \A q \in Requests : RequestAdds(q)
  <2>1. CASE Answer(r)
    BY <1>1, <2>1, AnswerEffect
  <2>2. ASSUME NEW place \in {"again", "raised"}, GoTo(r, place, req[r].run), req[r].at # "idle"
        PROVE  <1>3
    <3>1. req[r].run \in RunIds
      BY <1>1, <2>2 DEF HeldFits
    <3>2. /\ req' \in [Requests -> [at : RequestPlaces, run : RunIds \cup {0}]]
          /\ req'[r].at = place /\ req'[r].run = req[r].run
          /\ \A q \in Requests : q # r => req'[q] = req[q]
      BY <1>1, <2>2, <3>1, GoEffect DEF GoTo, RequestPlaces
    <3>. QED
      BY <3>1, <3>2 DEF RequestAdds, HeldFits
  <2>. QED
    BY <2>1, <2>2 DEF Wait, RaiseIfGone, ErrorAnswered
<1>. QED
  BY <1>2, <1>3 DEF RouteShape, ToldAdds, AckedAdds, AcceptedAdds, queueVars

LEMMA SpliceShape ==
  ASSUME RoutesInv, NEW r \in Requests, Splice(r)
  PROVE  RouteShape
<1>1. RoutesTypeOK /\ HeldFits(r)
  BY DEF RoutesInv, RequestsFit
<1>2. UNCHANGED <<jobs, artifacts, lastSeq, now, accepted, acked>>
  BY DEF Splice, queueVars
<1>3. /\ Answer(r) /\ Tell(req[r].run, DONE) /\ req[r].run \in RunIds
      /\ jobs'[req[r].run].status = DONE
  BY <1>1, <1>2 DEF Splice, HeldFits, Settled
<1>. QED
  BY <1>1, <1>2, <1>3, AnswerEffect, TellEffect
     DEF RouteShape, AckedAdds, AcceptedAdds, queueVars

\* A row whose cancel was just made, or that was cancelled before, is stuck.
LEMMA CancelRunShape ==
  ASSUME RoutesInv, NEW r \in Requests, NEW i \in RunIds, CancelRun(r, i)
  PROVE  RouteShape
<1>1. RoutesTypeOK /\ TypeOK /\ UnusedAreAbsent
  BY DEF RoutesInv, RoutesTypeOK, QueueInv
<1>2. UNCHANGED <<accepted, acked>>
  BY DEF CancelRun
<1>3. ASSUME GoTo(r, "recheck", i), UNCHANGED told, Stuck(i)', [QueueNext]_queueVars
      PROVE  RouteShape
  <2>1. /\ req' \in [Requests -> [at : RequestPlaces, run : RunIds \cup {0}]]
        /\ req'[r].at = "recheck" /\ req'[r].run = i
        /\ \A q \in Requests : q # r => req'[q] = req[q]
    BY <1>1, <1>3, GoEffect DEF GoTo, RequestPlaces
  <2>2. \A q \in Requests : RequestAdds(q)
    BY <1>3, <2>1 DEF RequestAdds, HeldFits
  <2>. QED
    BY <1>2, <1>3, <2>1, <2>2 DEF RouteShape, ToldAdds, AckedAdds, AcceptedAdds
<1>4. CASE Cancel(i) /\ GoTo(r, "recheck", i) /\ UNCHANGED told
  <2>1. QueueNext
    BY <1>4 DEF QueueNext, ClientStep
  <2>2. i <= lastSeq /\ lastSeq' = lastSeq
    BY <1>1, <1>4, PresentIsUsed, StatusesDiffer DEF Cancel
  <2>3. jobs[i] \in Row
    BY <1>1 DEF TypeOK
  <2>4. CASE /\ jobs[i].status = PENDING
             /\ jobs' = [jobs EXCEPT ![i] = [@ EXCEPT !.status = CANCELLED, !.finished = now]]
    <3>1. jobs'[i] = [jobs[i] EXCEPT !.status = CANCELLED, !.finished = now]
      BY <1>1, <2>4 DEF TypeOK
    <3>2. jobs'[i].status = CANCELLED
      BY <2>3, <3>1 DEF Row
    <3>. QED
      BY <1>3, <1>4, <2>1, <2>2, <3>2, StatusesDiffer DEF Stuck, TERMINAL
  <2>5. CASE /\ jobs[i].status = RUNNING
             /\ jobs' = [jobs EXCEPT ![i] = [@ EXCEPT !.cancel_requested = TRUE]]
    <3>1. jobs'[i] = [jobs[i] EXCEPT !.cancel_requested = TRUE]
      BY <1>1, <2>5 DEF TypeOK
    <3>2. jobs'[i].cancel_requested /\ jobs'[i].status = RUNNING
      BY <2>3, <2>5, <3>1 DEF Row
    <3>. QED
      BY <1>3, <1>4, <2>1, <2>2, <3>2, StatusesDiffer DEF Stuck
  <2>. QED
    BY <1>4, <2>4, <2>5 DEF Cancel
<1>5. CASE jobs[i].status = CANCELLED /\ GoTo(r, "recheck", i) /\ UNCHANGED <<queueVars, told>>
  <2>1. i <= lastSeq
    BY <1>1, <1>5, PresentIsUsed, StatusesDiffer DEF TERMINAL
  <2>2. Stuck(i)'
    BY <1>5, <2>1, StatusesDiffer DEF Stuck, queueVars, TERMINAL
  <2>. QED
    BY <1>3, <1>5, <2>2
<1>6. CASE Tell(i, jobs[i].status) /\ UNCHANGED <<queueVars, req>>
  BY <1>1, <1>2, <1>6, TellEffect, SameRequests
     DEF RouteShape, AckedAdds, AcceptedAdds, queueVars
<1>. QED
  BY <1>4, <1>5, <1>6 DEF CancelRun

LEMMA RecheckShape ==
  ASSUME RoutesInv, NEW r \in Requests, Recheck(r)
  PROVE  RouteShape
<1>1. RoutesTypeOK /\ HeldFits(r)
  BY DEF RoutesInv, RequestsFit
<1>2. PICK i \in RunIds : i = req[r].run
  BY <1>1 DEF Recheck, HeldFits
<1>3. UNCHANGED <<jobs, artifacts, lastSeq, now, accepted>>
  BY DEF Recheck, queueVars
<1>4. Answer(r) /\ Tell(i, jobs[i].status) /\ acked' = acked \cup {i}
  BY <1>2 DEF Recheck
<1>5. Stuck(i)'
  BY <1>1, <1>2, <1>3 DEF Recheck, HeldFits, Stuck
<1>. QED
  BY <1>1, <1>3, <1>4, <1>5, AnswerEffect, TellEffect
     DEF RouteShape, AckedAdds, AcceptedAdds, queueVars

LEMMA RouteStep == RoutesInv /\ [RoutesNext]_servedVars => RouteShape
<1> SUFFICES ASSUME RoutesInv, [RoutesNext]_servedVars PROVE RouteShape
  OBVIOUS
<1>1. RoutesTypeOK
  BY DEF RoutesInv
<1>2. ASSUME NEW r \in Requests, Request(r) PROVE RouteShape
  <2>1. CASE PostNew(r)
    BY <2>1, PostNewShape
  <2>2. CASE PostAgain(r)
    BY <2>2, PostAgainShape
  <2>3. CASE GetRun(r)
    BY <2>3, RespondShape DEF GetRun
  <2>4. CASE LookAgain(r)
    <3>1. req[r].run \in RunIds
      BY <2>4 DEF LookAgain, RoutesInv, RequestsFit, HeldFits
    <3>2. PICK i \in RunIds : i = req[r].run
      BY <3>1
    <3>. QED
      BY <2>4, <3>2, RespondShape DEF LookAgain
  <2>5. CASE Wait(r) \/ RaiseIfGone(r) \/ ErrorAnswered(r)
    BY <2>5, WaitShape
  <2>6. CASE Splice(r)
    BY <2>6, SpliceShape
  <2>7. CASE \E i \in RunIds : CancelRun(r, i)
    BY <2>7, CancelRunShape
  <2>8. CASE Recheck(r)
    BY <2>8, RecheckShape
  <2>. QED
    BY <1>2, <2>1, <2>2, <2>3, <2>4, <2>5, <2>6, <2>7, <2>8 DEF Request
<1>3. CASE (WorkerStep \/ Tick) /\ UNCHANGED routeVars
  BY <1>1, <1>3, SameRequests
     DEF routeVars, QueueNext, RouteShape, ToldAdds, AckedAdds, AcceptedAdds
<1>4. CASE UNCHANGED servedVars
  BY <1>1, <1>4, SameRequests
     DEF servedVars, queueVars, RouteShape, ToldAdds, AckedAdds, AcceptedAdds
<1>. QED
  BY <1>2, <1>3, <1>4 DEF RoutesNext

----------------------------------------------------------------------------
(* The inductive invariant, conjunct by conjunct.                          *)

LEMMA RoutesTypeStep == RoutesInv /\ RouteShape => RoutesTypeOK'
<1> SUFFICES ASSUME RoutesInv, RouteShape PROVE RoutesTypeOK'
  OBVIOUS
<1>1. RoutesTypeOK /\ QueueInv
  BY DEF RoutesInv
<1>2. TypeOK'
  BY <1>1, QueueInvStep DEF RouteShape, QueueInv
<1>3. told' \in [RunIds -> SUBSET TERMINAL]
  BY <1>1 DEF RoutesTypeOK, RouteShape, ToldAdds
<1>4. acked' \subseteq RunIds
  BY <1>1 DEF RoutesTypeOK, RouteShape, AckedAdds
<1>5. accepted' \subseteq [id : RunIds, post : Post]
  BY <1>1 DEF RoutesTypeOK, RouteShape, AcceptedAdds
<1>. QED
  BY <1>2, <1>3, <1>4, <1>5 DEF RoutesTypeOK, RouteShape

LEMMA RequestsStep == RoutesInv /\ RouteShape => RequestsFit'
<1> SUFFICES ASSUME RoutesInv, RouteShape, NEW r \in Requests PROVE HeldFits(r)'
  BY DEF RequestsFit
<1>1. TypeOK /\ UnusedAreAbsent /\ HeldFits(r) /\ [QueueNext]_queueVars
  BY DEF RoutesInv, QueueInv, RequestsFit, RouteShape
<1>2. CASE req'[r] = req[r]
  <2>1. CASE req[r].at = "idle"
    BY <1>2, <2>1 DEF HeldFits
  <2>2. CASE req[r].at # "idle"
    <3>1. PICK i \in RunIds : i = req[r].run
      BY <1>1, <2>2 DEF HeldFits
    <3>2. req'[r].at = "splicing" => Settled(i, DONE)'
      BY <1>1, <1>2, <3>1, SettledStays DEF HeldFits, TERMINAL
    <3>3. req'[r].at = "recheck" => Stuck(i)'
      BY <1>1, <1>2, <3>1, StuckStays DEF HeldFits
    <3>. QED
      BY <1>2, <3>1, <3>2, <3>3 DEF HeldFits, Settled, Stuck
  <2>. QED
    BY <2>1, <2>2
<1>. QED
  BY <1>2 DEF RouteShape, RequestAdds

\* A run whose outcome was told is told no other: the row is that outcome's
\* until it is gone.
LEMMA ToldStep == RoutesInv /\ RouteShape => ToldFit'
<1> SUFFICES ASSUME RoutesInv, RouteShape, NEW i \in RunIds, told'[i] # {}
             PROVE  \E s \in TERMINAL : told'[i] = {s} /\ Settled(i, s)'
  BY DEF ToldFit
<1>1. /\ TypeOK /\ UnusedAreAbsent /\ [QueueNext]_queueVars
      /\ told \in [RunIds -> SUBSET TERMINAL]
      /\ told[i] # {} => \E s \in TERMINAL : told[i] = {s} /\ Settled(i, s)
      /\ TypeOK' /\ UnusedAreAbsent'
  BY QueueInvStep DEF RoutesInv, QueueInv, RoutesTypeOK, ToldFit, RouteShape
<1>2. told[i] # {} => \E s \in TERMINAL : told[i] = {s} /\ Settled(i, s)'
  BY <1>1, SettledStays
<1>3. CASE told'[i] = told[i]
  BY <1>2, <1>3
<1>4. CASE /\ told'[i] = told[i] \cup {jobs'[i].status}
           /\ jobs'[i].status \in TERMINAL
  <2>1. CASE told[i] = {}
    <3>1. i <= lastSeq'
      BY <1>1, <1>4, NoRowFields, StatusesDiffer, RowTypes, BoundsAssumption
         DEF UnusedAreAbsent, TypeOK, RunIds
    <3>. QED
      BY <1>4, <2>1, <3>1 DEF Settled
  <2>2. CASE told[i] # {}
    <3>1. PICK s \in TERMINAL : told[i] = {s} /\ Settled(i, s)'
      BY <1>2, <2>2
    <3>2. jobs'[i].status = s
      BY <1>4, <3>1, StatusesDiffer DEF Settled
    <3>. QED
      BY <1>4, <3>1, <3>2
  <2>. QED
    BY <2>1, <2>2
<1>. QED
  BY <1>1, <1>3, <1>4 DEF RouteShape, ToldAdds

LEMMA AckedStep == RoutesInv /\ RouteShape => AckedFit'
<1> SUFFICES ASSUME RoutesInv, RouteShape, NEW i \in acked' PROVE Stuck(i)'
  BY DEF AckedFit
<1>1. TypeOK /\ UnusedAreAbsent /\ [QueueNext]_queueVars /\ acked \subseteq RunIds /\ AckedFit
  BY DEF RoutesInv, QueueInv, RoutesTypeOK, RouteShape
<1>2. CASE i \in acked
  BY <1>1, <1>2, StuckStays DEF AckedFit
<1>3. CASE i \notin acked
  BY <1>3 DEF RouteShape, AckedAdds
<1>. QED
  BY <1>2, <1>3

LEMMA AcceptedStep == RoutesInv /\ RouteShape => AcceptedFit'
<1> SUFFICES ASSUME RoutesInv, RouteShape, NEW a \in accepted' PROVE OwnRun(a)'
  BY DEF AcceptedFit
<1>1. /\ TypeOK /\ UnusedAreAbsent /\ AbsentIsNoRow /\ [QueueNext]_queueVars
      /\ accepted \subseteq [id : RunIds, post : Post] /\ AcceptedFit
  BY DEF RoutesInv, QueueInv, RoutesTypeOK, RouteShape
<1>2. CASE a \in accepted
  BY <1>1, <1>2, OwnRunStays DEF AcceptedFit
<1>3. CASE a \notin accepted
  BY <1>3 DEF RouteShape, AcceptedAdds
<1>. QED
  BY <1>2, <1>3

\* An id is answered while its row is there, so the row itself tells whether
\* another submission may be answered it.
LEMMA OneBodyStep == RoutesInv /\ RouteShape => OneBody'
<1> SUFFICES ASSUME RoutesInv, RouteShape, NEW a \in accepted', NEW b \in accepted', a.id = b.id
             PROVE  a.post = b.post
  BY DEF OneBody
<1>1. OneBody /\ AcceptedFit' /\ RoutesTypeOK'
  BY AcceptedStep, RoutesTypeStep DEF RoutesInv
<1>2. OwnRun(a)' /\ OwnRun(b)' /\ a.post \in Post /\ b.post \in Post
  BY <1>1 DEF AcceptedFit, RoutesTypeOK
<1>3. CASE jobs'[a.id].status # ABSENT
  <2>1. /\ a.post.key = b.post.key /\ a.post.body = b.post.body
        /\ a.post.keep = b.post.keep
    BY <1>2, <1>3 DEF OwnRun, SameBody
  <2>. QED
    BY <1>2, <2>1 DEF Post
<1>4. CASE jobs'[a.id].status = ABSENT
  <2>1. a \in accepted /\ b \in accepted
    BY <1>4 DEF RouteShape, AcceptedAdds
  <2>. QED
    BY <1>1, <2>1 DEF OneBody
<1>. QED
  BY <1>3, <1>4

LEMMA RoutesInvInit == RoutesInit => RoutesInv
<1> SUFFICES ASSUME RoutesInit PROVE RoutesInv
  OBVIOUS
<1>1. QueueInv
  BY QueueInvInit DEF RoutesInit
<1>2. \A i \in RunIds : jobs[i] = NoRow
  BY DEF RoutesInit, QueueInit
<1>3. RoutesTypeOK
  BY <1>1 DEF RoutesInit, RoutesTypeOK, QueueInv, NoRequest, RequestPlaces
<1>. QED
  BY <1>1, <1>2, <1>3
     DEF RoutesInit, RoutesInv, AbsentIsNoRow, InStatus, RequestsFit, HeldFits, NoRequest, ToldFit,
         AckedFit, AcceptedFit, OneBody

LEMMA RoutesInvStep == RoutesInv /\ [RoutesNext]_servedVars => RoutesInv'
<1> SUFFICES ASSUME RoutesInv, [RoutesNext]_servedVars PROVE RoutesInv'
  OBVIOUS
<1>1. RouteShape
  BY RouteStep
<1>2. QueueInv' /\ AbsentIsNoRow'
  BY <1>1, QueueInvStep, AbsentStays DEF RouteShape, RoutesInv, QueueInv
<1>. QED
  BY <1>1, <1>2, RoutesTypeStep, RequestsStep, ToldStep, AckedStep, AcceptedStep, OneBodyStep
     DEF RoutesInv

----------------------------------------------------------------------------
(* The theorems.                                                           *)

\* The inductive invariant, over every interleaving of requests and worker.
THEOREM RoutesInvariant == RoutesSpec => []RoutesInv
BY RoutesInvInit, RoutesInvStep, PTL DEF RoutesSpec

\* The routes and the worker together do to the queue only what the queue's own
\* specification allows, so what is proved of the queue holds under them.
THEOREM RoutesUseQueue == RoutesSpec => QueueSpec
<1>1. RoutesInit => QueueInit
  BY DEF RoutesInit
<1>2. RoutesInv /\ [RoutesNext]_servedVars => [QueueNext]_queueVars
  BY RouteStep DEF RouteShape
<1>. QED
  BY <1>1, <1>2, RoutesInvariant, PTL DEF RoutesSpec, QueueSpec

\* Callers of GET and cancel are told at most one final status of a run, the
\* row's own, however many ask and whatever the worker does (get_run, cancel_run).
THEOREM OneOutcomeIsTold == RoutesSpec => []ToldOneOutcome
<1>1. RoutesInv => ToldOneOutcome
  <2> SUFFICES ASSUME RoutesInv, NEW i \in RunIds
               PROVE  /\ Cardinality(told[i]) <= 1
                      /\ jobs[i].status # ABSENT => told[i] \subseteq {jobs[i].status}
    BY DEF ToldOneOutcome
  <2>1. CASE told[i] = {}
    BY <2>1, FS_EmptySet
  <2>2. CASE told[i] # {}
    <3>1. PICK s \in TERMINAL : told[i] = {s} /\ Settled(i, s)
      BY <2>2 DEF RoutesInv, ToldFit
    <3>2. Cardinality(told[i]) = 1
      BY <3>1, FS_Singleton
    <3>. QED
      BY <3>1, <3>2 DEF Settled
  <2>. QED
    BY <2>1, <2>2
<1>. QED
  BY <1>1, RoutesInvariant, PTL

\* An id answered for a key is of the body that was sent with it, and no two
\* bodies are answered one id, over any number of retries, concurrent
\* submissions and purges (submit, body_sha256).
THEOREM AcceptedAreOwnRuns == RoutesSpec => []AcceptedIsOwnRun
<1>1. RoutesInv => AcceptedIsOwnRun
  BY DEF RoutesInv, AcceptedFit, OwnRun, OneBody, AcceptedIsOwnRun
<1>. QED
  BY <1>1, RoutesInvariant, PTL

\* A run whose cancel was answered does not run to its end unflagged: it is
\* never pending again, over any number of restarts of the worker set
\* (cancel_run, requeue_running).
THEOREM AnsweredCancelsStick == RoutesSpec => []CancelSticks
<1>1. RoutesInv => CancelSticks
  BY DEF RoutesInv, AckedFit, Stuck, CancelSticks
<1>. QED
  BY <1>1, RoutesInvariant, PTL

============================================================================
