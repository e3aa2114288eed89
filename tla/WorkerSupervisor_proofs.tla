---------------------- MODULE WorkerSupervisor_proofs ----------------------
(***************************************************************************)
(* Proofs about the worker supervisors, for any number of API processes,   *)
(* request threads, workers and queues: one child to a process, failed     *)
(* starts that are its own, and a serving worker that requests see.        *)
(*                                                                         *)
(* SupervisorInv is the inductive invariant.  Three things hold it         *)
(* together: who holds the host's lock is told by where the workers and    *)
(* the threads are; a worker and the supervisor that launched it know each *)
(* other until one of them is gone; and a supervisor has no child while a  *)
(* thread is in its lock.                                                  *)
(***************************************************************************)
EXTENDS WorkerSupervisor, FiniteSetTheorems, TLAPS

Processes == [at     : {"off", "locking", "holding", "serving", "exited"},
              parent : Apis \cup {None},
              serves : Queues \cup {None},
              status : {0, ERROR, EXIT_HOST_OWNED},
              worked : BOOLEAN]

Supervisors == [child : Workers \cup {None}, mutex : Requests \cup {None},
                failed : Nat, launchFailed : BOOLEAN, claimed : BOOLEAN, barren : Nat]

LockRecords == [who : Workers, queue : Queues]

Asked == [pc       : {"idle", "ensure", "probe", "drop", "status",
                      "owner", "read", "free", "answer"},
          task     : {None, "submit", "poll"},
          owner    : LockRecords \cup {None},
          failed   : Nat,
          servedBy : Workers \cup {None}]

SupTypeOK ==
  /\ queueOf \in [Apis -> Queues]
  /\ holder \in Workers \cup Requests \cup {None}
  /\ record \in LockRecords \cup {None}
  /\ proc \in [Workers -> Processes]
  /\ sup \in [Apis -> Supervisors]
  /\ req \in [Requests -> Asked]
  /\ runs \in [Queues -> Nat]
  /\ pending \in [Queues -> Nat]
  /\ faults \in Nat

\* A worker: nothing is left of one that is off; one past the lock, and no
\* other, holds it, and has written the record once it serves.
WorkerFits(w) ==
  /\ proc[w].at = "off" => proc[w] = NoProcess
  /\ proc[w].at # "off" => proc[w].serves \in Queues
  /\ proc[w].at \in {"holding", "serving"} <=> holder = w
  /\ proc[w].at = "serving" => record = [who |-> w, queue |-> proc[w].serves]

\* A worker with a parent: it is its child, works for its queue, and the
\* parent knows when it has claimed a run.
ParentFits(w) ==
  proc[w].parent # None => /\ sup[proc[w].parent].child = w
                           /\ proc[w].serves = queueOf[proc[w].parent]
                           /\ proc[w].worked => sup[proc[w].parent].claimed

\* A supervisor: its child knows it, it has none while a thread is in its lock.
ChildFits(a) == /\ sup[a].child # None => proc[sup[a].child].parent = a
                /\ sup[a].mutex # None => sup[a].child = None

\* A thread: one that checks or starts is in its supervisor's lock; one that
\* looks at the host's lock holds it; what it was served by serves still.
ThreadFits(t) ==
  /\ req[t].pc \in {"probe", "drop"} => sup[Sup(t)].mutex = t
  /\ req[t].pc \in {"drop", "free"} <=> holder = t
  /\ req[t].servedBy # None => Serves(req[t].servedBy, queueOf[Sup(t)])
  /\ req[t].pc = "answer" /\ req[t].servedBy # None => Serving(t)

WorkersFit     == \A w \in Workers : WorkerFits(w)
ParentsFit     == \A w \in Workers : ParentFits(w)
SupervisorsFit == \A a \in Apis : ChildFits(a)
ThreadsFit     == \A t \in Requests : ThreadFits(t)

SupervisorInv == /\ SupTypeOK
                 /\ WorkersFit
                 /\ ParentsFit
                 /\ SupervisorsFit
                 /\ ThreadsFit
                 /\ FailedStartsAreItsOwn

----------------------------------------------------------------------------
(* Words the provers need.                                                 *)

LEMMA Names ==
  /\ ERROR = 1 /\ EXIT_HOST_OWNED = 3 /\ FAILED_STARTS_REPORTED = 2
  /\ ApiOf \in [Requests -> Apis]
  /\ None \notin Apis /\ None \notin Requests /\ None \notin Workers /\ None \notin Queues
  /\ None \notin LockRecords
  /\ Workers \cap Requests = {}
BY SupervisorAssumption DEF ERROR, EXIT_HOST_OWNED, FAILED_STARTS_REPORTED, LockRecords

LEMMA Records ==
  /\ NoProcess \in Processes
  /\ NoProcess.at = "off" /\ NoProcess.parent = None /\ NoProcess.serves = None
  /\ NoProcess.status = 0 /\ NoProcess.worked = FALSE
  /\ NewSupervisor \in Supervisors
  /\ NewSupervisor.child = None /\ NewSupervisor.mutex = None
  /\ NewSupervisor.failed = 0 /\ NewSupervisor.barren = 0
  /\ NoRequest \in Asked
  /\ NoRequest.pc = "idle" /\ NoRequest.servedBy = None
BY DEF NoProcess, Processes, NewSupervisor, Supervisors, NoRequest, Asked

LEMMA InvParts ==
  ASSUME SupervisorInv
  PROVE  SupTypeOK /\ WorkersFit /\ ParentsFit /\ SupervisorsFit /\ ThreadsFit
         /\ FailedStartsAreItsOwn
BY DEF SupervisorInv

LEMMA RecordedFields ==
  ASSUME SupervisorInv, NEW a \in Apis, HasExited(a)
  PROVE  /\ sup[a].child \in Workers
         /\ proc[sup[a].child].parent = a
         /\ proc[sup[a].child].at = "exited"
         /\ Recorded(a) \in Supervisors
         /\ Recorded(a).child = None
         /\ Recorded(a).mutex = sup[a].mutex
         /\ Recorded(a).failed <= Recorded(a).barren
<1>. USE Names, InvParts
<1>1. sup[a] \in Supervisors /\ sup[a].child \in Workers
  BY DEF SupTypeOK, HasExited, Supervisors
<1>. DEFINE w == sup[a].child
<1>2. proc[w] \in Processes /\ proc[w].parent = a
  BY <1>1 DEF SupTypeOK, SupervisorsFit, ChildFits
<1>3. proc[w].at = "exited"
  BY <1>1, <1>2, Records DEF HasExited, Alive, WorkersFit, WorkerFits, Processes
<1>4. proc[w].worked => sup[a].claimed
  BY <1>1, <1>2 DEF ParentsFit, ParentFits
<1>5. sup[a].failed <= sup[a].barren
  BY DEF FailedStartsAreItsOwn
<1>6. Recorded(a) \in Supervisors
  <2>1. sup[a].failed \in Nat /\ sup[a].barren \in Nat
    BY <1>1 DEF Supervisors
  <2>. DEFINE failed == IF FailedStart(a) THEN sup[a].failed + 1 ELSE 0
              barren == IF proc[w].status = ERROR /\ ~proc[w].worked THEN sup[a].barren + 1 ELSE 0
  <2>2. failed \in Nat /\ barren \in Nat
    BY <2>1
  <2>3. Recorded(a) = [sup[a] EXCEPT !.child = None, !.failed = failed, !.barren = barren]
    BY <1>1 DEF Recorded, Supervisors
  <2>. HIDE DEF failed, barren
  <2>. QED
    BY <1>1, <2>2, <2>3 DEF Supervisors
<1>7. /\ Recorded(a).child = None /\ Recorded(a).mutex = sup[a].mutex
      /\ Recorded(a).failed <= Recorded(a).barren
  BY <1>1, <1>2, <1>4, <1>5 DEF Recorded, FailedStart, Supervisors, Processes
<1>. QED
  BY <1>1, <1>2, <1>3, <1>6, <1>7

LEMMA ReapedFields ==
  ASSUME SupervisorInv, NEW a \in Apis
  PROVE  /\ Reaped(a) \in [Workers -> Processes]
         /\ \A w \in Workers : Reaped(a)[w] = IF w = sup[a].child THEN NoProcess ELSE proc[w]
BY InvParts, Records DEF SupTypeOK, Reaped

----------------------------------------------------------------------------
(* The workers.                                                            *)

LEMMA TakeLockInv ==
  ASSUME SupervisorInv, UNCHANGED queueOf,
         NEW v \in Workers, TakeLock(v)
  PROVE  SupervisorInv'
<1>. USE Names, InvParts DEF SupTypeOK, TakeLock, queueVars
<1>1. SupTypeOK'
  <2>1. /\ queueOf' \in [Apis -> Queues] /\ runs' \in [Queues -> Nat]
        /\ pending' \in [Queues -> Nat] /\ faults' \in Nat
    OBVIOUS
  <2>2. holder' \in Workers \cup Requests \cup {None}
    OBVIOUS
  <2>3. record' \in LockRecords \cup {None}
    OBVIOUS
  <2>4. proc' \in [Workers -> Processes]
    BY DEF Processes
  <2>5. sup' \in [Apis -> Supervisors]
    BY DEF Supervisors
  <2>6. req' \in [Requests -> Asked]
    BY DEF Asked
  <2>. QED
    BY <2>1, <2>2, <2>3, <2>4, <2>5, <2>6
<1>2. WorkersFit'
  BY DEF Processes, WorkersFit, WorkerFits
<1>3. ParentsFit'
  BY DEF Processes, WorkersFit, WorkerFits, ParentsFit, ParentFits
<1>4. SupervisorsFit'
  BY DEF Processes, SupervisorsFit, ChildFits
<1>5. ThreadsFit'
  BY DEF Processes, WorkersFit, WorkerFits, ThreadsFit, ThreadFits, Sup, Serves, Serving, Conflict
<1>6. FailedStartsAreItsOwn'
  BY DEF FailedStartsAreItsOwn
<1>. QED
  BY <1>1, <1>2, <1>3, <1>4, <1>5, <1>6 DEF SupervisorInv

LEMMA WriteRecordInv ==
  ASSUME SupervisorInv, UNCHANGED queueOf,
         NEW v \in Workers, WriteRecord(v)
  PROVE  SupervisorInv'
<1>. USE Names, InvParts DEF SupTypeOK, WriteRecord, queueVars
<1>1. SupTypeOK'
  <2>1. /\ queueOf' \in [Apis -> Queues] /\ runs' \in [Queues -> Nat]
        /\ pending' \in [Queues -> Nat] /\ faults' \in Nat
    OBVIOUS
  <2>2. holder' \in Workers \cup Requests \cup {None}
    OBVIOUS
  <2>3. record' \in LockRecords \cup {None}
    BY DEF LockRecords, Processes, WorkersFit, WorkerFits
  <2>4. proc' \in [Workers -> Processes]
    BY DEF Processes
  <2>5. sup' \in [Apis -> Supervisors]
    BY DEF Supervisors
  <2>6. req' \in [Requests -> Asked]
    BY DEF Asked
  <2>. QED
    BY <2>1, <2>2, <2>3, <2>4, <2>5, <2>6
<1>2. WorkersFit'
  BY DEF Processes, WorkersFit, WorkerFits
<1>3. ParentsFit'
  BY DEF Processes, ParentsFit, ParentFits
<1>4. SupervisorsFit'
  BY DEF Processes, SupervisorsFit, ChildFits
<1>5. ThreadsFit'
  BY DEF Processes, WorkersFit, WorkerFits, ThreadsFit, ThreadFits, Sup, Serves, Serving, Conflict
<1>6. FailedStartsAreItsOwn'
  BY DEF FailedStartsAreItsOwn
<1>. QED
  BY <1>1, <1>2, <1>3, <1>4, <1>5, <1>6 DEF SupervisorInv

\* Whatever ends a worker, its requests are told that it no longer serves.
LEMMA ExitsInv ==
  ASSUME SupervisorInv, UNCHANGED queueOf,
         NEW v \in Workers, Alive(v),
         NEW status \in {0, ERROR, EXIT_HOST_OWNED}, Exits(v, status),
         UNCHANGED <<record, sup, runs, pending>>, faults' \in Nat
  PROVE  SupervisorInv'
<1>. USE Names, InvParts DEF SupTypeOK, Alive, Exits, Drops, SeenGone
<1>. DEFINE left == IF proc[v].parent = None THEN NoProcess
                   ELSE [proc[v] EXCEPT !.at = "exited", !.status = status]
<1>1. /\ left \in Processes /\ left.at \in {"off", "exited"}
      /\ left.at = "off" => left = NoProcess
      /\ left.parent = proc[v].parent
      /\ left.at # "off" => left.serves = proc[v].serves /\ left.worked = proc[v].worked
  BY Records DEF Processes
<1>2. proc' = [proc EXCEPT ![v] = left]
  OBVIOUS
<1>. HIDE DEF left
<1>3. SupTypeOK'
  <2>1. /\ queueOf' \in [Apis -> Queues] /\ runs' \in [Queues -> Nat]
        /\ pending' \in [Queues -> Nat] /\ faults' \in Nat
    OBVIOUS
  <2>2. holder' \in Workers \cup Requests \cup {None}
    OBVIOUS
  <2>3. record' \in LockRecords \cup {None}
    OBVIOUS
  <2>4. proc' \in [Workers -> Processes]
    BY <1>1, <1>2
  <2>5. sup' \in [Apis -> Supervisors]
    BY DEF Supervisors
  <2>6. req' \in [Requests -> Asked]
    BY DEF Asked
  <2>. QED
    BY <2>1, <2>2, <2>3, <2>4, <2>5, <2>6
<1>4. WorkersFit'
  BY <1>1, <1>2 DEF WorkersFit, WorkerFits
<1>5. ParentsFit'
  BY <1>1, <1>2, Records DEF ParentsFit, ParentFits
<1>6. SupervisorsFit'
  BY <1>1, <1>2 DEF SupervisorsFit, ChildFits
<1>7. ThreadsFit'
  BY <1>1, <1>2
     DEF Asked, WorkersFit, WorkerFits, ThreadsFit, ThreadFits, Sup, Serves, Serving, Conflict
<1>8. FailedStartsAreItsOwn'
  BY DEF FailedStartsAreItsOwn
<1>. QED
  BY <1>3, <1>4, <1>5, <1>6, <1>7, <1>8 DEF SupervisorInv

LEMMA ClaimRunInv ==
  ASSUME SupervisorInv, UNCHANGED queueOf,
         NEW v \in Workers, ClaimRun(v)
  PROVE  SupervisorInv'
<1>. USE Names, InvParts
<1>1. UNCHANGED <<holder, record, req, runs, faults>> /\ proc[v].at = "serving"
  BY DEF ClaimRun
<1>2. /\ proc' \in [Workers -> Processes]
      /\ \A w \in Workers :
           /\ proc'[w].at = proc[w].at /\ proc'[w].parent = proc[w].parent
           /\ proc'[w].serves = proc[w].serves
           /\ proc[w].at = "off" => proc'[w] = proc[w]
           /\ w # v => proc'[w] = proc[w]
  <2>. DEFINE claimer == [proc[v] EXCEPT !.worked = TRUE]
  <2>1. proc[v] \in Processes
    BY DEF SupTypeOK
  <2>2. /\ claimer \in Processes /\ claimer.at = proc[v].at
        /\ claimer.parent = proc[v].parent /\ claimer.serves = proc[v].serves
    BY <2>1 DEF Processes
  <2>3. proc' = [proc EXCEPT ![v] = claimer]
    BY DEF ClaimRun
  <2>. HIDE DEF claimer
  <2>. QED
    BY <1>1, <2>2, <2>3 DEF SupTypeOK
<1>3. /\ sup' \in [Apis -> Supervisors]
      /\ \A a \in Apis :
           /\ sup'[a].child = sup[a].child /\ sup'[a].mutex = sup[a].mutex
           /\ sup'[a].failed = sup[a].failed /\ sup'[a].barren = sup[a].barren
           /\ sup[a].claimed => sup'[a].claimed
           /\ queueOf[a] = proc[v].serves => sup'[a].claimed
  <2>1. sup' = [a \in Apis |-> IF queueOf[a] = proc[v].serves
                                THEN [sup[a] EXCEPT !.claimed = TRUE] ELSE sup[a]]
    BY DEF ClaimRun
  <2>2. ASSUME NEW a \in Apis
        PROVE  /\ sup'[a] \in Supervisors
               /\ sup'[a].child = sup[a].child /\ sup'[a].mutex = sup[a].mutex
               /\ sup'[a].failed = sup[a].failed /\ sup'[a].barren = sup[a].barren
               /\ sup[a].claimed => sup'[a].claimed
               /\ queueOf[a] = proc[v].serves => sup'[a].claimed
    <3>1. sup[a] \in Supervisors /\ sup'[a] \in {sup[a], [sup[a] EXCEPT !.claimed = TRUE]}
      BY <2>1 DEF SupTypeOK
    <3>2. queueOf[a] = proc[v].serves => sup'[a] = [sup[a] EXCEPT !.claimed = TRUE]
      BY <2>1
    <3>. QED
      BY <3>1, <3>2 DEF Supervisors
  <2>3. sup' \in [Apis -> Supervisors]
    BY <2>1, <2>2
  <2>. QED
    BY <2>2, <2>3, Zenon
<1>4. pending' \in [Queues -> Nat]
  <2>1. PICK q \in Queues : q = proc[v].serves
    BY <1>1 DEF WorkersFit, WorkerFits
  <2>2. pending[q] > 0 /\ pending' = [pending EXCEPT ![q] = @ - 1]
    BY <2>1 DEF ClaimRun
  <2>3. pending[q] \in Nat /\ pending[q] - 1 \in Nat
    BY <2>2 DEF SupTypeOK
  <2>. QED
    BY <2>2, <2>3 DEF SupTypeOK
<1>5. SupTypeOK'
  BY <1>1, <1>2, <1>3, <1>4 DEF SupTypeOK
<1>6. WorkersFit'
  BY <1>1, <1>2 DEF WorkersFit, WorkerFits
<1>7. ParentsFit'
  <2>. SUFFICES ASSUME NEW w \in Workers, proc[w].parent # None
                PROVE  ParentFits(w)'
    BY <1>2 DEF ParentsFit, ParentFits
  <2>1. PICK a \in Apis : a = proc[w].parent
    BY DEF SupTypeOK, Processes
  <2>. QED
    BY <1>2, <1>3, <2>1 DEF ParentsFit, ParentFits
<1>8. SupervisorsFit'
  BY <1>2, <1>3 DEF SupervisorsFit, ChildFits, SupTypeOK, Supervisors
<1>9. ThreadsFit'
  <2>. SUFFICES ASSUME NEW t \in Requests
                PROVE  ThreadFits(t)'
    BY DEF ThreadsFit
  <2>1. ThreadFits(t) /\ Sup(t) \in Apis /\ req[t].servedBy \in Workers \cup {None}
    BY DEF ThreadsFit, Sup, SupTypeOK, Asked
  <2>. QED
    BY <1>1, <1>2, <1>3, <2>1 DEF ThreadFits, Sup, Serves, Serving, Conflict
<1>10. FailedStartsAreItsOwn'
  BY <1>3 DEF FailedStartsAreItsOwn
<1>. QED
  BY <1>5, <1>6, <1>7, <1>8, <1>9, <1>10 DEF SupervisorInv

----------------------------------------------------------------------------
(* The threads.                                                            *)

\* A step of thread t alone: of the workers nothing changes, of its supervisor
\* the lock at most, and that only while it has no child.
Moves(t) ==
  /\ UNCHANGED <<queueOf, record, proc>>
  /\ holder' # holder => {holder, holder'} \subseteq {t, None}
  /\ \A o \in Requests : o # t => req'[o] = req[o]
  /\ \A a \in Apis :
       /\ sup'[a].child = sup[a].child /\ sup'[a].claimed = sup[a].claimed
       /\ sup'[a].failed = sup[a].failed /\ sup'[a].barren = sup[a].barren
       /\ sup'[a].mutex # sup[a].mutex => /\ a = Sup(t) /\ sup[a].child = None
                                         /\ sup[a].mutex \in {t, None}

LEMMA MovesInv ==
  ASSUME SupervisorInv, NEW u \in Requests, Moves(u), SupTypeOK', ThreadFits(u)'
  PROVE  SupervisorInv'
<1>. USE Names, InvParts DEF Moves
<1>1. WorkersFit'
  BY DEF WorkersFit, WorkerFits
<1>2. ParentsFit'
  BY DEF ParentsFit, ParentFits, SupTypeOK, Processes
<1>3. SupervisorsFit'
  BY DEF SupervisorsFit, ChildFits
<1>4. ThreadsFit'
  <2>. SUFFICES ASSUME NEW t \in Requests, t # u
                PROVE  ThreadFits(t)'
    BY DEF ThreadsFit
  <2>1. ThreadFits(t) /\ req'[t] = req[t] /\ Sup(t) \in Apis
    BY DEF ThreadsFit, Sup
  <2>2. holder' = t <=> holder = t
    OBVIOUS
  <2>. QED
    BY <2>1, <2>2 DEF ThreadFits, Sup, Serves, Serving, Conflict
<1>5. FailedStartsAreItsOwn'
  BY DEF FailedStartsAreItsOwn
<1>. QED
  BY <1>1, <1>2, <1>3, <1>4, <1>5 DEF SupervisorInv

LEMMA GoesFields ==
  ASSUME SupTypeOK, NEW u \in Requests,
         NEW place \in {"probe", "drop", "status", "read", "free", "answer"}, Goes(u, place)
  PROVE  /\ req' \in [Requests -> Asked]
         /\ req'[u].pc = place
         /\ req'[u].owner = req[u].owner /\ req'[u].servedBy = req[u].servedBy
         /\ \A o \in Requests : o # u => req'[o] = req[o]
<1>. DEFINE asked == [req[u] EXCEPT !.pc = place]
<1>1. /\ asked \in Asked /\ asked.pc = place
      /\ asked.owner = req[u].owner /\ asked.servedBy = req[u].servedBy
  BY DEF SupTypeOK, Asked
<1>2. req' = [req EXCEPT ![u] = asked]
  BY DEF Goes
<1>. HIDE DEF asked
<1>. QED
  BY <1>1, <1>2 DEF SupTypeOK

\* A request leaves ensure_running.
LEMMA EnsureLeft ==
  ASSUME SupTypeOK, NEW u \in Requests,
         IF req[u].task = "submit" THEN req' = [req EXCEPT ![u] = NoRequest]
                                   ELSE Goes(u, "status")
  PROVE  /\ req' \in [Requests -> Asked]
         /\ req'[u].pc \in {"idle", "status"}
         /\ req'[u].servedBy \in {None, req[u].servedBy}
         /\ \A o \in Requests : o # u => req'[o] = req[o]
<1>1. CASE req[u].task = "submit"
  BY <1>1, Records DEF SupTypeOK
<1>2. CASE req[u].task # "submit"
  BY <1>2, GoesFields
<1>. QED
  BY <1>1, <1>2

LEMMA ProbeFreeInv ==
  ASSUME SupervisorInv, UNCHANGED queueOf,
         NEW u \in Requests, ProbeFree(u)
  PROVE  SupervisorInv'
<1>. USE Names, InvParts DEF SupTypeOK, ProbeFree, Goes, queueVars
<1>1. SupTypeOK'
  <2>1. req' \in [Requests -> Asked]
    BY DEF Asked
  <2>. QED
    BY <2>1
<1>2. Moves(u)
  BY DEF Moves
<1>3. ThreadFits(u)'
  BY DEF Asked, WorkersFit, WorkerFits, ThreadsFit, ThreadFits, Sup, Serves, Serving, Conflict
<1>. QED
  BY <1>1, <1>2, <1>3, MovesInv

LEMMA OwnerHeldInv ==
  ASSUME SupervisorInv, UNCHANGED queueOf,
         NEW u \in Requests, OwnerHeld(u)
  PROVE  SupervisorInv'
<1>. USE Names, InvParts DEF SupTypeOK, OwnerHeld, Goes, queueVars
<1>1. SupTypeOK'
  <2>1. req' \in [Requests -> Asked]
    BY SMTT(30) DEF Asked
  <2>. QED
    BY <2>1
<1>2. Moves(u)
  BY DEF Moves
<1>3. ThreadFits(u)'
  BY DEF Asked, WorkersFit, WorkerFits, ThreadsFit, ThreadFits, Sup, Serves, Serving, Conflict
<1>. QED
  BY <1>1, <1>2, <1>3, MovesInv

LEMMA OwnerFreeInv ==
  ASSUME SupervisorInv, UNCHANGED queueOf,
         NEW u \in Requests, OwnerFree(u)
  PROVE  SupervisorInv'
<1>. USE Names, InvParts DEF SupTypeOK, OwnerFree, Goes, queueVars
<1>1. SupTypeOK'
  <2>1. req' \in [Requests -> Asked]
    BY DEF Asked
  <2>. QED
    BY <2>1
<1>2. Moves(u)
  BY DEF Moves
<1>3. ThreadFits(u)'
  BY DEF Asked, WorkersFit, WorkerFits, ThreadsFit, ThreadFits, Sup, Serves, Serving, Conflict
<1>. QED
  BY <1>1, <1>2, <1>3, MovesInv

LEMMA OwnerDropInv ==
  ASSUME SupervisorInv, UNCHANGED queueOf,
         NEW u \in Requests, OwnerDrop(u)
  PROVE  SupervisorInv'
<1>. USE Names, InvParts DEF SupTypeOK, OwnerDrop, Goes, queueVars
<1>1. SupTypeOK'
  <2>1. req' \in [Requests -> Asked]
    BY DEF Asked
  <2>. QED
    BY <2>1
<1>2. Moves(u)
  BY DEF Moves, ThreadsFit, ThreadFits
<1>3. ThreadFits(u)'
  BY DEF Asked, WorkersFit, WorkerFits, ThreadsFit, ThreadFits, Sup, Serves, Serving, Conflict
<1>. QED
  BY <1>1, <1>2, <1>3, MovesInv

LEMMA ReadRecordInv ==
  ASSUME SupervisorInv, UNCHANGED queueOf,
         NEW u \in Requests, ReadRecord(u)
  PROVE  SupervisorInv'
<1>. USE Names, InvParts DEF SupTypeOK, ReadRecord, Goes, queueVars
<1>1. SupTypeOK'
  <2>1. req' \in [Requests -> Asked]
    BY DEF Asked
  <2>. QED
    BY <2>1
<1>2. Moves(u)
  BY DEF Moves
<1>3. ThreadFits(u)'
  BY DEF Asked, WorkersFit, WorkerFits, ThreadsFit, ThreadFits, Sup, Serves, Serving, Conflict
<1>. QED
  BY <1>1, <1>2, <1>3, MovesInv

LEMMA AnswerInv ==
  ASSUME SupervisorInv, UNCHANGED queueOf,
         NEW u \in Requests, Answer(u)
  PROVE  SupervisorInv'
<1>. USE Names, InvParts DEF SupTypeOK, Answer, queueVars
<1>1. SupTypeOK'
  <2>1. req' \in [Requests -> Asked]
    BY Records
  <2>. QED
    BY <2>1
<1>2. Moves(u)
  BY DEF Moves
<1>3. ThreadFits(u)'
  BY Records DEF WorkersFit, WorkerFits, ThreadsFit, ThreadFits, Sup, Serves, Serving, Conflict
<1>. QED
  BY <1>1, <1>2, <1>3, MovesInv

LEMMA BeginsInv ==
  ASSUME SupervisorInv, UNCHANGED queueOf,
         NEW u \in Requests, NEW task \in {"submit", "poll"}, NEW place \in {"owner", "ensure"},
         Begins(u, task, place), runs' \in [Queues -> Nat]
  PROVE  SupervisorInv'
<1>. USE Names, InvParts DEF SupTypeOK, Begins, queueVars
<1>1. SupTypeOK'
  <2>1. req' \in [Requests -> Asked]
    BY Records, ZenonT(40) DEF Asked
  <2>. QED
    BY <2>1
<1>2. Moves(u)
  BY DEF Moves
<1>3. ThreadFits(u)'
  BY Records DEF Asked, WorkersFit, WorkerFits, ThreadsFit, ThreadFits, Sup, Serves, Serving, Conflict
<1>. QED
  BY <1>1, <1>2, <1>3, MovesInv

LEMMA QueueInv ==
  ASSUME SupervisorInv, UNCHANGED queueOf,
         NEW u \in Requests, Queue(u)
  PROVE  SupervisorInv'
<1>. USE Names, InvParts DEF SupTypeOK
<1>1. /\ UNCHANGED <<holder, record, proc, sup, runs, faults>>
      /\ req[u].pc = "answer"
  BY DEF Queue
<1>2. pending' \in [Queues -> Nat]
  <2>1. PICK q \in Queues : q = queueOf[Sup(u)]
    BY DEF Sup
  <2>. QED
    BY <2>1 DEF Queue
<1>3. /\ req' \in [Requests -> Asked]
      /\ req'[u].pc \in {"idle", "ensure"} /\ req'[u].servedBy = None
      /\ \A o \in Requests : o # u => req'[o] = req[o]
  <2>. DEFINE queued == [NoRequest EXCEPT !.task = "submit", !.pc = "ensure"]
  <2>1. queued \in Asked /\ queued.pc = "ensure" /\ queued.servedBy = None
    BY Records DEF Asked
  <2>. HIDE DEF queued
  <2>2. req' = [req EXCEPT ![u] = NoRequest] \/ req' = [req EXCEPT ![u] = queued]
    BY DEF Queue, queued
  <2>. QED
    BY <2>1, <2>2, Records
<1>4. SupTypeOK' /\ Moves(u)
  BY <1>1, <1>2, <1>3 DEF Moves
<1>5. ThreadFits(u)'
  BY <1>1, <1>3 DEF ThreadsFit, ThreadFits
<1>. QED
  BY <1>4, <1>5, MovesInv

LEMMA ProbeHeldInv ==
  ASSUME SupervisorInv, UNCHANGED queueOf,
         NEW u \in Requests, ProbeHeld(u)
  PROVE  SupervisorInv'
<1>. USE Names, InvParts DEF SupTypeOK
<1>1. /\ UNCHANGED <<holder, record, proc, runs, pending, faults>>
      /\ req[u].pc = "probe"
      /\ sup' = [sup EXCEPT ![Sup(u)] = [sup[Sup(u)] EXCEPT !.mutex = None]]
  BY DEF ProbeHeld, LeaveEnsure, queueVars
<1>2. /\ req' \in [Requests -> Asked]
      /\ req'[u].pc \in {"idle", "status"} /\ req'[u].servedBy \in {None, req[u].servedBy}
      /\ \A o \in Requests : o # u => req'[o] = req[o]
  BY EnsureLeft DEF ProbeHeld, LeaveEnsure
<1>3. Sup(u) \in Apis /\ sup[Sup(u)].mutex = u /\ sup[Sup(u)].child = None
  BY <1>1 DEF Sup, ThreadsFit, ThreadFits, SupervisorsFit, ChildFits
<1>4. SupTypeOK' /\ Moves(u)
  BY <1>1, <1>2, <1>3, SMTT(30) DEF Moves, Supervisors
<1>5. ThreadFits(u)'
  BY <1>1, <1>2 DEF ThreadsFit, ThreadFits, Serves, Sup
<1>. QED
  BY <1>4, <1>5, MovesInv

\* A thread reads its child's exit in the supervisor's lock.
LEMMA ExitRecordedInv ==
  ASSUME SupervisorInv, NEW u \in Requests, NEW b \in Apis, b = Sup(u),
         HasExited(b), Free(b), proc' = Reaped(b),
         UNCHANGED <<queueOf, holder, record, runs, pending, faults>>,
         sup' \in [Apis -> Supervisors], \A a \in Apis : a # b => sup'[a] = sup[a],
         sup'[b].child = None, sup'[b].failed <= sup'[b].barren,
         req' \in [Requests -> Asked], \A o \in Requests : o # u => req'[o] = req[o],
         ThreadFits(u)'
  PROVE  SupervisorInv'
<1>. USE Names, InvParts
<1>1. PICK v \in Workers : v = sup[b].child
  BY RecordedFields
<1>2. /\ proc[v].parent = b /\ proc[v].at = "exited" /\ sup[b].mutex = None
      /\ proc' \in [Workers -> Processes]
      /\ \A w \in Workers : proc'[w] = IF w = v THEN NoProcess ELSE proc[w]
  BY <1>1, RecordedFields, ReapedFields DEF Free
<1>3. SupTypeOK'
  BY <1>2 DEF SupTypeOK
<1>4. WorkersFit'
  BY <1>2, Records DEF WorkersFit, WorkerFits
<1>5. ParentsFit'
  <2>. SUFFICES ASSUME NEW w \in Workers, w # v, proc[w].parent # None
                PROVE  ParentFits(w)'
    BY <1>2, Records DEF ParentsFit, ParentFits
  <2>1. PICK a \in Apis : a = proc[w].parent
    BY DEF SupTypeOK, Processes
  <2>2. sup[a].child = w /\ a # b
    BY <1>1, <2>1 DEF ParentsFit, ParentFits
  <2>. QED
    BY <1>2, <2>1, <2>2 DEF ParentsFit, ParentFits
<1>6. SupervisorsFit'
  <2>. SUFFICES ASSUME NEW a \in Apis, a # b
                PROVE  ChildFits(a)'
    BY DEF SupervisorsFit, ChildFits
  <2>1. ChildFits(a) /\ sup'[a] = sup[a] /\ sup[a].child \in Workers \cup {None}
    BY DEF SupervisorsFit, SupTypeOK, Supervisors
  <2>2. sup[a].child # v
    BY <1>2, <2>1 DEF ChildFits
  <2>. QED
    BY <1>2, <2>1, <2>2 DEF ChildFits
<1>7. ThreadsFit'
  <2>. SUFFICES ASSUME NEW t \in Requests, t # u
                PROVE  ThreadFits(t)'
    BY DEF ThreadsFit
  <2>1. ThreadFits(t) /\ req'[t] = req[t] /\ Sup(t) \in Apis
    BY DEF ThreadsFit, Sup
  <2>2. req[t].pc \in {"probe", "drop"} => Sup(t) # b
    BY <2>1 DEF ThreadFits, Free
  <2>3. req[t].servedBy # None => Serves(req[t].servedBy, queueOf[Sup(t)])'
    <3>1. req[t].servedBy \in Workers \cup {None}
      BY DEF SupTypeOK, Asked
    <3>. QED
      BY <1>2, <2>1, <3>1 DEF ThreadFits, Serves, Sup
  <2>. QED
    BY <2>1, <2>2, <2>3 DEF ThreadFits, Sup, Serving, Conflict
<1>8. FailedStartsAreItsOwn'
  BY DEF FailedStartsAreItsOwn
<1>. QED
  BY <1>3, <1>4, <1>5, <1>6, <1>7, <1>8 DEF SupervisorInv

\* ... which takes nothing from those it serves.
LEMMA ReapedServes ==
  ASSUME SupervisorInv, UNCHANGED queueOf, NEW b \in Apis, HasExited(b), proc' = Reaped(b),
         NEW t \in Requests, req[t].servedBy # None
  PROVE  /\ proc'[req[t].servedBy].at = "serving"
         /\ proc'[req[t].servedBy].serves = queueOf[Sup(t)]
<1>. USE Names, InvParts
<1>1. PICK w \in Workers : w = req[t].servedBy
  BY DEF SupTypeOK, Asked
<1>2. proc[w].at = "serving" /\ proc[w].serves = queueOf[Sup(t)]
  BY <1>1 DEF ThreadsFit, ThreadFits, Serves
<1>3. proc'[w] = proc[w]
  BY <1>2, RecordedFields, ReapedFields
<1>. QED
  BY <1>1, <1>2, <1>3

LEMMA CheckChildInv ==
  ASSUME SupervisorInv, UNCHANGED queueOf,
         NEW u \in Requests, CheckChild(u)
  PROVE  SupervisorInv'
<1>. USE Names, InvParts
<1>1. PICK b \in Apis : b = Sup(u)
  BY DEF Sup
<1>2. /\ UNCHANGED <<holder, record, runs, pending, faults>>
      /\ req[u].pc = "ensure" /\ Free(b)
  BY <1>1 DEF CheckChild, queueVars
<1>3. CASE /\ sup[b].child # None /\ ~HasExited(b)
           /\ LeaveEnsure(u, sup[b])
           /\ UNCHANGED proc
  <2>1. sup' \in [Apis -> Supervisors] /\ \A a \in Apis : /\ sup'[a].child = sup[a].child
           /\ sup'[a].claimed = sup[a].claimed /\ sup'[a].failed = sup[a].failed
           /\ sup'[a].barren = sup[a].barren /\ sup'[a].mutex = sup[a].mutex
    BY <1>1, <1>2, <1>3 DEF LeaveEnsure, Free, SupTypeOK, Supervisors
  <2>2. /\ req' \in [Requests -> Asked]
        /\ req'[u].pc \in {"idle", "status"} /\ req'[u].servedBy \in {None, req[u].servedBy}
        /\ \A o \in Requests : o # u => req'[o] = req[o]
    BY <1>3, EnsureLeft DEF LeaveEnsure
  <2>3. SupTypeOK' /\ Moves(u)
    BY <1>2, <1>3, <2>1, <2>2 DEF SupTypeOK, Moves
  <2>4. ThreadFits(u)'
    BY <1>2, <1>3, <2>2 DEF ThreadsFit, ThreadFits, Serves, Sup
  <2>. QED
    BY <2>3, <2>4, MovesInv
<1>4. CASE HasExited(b) /\ sup' = [sup EXCEPT ![b] = [Recorded(b) EXCEPT !.mutex = u]]
           /\ proc' = Reaped(b) /\ Goes(u, "probe")
  <2>1. /\ sup' \in [Apis -> Supervisors] /\ \A a \in Apis : a # b => sup'[a] = sup[a]
        /\ sup'[b].child = None /\ sup'[b].failed <= sup'[b].barren /\ sup'[b].mutex = u
    BY <1>4, RecordedFields DEF SupTypeOK, Supervisors
  <2>2. /\ req' \in [Requests -> Asked] /\ \A o \in Requests : o # u => req'[o] = req[o]
        /\ req'[u].pc = "probe" /\ req'[u].servedBy = req[u].servedBy
    BY <1>4, GoesFields
  <2>3. ThreadFits(u)'
    <3>1. req[u].servedBy # None => Serves(req[u].servedBy, queueOf[Sup(u)])'
      BY <1>1, <1>4, <2>2, ReapedServes DEF Serves, Sup
    <3>. QED
      BY <1>1, <1>2, <2>1, <2>2, <3>1 DEF ThreadsFit, ThreadFits, Sup
  <2>. QED
    BY <1>1, <1>2, <1>4, <2>1, <2>2, <2>3, ExitRecordedInv
<1>5. CASE /\ sup[b].child = None
           /\ sup' = [sup EXCEPT ![b].mutex = u]
           /\ Goes(u, "probe")
           /\ UNCHANGED proc
  <2>1. req' \in [Requests -> Asked] /\ \A o \in Requests : o # u => req'[o] = req[o]
    BY <1>5, GoesFields
  <2>2. sup' \in [Apis -> Supervisors] /\ \A a \in Apis : /\ sup'[a].child = sup[a].child
           /\ sup'[a].claimed = sup[a].claimed /\ sup'[a].failed = sup[a].failed
           /\ sup'[a].barren = sup[a].barren /\ a # b => sup'[a] = sup[a]
    BY <1>5 DEF SupTypeOK, Supervisors
  <2>3. SupTypeOK' /\ Moves(u)
    BY <1>1, <1>2, <1>5, <2>1, <2>2 DEF SupTypeOK, Moves, Free
  <2>4. ThreadFits(u)'
    BY <1>1, <1>2, <1>5 DEF SupTypeOK, ThreadsFit, ThreadFits, Serves, Sup, Goes, Asked, Supervisors
  <2>. QED
    BY <2>3, <2>4, MovesInv
<1>. QED
  BY <1>1, <1>3, <1>4, <1>5 DEF CheckChild

LEMMA ReadStatusInv ==
  ASSUME SupervisorInv, UNCHANGED queueOf,
         NEW u \in Requests, ReadStatus(u)
  PROVE  SupervisorInv'
<1>. USE Names, InvParts
<1>1. PICK b \in Apis : b = Sup(u)
  BY DEF Sup
<1>2. /\ UNCHANGED <<holder, record, runs, pending, faults>>
      /\ req[u].pc = "status" /\ Free(b)
  BY <1>1 DEF ReadStatus, queueVars
<1>. DEFINE now == IF HasExited(b) THEN Recorded(b) ELSE sup[b]
<1>3. now \in Supervisors
  BY RecordedFields DEF SupTypeOK
<1>4. /\ sup' = [sup EXCEPT ![b] = now]
      /\ proc' = IF HasExited(b) THEN Reaped(b) ELSE proc
      /\ req' = [req EXCEPT ![u].pc = "owner",
                            ![u].failed = IF now.launchFailed THEN FAILED_STARTS_REPORTED
                                          ELSE now.failed]
  BY <1>1 DEF ReadStatus
<1>5. /\ req' \in [Requests -> Asked] /\ \A o \in Requests : o # u => req'[o] = req[o]
      /\ req'[u].pc = "owner" /\ req'[u].servedBy = req[u].servedBy
  <2>1. PICK n \in Nat : n = IF now.launchFailed THEN FAILED_STARTS_REPORTED ELSE now.failed
    BY <1>3 DEF Supervisors
  <2>. DEFINE asked == [req[u] EXCEPT !.pc = "owner", !.failed = n]
  <2>2. req[u] \in Asked
    BY DEF SupTypeOK
  <2>3. asked \in Asked /\ asked.pc = "owner" /\ asked.servedBy = req[u].servedBy
    BY <2>2 DEF Asked
  <2>4. req' = [req EXCEPT ![u] = asked]
    BY <1>4, <2>1
  <2>. HIDE DEF asked
  <2>. QED
    BY <2>3, <2>4 DEF SupTypeOK
<1>6. CASE HasExited(b)
  <2>1. /\ sup' \in [Apis -> Supervisors] /\ \A a \in Apis : a # b => sup'[a] = sup[a]
        /\ sup'[b].child = None /\ sup'[b].failed <= sup'[b].barren
    BY <1>4, <1>6, RecordedFields DEF SupTypeOK
  <2>2. ThreadFits(u)'
    <3>1. req[u].servedBy # None => Serves(req[u].servedBy, queueOf[Sup(u)])'
      BY <1>1, <1>4, <1>5, <1>6, ReapedServes DEF Serves, Sup
    <3>. QED
      BY <1>2, <1>5, <3>1 DEF ThreadsFit, ThreadFits, Sup
  <2>. QED
    BY <1>1, <1>2, <1>4, <1>5, <1>6, <2>1, <2>2, ExitRecordedInv
<1>7. CASE ~HasExited(b)
  <2>1. sup' = sup /\ proc' = proc
    BY <1>4, <1>7 DEF SupTypeOK
  <2>2. SupTypeOK' /\ Moves(u)
    BY <1>2, <1>5, <2>1 DEF SupTypeOK, Moves
  <2>3. ThreadFits(u)'
    BY <1>2, <1>5, <2>1 DEF ThreadsFit, ThreadFits, Serves, Sup
  <2>. QED
    BY <2>2, <2>3, MovesInv
<1>. QED
  BY <1>6, <1>7

LEMMA LaunchInv ==
  ASSUME SupervisorInv, UNCHANGED queueOf,
         NEW u \in Requests, Launch(u)
  PROVE  SupervisorInv'
<1>. USE Names, InvParts
<1>1. PICK b \in Apis : b = Sup(u)
  BY DEF Sup
<1>2. /\ UNCHANGED <<record, runs, pending>> /\ faults' \in Nat
      /\ req[u].pc = "drop" /\ holder = u /\ holder' = None
      /\ sup[b].child = None
  <2>1. req[u].pc = "drop" /\ holder' = None /\ UNCHANGED <<record, runs, pending>>
    BY DEF Launch, queueVars
  <2>2. faults' = faults \/ faults' = faults + 1
    BY DEF Launch, Fault
  <2>3. holder = u /\ sup[b].mutex = u
    BY <1>1, <2>1 DEF ThreadsFit, ThreadFits
  <2>4. sup[b].child = None
    BY <2>3 DEF SupervisorsFit, ChildFits
  <2>. QED
    BY <2>1, <2>2, <2>3, <2>4 DEF SupTypeOK
<1>3. \A w \in Workers : proc[w].parent # b /\ proc[w].at \notin {"holding", "serving"}
  BY <1>2 DEF ParentsFit, ParentFits, WorkersFit, WorkerFits
<1>4. /\ req' \in [Requests -> Asked]
      /\ req'[u].pc \in {"idle", "status"} /\ req'[u].servedBy \in {None, req[u].servedBy}
      /\ \A o \in Requests : o # u => req'[o] = req[o]
  BY EnsureLeft DEF Launch, LeaveEnsure
\* Nobody serves while a thread holds the host's lock.
<1>5. ThreadsFit'
  <2>1. \A t \in Requests : req[t].servedBy = None
    BY <1>3 DEF ThreadsFit, ThreadFits, Serves, SupTypeOK, Asked
  <2>2. \A t \in Requests : t # u => req[t].pc \notin {"drop", "free"}
                                 /\ (req[t].pc = "probe" => Sup(t) # b)
    BY <1>1, <1>2 DEF ThreadsFit, ThreadFits
  <2>3. \A t \in Requests : Sup(t) # b => sup'[Sup(t)] = sup[Sup(t)]
    BY <1>1 DEF Launch, LeaveEnsure, SupTypeOK, Sup
  <2>. QED
    BY <1>2, <1>4, <2>1, <2>2, <2>3 DEF ThreadsFit, ThreadFits, Sup
<1>6. CASE \E w \in Workers :
             /\ proc[w].at = "off"
             /\ proc' = [proc EXCEPT ![w] = [NoProcess EXCEPT !.at = "locking", !.parent = b,
                                                              !.serves = queueOf[b]]]
             /\ LeaveEnsure(u, [sup[b] EXCEPT !.child = w, !.launchFailed = FALSE,
                                              !.claimed = FALSE])
  <2>1. PICK w \in Workers :
             /\ proc[w].at = "off"
             /\ proc' = [proc EXCEPT ![w] = [NoProcess EXCEPT !.at = "locking", !.parent = b,
                                                              !.serves = queueOf[b]]]
             /\ LeaveEnsure(u, [sup[b] EXCEPT !.child = w, !.launchFailed = FALSE,
                                              !.claimed = FALSE])
    BY <1>6
  <2>. DEFINE child == [NoProcess EXCEPT !.at = "locking", !.parent = b, !.serves = queueOf[b]]
              parent == [[sup[b] EXCEPT !.child = w, !.launchFailed = FALSE, !.claimed = FALSE]
                         EXCEPT !.mutex = None]
  <2>2. /\ child \in Processes /\ child.at = "locking" /\ child.parent = b
        /\ child.serves = queueOf[b] /\ child.worked = FALSE
    BY Records DEF Processes, SupTypeOK
  <2>3. sup[b] \in Supervisors
    BY DEF SupTypeOK
  <2>4. /\ parent \in Supervisors /\ parent.child = w /\ parent.mutex = None
        /\ parent.failed = sup[b].failed /\ parent.barren = sup[b].barren
    BY <2>3 DEF Supervisors
  <2>5. proc' = [proc EXCEPT ![w] = child] /\ sup' = [sup EXCEPT ![b] = parent]
    BY <1>1, <2>1 DEF LeaveEnsure
  <2>. HIDE DEF child, parent
  <2>6. SupTypeOK'
    BY <1>2, <1>4, <2>2, <2>4, <2>5 DEF SupTypeOK
  <2>7. WorkersFit'
    BY <1>2, <1>3, <2>2, <2>5 DEF SupTypeOK, WorkersFit, WorkerFits
  <2>8. ParentsFit'
    <3>1. ParentFits(w)'
      BY <2>2, <2>4, <2>5 DEF SupTypeOK, ParentFits
    <3>2. ASSUME NEW o \in Workers, o # w, proc[o].parent # None
          PROVE  ParentFits(o)'
      <4>1. PICK a \in Apis : a = proc[o].parent /\ a # b
        BY <1>3, <3>2 DEF SupTypeOK, Processes
      <4>. QED
        BY <2>5, <3>2, <4>1 DEF SupTypeOK, ParentsFit, ParentFits
    <3>. QED
      BY <2>5, <3>1, <3>2 DEF SupTypeOK, ParentsFit, ParentFits
  <2>9. SupervisorsFit'
    <3>1. ChildFits(b)'
      BY <2>2, <2>4, <2>5 DEF SupTypeOK, ChildFits
    <3>2. ASSUME NEW a \in Apis, a # b
          PROVE  ChildFits(a)'
      <4>1. sup'[a] = sup[a] /\ sup[a].child \in Workers \cup {None} /\ ChildFits(a)
        BY <2>5, <3>2 DEF SupTypeOK, Supervisors, SupervisorsFit
      <4>2. sup[a].child # w
        BY <2>1, <3>2, <4>1, Records DEF ChildFits, WorkersFit, WorkerFits
      <4>. QED
        BY <2>5, <4>1, <4>2 DEF SupTypeOK, ChildFits
    <3>. QED
      BY <3>1, <3>2 DEF SupervisorsFit
  <2>10. FailedStartsAreItsOwn'
    BY <2>4, <2>5 DEF SupTypeOK, FailedStartsAreItsOwn
  <2>. QED
    BY <1>5, <2>6, <2>7, <2>8, <2>9, <2>10 DEF SupervisorInv
<1>7. CASE /\ LeaveEnsure(u, [sup[b] EXCEPT !.child = None, !.launchFailed = TRUE,
                                            !.failed = @ + 1, !.barren = @ + 1])
           /\ UNCHANGED proc
  <2>. DEFINE parent == [[sup[b] EXCEPT !.child = None, !.launchFailed = TRUE,
                                       !.failed = @ + 1, !.barren = @ + 1]
                         EXCEPT !.mutex = None]
  <2>1. sup[b] \in Supervisors /\ sup[b].failed <= sup[b].barren
    BY DEF SupTypeOK, FailedStartsAreItsOwn
  <2>2. sup[b].failed + 1 \in Nat /\ sup[b].barren + 1 \in Nat
        /\ sup[b].failed + 1 <= sup[b].barren + 1
    BY <2>1 DEF Supervisors
  <2>3. /\ parent \in Supervisors /\ parent.child = None /\ parent.mutex = None
        /\ parent.failed <= parent.barren
    BY <2>1, <2>2 DEF Supervisors
  <2>4. proc' = proc /\ sup' = [sup EXCEPT ![b] = parent]
    BY <1>1, <1>7 DEF LeaveEnsure
  <2>. HIDE DEF parent
  <2>5. SupTypeOK'
    BY <1>2, <1>4, <2>3, <2>4 DEF SupTypeOK
  <2>6. WorkersFit'
    BY <1>2, <1>3, <2>4 DEF SupTypeOK, WorkersFit, WorkerFits
  <2>7. ParentsFit'
    <3>. SUFFICES ASSUME NEW o \in Workers, proc[o].parent # None
                  PROVE  ParentFits(o)'
      BY <2>4 DEF ParentsFit, ParentFits
    <3>1. PICK a \in Apis : a = proc[o].parent /\ a # b
      BY <1>3 DEF SupTypeOK, Processes
    <3>. QED
      BY <2>4, <3>1 DEF SupTypeOK, ParentsFit, ParentFits
  <2>8. SupervisorsFit'
    BY <2>3, <2>4 DEF SupTypeOK, SupervisorsFit, ChildFits
  <2>9. FailedStartsAreItsOwn'
    BY <2>3, <2>4 DEF SupTypeOK, FailedStartsAreItsOwn
  <2>. QED
    BY <1>5, <2>5, <2>6, <2>7, <2>8, <2>9 DEF SupervisorInv
<1>. QED
  BY <1>1, <1>6, <1>7 DEF Launch

----------------------------------------------------------------------------
(* The processes.                                                          *)

LEMMA ShutdownInv ==
  ASSUME SupervisorInv, UNCHANGED queueOf,
         NEW b \in Apis, Shutdown(b)
  PROVE  SupervisorInv'
<1>. USE Names, InvParts, Records
<1>1. PICK v \in Workers : v = sup[b].child
  BY DEF Shutdown, SupTypeOK, Supervisors
<1>2. /\ UNCHANGED <<record, runs, pending>> /\ faults' \in Nat
      /\ sup' = [sup EXCEPT ![b] = NewSupervisor]
      /\ proc' = [proc EXCEPT ![v] = NoProcess]
      /\ holder' = IF holder = v THEN None ELSE holder
      /\ \A t \in Requests : Sup(t) = b => req[t].pc = "idle"
  BY <1>1 DEF Shutdown, Fault, Drops, ThreadsOf, queueVars, SupTypeOK
<1>3. ASSUME NEW t \in Requests
      PROVE  /\ req'[t] \in Asked
             /\ req'[t].pc = req[t].pc /\ req'[t].owner = req[t].owner
             /\ req'[t].servedBy = IF req[t].servedBy = v THEN None ELSE req[t].servedBy
  <2>1. req'[t] = IF req[t].servedBy = v THEN [req[t] EXCEPT !.servedBy = None] ELSE req[t]
    BY <1>1 DEF Shutdown, SeenGone
  <2>. QED
    BY <2>1 DEF SupTypeOK, Asked
<1>4. req' \in [Requests -> Asked]
  <2>1. req' = [t \in Requests |-> req'[t]]
    BY DEF Shutdown, SeenGone
  <2>. QED
    BY <1>3, <2>1
<1>5. SupTypeOK'
  BY <1>2, <1>4 DEF SupTypeOK
<1>6. WorkersFit'
  BY <1>2 DEF SupTypeOK, WorkersFit, WorkerFits
<1>7. ParentsFit'
  BY <1>1, <1>2 DEF SupTypeOK, ParentsFit, ParentFits, SupervisorsFit, ChildFits
<1>8. SupervisorsFit'
  BY <1>1, <1>2 DEF SupTypeOK, SupervisorsFit, ChildFits, ParentsFit, ParentFits
<1>9. ThreadsFit'
  <2>. SUFFICES ASSUME NEW t \in Requests
                PROVE  ThreadFits(t)'
    BY DEF ThreadsFit
  <2>1. ThreadFits(t) /\ Sup(t) \in Apis /\ req[t].servedBy \in Workers \cup {None}
    BY DEF ThreadsFit, Sup, SupTypeOK, Asked
  <2>2. holder' = t <=> holder = t
    BY <1>2
  <2>3. Sup(t) = b \/ sup'[Sup(t)] = sup[Sup(t)]
    BY <1>2, <2>1 DEF SupTypeOK
  <2>4. \A w \in Workers : w # v => proc'[w] = proc[w]
    BY <1>2 DEF SupTypeOK
  <2>. QED
    BY <1>2, <1>3, <2>1, <2>2, <2>3, <2>4 DEF ThreadFits, Sup, Serves, Serving, Conflict
<1>10. FailedStartsAreItsOwn'
  BY <1>2 DEF SupTypeOK, FailedStartsAreItsOwn
<1>. QED
  BY <1>5, <1>6, <1>7, <1>8, <1>9, <1>10 DEF SupervisorInv

LEMMA ApiDiesInv ==
  ASSUME SupervisorInv, UNCHANGED queueOf,
         NEW b \in Apis, ApiDies(b)
  PROVE  SupervisorInv'
<1>. USE Names, InvParts, Records
<1>1. /\ UNCHANGED <<record, runs, pending>> /\ faults' \in Nat
      /\ sup' = [sup EXCEPT ![b] = NewSupervisor]
      /\ holder' = IF holder \in ThreadsOf(b) THEN None ELSE holder
      /\ req' = [t \in Requests |-> IF Sup(t) = b THEN NoRequest ELSE req[t]]
  BY DEF ApiDies, Fault, Drops, queueVars, SupTypeOK
\* A worker of the process lives on without it, or has left nothing.
<1>2. ASSUME NEW w \in Workers
      PROVE  /\ proc'[w] \in Processes
             /\ proc[w].parent # b => proc'[w] = proc[w]
             /\ proc[w].parent = b =>
                  /\ proc'[w].parent = None
                  /\ \/ proc'[w] = NoProcess /\ proc[w].at \in {"off", "exited"}
                     \/ /\ proc'[w].at = proc[w].at /\ proc'[w].serves = proc[w].serves
                        /\ proc[w].at # "off"
  <2>1. proc'[w] = IF proc[w].parent # b THEN proc[w]
                   ELSE IF Alive(w) THEN [proc[w] EXCEPT !.parent = None] ELSE NoProcess
    BY DEF ApiDies
  <2>2. proc[w] \in Processes
    BY DEF SupTypeOK
  <2>. QED
    BY <2>1, <2>2 DEF Alive, Processes
<1>3. proc' \in [Workers -> Processes]
  <2>1. proc' = [w \in Workers |-> proc'[w]]
    BY DEF ApiDies
  <2>. QED
    BY <1>2, <2>1
<1>4. SupTypeOK'
  BY <1>1, <1>3 DEF SupTypeOK
<1>5. WorkersFit'
  BY <1>1, <1>2 DEF WorkersFit, WorkerFits, ThreadsOf
<1>6. ParentsFit'
  <2>. SUFFICES ASSUME NEW w \in Workers, proc[w].parent \notin {None, b}
                PROVE  ParentFits(w)'
    BY <1>2 DEF ParentsFit, ParentFits
  <2>1. PICK a \in Apis : a = proc[w].parent
    BY DEF SupTypeOK, Processes
  <2>. QED
    BY <1>1, <1>2, <2>1 DEF SupTypeOK, ParentsFit, ParentFits
<1>7. SupervisorsFit'
  <2>. SUFFICES ASSUME NEW a \in Apis, a # b
                PROVE  ChildFits(a)'
    BY <1>1 DEF SupTypeOK, SupervisorsFit, ChildFits
  <2>1. ChildFits(a) /\ sup'[a] = sup[a] /\ sup[a].child \in Workers \cup {None}
    BY <1>1 DEF SupervisorsFit, SupTypeOK, Supervisors
  <2>. QED
    BY <1>2, <2>1 DEF ChildFits
<1>8. ThreadsFit'
  <2>. SUFFICES ASSUME NEW t \in Requests
                PROVE  ThreadFits(t)'
    BY DEF ThreadsFit
  <2>1. CASE Sup(t) = b
    BY <1>1, <2>1 DEF ThreadFits, ThreadsOf
  <2>2. CASE Sup(t) # b
    <3>1. ThreadFits(t) /\ Sup(t) \in Apis /\ req[t].servedBy \in Workers \cup {None}
      BY DEF ThreadsFit, Sup, SupTypeOK, Asked
    <3>2. /\ sup'[Sup(t)] = sup[Sup(t)] /\ req'[t] = req[t]
          /\ holder' = t <=> holder = t
      BY <1>1, <2>2, <3>1 DEF SupTypeOK, ThreadsOf
    <3>3. req[t].servedBy # None => Serves(req[t].servedBy, queueOf[Sup(t)])'
      <4>. HAVE req[t].servedBy # None
      <4>1. PICK w \in Workers : w = req[t].servedBy
        BY <3>1
      <4>2. proc[w].at = "serving" /\ proc[w].serves = queueOf[Sup(t)]
        BY <3>1, <4>1 DEF ThreadFits, Serves
      <4>. QED
        BY <1>2, <3>2, <4>1, <4>2 DEF Serves, Sup
    <3>. QED
      BY <3>1, <3>2, <3>3 DEF ThreadFits, Sup, Serving, Conflict
  <2>. QED
    BY <2>1, <2>2
<1>9. FailedStartsAreItsOwn'
  BY <1>1 DEF SupTypeOK, FailedStartsAreItsOwn
<1>. QED
  BY <1>4, <1>5, <1>6, <1>7, <1>8, <1>9 DEF SupervisorInv

----------------------------------------------------------------------------
(* The specification.                                                      *)

LEMMA InitInv ==
  ASSUME Init
  PROVE  SupervisorInv
<1>. USE Names, Records, SupervisorAssumption DEF Init
<1>1. SupTypeOK
  BY DEF SupTypeOK
<1>2. WorkersFit /\ ParentsFit
  BY DEF WorkersFit, WorkerFits, ParentsFit, ParentFits
<1>3. SupervisorsFit
  BY DEF SupervisorsFit, ChildFits
<1>4. ThreadsFit
  BY DEF ThreadsFit, ThreadFits
<1>5. FailedStartsAreItsOwn
  BY DEF FailedStartsAreItsOwn
<1>. QED
  BY <1>1, <1>2, <1>3, <1>4, <1>5 DEF SupervisorInv

LEMMA NextInv ==
  ASSUME SupervisorInv, [Next]_vars
  PROVE  SupervisorInv'
<1>1. CASE UNCHANGED vars
  BY <1>1 DEF vars, SupervisorInv, SupTypeOK, WorkersFit, WorkerFits, ParentsFit, ParentFits,
              SupervisorsFit, ChildFits, ThreadsFit, ThreadFits, Serves, Serving, Conflict,
              FailedStartsAreItsOwn
<1>2. ASSUME NEW w \in Workers, WorkerStep(w) \/ WorkerDies(w), UNCHANGED queueOf
      PROVE  SupervisorInv'
  <2>1. CASE GiveUp(w)
    BY <2>1, <1>2, ExitsInv, InvParts DEF GiveUp, Alive, SupTypeOK, queueVars
  <2>2. CASE Orphaned(w)
    BY <2>2, <1>2, ExitsInv, InvParts DEF Orphaned, Alive, SupTypeOK, queueVars
  <2>3. CASE WorkerDies(w)
    BY <2>3, <1>2, ExitsInv, InvParts DEF WorkerDies, Fault, SupTypeOK, queueVars
  <2>. QED
    BY <1>2, <2>1, <2>2, <2>3, TakeLockInv, WriteRecordInv, ClaimRunInv DEF WorkerStep
<1>3. ASSUME NEW t \in Requests, ThreadStep(t), UNCHANGED queueOf
      PROVE  SupervisorInv'
  BY <1>3, CheckChildInv, ProbeHeldInv, ProbeFreeInv, LaunchInv, OwnerHeldInv, OwnerFreeInv,
     OwnerDropInv, ReadRecordInv, QueueInv, ReadStatusInv, AnswerInv
     DEF ThreadStep, Ensure, LockOwner
<1>4. ASSUME NEW t \in Requests, Submit(t) \/ Poll(t), UNCHANGED queueOf
      PROVE  SupervisorInv'
  <2>1. CASE Submit(t)
    <3>1. runs' \in [Queues -> Nat]
      <4>1. PICK q \in Queues : q = queueOf[Sup(t)]
        BY Names, InvParts DEF SupTypeOK, Sup
      <4>. QED
        BY <2>1, <4>1, InvParts DEF Submit, SupTypeOK
    <3>2. Begins(t, "submit", "owner")
      BY <2>1 DEF Submit
    <3>. QED
      BY <1>4, <3>1, <3>2, BeginsInv
  <2>2. CASE Poll(t)
    BY <1>4, <2>2, BeginsInv, InvParts DEF Poll, SupTypeOK
  <2>. QED
    BY <1>4, <2>1, <2>2
<1>. QED
  BY <1>1, <1>2, <1>3, <1>4, ShutdownInv, ApiDiesInv DEF Next

LEMMA Invariant == Spec => []SupervisorInv
BY InitInv, NextInv, PTL DEF Spec

\* An API process has at most one worker of its own that is starting or
\* serving (ensure_running's lock): a live worker with a parent is the one
\* child its supervisor knows.
THEOREM OneChild == Spec => []OneChildPerApi
<1>1. SupervisorInv => OneChildPerApi
  <2>. SUFFICES ASSUME SupervisorInv, NEW a \in Apis
                PROVE  Cardinality({w \in Workers : proc[w].parent = a /\ Alive(w)}) <= 1
    BY DEF OneChildPerApi
  <2>. DEFINE own == {w \in Workers : proc[w].parent = a /\ Alive(w)}
  <2>1. \A w \in own : w = sup[a].child
    BY InvParts, Names DEF ParentsFit, ParentFits
  <2>2. own \in SUBSET {sup[a].child}
    BY <2>1
  <2>3. IsFiniteSet({sup[a].child}) /\ Cardinality({sup[a].child}) = 1
    BY FS_Singleton
  <2>4. IsFiniteSet(own) /\ Cardinality(own) <= Cardinality({sup[a].child})
    BY <2>2, <2>3, FS_Subset
  <2>. QED
    BY <2>3, <2>4
<1>. QED
  BY <1>1, Invariant, PTL

\* Only a start of its own that came to nothing counts against a supervisor
\* (_record_exit): what it counts as failed in a row never exceeds those.
THEOREM OwnFailuresOnly == Spec => []FailedStartsAreItsOwn
<1>1. SupervisorInv => FailedStartsAreItsOwn
  BY InvParts
<1>. QED
  BY <1>1, Invariant, PTL

\* A request during which one worker served its queue from start to end sees
\* it, whatever other processes' looks and redundant workers do to the lock
\* and its record meanwhile (lock_owner, status).
THEOREM ServingSeen == Spec => []ServingIsSeen
<1>1. SupervisorInv => ServingIsSeen
  BY InvParts DEF ThreadsFit, ThreadFits, ServingIsSeen, CannotStart
<1>. QED
  BY <1>1, Invariant, PTL
=============================================================================
