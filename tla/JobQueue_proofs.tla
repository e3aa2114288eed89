-------------------------- MODULE JobQueue_proofs ---------------------------
(***************************************************************************)
(* Proofs about the job queue, for any number of runs, keys, workers and   *)
(* artifacts: its types, its safety invariants, that an outcome is final,  *)
(* and that it implements the lifecycle of module RunLifecycle.            *)
(*                                                                         *)
(* QueueInv is the inductive invariant: the properties themselves,         *)
(* UnusedAreAbsent, without which an insert could land on a row that has   *)
(* artifacts, attempts or an outcome, and RunningWasClaimed, without which *)
(* a row put back could pass for one never claimed.  RowStep says what one *)
(* step of the queue does to one row; StepEffect shows it operation by     *)
(* operation, and everything else follows from it.                         *)
(***************************************************************************)
EXTENDS JobQueue, TLAPS

\* No row has a number that has not been given out.
UnusedAreAbsent == \A i \in RunIds : i > lastSeq => jobs[i] = NoRow

RunningWasClaimed == \A i \in InStatus(RUNNING) : jobs[i].attempts > 0

QueueInv == /\ TypeOK
            /\ UnusedAreAbsent
            /\ RunningWasClaimed
            /\ KeyNamesOneRow
            /\ ArtifactsMatchResults
            /\ PendingMayRun
            /\ StartedInOrder

\* What a caller submitted, which no operation changes.
SameSubmission(r, s) == /\ r.request = s.request
                        /\ r.idempotency_key = s.idempotency_key
                        /\ r.keep = s.keep

\* What one step does to row i and its artifacts.
SameChunks(i) == \A c \in Parts : <<i, c>> \in artifacts' <=> <<i, c>> \in artifacts

Kept(i) == jobs'[i] = jobs[i] /\ SameChunks(i)

Inserted(i) ==
  /\ i = lastSeq + 1 /\ lastSeq' = lastSeq + 1
  /\ jobs[i] = NoRow
  /\ jobs'[i].status = PENDING
  /\ jobs'[i].attempts = 0
  /\ ~jobs'[i].cancel_requested
  /\ jobs'[i].worker = None
  /\ ~KeyTaken(jobs'[i].idempotency_key)
  /\ SameChunks(i)

Claimed(i) ==
  /\ jobs[i].status = PENDING /\ jobs'[i].status = RUNNING
  /\ jobs'[i].attempts = jobs[i].attempts + 1
  /\ \A j \in InStatus(PENDING) : i <= j
  /\ SameChunks(i)

Flagged(i) ==
  /\ jobs[i].status = RUNNING /\ jobs'[i].status = RUNNING
  /\ jobs'[i].attempts = jobs[i].attempts
  /\ jobs'[i].cancel_requested
  /\ jobs'[i].worker = jobs[i].worker
  /\ SameChunks(i)

SentBack(i) ==
  /\ jobs[i].status = RUNNING /\ jobs'[i].status = PENDING
  /\ jobs'[i].attempts = jobs[i].attempts /\ jobs[i].attempts < MAX_ATTEMPTS
  /\ ~jobs[i].cancel_requested /\ ~jobs'[i].cancel_requested
  /\ jobs'[i].worker = None
  /\ SameChunks(i)

Closed(i) ==
  /\ jobs[i].status \in {PENDING, RUNNING} /\ jobs'[i].status \in TERMINAL
  /\ jobs'[i].attempts = jobs[i].attempts
  /\ \A c \in Parts : <<i, c>> \in artifacts' <=>
       \/ <<i, c>> \in artifacts
       \/ jobs'[i].status = DONE /\ c \in jobs'[i].result

Removed(i) ==
  /\ jobs[i].status \in TERMINAL /\ ~jobs[i].keep
  /\ now - jobs[i].finished > KeepFor
  /\ jobs'[i] = NoRow
  /\ \A c \in Parts : <<i, c>> \notin artifacts'

Changed(i) == /\ Claimed(i) \/ Flagged(i) \/ SentBack(i) \/ Closed(i)
              /\ SameSubmission(jobs'[i], jobs[i])

RowStep(i) == Kept(i) \/ Inserted(i) \/ Changed(i) \/ Removed(i)

\* A step inserts one row, or changes some, or removes some.
Inserts == \E i \in RunIds : Inserted(i) /\ \A j \in RunIds \ {i} : Kept(j)
Changes == lastSeq' = lastSeq /\ \A i \in RunIds : Kept(i) \/ Changed(i)
Removes == lastSeq' = lastSeq /\ \A i \in RunIds : Kept(i) \/ Removed(i)

----------------------------------------------------------------------------
(* Types.                                                                  *)

LEMMA NoRowIsRow == NoRow \in Row
BY BoundsAssumption DEF NoRow, Row

LEMMA ClosedRow ==
  ASSUME NEW row \in Row, NEW status \in STATUSES, NEW t \in 0 .. MaxTime,
         NEW result \in SUBSET Parts, NEW class \in FAILURE_CLASSES \cup {None}
  PROVE  [row EXCEPT !.status = status, !.result = result,
                     !.failure_class = class, !.finished = t] \in Row
BY DEF Row

\* Every way the queue rewrites a row makes it a row.
LEMMA RowUpdates ==
  ASSUME NEW row \in Row, NEW status \in STATUSES, NEW t \in 0 .. MaxTime
  PROVE  /\ [row EXCEPT !.cancel_requested = TRUE] \in Row
         /\ [row EXCEPT !.status = status, !.finished = t] \in Row
         /\ [row EXCEPT !.status = status, !.worker = None] \in Row
         /\ \A w \in Workers :
              [row EXCEPT !.status = status, !.worker = w,
                          !.attempts = row.attempts + 1] \in Row
         /\ \A result \in SUBSET Parts, class \in FAILURE_CLASSES \cup {None} :
              [row EXCEPT !.status = status, !.result = result,
                          !.failure_class = class, !.finished = t] \in Row
         /\ \A key \in Keys \cup {None}, body \in Bodies, keep \in BOOLEAN :
              [row EXCEPT !.status = status, !.request = body,
                          !.idempotency_key = key, !.keep = keep] \in Row
<1>1. [row EXCEPT !.cancel_requested = TRUE] \in Row
  BY DEF Row
<1>2. [row EXCEPT !.status = status, !.finished = t] \in Row
  BY DEF Row
<1>3. [row EXCEPT !.status = status, !.worker = None] \in Row
  BY DEF Row
<1>4. ASSUME NEW w \in Workers
      PROVE  [row EXCEPT !.status = status, !.worker = w,
                         !.attempts = row.attempts + 1] \in Row
  <2>1. row.attempts + 1 \in Nat
    BY DEF Row
  <2>2. \A n \in Nat : [row EXCEPT !.status = status, !.worker = w, !.attempts = n] \in Row
    BY DEF Row
  <2>. QED
    BY <2>1, <2>2
<1>5. ASSUME NEW result \in SUBSET Parts, NEW class \in FAILURE_CLASSES \cup {None}
      PROVE  [row EXCEPT !.status = status, !.result = result,
                         !.failure_class = class, !.finished = t] \in Row
  BY ClosedRow
<1>6. ASSUME NEW key \in Keys \cup {None}, NEW body \in Bodies, NEW keep \in BOOLEAN
      PROVE  [row EXCEPT !.status = status, !.request = body,
                         !.idempotency_key = key, !.keep = keep] \in Row
  BY DEF Row
<1>. QED
  BY <1>1, <1>2, <1>3, <1>4, <1>5, <1>6

LEMMA StatusTypes == {PENDING, RUNNING, DONE, FAILED, INTERRUPTED, CANCELLED} \subseteq STATUSES
BY DEF STATUSES, TERMINAL

LEMMA TypeStep == TypeOK /\ QueueNext => TypeOK'
<1> SUFFICES ASSUME TypeOK, QueueNext PROVE TypeOK'
  OBVIOUS
<1> USE BoundsAssumption, StatusTypes
<1>a. \A i \in RunIds : jobs[i] \in Row
  BY DEF TypeOK
<1>b. now \in 0 .. MaxTime
  BY DEF TypeOK
<1>1. ASSUME NEW key \in Keys \cup {None}, NEW body \in Bodies, NEW keep \in BOOLEAN,
             Submit(key, body, keep)
      PROVE  TypeOK'
  <2>1. [NoRow EXCEPT !.status = PENDING, !.request = body,
                      !.idempotency_key = key, !.keep = keep] \in Row
    BY NoRowIsRow, RowUpdates, <1>b
  <2>2. lastSeq + 1 \in RunIds
    BY <1>1 DEF Submit, TypeOK, RunIds
  <2>. QED
    BY <1>1, <2>1, <2>2 DEF Submit, TypeOK
<1>2. ASSUME NEW i \in RunIds, Cancel(i) PROVE TypeOK'
  <2>1. [jobs[i] EXCEPT !.status = CANCELLED, !.finished = now] \in Row
    BY RowUpdates, <1>a, <1>b
  <2>2. [jobs[i] EXCEPT !.cancel_requested = TRUE] \in Row
    BY RowUpdates, <1>a, <1>b
  <2>. QED
    BY <1>2, <2>1, <2>2 DEF Cancel, TypeOK
<1>3. ASSUME NEW w \in Workers, NEW i \in RunIds, Claim(w, i) PROVE TypeOK'
  <2>1. [jobs[i] EXCEPT !.status = RUNNING, !.worker = w,
                        !.attempts = jobs[i].attempts + 1] \in Row
    BY RowUpdates, <1>a, <1>b
  <2>. QED
    BY <1>3, <2>1 DEF Claim, TypeOK
<1>4. ASSUME NEW i \in RunIds, NEW status \in STATUSES, NEW result \in SUBSET Parts,
             NEW class \in FAILURE_CLASSES \cup {None},
             CloseRunning(i, status, result, class)
      PROVE  jobs' \in [RunIds -> Row] /\ lastSeq' \in 0 .. MaxRuns /\ now' \in 0 .. MaxTime
  <2>1. [jobs[i] EXCEPT !.status = status, !.result = result,
                        !.failure_class = class, !.finished = now] \in Row
    BY RowUpdates, <1>a, <1>b
  <2>. QED
    BY <1>4, <2>1 DEF CloseRunning, TypeOK
<1>5. ASSUME NEW i \in RunIds, NEW parts \in SUBSET Parts, Finish(i, parts) PROVE TypeOK'
  BY <1>4, <1>5 DEF Finish, TypeOK
<1>6. ASSUME NEW i \in RunIds, NEW class \in FailureClasses, Fail(i, class) PROVE TypeOK'
  BY <1>4, <1>6, ClassesAssumption DEF Fail, TypeOK
<1>7. ASSUME NEW i \in RunIds, CancelRunning(i) PROVE TypeOK'
  BY <1>4, <1>7 DEF CancelRunning, TypeOK
<1>8. CASE Requeue
  <2>1. \A i \in RunIds : /\ [jobs[i] EXCEPT !.status = CANCELLED, !.finished = now] \in Row
                          /\ [jobs[i] EXCEPT !.status = PENDING, !.worker = None] \in Row
    BY RowUpdates, <1>a, <1>b
  <2>. QED
    BY <1>8, <2>1, <1>a DEF Requeue, TypeOK
<1>9. CASE Interrupt
  <2>1. \A i \in RunIds : [jobs[i] EXCEPT !.status = INTERRUPTED, !.finished = now] \in Row
    BY RowUpdates, <1>a, <1>b
  <2>. QED
    BY <1>9, <2>1, <1>a DEF Interrupt, TypeOK
<1>10. CASE Purge(now - KeepFor)
  BY <1>10, NoRowIsRow DEF Purge, TypeOK
<1>11. CASE Tick
  BY <1>11 DEF Tick, TypeOK
<1>. QED
  BY <1>1, <1>2, <1>3, <1>5, <1>6, <1>7, <1>8, <1>9, <1>10, <1>11
     DEF QueueNext, ClientStep, WorkerStep

----------------------------------------------------------------------------
(* What a step does to a row.                                              *)

\* A statement that updates one row.
LEMMA OneRow ==
  ASSUME TypeOK, NEW i \in RunIds, NEW r, jobs' = [jobs EXCEPT ![i] = r]
  PROVE  jobs'[i] = r /\ \A j \in RunIds : j # i => jobs'[j] = jobs[j]
BY DEF TypeOK

\* The fields an update writes and leaves, one lemma for each form of update.
LEMMA InsertedFields ==
  ASSUME NEW row \in Row, NEW status, NEW body, NEW key, NEW keep
  PROVE  LET upd == [row EXCEPT !.status = status, !.request = body,
                             !.idempotency_key = key, !.keep = keep]
         IN  /\ upd.status = status
             /\ upd.request = body /\ upd.keep = keep
             /\ upd.idempotency_key = key
             /\ upd.attempts = row.attempts
             /\ upd.cancel_requested = row.cancel_requested
             /\ upd.worker = row.worker
BY DEF Row

LEMMA CancelledFields ==
  ASSUME NEW row \in Row, NEW status, NEW t
  PROVE  LET upd == [row EXCEPT !.status = status, !.finished = t]
         IN  /\ upd.status = status
             /\ upd.attempts = row.attempts
             /\ SameSubmission(upd, row)
BY DEF Row, SameSubmission

LEMMA ClaimedFields ==
  ASSUME NEW row \in Row, NEW status, NEW w, NEW n
  PROVE  LET upd == [row EXCEPT !.status = status, !.worker = w, !.attempts = n]
         IN  /\ upd.status = status
             /\ upd.attempts = n
             /\ SameSubmission(upd, row)
BY DEF Row, SameSubmission

LEMMA ClosedFields ==
  ASSUME NEW row \in Row, NEW status, NEW result, NEW class, NEW t
  PROVE  LET upd == [row EXCEPT !.status = status, !.result = result,
                             !.failure_class = class, !.finished = t]
         IN  /\ upd.status = status
             /\ upd.result = result
             /\ upd.attempts = row.attempts
             /\ SameSubmission(upd, row)
BY DEF Row, SameSubmission

LEMMA CloseEffect ==
  ASSUME TypeOK, NEW i \in RunIds, NEW status \in TERMINAL, NEW result \in SUBSET Parts,
         NEW class, CloseRunning(i, status, result, class)
  PROVE  /\ jobs[i].status = RUNNING
         /\ jobs'[i].status = status /\ jobs'[i].result = result
         /\ jobs'[i].attempts = jobs[i].attempts
         /\ SameSubmission(jobs'[i], jobs[i])
         /\ lastSeq' = lastSeq
         /\ \A j \in RunIds : j # i => jobs'[j] = jobs[j]
<1>1. jobs[i] \in Row
  BY DEF TypeOK
<1>2. /\ jobs'[i] = [jobs[i] EXCEPT !.status = status, !.result = result,
                                    !.failure_class = class, !.finished = now]
      /\ \A j \in RunIds : j # i => jobs'[j] = jobs[j]
  BY OneRow DEF CloseRunning
<1>3. /\ jobs'[i].status = status /\ jobs'[i].result = result
      /\ jobs'[i].attempts = jobs[i].attempts
      /\ SameSubmission(jobs'[i], jobs[i])
  BY <1>1, <1>2, ClosedFields DEF SameSubmission
<1>. QED
  BY <1>2, <1>3 DEF CloseRunning

LEMMA StepEffect ==
  ASSUME TypeOK, UnusedAreAbsent, QueueNext
  PROVE  Inserts \/ Changes \/ Removes
<1> USE BoundsAssumption
<1>a. \A i \in RunIds : jobs[i] \in Row
  BY DEF TypeOK
<1>b. \A i \in RunIds : UNCHANGED artifacts => SameChunks(i)
  BY DEF SameChunks
<1>1. ASSUME NEW key \in Keys \cup {None}, NEW body \in Bodies, NEW keep \in BOOLEAN,
             Submit(key, body, keep)
      PROVE  Inserts
  <2>1. lastSeq + 1 \in RunIds /\ jobs[lastSeq + 1] = NoRow
    BY <1>1 DEF Submit, TypeOK, RunIds, UnusedAreAbsent
  <2>2. /\ jobs'[lastSeq + 1] = [NoRow EXCEPT !.status = PENDING, !.request = body,
                                     !.idempotency_key = key, !.keep = keep]
        /\ \A j \in RunIds : j # lastSeq + 1 => jobs'[j] = jobs[j]
    BY <1>1, <2>1, OneRow DEF Submit
  <2>3. /\ NoRow.attempts = 0 /\ ~NoRow.cancel_requested /\ NoRow.worker = None
    BY DEF NoRow
  <2>4. /\ jobs'[lastSeq + 1].status = PENDING
        /\ jobs'[lastSeq + 1].idempotency_key = key
        /\ jobs'[lastSeq + 1].attempts = NoRow.attempts
        /\ jobs'[lastSeq + 1].cancel_requested = NoRow.cancel_requested
        /\ jobs'[lastSeq + 1].worker = NoRow.worker
    BY <2>2, NoRowIsRow, InsertedFields
  <2>5. Inserted(lastSeq + 1)
    BY <1>1, <2>1, <2>3, <2>4, <1>b DEF Inserted, Submit
  <2>6. \A j \in RunIds \ {lastSeq + 1} : Kept(j)
    BY <1>1, <1>b, <2>2 DEF Kept, Submit
  <2>. QED
    BY <2>1, <2>5, <2>6 DEF Inserts
<1>2. ASSUME NEW i \in RunIds, Cancel(i) PROVE Changes
  <2>1. CASE /\ jobs[i].status = PENDING
             /\ jobs' = [jobs EXCEPT ![i] = [@ EXCEPT !.status = CANCELLED, !.finished = now]]
    <3>1. /\ jobs'[i] = [jobs[i] EXCEPT !.status = CANCELLED, !.finished = now]
          /\ \A j \in RunIds : j # i => jobs'[j] = jobs[j]
      BY <2>1, OneRow
    <3>2. /\ jobs'[i].status = CANCELLED
          /\ jobs'[i].attempts = jobs[i].attempts
          /\ SameSubmission(jobs'[i], jobs[i])
      BY <3>1, <1>a, CancelledFields DEF SameSubmission
    <3>3. Closed(i)
      BY <1>2, <2>1, <3>2 DEF Closed, TERMINAL, Cancel, DONE, CANCELLED
    <3>. QED
      BY <1>2, <1>b, <3>1, <3>2, <3>3 DEF Changes, Changed, Kept, Cancel
  <2>2. CASE /\ jobs[i].status = RUNNING
             /\ jobs' = [jobs EXCEPT ![i] = [@ EXCEPT !.cancel_requested = TRUE]]
    <3>1. /\ jobs'[i] = [jobs[i] EXCEPT !.cancel_requested = TRUE]
          /\ \A j \in RunIds : j # i => jobs'[j] = jobs[j]
      BY <2>2, OneRow
    <3>2. Flagged(i) /\ SameSubmission(jobs'[i], jobs[i])
      BY <1>2, <2>2, <3>1, <1>a, <1>b DEF Flagged, Row, Cancel, SameSubmission
    <3>. QED
      BY <1>2, <1>b, <3>1, <3>2 DEF Changes, Changed, Kept, Cancel
  <2>. QED
    BY <1>2, <2>1, <2>2 DEF Cancel
<1>3. ASSUME NEW w \in Workers, NEW i \in RunIds, Claim(w, i) PROVE Changes
  <2>1. /\ jobs'[i] = [jobs[i] EXCEPT !.status = RUNNING, !.worker = w,
                                      !.attempts = jobs[i].attempts + 1]
        /\ \A j \in RunIds : j # i => jobs'[j] = jobs[j]
    BY <1>3, OneRow DEF Claim
  <2>2. /\ jobs'[i].status = RUNNING
        /\ jobs'[i].attempts = jobs[i].attempts + 1
        /\ SameSubmission(jobs'[i], jobs[i])
    BY <2>1, <1>a, ClaimedFields DEF SameSubmission
  <2>3. Claimed(i)
    BY <1>3, <2>2, <1>b DEF Claimed, Claim, OldestPending
  <2>. QED
    BY <1>3, <1>b, <2>1, <2>2, <2>3 DEF Changes, Changed, Kept, Claim
<1>4. ASSUME NEW i \in RunIds, NEW parts \in SUBSET Parts, Finish(i, parts) PROVE Changes
  <2>1. /\ jobs[i].status = RUNNING
        /\ jobs'[i].status = DONE /\ jobs'[i].result = parts
        /\ jobs'[i].attempts = jobs[i].attempts
        /\ SameSubmission(jobs'[i], jobs[i])
        /\ lastSeq' = lastSeq
        /\ \A j \in RunIds : j # i => jobs'[j] = jobs[j]
    BY <1>4, CloseEffect DEF Finish, TERMINAL
  <2>2. \A j, c : <<j, c>> \in artifacts' <=> <<j, c>> \in artifacts \/ (j = i /\ c \in parts)
    BY <1>4 DEF Finish
  <2>3. Closed(i)
    BY <2>1, <2>2 DEF Closed, TERMINAL
  <2>. QED
    BY <2>1, <2>2, <2>3 DEF Changes, Changed, Kept, SameChunks
<1>5. ASSUME NEW i \in RunIds, NEW status \in {FAILED, CANCELLED}, NEW class,
             CloseRunning(i, status, {}, class), UNCHANGED artifacts
      PROVE  Changes
  <2>1. /\ jobs[i].status = RUNNING
        /\ jobs'[i].status = status
        /\ jobs'[i].attempts = jobs[i].attempts
        /\ SameSubmission(jobs'[i], jobs[i])
        /\ lastSeq' = lastSeq
        /\ \A j \in RunIds : j # i => jobs'[j] = jobs[j]
    BY <1>5, CloseEffect DEF TERMINAL
  <2>2. Closed(i)
    BY <1>5, <2>1 DEF Closed, TERMINAL, DONE, FAILED, CANCELLED
  <2>. QED
    BY <1>5, <1>b, <2>1, <2>2 DEF Changes, Changed, Kept
<1>6. ASSUME NEW i \in RunIds, NEW class \in FailureClasses, Fail(i, class) PROVE Changes
  BY <1>5, <1>6 DEF Fail
<1>7. ASSUME NEW i \in RunIds, CancelRunning(i) PROVE Changes
  BY <1>5, <1>7 DEF CancelRunning
<1>8. CASE Requeue
  <2>1. ASSUME NEW i \in RunIds PROVE Kept(i) \/ Changed(i)
    <3>1. CASE jobs[i].status # RUNNING
      BY <1>8, <3>1, <1>b DEF Requeue, Changed, Kept
    <3>2. CASE jobs[i].status = RUNNING /\ jobs[i].cancel_requested
      <4>1. jobs'[i] = [jobs[i] EXCEPT !.status = CANCELLED, !.finished = now]
        BY <1>8, <3>2 DEF Requeue
      <4>. QED
        BY <1>8, <3>2, <4>1, <1>a DEF Requeue, Changed, Closed, Row, TERMINAL, DONE, CANCELLED, SameSubmission
    <3>3. CASE jobs[i].status = RUNNING /\ ~jobs[i].cancel_requested
               /\ jobs[i].attempts < MAX_ATTEMPTS
      <4>1. jobs'[i] = [jobs[i] EXCEPT !.status = PENDING, !.worker = None]
        BY <1>8, <3>3 DEF Requeue
      <4>. QED
        BY <1>8, <3>3, <4>1, <1>a, <1>b DEF Requeue, Changed, SentBack, Row, SameSubmission
    <3>4. CASE jobs[i].status = RUNNING /\ ~jobs[i].cancel_requested
               /\ ~(jobs[i].attempts < MAX_ATTEMPTS)
      BY <1>8, <3>4, <1>b DEF Requeue, Changed, Kept
    <3>. QED
      BY <3>1, <3>2, <3>3, <3>4
  <2>. QED
    BY <1>8, <2>1 DEF Requeue, Changes
<1>9. CASE Interrupt
  <2>1. ASSUME NEW i \in RunIds PROVE Kept(i) \/ Changed(i)
    <3>1. CASE jobs[i].status # RUNNING
      BY <1>9, <3>1, <1>b DEF Interrupt, Changed, Kept
    <3>2. CASE jobs[i].status = RUNNING
      <4>1. jobs'[i] = [jobs[i] EXCEPT !.status = INTERRUPTED, !.finished = now]
        BY <1>9, <3>2 DEF Interrupt
      <4>. QED
        BY <1>9, <3>2, <4>1, <1>a DEF Interrupt, Changed, Closed, Row, TERMINAL, DONE, INTERRUPTED, SameSubmission
    <3>. QED
      BY <3>1, <3>2
  <2>. QED
    BY <1>9, <2>1 DEF Interrupt, Changes
<1>10. CASE Purge(now - KeepFor)
  <2>1. ASSUME NEW i \in RunIds PROVE Kept(i) \/ Removed(i)
    <3>1. \A c : <<i, c>> \in artifacts' <=> <<i, c>> \in artifacts /\ i \notin Purgeable(now - KeepFor)
      BY <1>10 DEF Purge
    <3>2. CASE i \in Purgeable(now - KeepFor)
      <4>1. now - jobs[i].finished > KeepFor
        BY <3>2, <1>a, KeepForAssumption DEF Purgeable, Row, TypeOK
      <4>. QED
        BY <1>10, <3>1, <3>2, <4>1 DEF Purge, Purgeable, Removed
    <3>3. CASE i \notin Purgeable(now - KeepFor)
      BY <1>10, <3>1, <3>3 DEF Purge, Kept, SameChunks
    <3>. QED
      BY <3>2, <3>3
  <2>. QED
    BY <1>10, <2>1 DEF Purge, Removes
<1>11. CASE Tick
  BY <1>11, <1>b DEF Tick, Changes, Kept
<1>. QED
  BY <1>1, <1>2, <1>3, <1>4, <1>6, <1>7, <1>8, <1>9, <1>10, <1>11
     DEF QueueNext, ClientStep, WorkerStep

LEMMA RowEffect ==
  ASSUME TypeOK, UnusedAreAbsent, QueueNext
  PROVE  /\ \A i \in RunIds : RowStep(i)
         /\ lastSeq' \in {lastSeq, lastSeq + 1}
BY StepEffect DEF Inserts, Inserted, Changes, Removes, RowStep

----------------------------------------------------------------------------
(* The inductive invariant, conjunct by conjunct.                          *)

LEMMA NoRowFields ==
  /\ NoRow.status = ABSENT /\ NoRow.attempts = 0 /\ NoRow.idempotency_key = None
  /\ NoRow.status \notin STATUSES
BY DEF NoRow, STATUSES, TERMINAL, ABSENT, PENDING, RUNNING, DONE, FAILED, INTERRUPTED, CANCELLED

LEMMA StatusesDiffer ==
  /\ PENDING # RUNNING /\ PENDING # DONE /\ RUNNING # DONE
  /\ PENDING \notin TERMINAL /\ RUNNING \notin TERMINAL /\ ABSENT \notin TERMINAL
  /\ PENDING # ABSENT /\ RUNNING # ABSENT /\ DONE # ABSENT
BY DEF TERMINAL, ABSENT, PENDING, RUNNING, DONE, FAILED, INTERRUPTED, CANCELLED

LEMMA RowTypes ==
  ASSUME TypeOK, NEW i \in RunIds
  PROVE  i \in Nat /\ jobs[i].attempts \in Nat /\ lastSeq \in Nat
BY BoundsAssumption DEF TypeOK, Row, RunIds

LEMMA UnusedStep ==
  ASSUME TypeOK, UnusedAreAbsent, QueueNext
  PROVE  UnusedAreAbsent'
<1> SUFFICES ASSUME NEW i \in RunIds, i > lastSeq' PROVE jobs'[i] = NoRow
  BY DEF UnusedAreAbsent
<1>1. RowStep(i) /\ lastSeq' \in {lastSeq, lastSeq + 1}
  BY RowEffect
<1>2. jobs[i] = NoRow
  BY <1>1, RowTypes DEF UnusedAreAbsent
<1>3. ~Inserted(i)
  BY <1>1, RowTypes DEF Inserted
<1>4. ~(Claimed(i) \/ Flagged(i) \/ SentBack(i) \/ Closed(i))
  BY <1>2, NoRowFields, StatusesDiffer DEF Claimed, Flagged, SentBack, Closed
<1>. QED
  BY <1>1, <1>2, <1>3, <1>4 DEF RowStep, Changed, Kept, Removed

LEMMA RunningClaimedStep ==
  ASSUME TypeOK, UnusedAreAbsent, RunningWasClaimed, QueueNext
  PROVE  RunningWasClaimed'
<1> SUFFICES ASSUME NEW i \in RunIds, jobs'[i].status = RUNNING
             PROVE  jobs'[i].attempts > 0
  BY DEF RunningWasClaimed, InStatus
<1>1. RowStep(i)
  BY RowEffect
<1>2. CASE Kept(i) \/ Flagged(i)
  BY <1>2 DEF Kept, Flagged, RunningWasClaimed, InStatus
<1>3. CASE Claimed(i)
  BY <1>3, RowTypes DEF Claimed
<1>4. CASE Inserted(i) \/ Removed(i) \/ SentBack(i) \/ Closed(i)
  BY <1>4, NoRowFields, StatusesDiffer DEF Inserted, Removed, SentBack, Closed
<1>. QED
  BY <1>1, <1>2, <1>3, <1>4 DEF RowStep, Changed

LEMMA KeyStep ==
  ASSUME TypeOK, UnusedAreAbsent, KeyNamesOneRow, QueueNext
  PROVE  KeyNamesOneRow'
<1> SUFFICES ASSUME NEW i \in RunIds, NEW j \in RunIds,
                    jobs'[i].idempotency_key # None,
                    jobs'[i].idempotency_key = jobs'[j].idempotency_key
             PROVE  i = j
  BY DEF KeyNamesOneRow
<1> DEFINE SameKey(k) == jobs'[k].idempotency_key = jobs[k].idempotency_key
<1>1. ASSUME NEW k \in {i, j} PROVE Inserted(k) \/ SameKey(k)
  BY <1>1, RowEffect, NoRowFields DEF RowStep, Changed, Kept, Removed, SameSubmission
<1>2. CASE SameKey(i) /\ SameKey(j)
  BY <1>2 DEF KeyNamesOneRow
<1>3. CASE Inserted(i) /\ Inserted(j)
  BY <1>3 DEF Inserted
<1>4. CASE Inserted(i) /\ SameKey(j)
  BY <1>4 DEF Inserted, KeyTaken
<1>5. CASE SameKey(i) /\ Inserted(j)
  BY <1>5 DEF Inserted, KeyTaken
<1>. QED
  BY <1>1, <1>2, <1>3, <1>4, <1>5

LEMMA ArtifactsStep ==
  ASSUME TypeOK, UnusedAreAbsent, ArtifactsMatchResults, QueueNext
  PROVE  ArtifactsMatchResults'
<1> SUFFICES ASSUME NEW i \in RunIds, NEW c \in Parts
             PROVE  <<i, c>> \in artifacts' <=>
                      jobs'[i].status = DONE /\ c \in jobs'[i].result
  BY DEF ArtifactsMatchResults
<1>1. RowStep(i)
  BY RowEffect
<1>2. <<i, c>> \in artifacts <=> jobs[i].status = DONE /\ c \in jobs[i].result
  BY DEF ArtifactsMatchResults
<1>3. CASE Kept(i)
  BY <1>2, <1>3 DEF Kept, SameChunks
<1>4. CASE Inserted(i) \/ Claimed(i) \/ Flagged(i) \/ SentBack(i)
  BY <1>2, <1>4, NoRowFields, StatusesDiffer
     DEF Inserted, Claimed, Flagged, SentBack, SameChunks
<1>5. CASE Closed(i)
  BY <1>2, <1>5, StatusesDiffer DEF Closed
<1>6. CASE Removed(i)
  BY <1>6, NoRowFields, StatusesDiffer DEF Removed
<1>. QED
  BY <1>1, <1>3, <1>4, <1>5, <1>6 DEF RowStep, Changed

LEMMA PendingStep ==
  ASSUME TypeOK, UnusedAreAbsent, PendingMayRun, QueueNext
  PROVE  PendingMayRun'
<1> DEFINE May(row) == row.status = PENDING => /\ row.attempts < MAX_ATTEMPTS
                                               /\ ~row.cancel_requested
                                               /\ row.worker = None
<1> SUFFICES ASSUME NEW i \in RunIds
             PROVE  jobs'[i].attempts <= MAX_ATTEMPTS /\ May(jobs'[i])
  BY DEF PendingMayRun, InStatus
<1>1. RowStep(i)
  BY RowEffect
<1>2. jobs[i].attempts <= MAX_ATTEMPTS /\ May(jobs[i])
  BY DEF PendingMayRun, InStatus
<1>3. CASE Kept(i)
  BY <1>2, <1>3 DEF Kept
<1>4. CASE Inserted(i) \/ Removed(i)
  BY <1>4, NoRowFields, StatusesDiffer DEF Inserted, Removed, MAX_ATTEMPTS
<1>5. CASE Claimed(i)
  BY <1>2, <1>5, RowTypes, StatusesDiffer DEF Claimed, MAX_ATTEMPTS
<1>6. CASE Flagged(i) \/ SentBack(i)
  BY <1>2, <1>6, StatusesDiffer DEF Flagged, SentBack
<1>7. CASE Closed(i)
  BY <1>2, <1>7, StatusesDiffer DEF Closed
<1>. QED
  BY <1>1, <1>3, <1>4, <1>5, <1>6, <1>7 DEF RowStep, Changed

LEMMA OrderStep ==
  ASSUME TypeOK, UnusedAreAbsent, RunningWasClaimed, StartedInOrder, QueueNext
  PROVE  StartedInOrder'
<1> SUFFICES ASSUME NEW i \in RunIds, NEW j \in RunIds, i < j,
                    jobs'[i].status = PENDING, jobs'[i].attempts = 0
             PROVE  jobs'[j].attempts = 0
  BY DEF StartedInOrder
<1>1. RowStep(i) /\ RowStep(j)
  BY RowEffect
<1>2. CASE Kept(i)
  <2>1. i \in InStatus(PENDING) /\ jobs[j].attempts = 0
    BY <1>2 DEF Kept, InStatus, StartedInOrder
  <2>2. ~Claimed(j)
    BY <2>1, RowTypes DEF Claimed
  <2>. QED
    BY <1>1, <2>1, <2>2, NoRowFields
       DEF RowStep, Changed, Kept, Inserted, Removed, Flagged, SentBack, Closed
<1>3. CASE Inserted(i)
  <2>1. j > lastSeq'
    BY <1>3, RowTypes DEF Inserted
  <2>. QED
    BY <2>1, UnusedStep, NoRowFields DEF UnusedAreAbsent
<1>4. CASE SentBack(i)
  BY <1>4, RowTypes DEF SentBack, RunningWasClaimed, InStatus
<1>5. CASE Removed(i) \/ Claimed(i) \/ Flagged(i) \/ Closed(i)
  BY <1>5, NoRowFields, StatusesDiffer DEF Removed, Claimed, Flagged, Closed
<1>. QED
  BY <1>1, <1>2, <1>3, <1>4, <1>5 DEF RowStep, Changed

LEMMA QueueInvInit == QueueInit => QueueInv
<1> SUFFICES ASSUME QueueInit PROVE QueueInv
  OBVIOUS
<1>1. \A i \in RunIds : jobs[i] = NoRow
  BY DEF QueueInit
<1>2. TypeOK
  BY NoRowIsRow, BoundsAssumption DEF QueueInit, TypeOK
<1>3. ArtifactsMatchResults
  BY <1>1, NoRowFields, StatusesDiffer DEF QueueInit, ArtifactsMatchResults
<1>4. KeyNamesOneRow /\ UnusedAreAbsent
  BY <1>1, NoRowFields DEF KeyNamesOneRow, UnusedAreAbsent
<1>5. RunningWasClaimed /\ PendingMayRun /\ StartedInOrder
  BY <1>1, NoRowFields, StatusesDiffer
     DEF RunningWasClaimed, PendingMayRun, StartedInOrder, InStatus, MAX_ATTEMPTS
<1>. QED
  BY <1>2, <1>3, <1>4, <1>5 DEF QueueInv

LEMMA QueueInvStep == QueueInv /\ [QueueNext]_queueVars => QueueInv'
<1> SUFFICES ASSUME QueueInv, [QueueNext]_queueVars PROVE QueueInv'
  OBVIOUS
<1>1. CASE QueueNext
  BY <1>1, TypeStep, UnusedStep, RunningClaimedStep, KeyStep, ArtifactsStep,
     PendingStep, OrderStep DEF QueueInv
<1>2. CASE UNCHANGED queueVars
  BY <1>2 DEF queueVars, QueueInv, TypeOK, UnusedAreAbsent, RunningWasClaimed,
     KeyNamesOneRow, ArtifactsMatchResults, PendingMayRun, StartedInOrder, InStatus
<1>. QED
  BY <1>1, <1>2

----------------------------------------------------------------------------
(* The theorems.                                                           *)

\* All the conjuncts of QueueInv hold of every reachable queue.
THEOREM QueueInvariant == QueueSpec => []QueueInv
BY QueueInvInit, QueueInvStep, PTL DEF QueueSpec

\* Every row, artifact and counter keeps its type (the CHECK constraints and
\* column types of the tables jobs and artifacts).
THEOREM TypeCorrect == QueueSpec => []TypeOK
<1>1. QueueInv => TypeOK
  BY DEF QueueInv
<1>. QED
  BY <1>1, QueueInvariant, PTL

\* However many submissions, retries and purges: one key, one row (submit).
THEOREM KeysAreUnique == QueueSpec => []KeyNamesOneRow
<1>1. QueueInv => KeyNamesOneRow
  BY DEF QueueInv
<1>. QED
  BY <1>1, QueueInvariant, PTL

\* The artifacts stored are those of the done rows, for any set of chunks
\* (finish, purge).
THEOREM ArtifactsAreExact == QueueSpec => []ArtifactsMatchResults
<1>1. QueueInv => ArtifactsMatchResults
  BY DEF QueueInv
<1>. QED
  BY <1>1, QueueInvariant, PTL

\* No run is claimed more than MAX_ATTEMPTS times, and a pending one may be
\* claimed (claim, requeue_running).
THEOREM AttemptsAreBounded == QueueSpec => []PendingMayRun
<1>1. QueueInv => PendingMayRun
  BY DEF QueueInv
<1>. QED
  BY <1>1, QueueInvariant, PTL

\* Runs start in the order they were submitted, however many wait (claim).
THEOREM FirstInFirstStarted == QueueSpec => []StartedInOrder
<1>1. QueueInv => StartedInOrder
  BY DEF QueueInv
<1>. QED
  BY <1>1, QueueInvariant, PTL

\* A finished row never changes, and leaves only by retention
\* (_close_running, interrupt_running, cancel, purge).
THEOREM OutcomesAreFinal == QueueSpec => OutcomeIsFinal
<1> DEFINE Final == \A i \in RunIds :
                      jobs[i].status \in TERMINAL =>
                        \/ jobs'[i] = jobs[i]
                        \/ /\ jobs'[i] = NoRow
                           /\ ~jobs[i].keep
                           /\ now - jobs[i].finished > KeepFor
<1>1. QueueInv /\ [QueueNext]_queueVars => [Final]_queueVars
  <2> SUFFICES ASSUME QueueInv, QueueNext, NEW i \in RunIds, jobs[i].status \in TERMINAL
               PROVE  Kept(i) \/ Removed(i)
    BY DEF Kept, Removed
  <2>1. RowStep(i)
    BY RowEffect DEF QueueInv
  <2>. QED
    BY <2>1, NoRowFields, StatusesDiffer
       DEF RowStep, Changed, Inserted, Claimed, Flagged, SentBack, Closed
<1>. QED
  BY <1>1, QueueInvariant, PTL DEF QueueSpec, OutcomeIsFinal

----------------------------------------------------------------------------
(* The queue implements the lifecycle.                                     *)

LEMMA SeenInit == QueueInit => Lifecycle!Init
BY NoRowFields, StatusesDiffer, BoundsAssumption
   DEF QueueInit, Lifecycle!Init, Seen, RunIds

\* What a caller sees of a row across a step.
LEMMA SeenStep ==
  ASSUME TypeOK, UnusedAreAbsent, NEW i \in RunIds
  PROVE  /\ Inserted(i) => Seen(i)' = "accepted"
         /\ Kept(i) /\ lastSeq' = lastSeq => Seen(i)' = Seen(i)
         /\ Kept(i) /\ lastSeq' = lastSeq + 1 /\ i # lastSeq + 1 => Seen(i)' = Seen(i)
         /\ Claimed(i) \/ Flagged(i) \/ SentBack(i) => Seen(i)' = Seen(i)
         /\ Closed(i) => Seen(i) = "accepted" /\ Seen(i)' \in TERMINAL
         /\ Removed(i) /\ lastSeq' = lastSeq => Seen(i) \in TERMINAL /\ Seen(i)' = "gone"
<1> USE StatusesDiffer, NoRowFields
<1>0. i \in Nat /\ lastSeq \in Nat
  BY RowTypes
<1>1. Inserted(i) => Seen(i)' = "accepted"
  BY DEF Inserted, Seen
<1>2. Kept(i) /\ lastSeq' = lastSeq => Seen(i)' = Seen(i)
  BY DEF Kept, Seen
<1>3. Kept(i) /\ lastSeq' = lastSeq + 1 /\ i # lastSeq + 1 => Seen(i)' = Seen(i)
  BY <1>0 DEF Kept, Seen
<1>4. Claimed(i) \/ Flagged(i) \/ SentBack(i) => Seen(i)' = Seen(i)
  BY DEF Claimed, Flagged, SentBack, Seen
<1>5. Closed(i) => Seen(i) = "accepted" /\ Seen(i)' \in TERMINAL
  BY DEF Closed, Seen, TERMINAL, PENDING, RUNNING, DONE, FAILED, INTERRUPTED, CANCELLED
<1>6. ASSUME Removed(i), lastSeq' = lastSeq
      PROVE  Seen(i) \in TERMINAL /\ Seen(i)' = "gone"
  <2>1. i <= lastSeq
    BY <1>0, <1>6 DEF Removed, UnusedAreAbsent
  <2>2. Seen(i) \in TERMINAL
    BY <1>6 DEF Removed, Seen
  <2>3. Seen(i)' = "gone"
    BY <1>6, <2>1 DEF Removed, Seen
  <2>. QED
    BY <2>2, <2>3
<1>. QED
  BY <1>1, <1>2, <1>3, <1>4, <1>5, <1>6

LEMMA LifecycleStep ==
  QueueInv /\ [QueueNext]_queueVars => [Lifecycle!Next]_(Lifecycle!vars)
<1> SUFFICES ASSUME QueueInv, [QueueNext]_queueVars
             PROVE  Lifecycle!Next \/ UNCHANGED Lifecycle!vars
  OBVIOUS
<1> DEFINE Differ == {i \in RunIds : Seen(i)' # Seen(i)}
<1>a. TypeOK /\ UnusedAreAbsent
  BY DEF QueueInv
<1>1. CASE Inserts
  <2>1. PICK n \in RunIds : Inserted(n) /\ \A j \in RunIds \ {n} : Kept(j)
    BY <1>1 DEF Inserts
  <2>2. n = lastSeq + 1 /\ lastSeq' = lastSeq + 1
    BY <2>1 DEF Inserted
  <2>3. \A j \in RunIds : Seen(j)' = IF j = n THEN "accepted" ELSE Seen(j)
    BY <1>a, <2>1, <2>2, SeenStep
  <2>4. [i \in RunIds |-> Seen(i)]' = [[i \in RunIds |-> Seen(i)] EXCEPT ![n] = "accepted"]
    BY <2>3
  <2>. QED
    BY <2>2, <2>4 DEF Lifecycle!Next, Lifecycle!Accept
<1>2. CASE Changes
  <2>1. \A i \in Differ : Seen(i) = "accepted" /\ Seen(i)' \in TERMINAL
    BY <1>a, <1>2, SeenStep DEF Changes, Changed
  <2>2. CASE Differ = {}
    BY <1>2, <2>2 DEF Changes, Lifecycle!vars
  <2>3. CASE Differ # {}
    <3>1. [i \in Differ |-> Seen(i)'] \in [Differ -> TERMINAL]
      BY <2>1
    <3>2. [i \in RunIds |-> Seen(i)]' =
            [i \in RunIds |-> IF i \in Differ THEN [k \in Differ |-> Seen(k)'][i]
                              ELSE [k \in RunIds |-> Seen(k)][i]]
      OBVIOUS
    <3>3. Lifecycle!End(Differ)
      BY <1>2, <2>1, <3>1, <3>2 DEF Lifecycle!End, Changes
    <3>. QED
      BY <2>3, <3>3 DEF Lifecycle!Next
  <2>. QED
    BY <2>2, <2>3
<1>3. CASE Removes
  <2>1. \A i \in Differ : Seen(i) \in TERMINAL /\ Seen(i)' = "gone"
    BY <1>a, <1>3, SeenStep DEF Removes
  <2>2. CASE Differ = {}
    BY <1>3, <2>2 DEF Removes, Lifecycle!vars
  <2>3. CASE Differ # {}
    <3>1. [i \in RunIds |-> Seen(i)]' =
            [i \in RunIds |-> IF i \in Differ THEN "gone"
                              ELSE [k \in RunIds |-> Seen(k)][i]]
      BY <2>1
    <3>2. Lifecycle!Forget(Differ)
      BY <1>3, <2>1, <3>1 DEF Lifecycle!Forget, Removes
    <3>. QED
      BY <2>3, <3>2 DEF Lifecycle!Next
  <2>. QED
    BY <2>2, <2>3
<1>4. CASE UNCHANGED queueVars
  BY <1>4 DEF queueVars, Lifecycle!vars, Seen
<1>. QED
  BY <1>a, <1>1, <1>2, <1>3, <1>4, StepEffect

\* The queue implements the lifecycle its callers see: a run is accepted once,
\* ends at most once and is forgotten only after that (module RunLifecycle).
THEOREM QueueImplementsLifecycle == QueueSpec => ImplementsLifecycle
BY SeenInit, LifecycleStep, QueueInvariant, PTL
   DEF QueueSpec, ImplementsLifecycle, Lifecycle!Safety
=============================================================================
