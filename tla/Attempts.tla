------------------------------ MODULE Attempts ------------------------------
(***************************************************************************)
(* The attempts of the TraderX path (src/engine/traderx/workload.py) and   *)
(* the routes that make and read them (src/engine/api/traderx_routes.py):  *)
(* a submission is bound to an attempt under the store's lock, the thread  *)
(* that made the attempt prices it, publishes it and only then changes its *)
(* state in memory, others read it meanwhile; the process dies and comes   *)
(* back with nothing but the files.                                        *)
(*                                                                         *)
(* The files are the result store of module Publication used by one        *)
(* process: publishing takes a number, then commits or fails; a lookup     *)
(* finds the highest number.  The stored attempts of a process before this *)
(* one's time may lack their binding's record (OldStores).                 *)
(***************************************************************************)
EXTENDS Integers, Sequences, FiniteSets, SequencesExt

CONSTANTS
  None,
  Workloads,      \* workload keys: what is computed
  SubmissionIds,  \* the callers' idempotency keys
  OldStores,      \* the <<workload, submission id>> a store may begin with
  MaxAttempts,    \* bound: attempts ever made
  MaxFaults       \* bound: failed writes and deaths of the process

ASSUME AttemptsAssumption == /\ OldStores \subseteq Workloads \X SubmissionIds
                             /\ MaxAttempts \in Nat \ {0}
                             /\ MaxFaults \in Nat
                             /\ None \notin Workloads \cup SubmissionIds
                             /\ None \notin {"running", "completed", "failed"}

VARIABLES
  attempts,       \* _attempts: each id's attempt, or NoAttempt
  by_workload,    \* _by_workload: the ids of each workload, oldest first
  by_submission,  \* _by_submission: the id each submission is bound to, or 0
  manifests,      \* the files attempts/: each id's manifest, or NoManifest
  bindings,       \* the files submissions/: each submission's record, or Unbound
  numbers,        \* publication numbers issued so far
  made,           \* attempts made so far
  thread,         \* each id: the thread that made it, as far as it has come
  faults

memory == <<attempts, by_workload, by_submission>>
files  == <<manifests, bindings, numbers>>

VARIABLES
  told,    \* history: the attempts somebody was told have completed
  named    \* history: the workload each submission id was accepted for

history == <<told, named>>
vars == <<memory, files, made, thread, faults, history>>

Ids        == 1 .. MaxAttempts
NoAttempt  == [state |-> None, workload |-> None, submission |-> None, outcome |-> FALSE]
NoManifest == [state |-> None, workload |-> None, submission |-> None, number |-> -1]
Unbound    == [workload |-> None, attempt |-> 0]
NoThread   == [at |-> "none", outcome |-> None, number |-> -1]

TERMINAL == {"completed", "failed"}

\* A thread: pricing; about to take a number for its outcome; about to commit
\* it; about to set the attempt's state, then its result or reason.
Steps == {"none", "pricing", "ended", "numbered", "published", "stated"}

AttTypeOK ==
  /\ attempts \in [Ids -> [state : {"running"} \cup TERMINAL, workload : Workloads,
                           submission : SubmissionIds \cup {None}, outcome : BOOLEAN]
                          \cup {NoAttempt}]
  /\ by_workload \in [Workloads -> Seq(Ids)]
  /\ by_submission \in [SubmissionIds -> Ids \cup {0}]
  /\ manifests \in [Ids -> [state : TERMINAL, workload : Workloads,
                            submission : SubmissionIds \cup {None}, number : Nat]
                           \cup {NoManifest}]
  /\ bindings \in [SubmissionIds -> [workload : Workloads, attempt : Ids] \cup {Unbound}]
  /\ numbers \in Nat
  /\ made \in 0 .. MaxAttempts
  /\ thread \in [Ids -> [at : Steps, outcome : TERMINAL \cup {None}, number : Nat \cup {-1}]]
  /\ faults \in 0 .. MaxFaults
  /\ told \subseteq Ids
  /\ named \in [SubmissionIds -> Workloads \cup {None}]
  \* What memory indexes is in memory, once, under its workload.
  /\ \A w \in Workloads : /\ IsInjective(by_workload[w])
                          /\ \A i \in DOMAIN by_workload[w] :
                               attempts[by_workload[w][i]].workload = w
  /\ \A s \in SubmissionIds : by_submission[s] # 0 => attempts[by_submission[s]] # NoAttempt

NoAttempts == [a \in Ids |-> NoAttempt]
NoIndex    == [w \in Workloads |-> <<>>]
NoIdsBound == [s \in SubmissionIds |-> 0]
NoThreads  == [a \in Ids |-> NoThread]

Stored(old, a) == [state |-> "completed", workload |-> old[1], submission |-> old[2], number |-> a - 1]

Init == /\ attempts = NoAttempts
        /\ by_workload = NoIndex
        /\ by_submission = NoIdsBound
        /\ thread = NoThreads
        /\ \E old \in OldStores \cup {None} :
             /\ made = (IF old = None THEN 0 ELSE 1)
             /\ numbers = made
             /\ manifests = [a \in Ids |-> IF a <= made THEN Stored(old, a) ELSE NoManifest]
        /\ bindings = [s \in SubmissionIds |-> Unbound]
        /\ faults = 0
        /\ told = {}
        /\ named = [s \in SubmissionIds |-> None]

Fault == faults < MaxFaults /\ faults' = faults + 1

----------------------------------------------------------------------------
(* Reading: memory first, then the files.                                  *)

InMemory(a) == a # 0 /\ attempts[a] # NoAttempt
Published   == {a \in Ids : manifests[a] # NoManifest}
Alive(a)    == InMemory(a) \/ a \in Published

Highest(S) == CHOOSE a \in S : \A b \in S : manifests[b].number <= manifests[a].number

\* find_submission: the record of the binding, else the newest manifest that
\* carries the id.
Recorded(s) ==
  LET carriers == {a \in Published : manifests[a].submission = s}
  IN IF bindings[s] # Unbound THEN bindings[s]
     ELSE IF carriers = {} THEN Unbound
     ELSE [workload |-> manifests[Highest(carriers)].workload, attempt |-> Highest(carriers)]

\* Mutant: a binding lives as long as the process that made it.
Binding_MemoryOnly(s) ==
  IF by_submission[s] # 0
  THEN [workload |-> attempts[by_submission[s]].workload, attempt |-> by_submission[s]]
  ELSE Unbound

\* _binding: what a submission id is bound to; its attempt may be gone.
Binding(s) ==
  IF by_submission[s] # 0
  THEN [workload |-> attempts[by_submission[s]].workload, attempt |-> by_submission[s]]
  ELSE Recorded(s)

Rehydrated(a) == [state |-> manifests[a].state, workload |-> manifests[a].workload,
                  submission |-> manifests[a].submission, outcome |-> TRUE]

\* _rehydrate: attempt a is brought into memory if it is only on disk, and s, if
\* any, is bound to it there.
Recall(a, s) ==
  /\ attempts' = IF InMemory(a) THEN attempts ELSE [attempts EXCEPT ![a] = Rehydrated(a)]
  /\ by_workload' = IF InMemory(a) THEN by_workload
                    ELSE [by_workload EXCEPT ![manifests[a].workload] = Append(@, a)]
  /\ by_submission' = [t \in SubmissionIds |->
       IF t = s \/ (~InMemory(a) /\ t = manifests[a].submission /\ by_submission[t] = 0)
       THEN a ELSE by_submission[t]]

\* _latest_completed: the last completed attempt in memory, else the store's.
LatestCompleted(w) ==
  LET order  == by_workload[w]
      done   == {i \in DOMAIN order : attempts[order[i]].state = "completed"}
      stored == {a \in Published : manifests[a].workload = w /\ manifests[a].state = "completed"}
  IN IF done # {} THEN order[Max(done)]
     ELSE IF stored # {} THEN Highest(stored) ELSE 0

\* Mutant: what is in memory is looked for first, whatever its state.
Reported_AnyInMemory(w) ==
  IF by_workload[w] # <<>> THEN Last(by_workload[w]) ELSE LatestCompleted(w)

\* lookup: the latest completed attempt, else the latest in memory, else none.
Reported(w) ==
  IF LatestCompleted(w) # 0 THEN LatestCompleted(w)
  ELSE IF by_workload[w] # <<>> THEN Last(by_workload[w]) ELSE 0

\* The caller is told the state of attempt a, in memory by then.
Tell(a) == told' = IF attempts'[a].state = "completed" THEN told \cup {a} ELSE told

----------------------------------------------------------------------------
(* Submitting: POST /eod/price, up to the answer or the thread's own work. *)

\* An id is checked before anything is returned or started.
Conflict(w, s) ==
  /\ Binding(s).workload \notin {None, w}
  /\ IF Alive(Binding(s).attempt) THEN Recall(Binding(s).attempt, s) ELSE UNCHANGED memory
  /\ UNCHANGED <<files, made, thread, faults, history>>

Name(s, w) == named' = IF s = None THEN named ELSE [named EXCEPT ![s] = w]

\* A retry is answered the attempt its id is bound to, in whatever state.
Retry(w, s) ==
  /\ Binding(s).workload = w
  /\ Alive(Binding(s).attempt)
  /\ Recall(Binding(s).attempt, s)
  /\ Tell(Binding(s).attempt)
  /\ Name(s, w)
  /\ UNCHANGED <<files, made, thread, faults>>

\* The id is new, or its attempt was lost with the process that ran it.
Unclaimed(w, s) == s # None => /\ Binding(s).workload \in {None, w}
                               /\ ~Alive(Binding(s).attempt)

Bind(s, w, a) == bindings' = IF s = None THEN bindings
                             ELSE [bindings EXCEPT ![s] = [workload |-> w, attempt |-> a]]

\* A completed attempt of the workload is reused, and the id bound to it.
Reuse(w, s) ==
  LET a == LatestCompleted(w)
  IN /\ Unclaimed(w, s)
     /\ a # 0
     /\ \/ /\ Bind(s, w, a)
           /\ Recall(a, s)
           /\ Tell(a)
           /\ Name(s, w)
           /\ UNCHANGED faults
        \/ /\ s # None /\ Fault          \* SUBMISSION_NOT_RECORDED
           /\ Recall(a, None)
           /\ UNCHANGED <<bindings, history>>
     /\ UNCHANGED <<manifests, numbers, made, thread>>

\* Mutant: the attempt is started first and its binding recorded when it ends.
Begin_Unrecorded(w, s, reuse) ==
  LET a == made + 1
  IN /\ Unclaimed(w, s)
     /\ reuse => LatestCompleted(w) = 0
     /\ made < MaxAttempts
     /\ made' = a
     /\ attempts' = [attempts EXCEPT ![a] = [state |-> "running", workload |-> w,
                                             submission |-> s, outcome |-> FALSE]]
     /\ by_workload' = [by_workload EXCEPT ![w] = Append(@, a)]
     /\ by_submission' = IF s = None THEN by_submission ELSE [by_submission EXCEPT ![s] = a]
     /\ thread' = [thread EXCEPT ![a].at = "pricing"]
     /\ Name(s, w)
     /\ UNCHANGED <<files, faults, told>>

\* Otherwise a new attempt, bound first, which this request's thread runs.
Begin(w, s, reuse) ==
  LET a == made + 1
  IN /\ Unclaimed(w, s)
     /\ reuse => LatestCompleted(w) = 0
     /\ made < MaxAttempts
     /\ \/ /\ Bind(s, w, a)
           /\ made' = a
           /\ attempts' = [attempts EXCEPT ![a] = [state |-> "running", workload |-> w,
                                                   submission |-> s, outcome |-> FALSE]]
           /\ by_workload' = [by_workload EXCEPT ![w] = Append(@, a)]
           /\ by_submission' = IF s = None THEN by_submission ELSE [by_submission EXCEPT ![s] = a]
           /\ thread' = [thread EXCEPT ![a].at = "pricing"]
           /\ Name(s, w)
           /\ UNCHANGED faults
        \/ /\ s # None /\ Fault          \* SUBMISSION_NOT_RECORDED
           /\ UNCHANGED <<bindings, made, memory, thread, named>>
     /\ UNCHANGED <<manifests, numbers, told>>

Submit == \E w \in Workloads :
            \/ \E s \in SubmissionIds : Conflict(w, s) \/ Retry(w, s)
            \/ \E s \in SubmissionIds \cup {None} :
                 \/ Reuse(w, s)
                 \/ \E reuse \in BOOLEAN : Begin(w, s, reuse)

----------------------------------------------------------------------------
(* The thread of a new attempt.                                            *)

At(a, step) == thread' = [thread EXCEPT ![a].at = step]

\* The bundle is priced, or refused for its inputs.
Price(a) ==
  /\ thread[a].at = "pricing"
  /\ \E outcome \in TERMINAL :
       thread' = [thread EXCEPT ![a].at = "ended", ![a].outcome = outcome]
  /\ UNCHANGED <<memory, files, made, faults, history>>

TakeNumber(a) ==
  /\ thread[a].at = "ended"
  /\ numbers' = numbers + 1
  /\ thread' = [thread EXCEPT ![a].at = "numbered", ![a].number = numbers]
  /\ UNCHANGED <<memory, manifests, bindings, made, faults, history>>

Commit(a) ==
  /\ thread[a].at = "numbered"
  /\ manifests' = [manifests EXCEPT ![a] =
       [state |-> thread[a].outcome, workload |-> attempts[a].workload,
        submission |-> attempts[a].submission, number |-> thread[a].number]]
  /\ At(a, "published")
  /\ UNCHANGED <<memory, bindings, numbers, made, faults, history>>

\* Mutant: the result counts although it could not be published.
CommitFails_Swallowed(a) ==
  /\ thread[a].at = "numbered"
  /\ Fault
  /\ At(a, "published")
  /\ UNCHANGED <<memory, files, made, history>>

\* Publication fails: a result is not reported (RESULT_NOT_PUBLISHED) and its
\* attempt stays running; a failure is recorded in memory all the same.
CommitFails(a) ==
  /\ thread[a].at = "numbered"
  /\ Fault
  /\ IF thread[a].outcome = "completed"
     THEN thread' = [thread EXCEPT ![a] = NoThread]
     ELSE At(a, "published")
  /\ UNCHANGED <<memory, files, made, history>>

\* complete and fail set the state, then the result or reason; the caller is
\* answered after both.
SetState(a) ==
  /\ thread[a].at = "published"
  /\ attempts' = [attempts EXCEPT ![a].state = thread[a].outcome]
  /\ At(a, "stated")
  /\ UNCHANGED <<by_workload, by_submission, files, made, faults, history>>

SetOutcome(a) ==
  /\ thread[a].at = "stated"
  /\ attempts' = [attempts EXCEPT ![a].outcome = TRUE]
  /\ thread' = [thread EXCEPT ![a] = NoThread]
  /\ Tell(a)
  /\ UNCHANGED <<by_workload, by_submission, files, made, faults, named>>

Run(a) == \/ Price(a) \/ TakeNumber(a) \/ Commit(a) \/ CommitFails(a)
          \/ SetState(a) \/ SetOutcome(a)

----------------------------------------------------------------------------
(* GET by workload and by attempt id, and the process's death.             *)

Lookup(w) ==
  /\ Reported(w) # 0
  /\ Recall(Reported(w), None)
  /\ Tell(Reported(w))
  /\ UNCHANGED <<files, made, thread, faults, named>>

Get(a) ==
  /\ Alive(a)
  /\ Recall(a, None)
  /\ Tell(a)
  /\ UNCHANGED <<files, made, thread, faults, named>>

Crash ==
  /\ Fault
  /\ attempts' = NoAttempts
  /\ by_workload' = NoIndex
  /\ by_submission' = NoIdsBound
  /\ thread' = NoThreads
  /\ UNCHANGED <<files, made, history>>

Next == \/ Submit
        \/ \E a \in Ids : Run(a) \/ Get(a)
        \/ \E w \in Workloads : Lookup(w)
        \/ Crash

Spec == Init /\ [][Next]_vars

----------------------------------------------------------------------------
(* What a coordinator may rely on.                                         *)

\* An attempt anyone was told has completed, by whatever route, has its result
\* on disk: no restart takes the answer back (complete's order of publishing
\* and setting the state).
ToldIsDurable == \A a \in told : manifests[a].state = "completed"

\* Once told that a workload completed, a coordinator who looks it up is never
\* sent to unknown, failed or unpublished work, now or after any restart
\* (lookup, _latest_completed, _rehydrate).
LookupFindsCompleted ==
  \A a \in told :
    LET found == Reported(manifests[a].workload)
    IN found # 0 /\ manifests[found].state = "completed"

\* A submission id accepted for a workload is never accepted for another: not
\* by a cached result, not in another process life, not when the attempt it
\* named was lost (submit, _binding, _bind).
IdNamesOneWorkload ==
  [][\A s \in SubmissionIds : named[s] # None => named'[s] = named[s]]_vars

\* No two attempts that can still be found were made for one submission id: a
\* retry finds the attempt, or the attempt is lost for good (_binding).
SubmissionOf(a) == IF InMemory(a) THEN attempts[a].submission ELSE manifests[a].submission

SubmissionRunsOnce ==
  \A a, b \in {c \in Ids : Alive(c)} :
    a # b /\ SubmissionOf(a) # None => SubmissionOf(a) # SubmissionOf(b)
=============================================================================
