-------------------------- MODULE Attempts_proofs --------------------------
(***************************************************************************)
(* Proofs about the attempts of the TraderX path, for any number of        *)
(* workloads, submission ids, attempts and faults: what was told lasts, a  *)
(* lookup finds it, and a submission id names one workload and one attempt.*)
(*                                                                         *)
(* AttInv is the inductive invariant.  AttemptsFit says how an attempt in  *)
(* memory, its thread and its manifest go together; BoundFits that a       *)
(* submission id has one record whoever is asked, memory or the files, and *)
(* that an attempt made for it that can still be found is what it names.   *)
(***************************************************************************)
EXTENDS Attempts, WellFoundedInduction, TLAPS

WorkloadOf(a) == IF InMemory(a) THEN attempts[a].workload ELSE manifests[a].workload

\* An attempt: nothing of one that was not made; what memory and the files
\* say of it agrees; a completed one is on disk.
AttemptFits(a) ==
  /\ a > made => attempts[a] = NoAttempt /\ manifests[a] = NoManifest /\ thread[a] = NoThread
  /\ InMemory(a) /\ a \in Published => /\ attempts[a].workload = manifests[a].workload
                                       /\ attempts[a].submission = manifests[a].submission
  /\ attempts[a].state = "completed" => manifests[a].state = "completed"
  /\ manifests[a].number <= numbers

\* Its thread: what it runs is in memory, and running and unpublished until
\* it commits; a result it has committed is on disk.
ThreadFits(a) ==
  /\ thread[a].at # "none" => InMemory(a)
  /\ thread[a].at \in {"pricing", "ended", "numbered"} => manifests[a] = NoManifest
  /\ thread[a].at \in {"ended", "numbered", "published", "stated"} => thread[a].outcome \in TERMINAL
  /\ thread[a].at = "numbered" => thread[a].number \in 0 .. numbers
  /\ thread[a].at \in {"published", "stated"} /\ thread[a].outcome = "completed"
       => manifests[a].state = "completed"

\* A submission id: its record names an attempt made; an attempt made for it
\* that can be found is the one its record names, and has a record unless it
\* is on disk; memory says what the record says; and so does what was named.
Record(a) == [workload |-> WorkloadOf(a), attempt |-> a]

BoundFits(s) ==
  /\ bindings[s].attempt <= made
  /\ \A a \in Ids :
       /\ bindings[s].attempt = a /\ Alive(a) => bindings[s] = Record(a)
       /\ Alive(a) /\ SubmissionOf(a) = s => \/ bindings[s] = Record(a)
                                             \/ bindings[s] = Unbound /\ a \in Published
       /\ by_submission[s] = a => Recorded(s) = Record(a)
  /\ named[s] # None => Recorded(s).workload = named[s]

ThreadsFit  == \A a \in Ids : ThreadFits(a)
AttemptsFit == \A a \in Ids : AttemptFits(a)
BoundFit    == \A s \in SubmissionIds : BoundFits(s)

AttInv == /\ AttTypeOK
          /\ AttemptsFit
          /\ ThreadsFit
          /\ BoundFit
          /\ SubmissionRunsOnce
          /\ ToldIsDurable

----------------------------------------------------------------------------
(* Words the provers need.                                                 *)

AttemptRecord  == [state : {"running"} \cup TERMINAL, workload : Workloads,
                   submission : SubmissionIds \cup {None}, outcome : BOOLEAN]
ManifestRecord == [state : TERMINAL, workload : Workloads,
                   submission : SubmissionIds \cup {None}, number : Nat]
BindingRecord  == [workload : Workloads, attempt : Ids]
ThreadRecord   == [at : Steps, outcome : TERMINAL \cup {None}, number : Nat \cup {-1}]

LEMMA Names ==
  /\ MaxAttempts \in Nat \ {0} /\ MaxFaults \in Nat
  /\ OldStores \subseteq Workloads \X SubmissionIds
  /\ None \notin Workloads /\ None \notin SubmissionIds
  /\ None # "running" /\ None # "completed" /\ None # "failed"
  /\ 0 \notin Ids /\ Ids \subseteq Nat
BY AttemptsAssumption DEF Ids

LEMMA Fields ==
  /\ NoAttempt.state = None /\ NoAttempt.workload = None /\ NoAttempt.submission = None
  /\ NoManifest.state = None /\ NoManifest.workload = None /\ NoManifest.submission = None
  /\ NoManifest.number = -1
  /\ Unbound.workload = None /\ Unbound.attempt = 0
  /\ NoThread.at = "none" /\ NoThread \in ThreadRecord
  /\ \A x \in AttemptRecord : x # NoAttempt
  /\ \A x \in ManifestRecord : x # NoManifest
  /\ \A x \in BindingRecord : x # Unbound
BY Names DEF NoAttempt, NoManifest, Unbound, NoThread, AttemptRecord, ManifestRecord,
             BindingRecord, ThreadRecord, Steps

\* The type invariant in parts.
IndexFits(w) ==
  /\ IsInjective(by_workload[w])
  /\ \A i \in DOMAIN by_workload[w] : attempts[by_workload[w][i]].workload = w

LEMMA Types ==
  AttTypeOK <=>
    /\ attempts \in [Ids -> AttemptRecord \cup {NoAttempt}]
    /\ by_workload \in [Workloads -> Seq(Ids)]
    /\ by_submission \in [SubmissionIds -> Ids \cup {0}]
    /\ manifests \in [Ids -> ManifestRecord \cup {NoManifest}]
    /\ bindings \in [SubmissionIds -> BindingRecord \cup {Unbound}]
    /\ numbers \in Nat
    /\ made \in 0 .. MaxAttempts
    /\ thread \in [Ids -> ThreadRecord]
    /\ faults \in 0 .. MaxFaults
    /\ told \subseteq Ids
    /\ named \in [SubmissionIds -> Workloads \cup {None}]
    /\ \A w \in Workloads : IndexFits(w)
    /\ \A s \in SubmissionIds : by_submission[s] # 0 => attempts[by_submission[s]] # NoAttempt
BY DEF AttTypeOK, AttemptRecord, ManifestRecord, BindingRecord, ThreadRecord, IndexFits

LEMMA TypesNext == (AttTypeOK)' <=>
    /\ attempts' \in [Ids -> AttemptRecord \cup {NoAttempt}]
    /\ by_workload' \in [Workloads -> Seq(Ids)]
    /\ by_submission' \in [SubmissionIds -> Ids \cup {0}]
    /\ manifests' \in [Ids -> ManifestRecord \cup {NoManifest}]
    /\ bindings' \in [SubmissionIds -> BindingRecord \cup {Unbound}]
    /\ numbers' \in Nat
    /\ made' \in 0 .. MaxAttempts
    /\ thread' \in [Ids -> ThreadRecord]
    /\ faults' \in 0 .. MaxFaults
    /\ told' \subseteq Ids
    /\ named' \in [SubmissionIds -> Workloads \cup {None}]
    /\ \A w \in Workloads : IndexFits(w)'
    /\ \A s \in SubmissionIds : by_submission'[s] # 0 => attempts'[by_submission'[s]] # NoAttempt
BY DEF AttTypeOK, AttemptRecord, ManifestRecord, BindingRecord, ThreadRecord, IndexFits

LEMMA Typed ==
  ASSUME AttTypeOK
  PROVE  /\ \A a \in Ids : /\ InMemory(a) <=> attempts[a] \in AttemptRecord
                           /\ ~InMemory(a) <=> attempts[a] = NoAttempt
                           /\ a \in Published <=> manifests[a] \in ManifestRecord
                           /\ a \notin Published <=> manifests[a] = NoManifest
                           /\ thread[a] \in ThreadRecord
                           /\ InMemory(a) \/ a \in Published => WorkloadOf(a) \in Workloads
                           /\ SubmissionOf(a) \in SubmissionIds \cup {None}
         /\ \A s \in SubmissionIds : by_submission[s] # 0 => InMemory(by_submission[s])
         /\ ~Alive(0)
<1>. USE Names, Fields, Types
<1>1. ASSUME NEW a \in Ids
      PROVE  /\ InMemory(a) <=> attempts[a] \in AttemptRecord
             /\ ~InMemory(a) <=> attempts[a] = NoAttempt
             /\ a \in Published <=> manifests[a] \in ManifestRecord
             /\ a \notin Published <=> manifests[a] = NoManifest
             /\ thread[a] \in ThreadRecord
  BY <1>1 DEF InMemory, Published
<1>2. ASSUME NEW a \in Ids
      PROVE  /\ InMemory(a) \/ a \in Published => WorkloadOf(a) \in Workloads
             /\ SubmissionOf(a) \in SubmissionIds \cup {None}
  BY <1>1, <1>2 DEF WorkloadOf, SubmissionOf, AttemptRecord, ManifestRecord
<1>3. \A s \in SubmissionIds : by_submission[s] # 0 => InMemory(by_submission[s])
  BY DEF InMemory
<1>4. ~Alive(0)
  BY DEF Alive, InMemory, Published
<1>. QED
  BY <1>1, <1>2, <1>3, <1>4

\* Numbers with a bound have a largest: the one with least to the bound.
LEMMA BoundedMaximum ==
  ASSUME NEW S, S # {}, NEW f \in [S -> Int], NEW n \in Nat, \A x \in S : f[x] <= n
  PROVE  \E x \in S : \A y \in S : f[y] <= f[x]
<1>. DEFINE left == {n - f[x] : x \in S}
<1>1. left \subseteq Nat /\ left # {}
  OBVIOUS
<1>2. PICK m \in left : \A k \in left : ~(<<k, m>> \in OpToRel(<, Nat))
  BY <1>1, NatLessThanWellFounded, WFMin
<1>3. PICK x \in S : m = n - f[x]
  OBVIOUS
<1>4. ASSUME NEW y \in S
      PROVE  f[y] <= f[x]
  <2>1. n - f[y] \in left /\ n - f[y] \in Nat /\ m \in Nat
    BY <1>1
  <2>2. ~(n - f[y] < m)
    BY <1>2, <2>1 DEF OpToRel
  <2>. QED
    BY <1>3, <2>2
<1>. QED
  BY <1>4

----------------------------------------------------------------------------
(* What the files and memory say.                                          *)

LEMMA HighestIsOne ==
  ASSUME AttTypeOK, AttemptsFit, NEW S \in SUBSET Published, S # {}
  PROVE  Highest(S) \in S
<1>1. S \subseteq Ids /\ numbers \in Nat
  BY Types DEF Published
<1>. DEFINE f == [x \in S |-> manifests[x].number]
<1>2. f \in [S -> Int] /\ \A x \in S : f[x] <= numbers
  BY <1>1, Typed DEF AttemptsFit, AttemptFits, ManifestRecord
<1>. HIDE DEF f
<1>3. \E x \in S : \A y \in S : f[y] <= f[x]
  BY <1>1, <1>2, BoundedMaximum
<1>4. \E x \in S : \A y \in S : manifests[y].number <= manifests[x].number
  BY <1>3 DEF f
<1>. QED
  BY <1>4 DEF Highest

LEMMA LastDone ==
  ASSUME NEW n \in Nat, NEW S \in SUBSET (1 .. n), S # {}
  PROVE  Max(S) \in S
<1>. DEFINE f == [x \in S |-> x]
<1>1. f \in [S -> Int] /\ \A x \in S : f[x] <= n
  OBVIOUS
<1>. HIDE DEF f
<1>2. \E x \in S : \A y \in S : f[y] <= f[x]
  BY <1>1, BoundedMaximum
<1>3. \E x \in S : \A y \in S : x >= y
  BY <1>2 DEF f
<1>. QED
  BY <1>3 DEF Max

\* The completed attempts a lookup may find are on disk, and one is found if
\* there is any.
Completed(w) == {a \in Published : manifests[a].workload = w /\ manifests[a].state = "completed"}

LEMMA LatestIsCompleted ==
  ASSUME AttTypeOK, AttemptsFit, NEW w \in Workloads
  PROVE  /\ LatestCompleted(w) \in Completed(w) \cup {0}
         /\ Completed(w) # {} => LatestCompleted(w) # 0
<1>. USE Names, Types
<1>. DEFINE order == by_workload[w]
            done  == {i \in DOMAIN order : attempts[order[i]].state = "completed"}
<1>1. order \in Seq(Ids) /\ DOMAIN order = 1 .. Len(order) /\ Len(order) \in Nat
  OBVIOUS
<1>2. \A i \in DOMAIN order : order[i] \in Ids
  BY <1>1
<1>3. CASE done # {}
  <2>1. Max(done) \in done
    BY <1>1, <1>3, LastDone
  <2>2. PICK i \in DOMAIN order : i = Max(done) /\ attempts[order[i]].state = "completed"
    BY <2>1
  <2>3. PICK a \in Ids : a = order[i]
    BY <1>2
  <2>4. attempts[a].state = "completed" /\ attempts[a].workload = w
    BY <2>2, <2>3 DEF IndexFits
  <2>5. attempts[a] # NoAttempt /\ manifests[a].state = "completed"
    BY <2>4, Fields DEF AttemptsFit, AttemptFits
  <2>6. a \in Published /\ manifests[a].workload = w
    BY <2>4, <2>5, Fields DEF AttemptsFit, AttemptFits, Published, InMemory
  <2>7. LatestCompleted(w) = a
    BY <1>3, <2>2, <2>3 DEF LatestCompleted
  <2>. QED
    BY <2>5, <2>6, <2>7 DEF Completed
<1>4. CASE done = {}
  <2>1. LatestCompleted(w) = IF Completed(w) # {} THEN Highest(Completed(w)) ELSE 0
    BY <1>4 DEF LatestCompleted, Completed
  <2>2. Completed(w) # {} => Highest(Completed(w)) \in Completed(w)
    BY HighestIsOne DEF Completed
  <2>. QED
    BY <2>1, <2>2 DEF Completed, Published
<1>. QED
  BY <1>3, <1>4

LEMMA ReportedIsFound ==
  ASSUME AttTypeOK, AttemptsFit, NEW w \in Workloads
  PROVE  /\ Reported(w) # 0 => Reported(w) \in Ids /\ Alive(Reported(w))
         /\ Completed(w) # {} => Reported(w) \in Completed(w)
<1>. USE Names, Types
<1>1. LatestCompleted(w) # 0 => Reported(w) \in Completed(w)
  BY LatestIsCompleted DEF Reported
<1>2. Completed(w) \subseteq Ids /\ \A a \in Completed(w) : Alive(a)
  BY DEF Completed, Published, Alive
<1>3. CASE LatestCompleted(w) = 0 /\ by_workload[w] # <<>>
  <2>. DEFINE order == by_workload[w]
  <2>1. order \in Seq(Ids) /\ Len(order) \in DOMAIN order
    BY <1>3
  <2>2. order[Len(order)] \in Ids /\ attempts[order[Len(order)]].workload = w
    BY <2>1 DEF IndexFits
  <2>3. Reported(w) = order[Len(order)]
    BY <1>3 DEF Reported, Last
  <2>. QED
    BY <2>2, <2>3, LatestIsCompleted, <1>3, Fields DEF Alive, InMemory
<1>4. CASE LatestCompleted(w) = 0 /\ by_workload[w] = <<>>
  BY <1>4, LatestIsCompleted DEF Reported
<1>. QED
  BY <1>1, <1>2, <1>3, <1>4, LatestIsCompleted

\* The record of a submission id is its binding's, else its one carrier's.
RecordFits(s) ==
  /\ bindings[s] # Unbound => Recorded(s) = bindings[s]
  /\ \A a \in Published : bindings[s] = Unbound /\ manifests[a].submission = s =>
       Recorded(s) = [workload |-> manifests[a].workload, attempt |-> a]
  /\ bindings[s] = Unbound /\ (\A a \in Published : manifests[a].submission # s) =>
       Recorded(s) = Unbound

RecordsFit == \A s \in SubmissionIds : RecordFits(s)

LEMMA RecordsAre == AttTypeOK /\ AttemptsFit /\ SubmissionRunsOnce => RecordsFit
<1>. SUFFICES ASSUME AttTypeOK, AttemptsFit, SubmissionRunsOnce, NEW s \in SubmissionIds
              PROVE  RecordFits(s)
  BY DEF RecordsFit
<1>. DEFINE carriers == {a \in Published : manifests[a].submission = s}
<1>1. ASSUME NEW a \in Published, manifests[a].submission = s
      PROVE  Highest(carriers) = a
  <2>1. \A b \in Published : b \in Ids /\ Alive(b) /\ SubmissionOf(b) = manifests[b].submission
    BY DEF Published, Alive, SubmissionOf, AttemptsFit, AttemptFits
  <2>2. \A b \in carriers : b = a
    BY <1>1, <2>1, Names DEF SubmissionRunsOnce
  <2>3. Highest(carriers) \in carriers
    BY <1>1, HighestIsOne
  <2>. QED
    BY <2>2, <2>3
<1>2. bindings[s] # Unbound => Recorded(s) = bindings[s]
  BY DEF Recorded
<1>3. ASSUME NEW a \in Published, bindings[s] = Unbound, manifests[a].submission = s
      PROVE  Recorded(s) = [workload |-> manifests[a].workload, attempt |-> a]
  BY <1>1, <1>3 DEF Recorded
<1>4. bindings[s] = Unbound /\ (\A a \in Published : manifests[a].submission # s)
        => Recorded(s) = Unbound
  BY DEF Recorded
<1>. QED
  BY <1>2, <1>3, <1>4 DEF RecordFits

LEMMA RecordsAreNext == (AttTypeOK /\ AttemptsFit /\ SubmissionRunsOnce => RecordsFit)'
BY RecordsAre, PTL

LEMMA InvParts ==
  ASSUME AttInv
  PROVE  AttTypeOK /\ AttemptsFit /\ ThreadsFit /\ BoundFit /\ SubmissionRunsOnce
         /\ ToldIsDurable /\ RecordsFit
BY RecordsAre DEF AttInv

\* What a submission id is bound to is what its record says: an attempt that
\* can be found is what was made for it.
LEMMA BindingIsRecorded ==
  ASSUME AttInv, NEW s \in SubmissionIds
  PROVE  /\ Binding(s) = Recorded(s)
         /\ Recorded(s) \in BindingRecord \cup {Unbound}
         /\ Alive(Recorded(s).attempt) => /\ Recorded(s).attempt \in Ids
                                          /\ Recorded(s) = Record(Recorded(s).attempt)
         /\ \A a \in Ids : Alive(a) /\ SubmissionOf(a) = s => Recorded(s) = Record(a)
<1>. USE Names, InvParts, Types, Fields, Typed
<1>1. BoundFits(s) /\ RecordFits(s)
  BY DEF BoundFit, RecordsFit
<1>2. Binding(s) = Recorded(s)
  <2>1. CASE by_submission[s] = 0
    BY <2>1 DEF Binding
  <2>2. CASE by_submission[s] # 0
    <3>1. PICK b \in Ids : b = by_submission[s]
      BY <2>2
    <3>2. Recorded(s) = Record(b) /\ InMemory(b)
      BY <1>1, <2>2, <3>1 DEF BoundFits
    <3>. QED
      BY <2>2, <3>1, <3>2 DEF Binding, Record, WorkloadOf
  <2>. QED
    BY <2>1, <2>2
<1>3. \A a \in Published : a \in Ids /\ Alive(a) /\ SubmissionOf(a) = manifests[a].submission
                           /\ WorkloadOf(a) = manifests[a].workload
  BY DEF Published, Alive, SubmissionOf, WorkloadOf, AttemptsFit, AttemptFits
<1>4. CASE bindings[s] # Unbound
  <2>1. PICK c \in Ids : c = bindings[s].attempt
    BY <1>4 DEF BindingRecord
  <2>2. /\ Alive(c) => bindings[s] = Record(c)
        /\ \A a \in Ids : Alive(a) /\ SubmissionOf(a) = s => bindings[s] = Record(a)
    BY <1>1, <1>4, <2>1 DEF BoundFits
  <2>. QED
    BY <1>1, <1>2, <1>4, <2>1, <2>2 DEF RecordFits
<1>5. CASE bindings[s] = Unbound /\ \E a \in Published : manifests[a].submission = s
  <2>1. PICK a \in Published : manifests[a].submission = s
    BY <1>5
  <2>2. Recorded(s) = Record(a) /\ Record(a) \in BindingRecord /\ Record(a).attempt = a
    BY <1>1, <1>3, <1>5, <2>1 DEF RecordFits, Record, BindingRecord
  <2>3. ASSUME NEW b \in Ids, Alive(b), SubmissionOf(b) = s
        PROVE  b = a
    <3>1. {a, b} \subseteq {c \in Ids : Alive(c)} /\ SubmissionOf(a) = SubmissionOf(b)
      BY <1>3, <2>1, <2>3
    <3>2. SubmissionOf(b) # None
      BY <2>3
    <3>. QED
      BY <3>1, <3>2 DEF SubmissionRunsOnce
  <2>. QED
    BY <1>2, <1>3, <2>2, <2>3
<1>6. CASE bindings[s] = Unbound /\ \A a \in Published : manifests[a].submission # s
  <2>1. Recorded(s) = Unbound
    BY <1>1, <1>6 DEF RecordFits
  <2>2. ASSUME NEW a \in Ids, Alive(a), SubmissionOf(a) = s
        PROVE  FALSE
    <3>1. a \notin Published
      BY <1>3, <1>6, <2>2
    <3>2. bindings[s] = Record(a)
      BY <1>1, <2>2, <3>1 DEF BoundFits
    <3>. QED
      BY <1>6, <3>2 DEF Record
  <2>. QED
    BY <1>2, <2>1, <2>2
<1>. QED
  BY <1>4, <1>5, <1>6

----------------------------------------------------------------------------
(* Bringing an attempt into memory.                                        *)

\* Who can be found, and for what work and submission, is unchanged.
SameAttempts == \A b \in Ids : /\ Alive(b)' <=> Alive(b)
                               /\ WorkloadOf(b)' = WorkloadOf(b)
                               /\ SubmissionOf(b)' = SubmissionOf(b)

LEMMA RecallShape ==
  ASSUME AttTypeOK, AttemptsFit, NEW a \in Ids, Alive(a),
         NEW s \in SubmissionIds \cup {None},
         Recall(a, s), UNCHANGED <<manifests, made>>
  PROVE  /\ attempts' \in [Ids -> AttemptRecord \cup {NoAttempt}]
         /\ \A b \in Ids : b # a \/ InMemory(b) => attempts'[b] = attempts[b]
         /\ InMemory(a)'
         /\ ~InMemory(a) => attempts'[a].state = manifests[a].state
         /\ SameAttempts
<1>. USE Names, Types, Fields, Typed
<1>1. CASE InMemory(a)
  <2>1. attempts' = attempts
    BY <1>1 DEF Recall
  <2>. QED
    BY <1>1, <2>1 DEF SameAttempts, Alive, Published, InMemory, WorkloadOf, SubmissionOf
<1>2. CASE ~InMemory(a)
  <2>1. a \in Published /\ manifests[a] \in ManifestRecord /\ attempts[a] = NoAttempt
    BY <1>2 DEF Alive
  <2>2. attempts' = [attempts EXCEPT ![a] = Rehydrated(a)]
    BY <1>2 DEF Recall
  <2>3. /\ Rehydrated(a) \in AttemptRecord /\ Rehydrated(a).state = manifests[a].state
        /\ Rehydrated(a).workload = manifests[a].workload
        /\ Rehydrated(a).submission = manifests[a].submission
    BY <2>1 DEF Rehydrated, AttemptRecord, ManifestRecord
  <2>4. attempts' \in [Ids -> AttemptRecord \cup {NoAttempt}]
    BY <2>2, <2>3
  <2>5. /\ \A b \in Ids : b # a => attempts'[b] = attempts[b]
        /\ attempts'[a] = Rehydrated(a) /\ attempts'[a] # NoAttempt /\ a # 0
    BY <2>2, <2>3
  <2>6. SameAttempts
    BY <1>2, <2>1, <2>3, <2>5 DEF SameAttempts, Alive, Published, InMemory, WorkloadOf, SubmissionOf
  <2>. QED
    BY <1>2, <2>3, <2>4, <2>5, <2>6 DEF InMemory
<1>. QED
  BY <1>1, <1>2

LEMMA AppendedAll ==
  ASSUME NEW S, NEW q \in Seq(S), NEW x \in S
  PROVE  /\ Append(q, x) \in Seq(S)
         /\ DOMAIN Append(q, x) = 1 .. Len(q) + 1
         /\ Append(q, x)[Len(q) + 1] = x
         /\ DOMAIN q = 1 .. Len(q) /\ Len(q) \in Nat
         /\ \A i \in 1 .. Len(q) : Append(q, x)[i] = q[i]
OBVIOUS

LEMMA AppendedOnce ==
  ASSUME NEW S, NEW q \in Seq(S), IsInjective(q), NEW x \in S,
         \A i \in DOMAIN q : q[i] # x
  PROVE  IsInjective(Append(q, x))
<1>1. PICK r : r = Append(q, x)
  OBVIOUS
<1>2. /\ DOMAIN r = 1 .. Len(q) + 1 /\ DOMAIN q = 1 .. Len(q) /\ Len(q) \in Nat
      /\ r[Len(q) + 1] = x /\ \A i \in 1 .. Len(q) : r[i] = q[i]
  BY <1>1, AppendedAll
<1>3. \A i \in 1 .. Len(q) + 1 : i \in 1 .. Len(q) \/ i = Len(q) + 1
  BY <1>2
<1>4. ASSUME NEW i \in DOMAIN r, NEW j \in DOMAIN r, r[i] = r[j]
      PROVE  i = j
  <2>1. CASE i \in 1 .. Len(q) /\ j \in 1 .. Len(q)
    BY <1>2, <1>4, <2>1 DEF IsInjective
  <2>2. CASE i \in 1 .. Len(q) /\ j = Len(q) + 1
    BY <1>2, <1>4, <2>2
  <2>3. CASE i = Len(q) + 1 /\ j \in 1 .. Len(q)
    BY <1>2, <1>4, <2>3
  <2>. QED
    BY <1>2, <1>3, <2>1, <2>2, <2>3
<1>5. IsInjective(r)
  BY <1>4 DEF IsInjective
<1>. QED
  BY <1>1, <1>5

LEMMA Indexed ==
  ASSUME AttTypeOK, NEW a \in Ids, NEW v \in Workloads, NEW w \in Workloads,
         attempts[a] = NoAttempt, attempts'[a].workload = v,
         \A b \in Ids : b # a => attempts'[b] = attempts[b],
         by_workload' = [by_workload EXCEPT ![v] = Append(by_workload[v], a)]
  PROVE  by_workload'[w] \in Seq(Ids) /\ IndexFits(w)'
<1>. USE Names, Types, Fields
<1>1. /\ by_workload[w] \in Seq(Ids) /\ IsInjective(by_workload[w])
      /\ \A i \in DOMAIN by_workload[w] : /\ by_workload[w][i] \in Ids
                                          /\ attempts[by_workload[w][i]].workload = w
  BY DEF IndexFits
<1>2. \A i \in DOMAIN by_workload[w] : by_workload[w][i] # a
  BY <1>1
<1>3. CASE w # v
  BY <1>1, <1>2, <1>3 DEF IndexFits
<1>4. CASE w = v
  <2>1. PICK q \in Seq(Ids) : q = by_workload[w]
    BY <1>1
  <2>2. by_workload'[w] = Append(q, a) /\ IsInjective(q) /\ \A i \in DOMAIN q : q[i] # a
    BY <1>1, <1>2, <1>4, <2>1
  <2>3. PICK r : r = Append(q, a)
    OBVIOUS
  <2>4. IsInjective(r)
    BY <2>2, <2>3, AppendedOnce
  <2>5. /\ r \in Seq(Ids) /\ DOMAIN r = 1 .. Len(q) + 1 /\ r[Len(q) + 1] = a
         /\ DOMAIN q = 1 .. Len(q) /\ Len(q) \in Nat
         /\ \A i \in 1 .. Len(q) : r[i] = q[i]
    BY <2>3, AppendedAll
  <2>6. \A i \in DOMAIN r : r[i] = a \/ (i \in DOMAIN q /\ r[i] = q[i])
    BY <2>5
  <2>7. ASSUME NEW i \in DOMAIN r
        PROVE  attempts'[r[i]].workload = w
    <3>1. CASE r[i] = a
      BY <1>4, <3>1
    <3>2. CASE i \in DOMAIN q /\ r[i] = q[i]
      <4>1. PICK b \in Ids : b = q[i] /\ b # a /\ attempts[b].workload = w
        BY <1>1, <1>2, <2>1, <3>2
      <4>. QED
        BY <3>2, <4>1
    <3>. QED
      BY <2>6, <3>1, <3>2
  <2>. QED
    BY <2>2, <2>3, <2>4, <2>5, <2>7 DEF IndexFits
<1>. QED
  BY <1>3, <1>4

LEMMA RecallTypes ==
  ASSUME AttTypeOK, AttemptsFit, NEW a \in Ids, Alive(a),
         NEW s \in SubmissionIds \cup {None},
         Recall(a, s), UNCHANGED <<manifests, made>>
  PROVE  /\ by_workload' \in [Workloads -> Seq(Ids)]
         /\ by_submission' \in [SubmissionIds -> Ids \cup {0}]
         /\ \A w \in Workloads : IndexFits(w)'
         /\ \A t \in SubmissionIds : by_submission'[t] # 0 => attempts'[by_submission'[t]] # NoAttempt
<1>. USE Names, Types, Fields, Typed
<1>1. by_submission' \in [SubmissionIds -> Ids \cup {0}]
  BY DEF Recall
<1>2. \A t \in SubmissionIds : by_submission'[t] # 0 => attempts'[by_submission'[t]] # NoAttempt
  <2>. SUFFICES ASSUME NEW t \in SubmissionIds, by_submission'[t] # 0
                PROVE  attempts'[by_submission'[t]] # NoAttempt
    OBVIOUS
  <2>1. by_submission'[t] = a \/ by_submission'[t] = by_submission[t]
    BY DEF Recall
  <2>2. InMemory(a)' /\ \A b \in Ids : InMemory(b) => attempts'[b] = attempts[b]
    BY RecallShape
  <2>. QED
    BY <2>1, <2>2 DEF InMemory
<1>3. CASE InMemory(a)
  <2>1. by_workload' = by_workload /\ attempts' = attempts
    BY <1>3 DEF Recall
  <2>. QED
    BY <1>1, <1>2, <2>1 DEF IndexFits
<1>4. CASE ~InMemory(a)
  <2>1. PICK v \in Workloads : v = manifests[a].workload
    BY <1>4 DEF Alive, ManifestRecord
  <2>2. by_workload' = [by_workload EXCEPT ![v] = Append(by_workload[v], a)]
    BY <1>4, <2>1 DEF Recall
  <2>3. attempts[a] = NoAttempt /\ attempts'[a].workload = v
        /\ \A b \in Ids : b # a => attempts'[b] = attempts[b]
    BY <1>4, <2>1, RecallShape DEF SameAttempts, WorkloadOf
  <2>4. ASSUME NEW w \in Workloads
        PROVE  by_workload'[w] \in Seq(Ids) /\ IndexFits(w)'
    BY <2>2, <2>3, Indexed
  <2>5. by_workload' \in [Workloads -> Seq(Ids)]
    BY <2>2, <2>4
  <2>. QED
    BY <1>1, <1>2, <2>4, <2>5
<1>. QED
  BY <1>3, <1>4

----------------------------------------------------------------------------
(* Answering: an attempt that can be found is brought into memory, and the *)
(* submission id, if any, is or becomes its.                               *)

Answering(a, s) ==
  /\ Recall(a, s)
  /\ UNCHANGED <<manifests, numbers, made, thread>>
  /\ faults' \in 0 .. MaxFaults
  /\ bindings' \in [SubmissionIds -> BindingRecord \cup {Unbound}]
  /\ named' \in [SubmissionIds -> Workloads \cup {None}]
  /\ \A t \in SubmissionIds : t # s => bindings'[t] = bindings[t] /\ named'[t] = named[t]
  /\ s # None =>
       /\ \/ bindings'[s] = bindings[s] /\ Recorded(s) = Record(a)
          \/ /\ bindings'[s] = Record(a)
             /\ Recorded(s).workload \in {None, WorkloadOf(a)}
             /\ ~Alive(Recorded(s).attempt)
       /\ named'[s] \in {named[s], WorkloadOf(a)}
  /\ told' \in {told, told \cup {a}}
  /\ told' # told => attempts'[a].state = "completed"

LEMMA RecordedSame ==
  ASSUME NEW t \in SubmissionIds, bindings'[t] = bindings[t], manifests' = manifests
  PROVE  Recorded(t)' = Recorded(t)
BY DEF Recorded, Published, Highest

LEMMA AnsweringTypes ==
  ASSUME AttInv, NEW a \in Ids, Alive(a), NEW s \in SubmissionIds \cup {None}, Answering(a, s)
  PROVE  AttTypeOK'
<1>1. AttTypeOK /\ AttemptsFit
  BY DEF AttInv
<1>2. Recall(a, s) /\ UNCHANGED <<manifests, numbers, made, thread>>
  BY DEF Answering
<1>3. attempts' \in [Ids -> AttemptRecord \cup {NoAttempt}]
  BY <1>1, <1>2, RecallShape
<1>4. /\ by_workload' \in [Workloads -> Seq(Ids)]
      /\ by_submission' \in [SubmissionIds -> Ids \cup {0}]
      /\ \A w \in Workloads : IndexFits(w)'
      /\ \A t \in SubmissionIds : by_submission'[t] # 0 => attempts'[by_submission'[t]] # NoAttempt
  BY <1>1, <1>2, RecallTypes
<1>5. told' \subseteq Ids
  BY <1>1, Types DEF Answering
<1>6. /\ manifests' \in [Ids -> ManifestRecord \cup {NoManifest}] /\ numbers' \in Nat
      /\ made' \in 0 .. MaxAttempts /\ thread' \in [Ids -> ThreadRecord]
  BY <1>1, <1>2, Types
<1>7. /\ bindings' \in [SubmissionIds -> BindingRecord \cup {Unbound}]
      /\ faults' \in 0 .. MaxFaults /\ named' \in [SubmissionIds -> Workloads \cup {None}]
  BY DEF Answering
<1>. QED
  BY <1>3, <1>4, <1>5, <1>6, <1>7, TypesNext

LEMMA AnsweringAttempts ==
  ASSUME AttInv, NEW a \in Ids, Alive(a), NEW s \in SubmissionIds \cup {None}, Answering(a, s)
  PROVE  AttemptsFit' /\ ThreadsFit' /\ SubmissionRunsOnce' /\ ToldIsDurable'
<1>. USE Names, Fields
<1>1. AttTypeOK /\ AttemptsFit /\ ThreadsFit /\ SubmissionRunsOnce /\ ToldIsDurable
  BY DEF AttInv
<1>2. Recall(a, s) /\ UNCHANGED <<manifests, numbers, made, thread>>
  BY DEF Answering
<1>3. /\ \A b \in Ids : b # a \/ InMemory(b) => attempts'[b] = attempts[b]
      /\ InMemory(a)'
      /\ ~InMemory(a) => attempts'[a].state = manifests[a].state
      /\ SameAttempts
  BY <1>1, <1>2, RecallShape
<1>4. ASSUME NEW b \in Ids
      PROVE  AttemptFits(b)'
  <2>1. AttemptFits(b)
    BY <1>1 DEF AttemptsFit
  <2>2. CASE b # a \/ InMemory(b)
    <3>1. attempts'[b] = attempts[b]
      BY <1>3, <2>2
    <3>. QED
      BY <1>2, <2>1, <3>1 DEF AttemptFits, InMemory, Published
  <2>3. CASE b = a /\ ~InMemory(b)
    <3>1. a \in Published /\ attempts'[a].state = manifests[a].state
      BY <1>3, <2>3 DEF Alive
    <3>2. attempts'[a].workload = manifests[a].workload /\ attempts'[a].submission = manifests[a].submission
      BY <1>3, <2>3 DEF SameAttempts, WorkloadOf, SubmissionOf
    <3>3. ~(a > made)
      BY <2>1, <2>3, <3>1 DEF AttemptFits, Published
    <3>. QED
      BY <1>2, <2>1, <2>3, <3>1, <3>2, <3>3 DEF AttemptFits, InMemory, Published
  <2>. QED
    BY <2>2, <2>3
<1>5. ASSUME NEW b \in Ids
      PROVE  ThreadFits(b)'
  <2>1. ThreadFits(b) /\ (InMemory(b) => InMemory(b)')
    BY <1>1, <1>3 DEF ThreadsFit, InMemory
  <2>. QED
    BY <1>2, <2>1 DEF ThreadFits, InMemory
<1>6. SubmissionRunsOnce'
  BY <1>1, <1>3 DEF SubmissionRunsOnce, SameAttempts
<1>7. ToldIsDurable'
  <2>1. \A b \in told : b \in Ids /\ manifests'[b].state = "completed"
    BY <1>1, <1>2, Types DEF ToldIsDurable
  <2>2. told' # told => manifests'[a].state = "completed"
    BY <1>2, <1>4 DEF Answering, AttemptFits
  <2>. QED
    BY <2>1, <2>2 DEF Answering, ToldIsDurable
<1>. QED
  BY <1>4, <1>5, <1>6, <1>7 DEF AttemptsFit, ThreadsFit

\* What the records say of every submission id after an answer.
LEMMA AnsweringRecords ==
  ASSUME AttInv, NEW a \in Ids, Alive(a), NEW s \in SubmissionIds \cup {None}, Answering(a, s),
         NEW t \in SubmissionIds
  PROVE  /\ t # s => Recorded(t)' = Recorded(t)
         /\ t = s => Recorded(t)' = Record(a)
         /\ \A b \in Ids : Record(b)' = Record(b)
<1>. USE Names, Fields
<1>1. AttTypeOK /\ AttemptsFit /\ AttTypeOK'
  BY AnsweringTypes DEF AttInv
<1>2. Recall(a, s) /\ UNCHANGED <<manifests, numbers, made, thread>>
  BY DEF Answering
<1>3. SameAttempts
  BY <1>1, <1>2, RecallShape
<1>4. \A b \in Ids : Record(b)' = Record(b)
  BY <1>3 DEF Record, SameAttempts
<1>5. CASE bindings'[t] = bindings[t]
  <2>1. Recorded(t)' = Recorded(t)
    BY <1>2, <1>5, RecordedSame
  <2>2. CASE t = s /\ bindings'[s] = Record(a) /\ Recorded(s).workload \in {None, WorkloadOf(a)}
                /\ ~Alive(Recorded(s).attempt)
    <3>1. Record(a).attempt = a /\ bindings[s] = Record(a) /\ Record(a) # Unbound
      BY <1>5, <2>2 DEF Record
    <3>2. Recorded(s) = Record(a)
      BY <3>1 DEF Recorded
    <3>. QED
      BY <2>1, <2>2, <3>1, <3>2
  <2>. QED
    BY <1>4, <2>1, <2>2 DEF Answering
<1>6. CASE bindings'[t] # bindings[t]
  <2>1. t = s /\ bindings'[t] = Record(a)
    BY <1>6 DEF Answering
  <2>2. Record(a) # Unbound
    BY DEF Record
  <2>3. Recorded(t)' = Record(a)
    BY <2>1, <2>2 DEF Recorded
  <2>. QED
    BY <1>4, <2>1, <2>3
<1>. QED
  BY <1>4, <1>5, <1>6

LEMMA AnsweringBinds ==
  ASSUME AttInv, NEW a \in Ids, Alive(a), NEW s \in SubmissionIds \cup {None}, Answering(a, s)
  PROVE  BoundFit'
<1>. USE Names, Fields
<1>1. AttTypeOK /\ AttemptsFit /\ BoundFit /\ AttTypeOK'
  BY AnsweringTypes DEF AttInv
<1>2. Recall(a, s) /\ UNCHANGED <<manifests, numbers, made, thread>>
  BY DEF Answering
<1>3. SameAttempts
  BY <1>1, <1>2, RecallShape
<1>4. a <= made
  BY <1>1, Types, Typed DEF Alive, AttemptsFit, AttemptFits, InMemory, Published
<1>. SUFFICES ASSUME NEW t \in SubmissionIds
              PROVE  BoundFits(t)'
  BY DEF BoundFit
<1>5. BoundFits(t)
  BY <1>1 DEF BoundFit
<1>6. /\ t # s => Recorded(t)' = Recorded(t)
      /\ t = s => Recorded(t)' = Record(a)
      /\ \A b \in Ids : Record(b)' = Record(b)
  BY AnsweringRecords
<1>7. \A b \in Ids : Alive(b)' <=> Alive(b)
  BY <1>3 DEF SameAttempts
<1>8. \A b \in Ids : /\ SubmissionOf(b)' = SubmissionOf(b)
                     /\ b \in Published' <=> b \in Published
  BY <1>2, <1>3 DEF SameAttempts, Published
<1>9. /\ Recorded(t) \in BindingRecord \cup {Unbound}
      /\ \A b \in Ids : Alive(b) /\ SubmissionOf(b) = t => Recorded(t) = Record(b)
  BY BindingIsRecorded
<1>10. Record(a).attempt = a /\ Record(a).workload = WorkloadOf(a) /\ WorkloadOf(a) \in Workloads
  BY <1>1, Typed DEF Record, Alive
<1>11. ~Alive(0)
  BY <1>1, Typed
<1>12. ASSUME NEW b \in Ids, by_submission'[t] = b
       PROVE  Recorded(t)' = Record(b)'
  <2>1. \/ by_submission'[t] = by_submission[t] /\ t # s
        \/ by_submission'[t] = a /\ (t = s \/ (~InMemory(a) /\ t = manifests[a].submission))
    BY <1>2 DEF Recall
  <2>2. CASE by_submission'[t] = by_submission[t] /\ t # s
    BY <1>5, <1>6, <1>12, <2>2 DEF BoundFits
  <2>3. CASE by_submission'[t] = a /\ t = s
    BY <1>6, <1>12, <2>3
  <2>4. CASE by_submission'[t] = a /\ t # s /\ ~InMemory(a) /\ t = manifests[a].submission
    <3>1. SubmissionOf(a) = t
      BY <2>4 DEF SubmissionOf
    <3>2. Recorded(t) = Record(a)
      BY <1>9, <3>1
    <3>. QED
      BY <1>6, <1>12, <2>4, <3>2
  <2>. QED
    BY <2>1, <2>2, <2>3, <2>4
<1>13. CASE t # s \/ bindings'[t] = bindings[t]
  <2>1. bindings'[t] = bindings[t]
    BY <1>13 DEF Answering
  <2>2. named'[t] # None => Recorded(t)'.workload = named'[t]
    <3>1. CASE t # s
      BY <1>5, <1>6, <3>1 DEF BoundFits, Answering
    <3>2. CASE t = s
      <4>1. named'[t] \in {named[t], WorkloadOf(a)} /\ Recorded(t)' = Record(a)
        BY <1>6, <3>2 DEF Answering
      <4>2. Recorded(t)' = Recorded(t)
        BY <1>2, <2>1, RecordedSame
      <4>. QED
        BY <1>5, <1>10, <4>1, <4>2 DEF BoundFits
    <3>. QED
      BY <3>1, <3>2
  <2>3. bindings'[t].attempt <= made'
    BY <1>2, <1>5, <2>1 DEF BoundFits
  <2>4. \A b \in Ids : bindings'[t].attempt = b /\ Alive(b)' => bindings'[t] = Record(b)'
    BY <1>5, <1>6, <1>7, <2>1 DEF BoundFits
  <2>5. \A b \in Ids : Alive(b)' /\ SubmissionOf(b)' = t =>
          bindings'[t] = Record(b)' \/ (bindings'[t] = Unbound /\ b \in Published')
    BY <1>5, <1>6, <1>7, <1>8, <2>1, Zenon DEF BoundFits
  <2>6. \A b \in Ids :
          /\ bindings'[t].attempt = b /\ Alive(b)' => bindings'[t] = Record(b)'
          /\ Alive(b)' /\ SubmissionOf(b)' = t => \/ bindings'[t] = Record(b)'
                                                  \/ bindings'[t] = Unbound /\ b \in Published'
          /\ by_submission'[t] = b => Recorded(t)' = Record(b)'
    BY <1>12, <2>4, <2>5
  <2>. QED
    BY <2>2, <2>3, <2>6, Zenon DEF BoundFits
<1>14. CASE t = s /\ bindings'[t] # bindings[t]
  <2>1. /\ bindings'[t] = Record(a) /\ Recorded(t).workload \in {None, WorkloadOf(a)}
        /\ ~Alive(Recorded(t).attempt) /\ named'[t] \in {named[t], WorkloadOf(a)}
    BY <1>14 DEF Answering
  <2>2. Recorded(t)' = Record(a)
    BY <1>6, <1>14
  <2>3. named'[t] # None => Recorded(t)'.workload = named'[t]
    BY <1>5, <1>10, <2>1, <2>2 DEF BoundFits
  <2>4. bindings'[t] = Record(a)' /\ bindings'[t].attempt = a
    BY <1>6, <1>10, <2>1
  <2>5. bindings'[t].attempt <= made'
    BY <1>2, <1>4, <2>4
  <2>6. \A b \in Ids : bindings'[t].attempt = b /\ Alive(b)' => bindings'[t] = Record(b)'
    BY <2>4
  <2>7. \A b \in Ids : ~(Alive(b)' /\ SubmissionOf(b)' = t)
    <3>. SUFFICES ASSUME NEW b \in Ids, Alive(b), SubmissionOf(b) = t
                  PROVE  FALSE
      BY <1>7, <1>8
    <3>1. Recorded(t) = Record(b)
      BY <1>9
    <3>2. Recorded(t).attempt = b
      BY <3>1 DEF Record
    <3>. QED
      BY <2>1, <3>2
  <2>. QED
    BY <1>12, <2>3, <2>5, <2>6, <2>7 DEF BoundFits
<1>. QED
  BY <1>13, <1>14

LEMMA AnsweringKeeps ==
  ASSUME AttInv, NEW a \in Ids, Alive(a), NEW s \in SubmissionIds \cup {None}, Answering(a, s)
  PROVE  AttInv'
BY AnsweringTypes, AnsweringAttempts, AnsweringBinds DEF AttInv

----------------------------------------------------------------------------
(* The routes that make nothing new.                                       *)

LEMMA RecordOf ==
  ASSUME AttInv, NEW a \in Ids, Alive(a)
  PROVE  /\ Record(a) \in BindingRecord /\ Record(a).attempt = a
         /\ Record(a).workload = WorkloadOf(a) /\ WorkloadOf(a) \in Workloads
BY Typed DEF AttInv, Alive, Record, BindingRecord

LEMMA BoundAlive ==
  ASSUME AttInv, NEW s \in SubmissionIds, Alive(Binding(s).attempt)
  PROVE  /\ Binding(s).attempt \in Ids
         /\ Binding(s) = Record(Binding(s).attempt)
         /\ Recorded(s) = Record(Binding(s).attempt)
BY BindingIsRecorded

LEMMA AttemptFound ==
  ASSUME AttInv, NEW a \in Ids, Alive(a), Recall(a, None), Tell(a) \/ told' = told,
         UNCHANGED <<files, made, thread, named>>, faults' \in 0 .. MaxFaults
  PROVE  AttInv'
<1>1. Answering(a, None)
  BY Names, InvParts, Types DEF Answering, Tell, files
<1>. QED
  BY <1>1, AnsweringKeeps

LEMMA GetKeeps ==
  ASSUME AttInv, NEW a \in Ids, Get(a)
  PROVE  AttInv'
BY AttemptFound, InvParts, Types DEF Get

LEMMA LookupKeeps ==
  ASSUME AttInv, NEW w \in Workloads, Lookup(w)
  PROVE  AttInv'
<1>1. PICK a \in Ids : a = Reported(w) /\ Alive(a)
  BY ReportedIsFound, InvParts DEF Lookup
<1>2. Recall(a, None) /\ Tell(a) /\ UNCHANGED <<files, made, thread, faults, named>>
  BY <1>1 DEF Lookup
<1>. QED
  BY <1>1, <1>2, AttemptFound, InvParts, Types

LEMMA StutterKeeps ==
  ASSUME AttInv, UNCHANGED <<memory, files, made, thread, history>>, faults' \in 0 .. MaxFaults
  PROVE  AttInv'
<1>1. UNCHANGED <<attempts, by_workload, by_submission, manifests, bindings, numbers, made, thread,
                  told, named>>
  BY DEF memory, files, history
<1>2. AttTypeOK'
  BY <1>1, InvParts, Types, TypesNext DEF IndexFits
<1>3. AttemptsFit' /\ ThreadsFit' /\ SubmissionRunsOnce' /\ ToldIsDurable'
  BY <1>1, InvParts DEF AttemptsFit, ThreadsFit, AttemptFits, ThreadFits, SubmissionRunsOnce,
                        ToldIsDurable, InMemory, Alive, Published, SubmissionOf
<1>4. BoundFit'
  <2>1. \A b \in Ids : /\ Alive(b)' <=> Alive(b)
                       /\ Record(b)' = Record(b)
                       /\ SubmissionOf(b)' = SubmissionOf(b)
                       /\ b \in Published' <=> b \in Published
    BY <1>1 DEF Alive, InMemory, Published, Record, WorkloadOf, SubmissionOf
  <2>2. \A s \in SubmissionIds : Recorded(s)' = Recorded(s)
    BY <1>1, RecordedSame
  <2>. QED
    BY <1>1, <2>1, <2>2, InvParts DEF BoundFit, BoundFits
<1>. QED
  BY <1>2, <1>3, <1>4 DEF AttInv

LEMMA ConflictKeeps ==
  ASSUME AttInv, NEW w \in Workloads, NEW s \in SubmissionIds, Conflict(w, s)
  PROVE  AttInv'
<1>1. CASE Alive(Binding(s).attempt)
  <2>1. PICK a \in Ids : a = Binding(s).attempt /\ Alive(a) /\ Recorded(s) = Record(a)
    BY <1>1, BoundAlive
  <2>2. Recall(a, s) /\ UNCHANGED <<files, made, thread, faults, history>>
    BY <1>1, <2>1 DEF Conflict
  <2>3. Answering(a, s)
    BY Names, InvParts, Types, <2>1, <2>2 DEF Answering, files, history
  <2>. QED
    BY <2>1, <2>3, AnsweringKeeps
<1>2. CASE ~Alive(Binding(s).attempt)
  BY <1>2, StutterKeeps, InvParts, Types DEF Conflict
<1>. QED
  BY <1>1, <1>2

LEMMA RetryKeeps ==
  ASSUME AttInv, NEW w \in Workloads, NEW s \in SubmissionIds, Retry(w, s)
  PROVE  AttInv'
<1>1. PICK a \in Ids : /\ a = Binding(s).attempt /\ Alive(a) /\ Recorded(s) = Record(a)
                       /\ Binding(s) = Record(a)
  BY BoundAlive DEF Retry
<1>2. /\ Recall(a, s) /\ Tell(a) /\ named' = [named EXCEPT ![s] = w]
      /\ UNCHANGED <<files, made, thread, faults>> /\ WorkloadOf(a) = w
  BY <1>1, RecordOf, Names DEF Retry, Name
<1>3. Answering(a, s)
  BY Names, InvParts, Types, <1>1, <1>2 DEF Answering, Tell, files
<1>. QED
  BY <1>1, <1>3, AnsweringKeeps

LEMMA ReuseKeeps ==
  ASSUME AttInv, NEW w \in Workloads, NEW s \in SubmissionIds \cup {None}, Reuse(w, s)
  PROVE  AttInv'
<1>1. PICK a \in Ids : a = LatestCompleted(w) /\ a \in Completed(w)
  BY LatestIsCompleted, InvParts DEF Reuse, Completed, Published
<1>2. Alive(a)
  BY <1>1 DEF Completed, Alive
<1>3. WorkloadOf(a) = w
  BY <1>1, InvParts DEF Completed, WorkloadOf, AttemptsFit, AttemptFits
<1>4. Unclaimed(w, s) /\ UNCHANGED <<manifests, numbers, made, thread>>
  BY DEF Reuse
<1>5. CASE Bind(s, w, a) /\ Recall(a, s) /\ Tell(a) /\ Name(s, w) /\ UNCHANGED faults
  <2>1. bindings' \in [SubmissionIds -> BindingRecord \cup {Unbound}]
        /\ named' \in [SubmissionIds -> Workloads \cup {None}] /\ faults' \in 0 .. MaxFaults
    BY <1>3, <1>5, RecordOf, <1>2, InvParts, Types DEF Bind, Name, Record
  <2>2. \A t \in SubmissionIds : t # s => bindings'[t] = bindings[t] /\ named'[t] = named[t]
    BY <1>5, InvParts, Types DEF Bind, Name
  <2>3. s # None => /\ s \in SubmissionIds /\ bindings'[s] = Record(a) /\ named'[s] = WorkloadOf(a)
                    /\ Recorded(s).workload \in {None, WorkloadOf(a)} /\ ~Alive(Recorded(s).attempt)
    BY <1>3, <1>4, <1>5, InvParts, Types, BindingIsRecorded DEF Bind, Name, Record, Unclaimed
  <2>4. told' \in {told, told \cup {a}} /\ (told' # told => attempts'[a].state = "completed")
    BY <1>5 DEF Tell
  <2>5. Answering(a, s)
    BY <1>4, <1>5, <2>1, <2>2, <2>3, <2>4 DEF Answering
  <2>. QED
    BY <1>2, <2>5, AnsweringKeeps
<1>6. CASE s # None /\ Fault /\ Recall(a, None) /\ UNCHANGED <<bindings, history>>
  <2>1. faults' \in 0 .. MaxFaults
    BY <1>6, Names, InvParts, Types DEF Fault
  <2>. QED
    BY <1>2, <1>4, <1>6, <2>1, AttemptFound DEF files, history
<1>. QED
  BY <1>1, <1>5, <1>6 DEF Reuse

----------------------------------------------------------------------------
(* A new attempt.                                                          *)

Begun(a, w, s) ==
  /\ Bind(s, w, a)
  /\ made' = a
  /\ attempts' = [attempts EXCEPT ![a] = [state |-> "running", workload |-> w,
                                          submission |-> s, outcome |-> FALSE]]
  /\ by_workload' = [by_workload EXCEPT ![w] = Append(by_workload[w], a)]
  /\ by_submission' = IF s = None THEN by_submission ELSE [by_submission EXCEPT ![s] = a]
  /\ thread' = [thread EXCEPT ![a].at = "pricing"]
  /\ Name(s, w)
  /\ UNCHANGED <<manifests, numbers, faults, told>>

\* What a new attempt finds, and what it leaves of the others.
LEMMA BegunEffect ==
  ASSUME AttInv, NEW w \in Workloads, NEW s \in SubmissionIds \cup {None},
         NEW a \in Ids, a = made + 1, Unclaimed(w, s), Begun(a, w, s)
  PROVE  /\ ~Alive(a) /\ thread[a] = NoThread
         /\ attempts' \in [Ids -> AttemptRecord \cup {NoAttempt}]
         /\ \A b \in Ids : b # a => attempts'[b] = attempts[b] /\ thread'[b] = thread[b]
         /\ InMemory(a)' /\ attempts'[a].state = "running" /\ WorkloadOf(a)' = w
         /\ SubmissionOf(a)' = s
         /\ thread' \in [Ids -> ThreadRecord] /\ thread'[a].at = "pricing"
<1>. USE Names, InvParts, Types, Fields
<1>1. a > made /\ attempts[a] = NoAttempt /\ manifests[a] = NoManifest /\ thread[a] = NoThread
  BY DEF AttemptsFit, AttemptFits
<1>2. ~Alive(a)
  BY <1>1 DEF Alive, InMemory, Published
<1>. DEFINE new == [state |-> "running", workload |-> w, submission |-> s, outcome |-> FALSE]
            set == [thread[a] EXCEPT !.at = "pricing"]
<1>3. new \in AttemptRecord /\ new.state = "running" /\ new.workload = w /\ new.submission = s
  BY DEF AttemptRecord
<1>4. set \in ThreadRecord /\ set.at = "pricing"
  BY DEF ThreadRecord, Steps
<1>5. attempts' = [attempts EXCEPT ![a] = new] /\ thread' = [thread EXCEPT ![a] = set]
  BY DEF Begun
<1>. HIDE DEF new, set
<1>6. /\ attempts' \in [Ids -> AttemptRecord \cup {NoAttempt}] /\ attempts'[a] = new
      /\ \A b \in Ids : b # a => attempts'[b] = attempts[b] /\ thread'[b] = thread[b]
      /\ thread' \in [Ids -> ThreadRecord] /\ thread'[a] = set
  BY <1>3, <1>4, <1>5
<1>7. InMemory(a)'
  BY <1>3, <1>6 DEF InMemory
<1>8. attempts'[a].state = "running" /\ WorkloadOf(a)' = w /\ SubmissionOf(a)' = s
  BY <1>3, <1>6, <1>7 DEF WorkloadOf, SubmissionOf
<1>. QED
  BY <1>1, <1>2, <1>4, <1>6, <1>7, <1>8

LEMMA BegunTypes ==
  ASSUME AttInv, NEW w \in Workloads, NEW s \in SubmissionIds \cup {None},
         NEW a \in Ids, a = made + 1, Unclaimed(w, s), Begun(a, w, s)
  PROVE  AttTypeOK'
<1>. USE Names, InvParts, Types, Fields
<1>1. /\ attempts' \in [Ids -> AttemptRecord \cup {NoAttempt}]
      /\ thread' \in [Ids -> ThreadRecord] /\ ~Alive(a) /\ InMemory(a)'
      /\ \A b \in Ids : b # a => attempts'[b] = attempts[b]
      /\ WorkloadOf(a)' = w
  BY BegunEffect
<1>2. attempts[a] = NoAttempt /\ attempts'[a].workload = w /\ attempts'[a] # NoAttempt
  BY <1>1 DEF Alive, InMemory, WorkloadOf
<1>3. /\ by_submission' \in [SubmissionIds -> Ids \cup {0}]
      /\ bindings' \in [SubmissionIds -> BindingRecord \cup {Unbound}]
      /\ named' \in [SubmissionIds -> Workloads \cup {None}]
      /\ made' \in 0 .. MaxAttempts
  BY DEF Begun, Bind, Name, BindingRecord, Ids
<1>4. \A t \in SubmissionIds : by_submission'[t] # 0 => attempts'[by_submission'[t]] # NoAttempt
  <2>1. ASSUME NEW t \in SubmissionIds, by_submission'[t] # 0
        PROVE  attempts'[by_submission'[t]] # NoAttempt
    <3>1. by_submission'[t] = by_submission[t] \/ by_submission'[t] = a
      BY DEF Begun
    <3>2. PICK b \in Ids : b = by_submission'[t]
      BY <1>3, <2>1
    <3>3. b # a => attempts[b] # NoAttempt
      BY <2>1, <3>1, <3>2
    <3>. QED
      BY <1>1, <1>2, <3>2, <3>3
  <2>. QED
    BY <2>1
<1>5. ASSUME NEW v \in Workloads
      PROVE  by_workload'[v] \in Seq(Ids) /\ IndexFits(v)'
  BY <1>1, <1>2, Indexed DEF Begun
<1>6. by_workload' \in [Workloads -> Seq(Ids)]
  BY <1>5 DEF Begun
<1>7. /\ told' \subseteq Ids /\ faults' \in 0 .. MaxFaults /\ numbers' \in Nat
      /\ manifests' \in [Ids -> ManifestRecord \cup {NoManifest}]
  BY DEF Begun
<1>. QED
  BY <1>1, <1>3, <1>4, <1>5, <1>6, <1>7, TypesNext

LEMMA BegunKeeps ==
  ASSUME AttInv, NEW w \in Workloads, NEW s \in SubmissionIds \cup {None},
         NEW a \in Ids, a = made + 1, Unclaimed(w, s), Begun(a, w, s)
  PROVE  AttInv'
<1>. USE Names, Fields
<1>1. AttTypeOK /\ AttemptsFit /\ ThreadsFit /\ BoundFit /\ SubmissionRunsOnce /\ ToldIsDurable
  BY InvParts
<1>2. AttTypeOK'
  BY BegunTypes
<1>3. /\ ~Alive(a) /\ thread[a] = NoThread
      /\ \A b \in Ids : b # a => attempts'[b] = attempts[b] /\ thread'[b] = thread[b]
      /\ InMemory(a)' /\ attempts'[a].state = "running" /\ WorkloadOf(a)' = w
      /\ SubmissionOf(a)' = s /\ thread'[a].at = "pricing"
  BY BegunEffect
<1>4. /\ manifests' = manifests /\ numbers' = numbers /\ told' = told
       /\ made' = a /\ made' = made + 1 /\ made \in Nat
  BY <1>1, Types DEF Begun
<1>5. \A b \in Ids : b > made' => b # a /\ b > made
  BY <1>4
<1>6. a \notin Published /\ manifests[a] = NoManifest
  BY <1>3 DEF Alive, Published
<1>7. \A b \in Ids : b # a =>
        /\ Alive(b)' <=> Alive(b)
        /\ InMemory(b)' <=> InMemory(b)
        /\ Record(b)' = Record(b)
        /\ SubmissionOf(b)' = SubmissionOf(b)
  BY <1>3, <1>4 DEF Alive, InMemory, Published, Record, WorkloadOf, SubmissionOf
<1>8. Published' = Published /\ Alive(a)' /\ Record(a)' = [workload |-> w, attempt |-> a]
  BY <1>3, <1>4 DEF Published, Alive, Record
<1>9. ASSUME NEW b \in Ids, Alive(b), s # None
      PROVE  SubmissionOf(b) # s
  <2>1. s \in SubmissionIds /\ ~Alive(Recorded(s).attempt)
    BY <1>9, BindingIsRecorded DEF Unclaimed
  <2>. QED
    BY <1>9, <2>1, BindingIsRecorded, RecordOf
<1>10. AttemptsFit'
  <2>1. ASSUME NEW b \in Ids
        PROVE  AttemptFits(b)'
    <3>1. AttemptFits(b)
      BY <1>1 DEF AttemptsFit
    <3>2. CASE b = a
      BY <1>3, <1>4, <1>6, <3>1, <3>2 DEF AttemptFits, Published
    <3>3. CASE b # a
      <4>1. attempts'[b] = attempts[b] /\ thread'[b] = thread[b] /\ manifests'[b] = manifests[b]
            /\ (InMemory(b)' <=> InMemory(b)) /\ Published' = Published
        BY <1>3, <1>4, <1>7, <1>8, <3>3
      <4>. QED
        BY <1>4, <1>5, <3>1, <4>1 DEF AttemptFits
    <3>. QED
      BY <3>2, <3>3
  <2>. QED
    BY <2>1 DEF AttemptsFit
<1>11. ThreadsFit'
  <2>1. ASSUME NEW b \in Ids
        PROVE  ThreadFits(b)'
    <3>1. ThreadFits(b)
      BY <1>1 DEF ThreadsFit
    <3>2. CASE b = a
      BY <1>3, <1>4, <1>6, <3>2 DEF ThreadFits
    <3>3. CASE b # a
      <4>1. thread'[b] = thread[b] /\ manifests'[b] = manifests[b] /\ numbers' = numbers
            /\ (InMemory(b)' <=> InMemory(b))
        BY <1>3, <1>4, <1>7, <3>3
      <4>. QED
        BY <3>1, <4>1 DEF ThreadFits
    <3>. QED
      BY <3>2, <3>3
  <2>. QED
    BY <2>1 DEF ThreadsFit
<1>12. SubmissionRunsOnce'
  <2>. SUFFICES ASSUME NEW b \in Ids, NEW c \in Ids, Alive(b)', Alive(c)', b # c,
                       SubmissionOf(b)' # None, SubmissionOf(b)' = SubmissionOf(c)'
                PROVE  FALSE
    BY DEF SubmissionRunsOnce
  <2>1. CASE b # a /\ c # a
    BY <1>1, <1>7, <2>1 DEF SubmissionRunsOnce
  <2>2. CASE b = a
    BY <1>3, <1>7, <1>9, <2>2
  <2>3. CASE c = a
    BY <1>3, <1>7, <1>9, <2>3
  <2>. QED
    BY <2>1, <2>2, <2>3
<1>13. ToldIsDurable'
  BY <1>1, <1>4 DEF ToldIsDurable
<1>14. ASSUME NEW t \in SubmissionIds
       PROVE  BoundFits(t)'
  <2>1. BoundFits(t)
    BY <1>1 DEF BoundFit
  <2>2. CASE t = s
    <3>1. bindings'[t] = Record(a)' /\ by_submission'[t] = a /\ named'[t] = w
      BY <1>8, <2>2, <1>1, Types DEF Begun, Bind, Name
    <3>2. bindings'[t] # Unbound /\ bindings'[t].attempt = a /\ bindings'[t].workload = w
      BY <1>8, <3>1
    <3>3. Recorded(t)' = Record(a)'
      BY <3>1, <3>2 DEF Recorded
    <3>4. \A b \in Ids : Alive(b)' /\ SubmissionOf(b)' = t => b = a
      BY <1>7, <1>9, <2>2
    <3>5. bindings'[t].attempt <= made'
      BY <1>4, <3>2
    <3>. QED
      BY <3>1, <3>2, <3>3, <3>4, <3>5 DEF BoundFits
  <2>3. CASE t # s
    <3>1. bindings'[t] = bindings[t] /\ by_submission'[t] = by_submission[t] /\ named'[t] = named[t]
      BY <2>3, <1>1, Types DEF Begun, Bind, Name
    <3>2. Recorded(t)' = Recorded(t)
      BY <1>4, <3>1, RecordedSame
    <3>3. bindings[t].attempt <= made /\ bindings[t].attempt # a /\ by_submission[t] # a
      BY <1>4, <1>3, <2>1, <1>1, Types, Typed DEF BoundFits, BindingRecord, Alive
    <3>4. bindings[t].attempt \in Nat
      <4>1. bindings[t] \in BindingRecord \cup {Unbound}
        BY <1>1, Types
      <4>2. \A x \in BindingRecord : x.attempt \in Nat
        BY DEF BindingRecord
      <4>. QED
        BY <4>1, <4>2
    <3>5. bindings[t].attempt <= made'
      BY <1>4, <3>3, <3>4
    <3>6. ~(SubmissionOf(a)' = t)
      BY <1>3, <2>3
    <3>7. \A b \in Ids :
            /\ bindings'[t].attempt = b /\ Alive(b)' => bindings'[t] = Record(b)'
            /\ Alive(b)' /\ SubmissionOf(b)' = t => bindings'[t] = Record(b)'
                                                   \/ (bindings'[t] = Unbound /\ b \in Published')
            /\ by_submission'[t] = b => Recorded(t)' = Record(b)'
      BY <1>7, <1>8, <2>1, <3>1, <3>2, <3>3, <3>6 DEF BoundFits
    <3>. QED
      BY <2>1, <3>1, <3>2, <3>5, <3>7 DEF BoundFits
  <2>. QED
    BY <2>2, <2>3
<1>. QED
  BY <1>2, <1>10, <1>11, <1>12, <1>13, <1>14 DEF AttInv, BoundFit

LEMMA BeginKeeps ==
  ASSUME AttInv, NEW w \in Workloads, NEW s \in SubmissionIds \cup {None}, NEW reuse \in BOOLEAN,
         Begin(w, s, reuse)
  PROVE  AttInv'
<1>1. PICK a \in Ids : a = made + 1
  BY InvParts, Types, Names DEF Begin, Ids
<1>2. CASE Begun(a, w, s)
  BY <1>1, <1>2, BegunKeeps DEF Begin
<1>3. CASE Fault /\ UNCHANGED <<bindings, made, memory, thread, named, manifests, numbers, told>>
  BY <1>3, StutterKeeps, Names, InvParts, Types DEF Fault, files, history
<1>4. \/ Bind(s, w, a) /\ Begun(a, w, s)
      \/ Fault /\ UNCHANGED <<bindings, made, memory, thread, named, manifests, numbers, told>>
  BY <1>1 DEF Begin, Begun
<1>. QED
  BY <1>2, <1>3, <1>4

----------------------------------------------------------------------------
(* A step of an attempt's own thread.                                      *)

RunStep(a) ==
  /\ UNCHANGED <<by_workload, by_submission, bindings, made, named>>
  /\ faults' \in 0 .. MaxFaults
  /\ InMemory(a)
  /\ attempts' \in [Ids -> AttemptRecord \cup {NoAttempt}]
  /\ InMemory(a)' /\ attempts'[a].workload = attempts[a].workload
                  /\ attempts'[a].submission = attempts[a].submission
  /\ manifests' \in [Ids -> ManifestRecord \cup {NoManifest}]
  /\ manifests'[a] = manifests[a] \/ manifests[a] = NoManifest
  /\ numbers' \in Nat /\ numbers <= numbers'
  /\ thread' \in [Ids -> ThreadRecord]
  /\ \A b \in Ids : b # a => /\ attempts'[b] = attempts[b]
                             /\ manifests'[b] = manifests[b]
                             /\ thread'[b] = thread[b]
  /\ AttemptFits(a)' /\ ThreadFits(a)'
  /\ told' \in {told, told \cup {a}}
  /\ told' # told => manifests'[a].state = "completed"

LEMMA RunStepTypes ==
  ASSUME AttInv, NEW a \in Ids, RunStep(a)
  PROVE  AttTypeOK'
<1>1. AttTypeOK
  BY InvParts
<1>. USE Names, Fields
<1>2. ASSUME NEW w \in Workloads
      PROVE  IndexFits(w)'
  <2>1. by_workload[w] \in Seq(Ids) /\ IndexFits(w) /\ by_workload' = by_workload
    BY <1>1, Types DEF RunStep
  <2>2. \A b \in Ids : attempts'[b].workload = attempts[b].workload
    BY DEF RunStep
  <2>3. \A i \in DOMAIN by_workload[w] : by_workload[w][i] \in Ids
    BY <2>1
  <2>. QED
    BY <2>1, <2>2, <2>3 DEF IndexFits
<1>3. ASSUME NEW s \in SubmissionIds, by_submission'[s] # 0
      PROVE  attempts'[by_submission'[s]] # NoAttempt
  <2>1. by_submission' = by_submission /\ by_submission[s] \in Ids \cup {0}
    BY <1>1, Types DEF RunStep
  <2>2. PICK b \in Ids : b = by_submission[s] /\ by_submission' = by_submission /\ attempts[b] # NoAttempt
    BY <1>1, <1>3, <2>1, Types
  <2>3. attempts'[b] # NoAttempt
    BY <2>2 DEF RunStep, InMemory
  <2>. QED
    BY <2>2, <2>3
<1>4. /\ by_workload' \in [Workloads -> Seq(Ids)] /\ by_submission' \in [SubmissionIds -> Ids \cup {0}]
      /\ bindings' \in [SubmissionIds -> BindingRecord \cup {Unbound}]
      /\ made' \in 0 .. MaxAttempts /\ told' \subseteq Ids
      /\ named' \in [SubmissionIds -> Workloads \cup {None}]
  BY <1>1, Types DEF RunStep
<1>5. /\ attempts' \in [Ids -> AttemptRecord \cup {NoAttempt}]
      /\ manifests' \in [Ids -> ManifestRecord \cup {NoManifest}]
      /\ numbers' \in Nat /\ thread' \in [Ids -> ThreadRecord] /\ faults' \in 0 .. MaxFaults
  BY DEF RunStep
<1>. QED
  BY <1>2, <1>3, <1>4, <1>5, TypesNext

LEMMA RunStepAttempts ==
  ASSUME AttInv, NEW a \in Ids, RunStep(a)
  PROVE  /\ SameAttempts /\ Published \subseteq Published'
         /\ Published' \subseteq Published \cup {a}
         /\ AttemptsFit' /\ ThreadsFit' /\ SubmissionRunsOnce' /\ ToldIsDurable'
<1>1. AttTypeOK /\ AttemptsFit /\ ThreadsFit /\ BoundFit /\ SubmissionRunsOnce /\ ToldIsDurable
  BY InvParts
<1>. USE Names, Fields
<1>2. /\ InMemory(a) /\ InMemory(a)' /\ attempts'[a].workload = attempts[a].workload
      /\ attempts'[a].submission = attempts[a].submission
      /\ manifests'[a] = manifests[a] \/ manifests[a] = NoManifest
      /\ \A b \in Ids : b # a => /\ attempts'[b] = attempts[b]
                                 /\ manifests'[b] = manifests[b]
                                 /\ thread'[b] = thread[b]
      /\ AttemptFits(a)' /\ ThreadFits(a)'
      /\ made' = made /\ numbers <= numbers' /\ numbers \in Nat /\ numbers' \in Nat
  BY <1>1, Types DEF RunStep
<1>3. \A b \in Ids : b # a => (InMemory(b)' <=> InMemory(b)) /\ (b \in Published' <=> b \in Published)
  BY <1>2 DEF InMemory, Published
<1>4. Published \subseteq Published' /\ Published' \subseteq Published \cup {a}
  BY <1>2, <1>3 DEF Published
<1>5. SameAttempts
  <2>1. ASSUME NEW b \in Ids
        PROVE  (Alive(b)' <=> Alive(b)) /\ WorkloadOf(b)' = WorkloadOf(b) /\ SubmissionOf(b)' = SubmissionOf(b)
    <3>1. CASE b = a
      BY <1>2, <3>1 DEF Alive, WorkloadOf, SubmissionOf
    <3>2. CASE b # a
      BY <1>2, <1>3, <3>2 DEF Alive, WorkloadOf, SubmissionOf
    <3>. QED
      BY <3>1, <3>2
  <2>. QED
    BY <2>1 DEF SameAttempts
<1>6. ASSUME NEW b \in Ids, b # a
      PROVE  AttemptFits(b)' /\ ThreadFits(b)'
  <2>1. AttemptFits(b) /\ ThreadFits(b)
    BY <1>1 DEF AttemptsFit, ThreadsFit
  <2>2. /\ attempts'[b] = attempts[b] /\ manifests'[b] = manifests[b] /\ thread'[b] = thread[b]
        /\ InMemory(b)' <=> InMemory(b)
        /\ b \in Published' <=> b \in Published
    BY <1>2, <1>3, <1>6
  <2>3. manifests[b].number <= numbers'
    <3>1. manifests[b].number \in Int /\ manifests[b].number <= numbers
      BY <1>1, <2>1, Typed DEF AttemptFits, ManifestRecord
    <3>. QED
      BY <1>2, <3>1
  <2>4. AttemptFits(b)'
    BY <1>2, <2>1, <2>2, <2>3 DEF AttemptFits
  <2>5. \A n \in 0 .. numbers : n \in 0 .. numbers'
    BY <1>2
  <2>6. ThreadFits(b)'
    BY <2>1, <2>2, <2>5 DEF ThreadFits
  <2>. QED
    BY <2>4, <2>6
<1>7. AttemptsFit' /\ ThreadsFit'
  BY <1>2, <1>6 DEF AttemptsFit, ThreadsFit
<1>8. SubmissionRunsOnce'
  BY <1>1, <1>5 DEF SubmissionRunsOnce, SameAttempts
<1>9. ToldIsDurable'
  <2>1. \A b \in told : b \in Ids /\ manifests[b].state = "completed"
    BY <1>1, Types DEF ToldIsDurable
  <2>2. ASSUME NEW b \in told
        PROVE  manifests'[b].state = "completed"
    <3>1. b \in Ids /\ manifests[b].state = "completed"
      BY <2>1
    <3>2. manifests[b] # NoManifest
      BY <3>1
    <3>. QED
      BY <1>2, <3>1, <3>2
  <2>. QED
    BY <2>2 DEF RunStep, ToldIsDurable
<1>. QED
  BY <1>4, <1>5, <1>7, <1>8, <1>9

\* Its records stay what they were: an attempt published for an id was bound.
LEMMA RunStepRecords ==
  ASSUME AttInv, NEW a \in Ids, RunStep(a), NEW s \in SubmissionIds
  PROVE  Recorded(s)' = Recorded(s)
<1>. USE Names, Fields
<1>1. AttTypeOK /\ AttemptsFit /\ SubmissionRunsOnce /\ BoundFits(s) /\ RecordFits(s)
  BY InvParts DEF BoundFit, RecordsFit
<1>2. AttTypeOK' /\ AttemptsFit' /\ SubmissionRunsOnce'
  BY RunStepTypes, RunStepAttempts
<1>3. RecordFits(s)'
  BY <1>2, RecordsAreNext DEF RecordsFit
<1>4. /\ InMemory(a) /\ attempts'[a].submission = attempts[a].submission /\ InMemory(a)'
      /\ bindings' = bindings
      /\ manifests'[a] = manifests[a] \/ manifests[a] = NoManifest
      /\ \A b \in Ids : b # a => manifests'[b] = manifests[b]
  BY DEF RunStep
<1>5. Published \subseteq Published' /\ Published' \subseteq Published \cup {a} /\ Published \subseteq Ids
  BY RunStepAttempts DEF Published
<1>6. CASE bindings[s] # Unbound
  BY <1>1, <1>3, <1>4, <1>6 DEF RecordFits
<1>7. CASE bindings[s] = Unbound /\ \E b \in Published : manifests[b].submission = s
  <2>1. PICK b \in Published : manifests[b].submission = s
    BY <1>7
  <2>2. b \in Published' /\ manifests'[b] = manifests[b]
    BY <1>4, <1>5 DEF Published
  <2>3. Recorded(s) = [workload |-> manifests[b].workload, attempt |-> b]
    BY <1>1, <1>7, <2>1 DEF RecordFits
  <2>4. Recorded(s)' = [workload |-> manifests'[b].workload, attempt |-> b]
    BY <1>3, <1>4, <1>7, <2>1, <2>2 DEF RecordFits
  <2>. QED
    BY <2>2, <2>3, <2>4
<1>8. CASE bindings[s] = Unbound /\ \A b \in Published : manifests[b].submission # s
  <2>1. ASSUME NEW b \in Published', manifests'[b].submission = s
        PROVE  FALSE
    <3>1. b = a /\ a \notin Published
      BY <1>4, <1>5, <1>8, <2>1 DEF Published
    <3>2. attempts[a].submission = s
      BY <1>2, <1>4, <2>1, <3>1 DEF AttemptsFit, AttemptFits
    <3>3. Alive(a) /\ SubmissionOf(a) = s
      BY <1>4, <3>2 DEF Alive, SubmissionOf
    <3>4. bindings[s] = Record(a)
      BY <1>1, <3>1, <3>3 DEF BoundFits
    <3>. QED
      BY <1>8, <3>4 DEF Record
  <2>2. Recorded(s)' = Unbound
    BY <1>3, <1>4, <1>8, <2>1 DEF RecordFits
  <2>. QED
    BY <1>1, <1>8, <2>2 DEF RecordFits
<1>. QED
  BY <1>6, <1>7, <1>8

LEMMA RunStepKeeps ==
  ASSUME AttInv, NEW a \in Ids, RunStep(a)
  PROVE  AttInv'
<1>. USE Names
<1>1. BoundFit
  BY InvParts
<1>2. /\ SameAttempts /\ Published \subseteq Published'
      /\ AttemptsFit' /\ ThreadsFit' /\ SubmissionRunsOnce' /\ ToldIsDurable'
  BY RunStepAttempts
<1>3. AttTypeOK'
  BY RunStepTypes
<1>4. UNCHANGED <<by_submission, bindings, made, named>>
  BY DEF RunStep
<1>5. \A b \in Ids : Record(b)' = Record(b)
  BY <1>2 DEF Record, SameAttempts
<1>6. ASSUME NEW s \in SubmissionIds
      PROVE  BoundFits(s)'
  <2>1. BoundFits(s) /\ Recorded(s)' = Recorded(s)
    BY <1>1, RunStepRecords DEF BoundFit
  <2>2. \A b \in Ids : (Alive(b)' <=> Alive(b)) /\ SubmissionOf(b)' = SubmissionOf(b)
                       /\ (b \in Published => b \in Published')
    BY <1>2 DEF SameAttempts
  <2>. QED
    BY <1>4, <1>5, <2>1, <2>2 DEF BoundFits
<1>. QED
  BY <1>2, <1>3, <1>6 DEF AttInv, BoundFit

\* A step that changes nothing but how far the thread has come.
LEMMA ThreadMoves ==
  ASSUME AttInv, NEW a \in Ids, InMemory(a), NEW rec \in ThreadRecord,
         thread' = [thread EXCEPT ![a] = rec],
         UNCHANGED <<memory, manifests, bindings, made, history>>,
         numbers' \in Nat, numbers <= numbers', faults' \in 0 .. MaxFaults,
         ThreadFits(a)'
  PROVE  AttInv'
<1>1. AttTypeOK /\ AttemptsFit
  BY InvParts
<1>2. UNCHANGED <<attempts, by_workload, by_submission, manifests, bindings, made, told, named>>
  BY DEF memory, history
<1>3. /\ attempts \in [Ids -> AttemptRecord \cup {NoAttempt}]
      /\ manifests \in [Ids -> ManifestRecord \cup {NoManifest}]
      /\ thread' \in [Ids -> ThreadRecord] /\ numbers \in Nat
      /\ \A b \in Ids : b # a => thread'[b] = thread[b]
  BY <1>1, Types
<1>4. AttemptFits(a)'
  <2>1. AttemptFits(a) /\ ~(a > made)
    BY <1>1 DEF AttemptsFit, AttemptFits, InMemory
  <2>2. manifests[a].number \in Int
    BY <1>3, Fields DEF ManifestRecord
  <2>. QED
    BY <1>2, <1>3, <2>1, <2>2 DEF AttemptFits, InMemory, Published
<1>5. InMemory(a)'
  BY <1>2 DEF InMemory
<1>6. RunStep(a)
  BY <1>2, <1>3, <1>4, <1>5 DEF RunStep
<1>. QED
  BY <1>6, RunStepKeeps

LEMMA ThreadIs ==
  ASSUME AttInv, NEW a \in Ids
  PROVE  /\ thread[a] \in ThreadRecord /\ ThreadFits(a) /\ AttemptFits(a)
         /\ numbers \in Nat /\ faults \in 0 .. MaxFaults
         /\ thread[a].at # "none" => /\ InMemory(a) /\ ~(a > made)
                                     /\ attempts[a] \in AttemptRecord
BY InvParts, Types, Typed DEF ThreadsFit, ThreadFits, AttemptsFit, AttemptFits, InMemory

LEMMA PriceKeeps ==
  ASSUME AttInv, NEW a \in Ids, Price(a)
  PROVE  AttInv'
<1>1. PICK outcome \in TERMINAL :
        thread' = [thread EXCEPT ![a].at = "ended", ![a].outcome = outcome]
  BY DEF Price
<1>. DEFINE rec == [thread[a] EXCEPT !.at = "ended", !.outcome = outcome]
<1>2. /\ rec \in ThreadRecord /\ rec.at = "ended" /\ rec.outcome = outcome
      /\ thread' = [thread EXCEPT ![a] = rec]
  BY <1>1, ThreadIs DEF ThreadRecord, Steps
<1>. HIDE DEF rec
<1>3. /\ InMemory(a) /\ manifests[a] = NoManifest
      /\ UNCHANGED <<memory, files, made, faults, history>>
  BY ThreadIs DEF Price, ThreadFits
<1>4. thread'[a] = rec
  BY <1>2, InvParts, Types
<1>5. ThreadFits(a)'
  BY <1>2, <1>3, <1>4, Fields DEF ThreadFits, InMemory, files, memory
<1>6. /\ UNCHANGED <<memory, manifests, bindings, made, history>>
      /\ numbers' \in Nat /\ numbers <= numbers' /\ faults' \in 0 .. MaxFaults
  BY <1>3, ThreadIs DEF files
<1>. QED
  BY <1>2, <1>3, <1>5, <1>6, ThreadMoves

LEMMA TakeNumberKeeps ==
  ASSUME AttInv, NEW a \in Ids, TakeNumber(a)
  PROVE  AttInv'
<1>. DEFINE rec == [thread[a] EXCEPT !.at = "numbered", !.number = numbers]
<1>1. /\ rec \in ThreadRecord /\ rec.at = "numbered" /\ rec.outcome = thread[a].outcome
      /\ rec.number = numbers /\ thread' = [thread EXCEPT ![a] = rec]
  BY ThreadIs DEF TakeNumber, ThreadRecord, Steps
<1>. HIDE DEF rec
<1>2. /\ InMemory(a) /\ manifests[a] = NoManifest /\ thread[a].outcome \in TERMINAL
      /\ numbers' = numbers + 1 /\ numbers \in Nat
      /\ UNCHANGED <<memory, manifests, bindings, made, faults, history>>
  BY ThreadIs DEF TakeNumber, ThreadFits
<1>3. thread'[a] = rec
  BY <1>1, InvParts, Types
<1>4. ThreadFits(a)'
  BY <1>1, <1>2, <1>3 DEF ThreadFits, InMemory, memory
<1>5. /\ UNCHANGED <<memory, manifests, bindings, made, history>>
      /\ numbers' \in Nat /\ numbers <= numbers' /\ faults' \in 0 .. MaxFaults
  BY <1>2, ThreadIs
<1>. QED
  BY <1>1, <1>2, <1>4, <1>5, ThreadMoves

LEMMA CommitFailsKeeps ==
  ASSUME AttInv, NEW a \in Ids, CommitFails(a)
  PROVE  AttInv'
<1>1. /\ InMemory(a) /\ manifests[a] = NoManifest /\ thread[a].outcome \in TERMINAL
      /\ UNCHANGED <<memory, files, made, history>> /\ faults' \in 0 .. MaxFaults
      /\ numbers \in Nat
  BY ThreadIs, Names DEF CommitFails, ThreadFits, Fault
<1>2. /\ UNCHANGED <<memory, manifests, bindings, made, history>>
       /\ numbers' \in Nat /\ numbers <= numbers' /\ faults' \in 0 .. MaxFaults
  BY <1>1 DEF files
<1>3. CASE thread[a].outcome = "completed"
  <2>1. thread' = [thread EXCEPT ![a] = NoThread]
    BY <1>3 DEF CommitFails
  <2>2. thread'[a] = NoThread
    BY <2>1, InvParts, Types
  <2>3. ThreadFits(a)'
    BY <2>2, Fields DEF ThreadFits
  <2>. QED
    BY <1>1, <1>2, <2>1, <2>3, ThreadMoves, Fields
<1>4. CASE thread[a].outcome # "completed"
  <2>. DEFINE rec == [thread[a] EXCEPT !.at = "published"]
  <2>1. /\ rec \in ThreadRecord /\ rec.at = "published" /\ rec.outcome = thread[a].outcome
        /\ thread' = [thread EXCEPT ![a] = rec]
    BY <1>4, ThreadIs DEF CommitFails, At, ThreadRecord, Steps
  <2>. HIDE DEF rec
  <2>2. thread'[a] = rec
    BY <2>1, InvParts, Types
  <2>3. ThreadFits(a)'
    BY <1>1, <1>4, <2>1, <2>2 DEF ThreadFits, InMemory, memory
  <2>. QED
    BY <1>1, <1>2, <2>1, <2>3, ThreadMoves
<1>. QED
  BY <1>3, <1>4

LEMMA CommitKeeps ==
  ASSUME AttInv, NEW a \in Ids, Commit(a)
  PROVE  AttInv'
<1>. DEFINE rec == [thread[a] EXCEPT !.at = "published"]
            new == [state |-> thread[a].outcome, workload |-> attempts[a].workload,
                    submission |-> attempts[a].submission, number |-> thread[a].number]
<1>1. /\ InMemory(a) /\ manifests[a] = NoManifest /\ thread[a].outcome \in TERMINAL
      /\ thread[a].number \in 0 .. numbers /\ attempts[a] \in AttemptRecord
      /\ numbers \in Nat /\ faults \in 0 .. MaxFaults /\ ~(a > made) /\ AttemptFits(a)
  BY ThreadIs DEF Commit, ThreadFits
<1>2. UNCHANGED <<attempts, by_workload, by_submission, bindings, numbers, made, faults, told, named>>
  BY DEF Commit, memory, history
<1>3. /\ rec \in ThreadRecord /\ rec.at = "published" /\ rec.outcome = thread[a].outcome
      /\ thread' = [thread EXCEPT ![a] = rec]
  BY ThreadIs DEF Commit, At, ThreadRecord, Steps
<1>4. /\ new \in ManifestRecord /\ new.state = thread[a].outcome
      /\ new.workload = attempts[a].workload /\ new.submission = attempts[a].submission
      /\ new.number <= numbers /\ manifests' = [manifests EXCEPT ![a] = new]
  BY <1>1 DEF Commit, AttemptRecord, ManifestRecord
<1>. HIDE DEF rec, new
<1>5. /\ attempts \in [Ids -> AttemptRecord \cup {NoAttempt}]
      /\ manifests' \in [Ids -> ManifestRecord \cup {NoManifest}] /\ manifests'[a] = new
      /\ thread' \in [Ids -> ThreadRecord] /\ thread'[a] = rec
      /\ \A b \in Ids : b # a => manifests'[b] = manifests[b] /\ thread'[b] = thread[b]
  BY <1>3, <1>4, InvParts, Types
<1>6. InMemory(a)' /\ ThreadFits(a)'
  BY <1>1, <1>2, <1>3, <1>4, <1>5 DEF InMemory, ThreadFits
<1>7. attempts[a].state # "completed"
  BY <1>1, Fields, Names DEF AttemptFits
<1>8. AttemptFits(a)'
  BY <1>1, <1>2, <1>4, <1>5, <1>7 DEF AttemptFits, InMemory
<1>9. RunStep(a)
  BY <1>1, <1>2, <1>5, <1>6, <1>8 DEF RunStep
<1>. QED
  BY <1>9, RunStepKeeps

LEMMA SetStateKeeps ==
  ASSUME AttInv, NEW a \in Ids, SetState(a)
  PROVE  AttInv'
<1>. DEFINE rec == [thread[a] EXCEPT !.at = "stated"]
            new == [attempts[a] EXCEPT !.state = thread[a].outcome]
<1>1. /\ InMemory(a) /\ thread[a].outcome \in TERMINAL /\ attempts[a] \in AttemptRecord
      /\ thread[a].outcome = "completed" => manifests[a].state = "completed"
      /\ numbers \in Nat /\ faults \in 0 .. MaxFaults /\ ~(a > made) /\ AttemptFits(a)
  BY ThreadIs DEF SetState, ThreadFits
<1>2. UNCHANGED <<manifests, by_workload, by_submission, bindings, numbers, made, faults, told, named>>
  BY DEF SetState, files, history
<1>3. /\ rec \in ThreadRecord /\ rec.at = "stated" /\ rec.outcome = thread[a].outcome
      /\ thread' = [thread EXCEPT ![a] = rec]
  BY ThreadIs DEF SetState, At, ThreadRecord, Steps
<1>4. /\ new \in AttemptRecord /\ new.state = thread[a].outcome
      /\ new.workload = attempts[a].workload /\ new.submission = attempts[a].submission
      /\ attempts' = [attempts EXCEPT ![a] = new]
  BY <1>1 DEF SetState, AttemptRecord
<1>. HIDE DEF rec, new
<1>5. /\ attempts' \in [Ids -> AttemptRecord \cup {NoAttempt}] /\ attempts'[a] = new
      /\ manifests \in [Ids -> ManifestRecord \cup {NoManifest}]
      /\ thread' \in [Ids -> ThreadRecord] /\ thread'[a] = rec
      /\ \A b \in Ids : b # a => attempts'[b] = attempts[b] /\ thread'[b] = thread[b]
  BY <1>3, <1>4, InvParts, Types
<1>6. InMemory(a)' /\ ThreadFits(a)'
  BY <1>1, <1>2, <1>3, <1>4, <1>5, Fields DEF InMemory, ThreadFits
<1>7. AttemptFits(a)'
  BY <1>1, <1>2, <1>4, <1>5 DEF AttemptFits, InMemory, Published
<1>8. /\ attempts'[a].workload = attempts[a].workload
       /\ attempts'[a].submission = attempts[a].submission
       /\ told' \in {told, told \cup {a}} /\ (told' # told => manifests'[a].state = "completed")
       /\ manifests' \in [Ids -> ManifestRecord \cup {NoManifest}]
       /\ numbers' \in Nat /\ numbers <= numbers' /\ faults' \in 0 .. MaxFaults
  BY <1>1, <1>2, <1>4, <1>5
<1>9. RunStep(a)
  BY <1>1, <1>2, <1>5, <1>6, <1>7, <1>8 DEF RunStep
<1>. QED
  BY <1>9, RunStepKeeps

LEMMA SetOutcomeKeeps ==
  ASSUME AttInv, NEW a \in Ids, SetOutcome(a)
  PROVE  AttInv'
<1>. DEFINE new == [attempts[a] EXCEPT !.outcome = TRUE]
<1>1. /\ InMemory(a) /\ attempts[a] \in AttemptRecord
      /\ numbers \in Nat /\ faults \in 0 .. MaxFaults /\ ~(a > made) /\ AttemptFits(a)
  BY ThreadIs DEF SetOutcome, ThreadFits
<1>2. UNCHANGED <<manifests, by_workload, by_submission, bindings, numbers, made, faults, named>>
  BY DEF SetOutcome, files
<1>3. /\ new \in AttemptRecord /\ new.state = attempts[a].state
      /\ new.workload = attempts[a].workload /\ new.submission = attempts[a].submission
      /\ attempts' = [attempts EXCEPT ![a] = new] /\ thread' = [thread EXCEPT ![a] = NoThread]
  BY <1>1 DEF SetOutcome, AttemptRecord
<1>. HIDE DEF new
<1>4. /\ attempts' \in [Ids -> AttemptRecord \cup {NoAttempt}] /\ attempts'[a] = new
      /\ manifests \in [Ids -> ManifestRecord \cup {NoManifest}]
      /\ thread' \in [Ids -> ThreadRecord] /\ thread'[a] = NoThread
      /\ \A b \in Ids : b # a => attempts'[b] = attempts[b] /\ thread'[b] = thread[b]
  BY <1>3, InvParts, Types, Fields
<1>5. InMemory(a)' /\ ThreadFits(a)'
  BY <1>1, <1>3, <1>4, Fields DEF InMemory, ThreadFits
<1>6. AttemptFits(a)'
  BY <1>1, <1>2, <1>3, <1>4 DEF AttemptFits, InMemory, Published
<1>7. told' \in {told, told \cup {a}} /\ (told' # told => manifests'[a].state = "completed")
  BY <1>6 DEF SetOutcome, Tell, AttemptFits
<1>8. RunStep(a)
  BY <1>1, <1>2, <1>3, <1>4, <1>5, <1>6, <1>7 DEF RunStep
<1>. QED
  BY <1>8, RunStepKeeps

----------------------------------------------------------------------------
(* The process dies, and a process begins.                                 *)

LEMMA CrashKeeps ==
  ASSUME AttInv, Crash
  PROVE  AttInv'
<1>. USE Names, Fields
<1>1. AttTypeOK /\ AttemptsFit /\ BoundFit /\ SubmissionRunsOnce /\ ToldIsDurable
  BY InvParts
<1>2. /\ attempts' = [b \in Ids |-> NoAttempt] /\ by_workload' = [w \in Workloads |-> <<>>]
      /\ by_submission' = [s \in SubmissionIds |-> 0] /\ thread' = [b \in Ids |-> NoThread]
      /\ UNCHANGED <<manifests, bindings, numbers, made, told, named>>
      /\ faults' \in 0 .. MaxFaults
  BY <1>1, Types DEF Crash, Fault, NoAttempts, NoIndex, NoIdsBound, NoThreads, files, history
<1>3. \A w \in Workloads : IndexFits(w)'
  BY <1>2 DEF IndexFits, IsInjective
<1>4. AttTypeOK'
  <2>1. /\ attempts' \in [Ids -> AttemptRecord \cup {NoAttempt}]
        /\ by_submission' \in [SubmissionIds -> Ids \cup {0}]
        /\ thread' \in [Ids -> ThreadRecord]
        /\ \A s \in SubmissionIds : by_submission'[s] # 0 => attempts'[by_submission'[s]] # NoAttempt
    BY <1>2
  <2>2. by_workload' \in [Workloads -> Seq(Ids)]
    BY <1>2
  <2>3. /\ manifests' \in [Ids -> ManifestRecord \cup {NoManifest}] /\ numbers' \in Nat
        /\ bindings' \in [SubmissionIds -> BindingRecord \cup {Unbound}]
        /\ made' \in 0 .. MaxAttempts /\ told' \subseteq Ids
        /\ named' \in [SubmissionIds -> Workloads \cup {None}]
    BY <1>1, <1>2, Types
  <2>. QED
    BY <1>2, <1>3, <2>1, <2>2, <2>3, TypesNext
<1>5. \A b \in Ids : ~InMemory(b)' /\ attempts'[b] = NoAttempt /\ thread'[b] = NoThread
  BY <1>2 DEF InMemory
<1>6. Published' = Published /\ \A b \in Ids : Alive(b)' <=> b \in Published
  BY <1>2, <1>5 DEF Published, Alive
<1>7. AttemptsFit' /\ ThreadsFit'
  <2>1. ASSUME NEW b \in Ids
        PROVE  AttemptFits(b)' /\ ThreadFits(b)'
    <3>1. AttemptFits(b)
      BY <1>1 DEF AttemptsFit
    <3>2. AttemptFits(b)'
      BY <1>2, <1>5, <3>1 DEF AttemptFits
    <3>3. ThreadFits(b)'
      BY <1>5 DEF ThreadFits
    <3>. QED
      BY <3>2, <3>3
  <2>. QED
    BY <2>1 DEF AttemptsFit, ThreadsFit
<1>8. ASSUME NEW b \in Published
      PROVE  /\ b \in Ids /\ Alive(b) /\ Record(b)' = Record(b)
             /\ SubmissionOf(b)' = SubmissionOf(b)
  BY <1>1, <1>2, <1>5, <1>8 DEF Published, Alive, Record, WorkloadOf, SubmissionOf, AttemptsFit, AttemptFits
<1>9. SubmissionRunsOnce'
  BY <1>1, <1>6, <1>8 DEF SubmissionRunsOnce
<1>10. ToldIsDurable'
  BY <1>1, <1>2 DEF ToldIsDurable
<1>11. ASSUME NEW s \in SubmissionIds
       PROVE  BoundFits(s)'
  <2>1. BoundFits(s) /\ Recorded(s)' = Recorded(s) /\ by_submission'[s] = 0
    BY <1>1, <1>2, RecordedSame DEF BoundFit
  <2>2. \A b \in Ids :
          /\ bindings'[s].attempt = b /\ Alive(b)' => bindings'[s] = Record(b)'
          /\ Alive(b)' /\ SubmissionOf(b)' = s => bindings'[s] = Record(b)'
                                                 \/ (bindings'[s] = Unbound /\ b \in Published')
          /\ by_submission'[s] = b => Recorded(s)' = Record(b)'
    BY <1>2, <1>6, <1>8, <2>1 DEF BoundFits
  <2>. QED
    BY <1>2, <2>1, <2>2 DEF BoundFits
<1>. QED
  BY <1>4, <1>7, <1>9, <1>10, <1>11 DEF AttInv, BoundFit

LEMMA InitAttInv == Init => AttInv
<1>. SUFFICES ASSUME Init
              PROVE  AttInv
  OBVIOUS
<1>. USE Names, Fields
<1>1. PICK old \in OldStores \cup {None} :
        /\ made = (IF old = None THEN 0 ELSE 1) /\ numbers = made
        /\ manifests = [a \in Ids |-> IF a <= made THEN Stored(old, a) ELSE NoManifest]
  BY DEF Init
<1>2. /\ attempts = [b \in Ids |-> NoAttempt] /\ by_workload = [w \in Workloads |-> <<>>]
      /\ by_submission = [s \in SubmissionIds |-> 0] /\ thread = [b \in Ids |-> NoThread]
      /\ bindings = [s \in SubmissionIds |-> Unbound] /\ faults = 0 /\ told = {}
      /\ named = [s \in SubmissionIds |-> None]
  BY DEF Init, NoAttempts, NoIndex, NoIdsBound, NoThreads
<1>3. 1 \in Ids /\ made \in 0 .. MaxAttempts /\ made \in {0, 1} /\ numbers \in Nat
  BY <1>1 DEF Ids
<1>4. ASSUME NEW a \in Ids, a <= made
      PROVE  /\ a = 1 /\ Stored(old, a) \in ManifestRecord /\ Stored(old, a).state = "completed"
             /\ Stored(old, a).number = 0 /\ numbers = 1
  <2>1. a = 1 /\ made = 1 /\ old \in OldStores
    BY <1>1, <1>3, <1>4 DEF Ids
  <2>2. old[1] \in Workloads /\ old[2] \in SubmissionIds
    BY <2>1
  <2>. QED
    BY <1>1, <2>1, <2>2 DEF Stored, ManifestRecord, TERMINAL
<1>5. manifests \in [Ids -> ManifestRecord \cup {NoManifest}]
  BY <1>1, <1>4
<1>6. \A a \in Ids : /\ a <= made => manifests[a] = Stored(old, a)
                     /\ a > made => manifests[a] = NoManifest
  BY <1>1, <1>3
<1>7. \A w \in Workloads : IndexFits(w)
  BY <1>2 DEF IndexFits, IsInjective
<1>8. AttTypeOK
  <2>1. /\ attempts \in [Ids -> AttemptRecord \cup {NoAttempt}]
        /\ by_submission \in [SubmissionIds -> Ids \cup {0}]
        /\ thread \in [Ids -> ThreadRecord] /\ told \subseteq Ids
        /\ \A s \in SubmissionIds : by_submission[s] # 0 => attempts[by_submission[s]] # NoAttempt
    BY <1>2
  <2>2. by_workload \in [Workloads -> Seq(Ids)]
    BY <1>2
  <2>3. /\ bindings \in [SubmissionIds -> BindingRecord \cup {Unbound}]
        /\ named \in [SubmissionIds -> Workloads \cup {None}] /\ faults \in 0 .. MaxFaults
    BY <1>2
  <2>. QED
    BY <1>3, <1>5, <1>7, <2>1, <2>2, <2>3, Types
<1>9. \A b \in Ids : ~InMemory(b) /\ attempts[b] = NoAttempt /\ thread[b] = NoThread
  BY <1>2 DEF InMemory
<1>10. \A b \in Ids : Alive(b) => b = 1 /\ b \in Published
  <2>. SUFFICES ASSUME NEW b \in Ids, Alive(b)
                PROVE  b = 1 /\ b \in Published
    OBVIOUS
  <2>1. b \in Published
    BY <1>9 DEF Alive
  <2>2. b <= made
    BY <1>3, <1>6, <2>1 DEF Published, Ids
  <2>. QED
    BY <1>4, <2>1, <2>2
<1>11. AttemptsFit /\ ThreadsFit
  <2>1. ASSUME NEW b \in Ids
        PROVE  AttemptFits(b) /\ ThreadFits(b)
    <3>1. manifests[b].number <= numbers
      <4>1. CASE b <= made
        BY <1>4, <1>6, <4>1
      <4>2. CASE b > made
        BY <1>3, <1>6, <4>2
      <4>. QED
        BY <1>3, <4>1, <4>2 DEF Ids
    <3>2. b > made => manifests[b] = NoManifest
      BY <1>6
    <3>3. AttemptFits(b)
      BY <1>9, <3>1, <3>2 DEF AttemptFits
    <3>. QED
      BY <1>9, <3>3 DEF ThreadFits
  <2>. QED
    BY <2>1 DEF AttemptsFit, ThreadsFit
<1>12. SubmissionRunsOnce
  BY <1>10 DEF SubmissionRunsOnce
<1>13. BoundFit
  <2>1. ASSUME NEW s \in SubmissionIds
        PROVE  BoundFits(s)
    <3>1. bindings[s] = Unbound /\ by_submission[s] = 0 /\ named[s] = None /\ 0 <= made
      BY <1>2, <1>3
    <3>. QED
      BY <1>10, <3>1 DEF BoundFits
  <2>. QED
    BY <2>1 DEF BoundFit
<1>14. ToldIsDurable
  BY <1>2 DEF ToldIsDurable
<1>. QED
  BY <1>8, <1>11, <1>12, <1>13, <1>14 DEF AttInv

LEMMA NextAttInv == AttInv /\ [Next]_vars => AttInv'
<1>. SUFFICES ASSUME AttInv, [Next]_vars
              PROVE  AttInv'
  OBVIOUS
<1>1. CASE UNCHANGED vars
  <2>1. UNCHANGED <<memory, files, made, thread, history>> /\ faults' \in 0 .. MaxFaults
    BY <1>1, InvParts, Types DEF vars
  <2>. QED
    BY <2>1, StutterKeeps
<1>2. CASE Submit
  <2>1. PICK w \in Workloads :
          \/ \E s \in SubmissionIds : Conflict(w, s) \/ Retry(w, s)
          \/ \E s \in SubmissionIds \cup {None} :
               \/ Reuse(w, s)
               \/ \E reuse \in BOOLEAN : Begin(w, s, reuse)
    BY <1>2 DEF Submit
  <2>. QED
    BY <2>1, ConflictKeeps, RetryKeeps, ReuseKeeps, BeginKeeps
<1>3. ASSUME NEW a \in Ids, Run(a)
      PROVE  AttInv'
  BY <1>3, PriceKeeps, TakeNumberKeeps, CommitKeeps, CommitFailsKeeps, SetStateKeeps,
     SetOutcomeKeeps DEF Run
<1>4. ASSUME NEW a \in Ids, Get(a)
      PROVE  AttInv'
  BY <1>4, GetKeeps
<1>5. ASSUME NEW w \in Workloads, Lookup(w)
      PROVE  AttInv'
  BY <1>5, LookupKeeps
<1>6. CASE Crash
  BY <1>6, CrashKeeps
<1>. QED
  BY <1>1, <1>2, <1>3, <1>4, <1>5, <1>6 DEF Next

----------------------------------------------------------------------------
(* What holds of every store, every load and every death of the process.   *)

\* Memory, files, threads and submission ids go together as AttInv says, in
\* every state of the TraderX attempts (workload.py, traderx_routes.py).
THEOREM AttemptsInvariant == Spec => []AttInv
BY InitAttInv, NextAttInv, PTL DEF Spec

\* An attempt anyone was told has completed has its result on disk: complete
\* publishes before it sets the state, and a lookup reads one of the two.
THEOREM AnswersLast == Spec => []ToldIsDurable
<1>1. AttInv => ToldIsDurable
  BY DEF AttInv
<1>. QED
  BY <1>1, AttemptsInvariant, PTL

\* No two attempts that can be found were made for one submission id.
THEOREM IdsRunOnce == Spec => []SubmissionRunsOnce
<1>1. AttInv => SubmissionRunsOnce
  BY DEF AttInv
<1>. QED
  BY <1>1, AttemptsInvariant, PTL

\* A workload somebody was told has completed is looked up to a completed,
\* published attempt ever after.
THEOREM LookupsFind == Spec => []LookupFindsCompleted
<1>1. AttInv => LookupFindsCompleted
  <2>. SUFFICES ASSUME AttInv, NEW a \in told
                PROVE  LET found == Reported(manifests[a].workload)
                       IN found # 0 /\ manifests[found].state = "completed"
    BY DEF LookupFindsCompleted
  <2>1. a \in Ids /\ manifests[a].state = "completed"
    BY InvParts, Types DEF ToldIsDurable
  <2>2. manifests[a] # NoManifest
    BY <2>1, Names, Fields
  <2>3. PICK w \in Workloads : w = manifests[a].workload
    BY <2>1, <2>2, InvParts, Types DEF ManifestRecord
  <2>4. a \in Completed(w)
    BY <2>1, <2>2, <2>3 DEF Completed, Published
  <2>5. Reported(w) \in Completed(w)
    BY <2>4, InvParts, ReportedIsFound
  <2>. QED
    BY <2>3, <2>5, Names DEF Completed, Published
<1>. QED
  BY <1>1, AttemptsInvariant, PTL

\* A submission id once accepted for a workload is accepted for no other: not
\* after the attempt it named was lost, nor by another life of the process.
LEMMA NamesKept ==
  AttInv /\ [Next]_vars => \A s \in SubmissionIds : named[s] # None => named'[s] = named[s]
<1>. SUFFICES ASSUME AttInv, [Next]_vars, NEW s \in SubmissionIds, named[s] # None
              PROVE  named'[s] = named[s]
  OBVIOUS
<1>1. /\ named \in [SubmissionIds -> Workloads \cup {None}]
      /\ Recorded(s).workload = named[s] /\ Binding(s).workload = named[s]
  BY InvParts, Types, BindingIsRecorded DEF BoundFit, BoundFits
<1>2. ASSUME NEW w \in Workloads, NEW t \in SubmissionIds \cup {None}, Name(t, w),
             t # None => Binding(t).workload \in {None, w}
      PROVE  named'[s] = named[s]
  BY <1>1, <1>2, Names DEF Name
<1>3. CASE named' = named
  BY <1>3
<1>4. CASE Submit
  <2>1. PICK w \in Workloads :
          \/ \E t \in SubmissionIds : Conflict(w, t) \/ Retry(w, t)
          \/ \E t \in SubmissionIds \cup {None} :
               \/ Reuse(w, t)
               \/ \E reuse \in BOOLEAN : Begin(w, t, reuse)
    BY <1>4 DEF Submit
  <2>2. ASSUME NEW t \in SubmissionIds, Conflict(w, t)
        PROVE  named' = named
    BY <2>2 DEF Conflict, history
  <2>3. ASSUME NEW t \in SubmissionIds, Retry(w, t)
        PROVE  named'[s] = named[s]
    BY <1>2, <2>3 DEF Retry
  <2>4. ASSUME NEW t \in SubmissionIds \cup {None}, Reuse(w, t)
        PROVE  named'[s] = named[s]
    <3>1. /\ t # None => Binding(t).workload \in {None, w}
          /\ Name(t, w) \/ named' = named
      BY <2>4 DEF Reuse, Unclaimed, history
    <3>. QED
      BY <1>2, <1>3, <3>1
  <2>5. ASSUME NEW t \in SubmissionIds \cup {None}, NEW reuse \in BOOLEAN, Begin(w, t, reuse)
        PROVE  named'[s] = named[s]
    <3>1. /\ t # None => Binding(t).workload \in {None, w}
          /\ Name(t, w) \/ named' = named
      BY <2>5 DEF Begin, Unclaimed
    <3>. QED
      BY <1>2, <1>3, <3>1
  <2>. QED
    BY <1>3, <2>1, <2>2, <2>3, <2>4, <2>5
<1>5. CASE UNCHANGED vars \/ (\E a \in Ids : Run(a) \/ Get(a)) \/ (\E w \in Workloads : Lookup(w)) \/ Crash
  <2>1. named' = named
    BY <1>5 DEF vars, history, Run, Get, Lookup, Crash, Price, TakeNumber, Commit, CommitFails,
                SetState, SetOutcome
  <2>. QED
    BY <1>3, <2>1
<1>. QED
  BY <1>4, <1>5 DEF Next

\* So stated of every behaviour.
THEOREM IdsKeepTheirWorkload == Spec => IdNamesOneWorkload
<1>1. AttInv /\ [Next]_vars
        => [\A s \in SubmissionIds : named[s] # None => named'[s] = named[s]]_vars
  BY NamesKept
<1>. QED
  BY <1>1, AttemptsInvariant, PTL DEF Spec, IdNamesOneWorkload
=============================================================================
