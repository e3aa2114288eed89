------------------------- MODULE Publication_proofs -------------------------
(***************************************************************************)
(* Proofs about the TraderX result store, for any number of processes,     *)
(* attempts, workloads and faults.                                         *)
(*                                                                         *)
(* PubInv is the inductive invariant.  Its heart is IssuedFit and          *)
(* SequenceFit: what a process has issued covers every number of its own   *)
(* attempts, from this life or an earlier one, and, while no write of it   *)
(* was lost, the sequence file covers every number a manifest may have.    *)
(***************************************************************************)
EXTENDS Publication, FiniteSetTheorems, TLAPS

Begun(a)    == pub[a].at # "new"
Active      == {a \in Attempts : pub[a].at \notin {"new", "raised"}}
Carries(a)  == pub[a].at \in {"numbering", "numbered"} \/ a \in Published
ManifestOf(a) == [workload |-> pub[a].workload, state |-> pub[a].state, seq |-> pub[a].seq]

\* How far a publication is and what it left.
PubFits(a) ==
  /\ pub[a].at = "new" <=> pub[a].by = None
  /\ Begun(a) => /\ pub[a].by \in Processes /\ pub[a].workload \in Workloads
                 /\ pub[a].state \in States /\ pub[a].seq \in Nat
  /\ pub[a].at \in {"new", "numbering", "numbered", "raised"} => a \notin Published
  /\ pub[a].at \in {"committed", "pointing", "returned"} => a \in Published
  /\ pub[a].at \in {"committed", "pointing"} => pub[a].state = "completed"
  /\ a \in Published => manifests[a] = ManifestOf(a)

\* What a process remembers covers its attempts' numbers; one that remembers
\* nothing has none in flight.
IssuedFits(p) ==
  \A a \in Attempts : pub[a].by = p =>
    /\ recovered[p] /\ Carries(a) => pub[a].seq <= issued[p]
    /\ ~recovered[p] => pub[a].at \in {"returned", "dead"}

OneNumbering == \A a, b \in Attempts :
                  pub[a].at = "numbering" /\ pub[b].at = "numbering" /\ pub[a].by = pub[b].by
                  => a = b

\* Two numbers of one process differ.
DistinctOfOne == \A a, b \in Attempts :
                   /\ a # b /\ pub[a].by = pub[b].by
                   /\ Carries(a) /\ Carries(b)
                   => pub[a].seq # pub[b].seq

SequenceCovers ==
  OneWriter /\ ~lost =>
    \A a \in Attempts :
      /\ pub[a].at = "numbering" => pub[a].seq >= sequence
      /\ pub[a].at = "numbered" \/ a \in Published => pub[a].seq <= sequence

PublicationsFit == /\ \A a \in Attempts : PubFits(a)
                   /\ \A p \in Processes : IssuedFits(p)
                   /\ OneNumbering
                   /\ DistinctOfOne
                   /\ SequenceCovers

\* A pointer, or what was read of one, names a published result of workload w.
Names(ptr, w) == ptr # NoPointer => /\ ptr.attempt \in Completed(w)
                                    /\ manifests[ptr.attempt].seq = ptr.seq

PointersFit == \A w \in Workloads : Names(pointer[w], w)

\* What a lookup found is no older than what was published when it began.
NoneNewer(look) ==
  /\ look.found = NoPointer => look.floor = {}
  /\ OneWriter /\ ~lost => \A a \in look.floor : ~Newer(a, look.found.attempt)

LookFits(look) ==
  /\ look.at = "idle" => look.floor = {}
  /\ look.at # "idle" => /\ look.workload \in Workloads
                         /\ look.floor \subseteq Completed(look.workload)
                         /\ Names(look.found, look.workload)
  /\ look.at = "scanning" => /\ look.floor \subseteq look.seen
                             /\ look.seen \subseteq Completed(look.workload)
  /\ look.at \in {"found", "pointing"} => look.found # NoPointer
  /\ look.at \in {"found", "pointing", "returned"} => NoneNewer(look)

\* Each number is paid for by an attempt begun or a fault.
Paid(n) == n < Cardinality(Active) + faults

NumbersPaid == /\ Paid(sequence)
               /\ \A p \in Processes : Paid(issued[p])
               /\ \A a \in Attempts : Paid(pub[a].seq)

PubInv == /\ PubTypeOK
          /\ PublicationsFit
          /\ PointersFit
          /\ \A p \in Processes : LookFits(looking[p])
          /\ NumbersPaid

----------------------------------------------------------------------------
(* Finite sets have a largest element: for the numbers, and for the        *)
(* results in the order of Newer.  The strict subsets of a finite set are  *)
(* well founded, so some element has a minimal set above it; that set is   *)
(* empty, for an element of it would have a smaller one.                   *)

LEMMA MaximalElement ==
  ASSUME NEW S, IsFiniteSet(S), S # {},
         NEW R, \A a \in S : <<a, a>> \notin R,
         \A a, b, c \in S : <<a, b>> \in R /\ <<b, c>> \in R => <<a, c>> \in R
  PROVE  \E x \in S : \A y \in S : <<y, x>> \notin R
<1> DEFINE above == [x \in S |-> {y \in S : <<y, x>> \in R}]
           F == {above[x] : x \in S}
<1>1. IsWellFoundedOn(StrictSubsetOrdering(S), SUBSET S)
  BY FS_StrictSubsetOrderingWellFounded, FS_FiniteSubsetsOfFinite
<1>2. F \subseteq SUBSET S /\ F # {}
  <2>1. above \in [S -> SUBSET S]
    OBVIOUS
  <2> HIDE DEF above
  <2>. QED
    BY <2>1
<1>3. \E T \in F : \A U \in F : <<U, T>> \notin StrictSubsetOrdering(S)
  <2> HIDE DEF F
  <2>. QED
    BY <1>1, <1>2, WFMin
<1>4. PICK x \in S : \A y \in S : <<above[y], above[x]>> \notin StrictSubsetOrdering(S)
  <2> HIDE DEF above
  <2>. QED
    BY <1>3
<1>5. ASSUME NEW y \in S, <<y, x>> \in R PROVE FALSE
  <2>1. \A z \in S : z \in above[y] => z \in above[x]
    BY <1>5
  <2>2. y \in above[x] /\ y \notin above[y]
    BY <1>5
  <2>3. above[x] \in SUBSET S /\ above[y] \in SUBSET S
    OBVIOUS
  <2> HIDE DEF above
  <2>4. <<above[y], above[x]>> \in StrictSubsetOrdering(S)
    BY <2>1, <2>2, <2>3 DEF StrictSubsetOrdering
  <2>. QED
    BY <1>4, <2>4
<1>. QED
  BY <1>5

LEMMA MaxOfFinite ==
  ASSUME NEW S \in SUBSET Int, IsFiniteSet(S), S # {}
  PROVE  Max(S) \in S /\ \A y \in S : Max(S) >= y
<1> DEFINE R == {p \in S \X S : p[1] > p[2]}
<1>1. \A x, y \in S : <<x, y>> \in R <=> x > y
  OBVIOUS
<1> HIDE DEF R
<1>2. /\ \A a \in S : <<a, a>> \notin R
      /\ \A a, b, c \in S : <<a, b>> \in R /\ <<b, c>> \in R => <<a, c>> \in R
  BY <1>1
<1>3. \E x \in S : \A y \in S : <<y, x>> \notin R
  BY <1>2, MaximalElement, Zenon
<1>4. PICK x \in S : \A y \in S : ~(y > x)
  BY <1>1, <1>3, Zenon
<1>5. \A y \in S : x >= y
  BY <1>4
<1>. QED
  BY <1>5 DEF Max

LEMMA NewestOfFinite ==
  ASSUME PubTypeOK, NEW S \in SUBSET Published, S # {}
  PROVE  Newest(S) \in S /\ \A b \in S : ~Newer(b, Newest(S))
<1> DEFINE R == {p \in S \X S : Newer(p[1], p[2])}
<1>1. \A x, y \in S : <<x, y>> \in R <=> Newer(x, y)
  OBVIOUS
<1> HIDE DEF R
<1>2. IsFiniteSet(S) /\ \A a \in S : a \in Nat /\ manifests[a].seq \in Nat
  <2>1. S \subseteq Attempts
    BY DEF Published
  <2>2. IsFiniteSet(S)
    BY <2>1, FS_Subset, StoreAssumption
  <2>3. \A a \in S : manifests[a] \in [workload : Workloads, state : States, seq : Nat]
    BY DEF Published, PubTypeOK
  <2>. QED
    BY <2>1, <2>2, <2>3, StoreAssumption
\* Newer orders the results of S.
<1>3. \A a, b \in S : /\ a # b => Newer(a, b) \/ Newer(b, a)
                      /\ ~(Newer(a, b) /\ Newer(b, a))
  BY <1>2 DEF Newer
<1>4. \A a, b, c \in S : Newer(a, b) /\ Newer(b, c) => Newer(a, c)
  BY <1>2 DEF Newer
<1>5. PICK x \in S : \A y \in S : <<y, x>> \notin R
  BY <1>1, <1>2, <1>3, <1>4, MaximalElement, ZenonT(40)
<1>6. \A y \in S \ {x} : Newer(x, y)
  BY <1>1, <1>3, <1>5
<1>7. Newest(S) \in S /\ \A b \in S \ {Newest(S)} : Newer(Newest(S), b)
  BY <1>6 DEF Newest
<1>. QED
  BY <1>3, <1>7

----------------------------------------------------------------------------
(* Types.                                                                  *)

PubRecord == [at : Stages, by : Processes \cup {None}, workload : Workloads \cup {None},
              state : States \cup {None}, seq : Nat \cup {-1}]
Manifest  == [workload : Workloads, state : States, seq : Nat]

LEMMA Records ==
  ASSUME PubTypeOK
  PROVE  /\ \A a \in Attempts : /\ pub[a] \in PubRecord
                                /\ manifests[a] \in Manifest \cup {NoManifest}
                                /\ a \in Published => manifests[a] \in Manifest
         /\ sequence \in Int /\ \A p \in Processes : issued[p] \in Int
BY DEF PubTypeOK, PubRecord, Manifest, Published

\* What a manifest numbers is not the absence of one.
LEMMA ManifestIsOne == \A m \in Manifest : m # NoManifest
BY DEF Manifest, NoManifest

LEMMA HighestCovers ==
  ASSUME PubTypeOK, NEW p \in Processes
  PROVE  /\ Highest(p) \in Nat \cup {-1}
         /\ Highest(p) >= sequence /\ Highest(p) >= issued[p]
         /\ ~recovered[p] => \A a \in Published : Highest(p) >= manifests[a].seq
         /\ \/ Highest(p) \in {sequence, issued[p]}
            \/ \E a \in Published : Highest(p) = manifests[a].seq
<1> DEFINE N == {manifests[a].seq : a \in Published}
           S == {sequence, issued[p]} \cup (IF recovered[p] THEN {} ELSE N)
<1>1. IsFiniteSet(Published)
  BY FS_Subset, StoreAssumption DEF Published
<1>2. N \subseteq Nat
  BY Records DEF Manifest, Published
<1>3. IsFiniteSet(N)
  <2>1. [a \in Published |-> manifests[a].seq] \in Surjection(Published, N)
    BY DEF Surjection
  <2>. QED
    BY <1>1, <2>1, FS_Surjection
<1>4. sequence \in Nat \cup {-1} /\ issued[p] \in Nat \cup {-1}
  BY DEF PubTypeOK
<1>5. IsFiniteSet({sequence, issued[p]})
  <2>1. IsFiniteSet({sequence} \cup {issued[p]})
    BY FS_Singleton, FS_AddElement
  <2>2. {sequence} \cup {issued[p]} = {sequence, issued[p]}
    OBVIOUS
  <2>. QED
    BY <2>1, <2>2
<1> HIDE DEF N
<1>6. IsFiniteSet(S)
  <2>1. IsFiniteSet(IF recovered[p] THEN {} ELSE N)
    BY <1>3, FS_EmptySet
  <2>. QED
    BY <1>5, <2>1, FS_Union
<1>7. S # {} /\ S \subseteq Int /\ S \subseteq Nat \cup {-1}
  BY <1>2, <1>4
<1>8. Highest(p) = Max(S)
  BY DEF Highest, N
<1>9. Max(S) \in S /\ \A y \in S : Max(S) >= y
  BY <1>6, <1>7, MaxOfFinite
<1>. QED
  BY <1>7, <1>8, <1>9 DEF N

----------------------------------------------------------------------------
(* The publications: PublicationsFit, action by action.                    *)

SameNumber(b) == /\ pub'[b].by = pub[b].by /\ pub'[b].workload = pub[b].workload
                 /\ pub'[b].state = pub[b].state /\ pub'[b].seq = pub[b].seq

\* Attempt a moves to a stage, and nothing else of any attempt changes.
Moved(a, stage) == /\ pub'[a].at = stage
                   /\ \A b \in Attempts : /\ SameNumber(b)
                                          /\ b # a => pub'[b] = pub[b]

LEMMA MoveEffect ==
  ASSUME PubTypeOK, NEW a \in Attempts, NEW stage \in Stages, Go(a, stage)
  PROVE  pub' \in [Attempts -> PubRecord] /\ Moved(a, stage)
<1>1. pub \in [Attempts -> PubRecord]
  BY DEF PubTypeOK, PubRecord
<1>2. pub' \in [Attempts -> PubRecord]
  BY <1>1 DEF Go, PubRecord
<1>3. Moved(a, stage)
  BY <1>1 DEF Go, PubRecord, Moved, SameNumber
<1>. QED
  BY <1>2, <1>3

\* The writers of a step are the writers before it, if it changes none.
LEMMA SameWriters ==
  ASSUME NEW a \in Attempts, NEW stage, Moved(a, stage)
  PROVE  OneWriter' = OneWriter
BY DEF OneWriter, Moved, SameNumber

LEMMA PlainMove ==
  ASSUME PubTypeOK, PublicationsFit, NEW a \in Attempts, NEW stage, Moved(a, stage),
         UNCHANGED <<manifests, sequence, issued, recovered, lost>>,
         \/ pub[a].at = "numbered" /\ stage = "raised"
         \/ pub[a].at = "committed" /\ stage \in {"pointing", "returned"}
         \/ pub[a].at = "pointing" /\ stage = "returned"
  PROVE  PublicationsFit'
<1>1. \A b \in Attempts : PubFits(b)'
  BY DEF PublicationsFit, PubFits, Moved, SameNumber, Published, ManifestOf, Begun
<1>2. \A p \in Processes : IssuedFits(p)'
  BY DEF PublicationsFit, IssuedFits, Moved, SameNumber, Carries, Published
<1>3. OneNumbering'
  BY DEF PublicationsFit, OneNumbering, Moved, SameNumber
<1>4. DistinctOfOne'
  BY DEF PublicationsFit, DistinctOfOne, Moved, SameNumber, Carries, Published
<1>5. SequenceCovers'
  BY SameWriters DEF PublicationsFit, SequenceCovers, Moved, SameNumber, Published
<1>. QED
  BY <1>1, <1>2, <1>3, <1>4, <1>5 DEF PublicationsFit

LEMMA WriteSequenceFits ==
  ASSUME PubTypeOK, PublicationsFit, NEW a \in Attempts, WriteSequence(a)
  PROVE  PublicationsFit'
<1>1. Moved(a, "numbered") /\ pub[a].at = "numbering"
  BY MoveEffect DEF WriteSequence, Stages
<1>2. UNCHANGED <<manifests, issued, recovered>>
  BY DEF WriteSequence
<1>3. \A b \in Attempts : PubFits(b)'
  BY <1>1, <1>2 DEF PublicationsFit, PubFits, Moved, SameNumber, Published, ManifestOf, Begun
<1>4. \A p \in Processes : IssuedFits(p)'
  BY <1>1, <1>2 DEF PublicationsFit, IssuedFits, Moved, SameNumber, Carries, Published
<1>5. OneNumbering'
  BY <1>1 DEF PublicationsFit, OneNumbering, Moved, SameNumber
<1>6. DistinctOfOne'
  BY <1>1, <1>2 DEF PublicationsFit, DistinctOfOne, Moved, SameNumber, Carries, Published
\* Where one process writes, no other attempt is being numbered.
<1>7. SequenceCovers'
  <2> SUFFICES ASSUME OneWriter, ~lost', NEW b \in Attempts
               PROVE  /\ pub'[b].at = "numbering" => pub'[b].seq >= sequence'
                      /\ pub'[b].at = "numbered" \/ b \in Published' => pub'[b].seq <= sequence'
    BY <1>1, SameWriters DEF SequenceCovers
  <2>1. ~lost /\ sequence' = pub[a].seq
    BY DEF WriteSequence
  <2>2. /\ pub[a].seq >= sequence
        /\ pub[b].at = "numbered" \/ b \in Published => pub[b].seq <= sequence
    BY <1>1, <2>1 DEF PublicationsFit, SequenceCovers
  <2>3. pub[b].at = "numbering" => b = a
    BY <1>1, StoreAssumption DEF PublicationsFit, OneNumbering, OneWriter, PubFits, Begun
  <2>4. pub[a].seq \in Int /\ pub[b].seq \in Int /\ sequence \in Int
    BY Records DEF PubRecord
  <2>. QED
    BY <1>1, <1>2, <2>1, <2>2, <2>3, <2>4 DEF Moved, SameNumber, Published
<1>. QED
  BY <1>3, <1>4, <1>5, <1>6, <1>7 DEF PublicationsFit

LEMMA CommitFits ==
  ASSUME PubTypeOK, PublicationsFit, NEW a \in Attempts, Commit(a)
  PROVE  /\ PublicationsFit'
         /\ manifests'[a] \in Manifest /\ a \notin Published
         /\ \A b \in Attempts : b # a => manifests'[b] = manifests[b]
<1> DEFINE stage == IF pub[a].state = "completed" THEN "committed" ELSE "returned"
<1>1. Moved(a, stage) /\ pub[a].at = "numbered"
  BY MoveEffect DEF Commit, Stages
<1>2. UNCHANGED <<sequence, issued, recovered, lost>>
  BY DEF Commit
<1>3. /\ manifests'[a] = ManifestOf(a)
      /\ \A b \in Attempts : b # a => manifests'[b] = manifests[b]
  BY DEF Commit, PubTypeOK, ManifestOf
<1>4. a \notin Published /\ ManifestOf(a) \in Manifest
  BY <1>1 DEF PublicationsFit, PubFits, Begun, ManifestOf, Manifest
<1>5. Published' = Published \cup {a}
  BY <1>3, <1>4, ManifestIsOne DEF Published
<1>6. \A b \in Attempts : ManifestOf(b)' = ManifestOf(b)
  BY <1>1 DEF Moved, SameNumber, ManifestOf
<1>7. \A b \in Attempts : PubFits(b)'
  <2> SUFFICES ASSUME NEW b \in Attempts PROVE PubFits(b)'
    OBVIOUS
  <2>1. CASE b = a
    BY <1>1, <1>3, <1>5, <1>6, <2>1 DEF PublicationsFit, PubFits, Moved, SameNumber, Begun
  <2>2. CASE b # a
    BY <1>1, <1>3, <1>5, <1>6, <2>2 DEF PublicationsFit, PubFits, Moved, SameNumber, Begun
  <2>. QED
    BY <2>1, <2>2
<1>8. \A b \in Attempts : Carries(b)' = Carries(b)
  BY <1>1, <1>5 DEF Carries, Moved, SameNumber
<1>9. \A p \in Processes : IssuedFits(p)'
  BY <1>1, <1>2, <1>8 DEF PublicationsFit, IssuedFits, Moved, SameNumber
<1>10. OneNumbering'
  BY <1>1 DEF PublicationsFit, OneNumbering, Moved, SameNumber
<1>11. DistinctOfOne'
  BY <1>1, <1>8 DEF PublicationsFit, DistinctOfOne, Moved, SameNumber
<1>12. SequenceCovers'
  BY <1>1, <1>2, <1>5, SameWriters DEF PublicationsFit, SequenceCovers, Moved, SameNumber
<1>. QED
  BY <1>3, <1>4, <1>7, <1>9, <1>10, <1>11, <1>12 DEF PublicationsFit

\* What numbering an attempt changes.
LEMMA ReadSequenceEffect ==
  ASSUME PubTypeOK, NEW a \in Attempts, NEW p \in Processes, NEW w \in Workloads, NEW s \in States,
         ReadSequence(a, p, w, s)
  PROVE  /\ pub' \in [Attempts -> PubRecord]
         /\ pub'[a].at = "numbering" /\ pub'[a].by = p
         /\ pub'[a].workload = w /\ pub'[a].state = s /\ pub'[a].seq = Highest(p) + 1
         /\ Highest(p) + 1 \in Nat
         /\ \A b \in Attempts : b # a => pub'[b] = pub[b]
         /\ issued' \in [Processes -> Nat \cup {-1}]
         /\ issued'[p] = Highest(p) + 1
         /\ \A q \in Processes : q # p => issued'[q] = issued[q]
         /\ recovered' \in [Processes -> BOOLEAN]
         /\ recovered'[p]
         /\ \A q \in Processes : q # p => recovered'[q] = recovered[q]
<1> DEFINE r == [at |-> "numbering", by |-> p, workload |-> w, state |-> s, seq |-> Highest(p) + 1]
<1>1. Highest(p) + 1 \in Nat
  BY HighestCovers
<1>2. r \in PubRecord
  BY <1>1 DEF PubRecord, Stages
<1>3. pub' \in [Attempts -> PubRecord] /\ pub'[a] = r /\ \A b \in Attempts : b # a => pub'[b] = pub[b]
  <2>1. pub \in [Attempts -> PubRecord] /\ pub' = [pub EXCEPT ![a] = r]
    BY DEF PubTypeOK, PubRecord, ReadSequence
  <2> HIDE DEF r
  <2>. QED
    BY <1>2, <2>1
<1>4. /\ issued' \in [Processes -> Nat \cup {-1}]
      /\ issued'[p] = Highest(p) + 1
      /\ \A q \in Processes : q # p => issued'[q] = issued[q]
  BY <1>1 DEF PubTypeOK, ReadSequence
<1>5. /\ recovered' \in [Processes -> BOOLEAN]
      /\ recovered'[p]
      /\ \A q \in Processes : q # p => recovered'[q] = recovered[q]
  BY DEF PubTypeOK, ReadSequence
<1>. QED
  BY <1>1, <1>3, <1>4, <1>5

\* The new number is above every number of its process: those it remembers, or
\* every manifest's if it remembers none.
LEMMA ReadSequenceFits ==
  ASSUME PubTypeOK, PublicationsFit, NEW a \in Attempts, NEW p \in Processes,
         NEW w \in Workloads, NEW s \in States, ReadSequence(a, p, w, s)
  PROVE  PublicationsFit'
<1>1. /\ pub'[a].at = "numbering" /\ pub'[a].by = p
      /\ pub'[a].workload = w /\ pub'[a].state = s /\ pub'[a].seq = Highest(p) + 1
      /\ Highest(p) + 1 \in Nat
      /\ \A b \in Attempts : b # a => pub'[b] = pub[b]
      /\ issued'[p] = Highest(p) + 1 /\ recovered'[p]
      /\ \A q \in Processes : q # p => issued'[q] = issued[q] /\ recovered'[q] = recovered[q]
  BY ReadSequenceEffect
<1>2. /\ manifests' = manifests /\ sequence' = sequence /\ lost' = lost
      /\ pub[a].at \in {"new", "raised"}
      /\ pub[a].at = "raised" => pub[a].by = p
      /\ \A b \in Attempts : ~(pub[b].at = "numbering" /\ pub[b].by = p)
  BY DEF ReadSequence
<1>3. Published' = Published /\ a \notin Published
  BY <1>2 DEF Published, PublicationsFit, PubFits
<1>4. p # None
  BY StoreAssumption
<1>5. \A b \in Attempts : pub[b].by = p /\ Carries(b) => pub[b].seq < Highest(p) + 1
  <2> SUFFICES ASSUME NEW b \in Attempts, pub[b].by = p, Carries(b)
               PROVE  pub[b].seq < Highest(p) + 1
    OBVIOUS
  <2>1. /\ Highest(p) \in Int /\ Highest(p) >= issued[p] /\ issued[p] \in Int
        /\ ~recovered[p] /\ b \in Published => Highest(p) >= manifests[b].seq
        /\ pub[b].seq \in Int
    BY HighestCovers, Records DEF PubRecord
  <2>2. CASE recovered[p]
    BY <2>1, <2>2 DEF PublicationsFit, IssuedFits
  <2>3. CASE ~recovered[p]
    <3>1. pub[b].at \in {"returned", "dead"}
      BY <2>3 DEF PublicationsFit, IssuedFits
    <3>2. b \in Published
      BY <3>1 DEF Carries
    <3>3. manifests[b] = ManifestOf(b)
      BY <3>2 DEF PublicationsFit, PubFits
    <3>4. manifests[b].seq = pub[b].seq
      BY <3>3 DEF ManifestOf
    <3>. QED
      BY <2>1, <2>3, <3>2, <3>4
  <2>. QED
    BY <2>2, <2>3
<1>6. \A b \in Attempts : PubFits(b)'
  <2> SUFFICES ASSUME NEW b \in Attempts PROVE PubFits(b)'
    OBVIOUS
  <2>1. CASE b = a
    BY <1>1, <1>3, <1>4, <2>1 DEF PubFits, Begun
  <2>2. CASE b # a
    BY <1>1, <1>2, <1>3, <2>2 DEF PublicationsFit, PubFits, Begun, ManifestOf
  <2>. QED
    BY <2>1, <2>2
<1>7. \A b \in Attempts : b # a => Carries(b)' = Carries(b)
  BY <1>1, <1>3 DEF Carries
<1>8. \A q \in Processes : IssuedFits(q)'
  <2> SUFFICES ASSUME NEW q \in Processes, NEW b \in Attempts, pub'[b].by = q
               PROVE  /\ recovered'[q] /\ Carries(b)' => pub'[b].seq <= issued'[q]
                      /\ ~recovered'[q] => pub'[b].at \in {"returned", "dead"}
    BY DEF IssuedFits
  <2>1. CASE b = a
    BY <1>1, <2>1
  <2>2. CASE b # a /\ q = p
    <3>1. Carries(b)' => pub[b].seq < Highest(p) + 1
      BY <1>1, <1>5, <1>7, <2>2
    <3>2. pub[b].seq \in Int /\ Highest(p) + 1 \in Int
      BY <1>1, Records DEF PubRecord
    <3>. QED
      BY <1>1, <2>2, <3>1, <3>2
  <2>3. CASE b # a /\ q # p
    BY <1>1, <1>7, <2>3 DEF PublicationsFit, IssuedFits
  <2>. QED
    BY <2>1, <2>2, <2>3
<1>9. OneNumbering'
  BY <1>1, <1>2 DEF PublicationsFit, OneNumbering
<1>10. DistinctOfOne'
  <2> SUFFICES ASSUME NEW b \in Attempts, NEW c \in Attempts, b # c, pub'[b].by = pub'[c].by,
                      Carries(b)', Carries(c)'
               PROVE  pub'[b].seq # pub'[c].seq
    BY DEF DistinctOfOne
  <2>1. CASE b # a /\ c # a
    BY <1>1, <1>7, <2>1 DEF PublicationsFit, DistinctOfOne
  <2>2. ASSUME NEW d \in Attempts, d # a, pub'[d].by = p, Carries(d)'
        PROVE  pub'[d].seq # pub'[a].seq
    <3>1. pub[d].seq < Highest(p) + 1 /\ pub[d].seq \in Int
      BY <1>1, <1>5, <1>7, <2>2, Records DEF PubRecord
    <3>. QED
      BY <1>1, <2>2, <3>1
  <2>. QED
    BY <1>1, <2>1, <2>2
<1>11. SequenceCovers'
  <2> SUFFICES ASSUME OneWriter', ~lost', NEW b \in Attempts
               PROVE  /\ pub'[b].at = "numbering" => pub'[b].seq >= sequence'
                      /\ pub'[b].at = "numbered" \/ b \in Published' => pub'[b].seq <= sequence'
    BY DEF SequenceCovers
  <2>1. OneWriter
    <3>1. \A c \in Attempts : pub[c].by # None => pub'[c].by = pub[c].by
      BY <1>1, <1>2 DEF PublicationsFit, PubFits
    <3>. QED
      BY <3>1 DEF OneWriter
  <2>2. CASE b = a
    BY <1>1, <1>2, <1>3, <2>2, HighestCovers, Records
  <2>3. CASE b # a
    BY <1>1, <1>2, <1>3, <2>1, <2>3 DEF PublicationsFit, SequenceCovers
  <2>. QED
    BY <2>2, <2>3
<1>. QED
  BY <1>6, <1>8, <1>9, <1>10, <1>11 DEF PublicationsFit

LEMMA CrashEffect ==
  ASSUME PubTypeOK, NEW p \in Processes, Crash(p)
  PROVE  /\ pub' \in [Attempts -> PubRecord]
         /\ \A a \in Attempts :
              /\ SameNumber(a)
              /\ pub'[a].at = IF pub[a].by = p /\ pub[a].at \notin {"returned", "dead"}
                              THEN "dead" ELSE pub[a].at
         /\ issued' \in [Processes -> Nat \cup {-1}] /\ issued'[p] = -1
         /\ \A q \in Processes : q # p => issued'[q] = issued[q]
         /\ recovered' \in [Processes -> BOOLEAN] /\ ~recovered'[p]
         /\ \A q \in Processes : q # p => recovered'[q] = recovered[q]
<1>1. pub \in [Attempts -> PubRecord]
  BY DEF PubTypeOK, PubRecord
<1>2. \A a \in Attempts :
        /\ pub'[a] \in PubRecord /\ SameNumber(a)
        /\ pub'[a].at = IF pub[a].by = p /\ pub[a].at \notin {"returned", "dead"}
                        THEN "dead" ELSE pub[a].at
  <2> SUFFICES ASSUME NEW a \in Attempts
               PROVE /\ pub'[a] \in PubRecord /\ SameNumber(a)
                     /\ pub'[a].at = IF pub[a].by = p /\ pub[a].at \notin {"returned", "dead"}
                                     THEN "dead" ELSE pub[a].at
    OBVIOUS
  <2>1. pub[a] \in PubRecord
    BY <1>1
  <2>2. pub'[a] = IF pub[a].by = p /\ pub[a].at \notin {"returned", "dead"}
                  THEN [pub[a] EXCEPT !.at = "dead"] ELSE pub[a]
    BY DEF Crash
  <2>. QED
    BY <2>1, <2>2 DEF PubRecord, SameNumber, Stages
<1>3. pub' \in [Attempts -> PubRecord]
  <2>1. pub' = [a \in Attempts |-> pub'[a]]
    BY DEF Crash
  <2>. QED
    BY <1>2, <2>1
<1>4. /\ issued' \in [Processes -> Nat \cup {-1}] /\ issued'[p] = -1
      /\ \A q \in Processes : q # p => issued'[q] = issued[q]
      /\ recovered' \in [Processes -> BOOLEAN] /\ ~recovered'[p]
      /\ \A q \in Processes : q # p => recovered'[q] = recovered[q]
  BY DEF PubTypeOK, Crash
<1>. QED
  BY <1>2, <1>3, <1>4

LEMMA CrashFits ==
  ASSUME PubTypeOK, PublicationsFit, NEW p \in Processes, Crash(p)
  PROVE  PublicationsFit' /\ OneWriter' = OneWriter
<1>1. /\ \A a \in Attempts :
           /\ SameNumber(a)
           /\ pub'[a].at = IF pub[a].by = p /\ pub[a].at \notin {"returned", "dead"}
                           THEN "dead" ELSE pub[a].at
      /\ ~recovered'[p]
      /\ \A q \in Processes : q # p => issued'[q] = issued[q] /\ recovered'[q] = recovered[q]
  BY CrashEffect
<1>2. UNCHANGED <<manifests, sequence, lost>>
  BY DEF Crash
<1>3. Published' = Published /\ p # None
  BY <1>2, StoreAssumption DEF Published
<1>4. \A a \in Attempts : Carries(a)' => Carries(a)
  BY <1>1, <1>3 DEF Carries
<1>5. \A a \in Attempts : PubFits(a)'
  BY <1>1, <1>2, <1>3 DEF PublicationsFit, PubFits, SameNumber, ManifestOf, Begun
<1>6. \A q \in Processes : IssuedFits(q)'
  BY <1>1, <1>4 DEF PublicationsFit, IssuedFits, SameNumber
<1>7. OneNumbering'
  BY <1>1 DEF PublicationsFit, OneNumbering, SameNumber
<1>8. DistinctOfOne'
  BY <1>1, <1>4 DEF PublicationsFit, DistinctOfOne, SameNumber
<1>9. OneWriter' = OneWriter
  BY <1>1 DEF OneWriter, SameNumber
<1>10. SequenceCovers'
  BY <1>1, <1>2, <1>3, <1>9 DEF PublicationsFit, SequenceCovers, SameNumber
<1>. QED
  BY <1>5, <1>6, <1>7, <1>8, <1>9, <1>10 DEF PublicationsFit

----------------------------------------------------------------------------
(* Every step keeps the publications fit, what is published and the order. *)

LookStep(p) == /\ Lookup(p)
               /\ UNCHANGED <<manifests, sequence, issued, recovered, pub, lost>>

PublishedStays == \A a \in Published : a \in Published' /\ manifests'[a] = manifests[a]
OrderOnlyEnds  == OneWriter' /\ ~lost' => OneWriter /\ ~lost

LEMMA LookupIsLookStep == \A p \in Readers : Lookup(p) => LookStep(p)
BY ZenonT(40) DEF Lookup, LookStep, LookAtPointer, CheckPointer, Scan, ReadAgain, Repoint

LEMMA PlainMoves ==
  ASSUME PubTypeOK, PublicationsFit, NEW a \in Attempts,
         Refuse(a) \/ ReadPointer(a) \/ MovePointer(a)
  PROVE  /\ \E stage \in Stages : Moved(a, stage)
         /\ pub' \in [Attempts -> PubRecord]
         /\ UNCHANGED <<manifests, sequence, issued, recovered, lost, looking>>
         /\ PublicationsFit'
<1>1. PICK stage \in {"raised", "pointing", "returned"} :
        /\ Go(a, stage)
        /\ \/ pub[a].at = "numbered" /\ stage = "raised"
           \/ pub[a].at = "committed" /\ stage \in {"pointing", "returned"}
           \/ pub[a].at = "pointing" /\ stage = "returned"
  BY DEF Refuse, ReadPointer, MovePointer
<1>2. stage \in Stages
  BY DEF Stages
<1>3. pub' \in [Attempts -> PubRecord] /\ Moved(a, stage)
  BY <1>1, <1>2, MoveEffect
<1>4. UNCHANGED <<manifests, sequence, issued, recovered, lost, looking>>
  BY DEF Refuse, ReadPointer, MovePointer
<1>5. PublicationsFit'
  BY <1>1, <1>3, <1>4, PlainMove
<1>. QED
  BY <1>2, <1>3, <1>4, <1>5

LEMMA PublicationsStep ==
  ASSUME PubTypeOK, PublicationsFit, [Next]_vars
  PROVE  PublicationsFit' /\ PublishedStays /\ OrderOnlyEnds
<1>1. ASSUME UNCHANGED <<manifests, sequence, issued, recovered, pub, lost>>
      PROVE  PublicationsFit' /\ PublishedStays /\ OrderOnlyEnds
  BY <1>1 DEF PublicationsFit, PubFits, IssuedFits, OneNumbering, DistinctOfOne, SequenceCovers,
              Published, Carries, ManifestOf, Begun, OneWriter, PublishedStays, OrderOnlyEnds
<1>2. ASSUME NEW a \in Attempts, Publish(a)
      PROVE  PublicationsFit' /\ PublishedStays /\ OrderOnlyEnds
  <2>1. CASE \E p \in Processes, w \in Workloads, s \in States : ReadSequence(a, p, w, s)
    <3>1. PICK p \in Processes, w \in Workloads, s \in States : ReadSequence(a, p, w, s)
      BY <2>1
    <3>2. UNCHANGED <<manifests, lost>> /\ (pub[a].at = "raised" => pub[a].by = p)
          /\ pub[a].at \in {"new", "raised"}
      BY <3>1 DEF ReadSequence
    <3>3. PublicationsFit'
      BY <3>1, ReadSequenceFits
    <3>4. \A c \in Attempts : pub[c].by # None => pub'[c].by = pub[c].by
      BY <3>1, <3>2, ReadSequenceEffect DEF PublicationsFit, PubFits
    <3>. QED
      BY <3>2, <3>3, <3>4 DEF PublishedStays, OrderOnlyEnds, Published, OneWriter
  <2>2. CASE WriteSequence(a)
    <3>1. Moved(a, "numbered") /\ UNCHANGED manifests /\ (~lost' => ~lost)
      BY <2>2, MoveEffect DEF WriteSequence, Stages
    <3>. QED
      BY <2>2, <3>1, SameWriters, WriteSequenceFits DEF PublishedStays, OrderOnlyEnds, Published
  <2>3. CASE Commit(a)
    <3> DEFINE stage == IF pub[a].state = "completed" THEN "committed" ELSE "returned"
    <3>1. Moved(a, stage) /\ UNCHANGED lost
      BY <2>3, MoveEffect DEF Commit, Stages
    <3>. QED
      BY <2>3, <3>1, SameWriters, CommitFits DEF PublishedStays, OrderOnlyEnds, Published
  <2>4. CASE Refuse(a) \/ ReadPointer(a) \/ MovePointer(a)
    BY <2>4, PlainMoves, SameWriters DEF PublishedStays, OrderOnlyEnds, Published
  <2>. QED
    BY <1>2, <2>1, <2>2, <2>3, <2>4 DEF Publish
<1>3. ASSUME NEW p \in Readers, Lookup(p)
      PROVE  PublicationsFit' /\ PublishedStays /\ OrderOnlyEnds
  BY <1>1, <1>3, LookupIsLookStep DEF LookStep
<1>4. ASSUME NEW p \in Processes, Crash(p)
      PROVE  PublicationsFit' /\ PublishedStays /\ OrderOnlyEnds
  BY <1>4, CrashFits DEF Crash, PublishedStays, OrderOnlyEnds, Published
<1>. QED
  BY <1>1, <1>2, <1>3, <1>4 DEF Next, vars

LEMMA CompletedStays ==
  ASSUME PublishedStays, NEW w, NEW a \in Completed(w)
  PROVE  a \in Completed(w)' /\ manifests'[a] = manifests[a]
BY DEF PublishedStays, Completed, Published

LEMMA NamesStays ==
  ASSUME PublishedStays, NEW ptr, NEW w, Names(ptr, w)
  PROVE  Names(ptr, w)'
BY CompletedStays DEF Names

----------------------------------------------------------------------------
(* The pointers.                                                           *)

\* What is about to be written to a pointer names a result.
LEMMA WritePointerNames ==
  ASSUME PubTypeOK, PointersFit, PublishedStays, NEW v \in Workloads, NEW a \in Attempts, NEW n \in Nat,
         a \in Completed(v), manifests[a].seq = n, WritePointer(v, a, n)
  PROVE  PointersFit' /\ pointer' \in [Workloads -> Pointers]
<1> DEFINE ptr == [attempt |-> a, seq |-> n]
<1>1. Names(ptr, v)
  BY DEF Names
<1>2. ptr \in Pointers /\ pointer \in [Workloads -> Pointers]
  BY DEF Pointers, PubTypeOK
<1>3. pointer' = [pointer EXCEPT ![v] = ptr] \/ pointer' = pointer
  BY DEF WritePointer
<1> HIDE DEF ptr
<1>4. \A w \in Workloads : pointer'[w] = pointer[w] \/ (w = v /\ pointer'[w] = ptr)
  BY <1>2, <1>3
<1>5. ASSUME NEW w \in Workloads PROVE Names(pointer[w], w)'
  <2>1. PICK q : q = pointer'[w] /\ Names(q, w)
    BY <1>1, <1>4 DEF PointersFit
  <2>2. Names(q, w)'
    BY <2>1, NamesStays
  <2>. QED
    BY <2>1, <2>2 DEF Names
<1>. QED
  BY <1>2, <1>3, <1>5 DEF PointersFit

LEMMA SamePointers ==
  ASSUME PointersFit, PublishedStays, UNCHANGED pointer
  PROVE  PointersFit'
<1> SUFFICES ASSUME NEW w \in Workloads PROVE Names(pointer[w], w)'
  BY DEF PointersFit
<1>1. PICK q : q = pointer[w] /\ Names(q, w)
  BY DEF PointersFit
<1>2. Names(q, w)'
  BY <1>1, NamesStays
<1>. QED
  BY <1>1, <1>2 DEF Names

----------------------------------------------------------------------------
(* The lookups.                                                            *)

LookRecord == [at : Looks, workload : Workloads \cup {None},
               floor : SUBSET Attempts, seen : SUBSET Attempts, found : Pointers]

LEMMA LookTypes ==
  ASSUME PubTypeOK
  PROVE  /\ looking \in [Processes -> LookRecord]
         /\ pointer \in [Workloads -> Pointers]
         /\ \A w : Completed(w) \subseteq Attempts /\ Completed(w) \subseteq Published
         /\ NoPointer \in Pointers
BY DEF PubTypeOK, LookRecord, Completed, Published, Pointers

\* Only the lookup of process p changes, and to what it may be.
Looked(p) == /\ looking' \in [Processes -> LookRecord]
             /\ \A q \in Processes : q # p => looking'[q] = looking[q]
             /\ LookFits(looking'[p])

LEMMA LookedTo ==
  ASSUME PubTypeOK, NEW p \in Processes, NEW r \in LookRecord, LookFits(r),
         looking' = [looking EXCEPT ![p] = r]
  PROVE  Looked(p)
BY LookTypes DEF Looked

\* Moving a lookup on.
LEMMA LookMove ==
  ASSUME PubTypeOK, NEW p \in Processes, NEW at \in Looks, Look(p, at)
  PROVE  \E r \in LookRecord :
           /\ looking' = [looking EXCEPT ![p] = r]
           /\ r.at = at
           /\ r.workload = looking[p].workload /\ r.floor = looking[p].floor
           /\ r.seen = looking[p].seen /\ r.found = looking[p].found
<1> DEFINE r == [looking[p] EXCEPT !.at = at]
<1>1. looking[p] \in LookRecord
  BY LookTypes
<1>2. /\ r \in LookRecord /\ r.at = at
      /\ r.workload = looking[p].workload /\ r.floor = looking[p].floor
      /\ r.seen = looking[p].seen /\ r.found = looking[p].found
  BY <1>1 DEF LookRecord
<1>3. looking' = [looking EXCEPT ![p] = r]
  BY DEF Look
<1>. QED
  BY <1>2, <1>3

LEMMA LookAtPointerFits ==
  ASSUME PubTypeOK, PointersFit, NEW p \in Processes, NEW w \in Workloads, LookAtPointer(p, w)
  PROVE  Looked(p)
<1> DEFINE r == [at |-> "pointed", workload |-> w, seen |-> {},
                 floor |-> Completed(w), found |-> pointer[w]]
<1>1. r \in LookRecord
  BY LookTypes DEF LookRecord, Looks
<1>2. LookFits(r)
  BY DEF LookFits, PointersFit
<1>3. looking' = [looking EXCEPT ![p] = r]
  BY DEF LookAtPointer
<1> HIDE DEF r
<1>. QED
  BY <1>1, <1>2, <1>3, LookedTo

\* A trusted pointer has the last number, and no manifest a higher one.
LEMMA TrustedIsNewest ==
  ASSUME PubTypeOK, PublicationsFit, OneWriter, ~lost, NEW p \in Processes,
         Trusted(p), NEW a \in Completed(looking[p].workload)
  PROVE  ~Newer(a, looking[p].found.attempt)
<1> DEFINE f == looking[p].found.attempt
<1>1. f \in Published /\ a \in Published /\ f \in Attempts /\ a \in Attempts
  BY LookTypes DEF Trusted
<1>2. manifests[f].seq = sequence
  BY DEF Trusted
<1>3. \A b \in Published : /\ manifests[b].seq = pub[b].seq /\ Carries(b)
                           /\ pub[b].seq \in Nat /\ pub[b].by \in Processes
                           /\ pub[b].seq <= sequence
  <2> SUFFICES ASSUME NEW b \in Published
               PROVE  /\ manifests[b].seq = pub[b].seq /\ Carries(b)
                      /\ pub[b].seq \in Nat /\ pub[b].by \in Processes
                      /\ pub[b].seq <= sequence
    OBVIOUS
  <2>1. b \in Attempts /\ manifests[b] = ManifestOf(b) /\ Begun(b)
    BY DEF PublicationsFit, PubFits, Published, Begun
  <2>. QED
    BY <2>1 DEF PublicationsFit, PubFits, SequenceCovers, ManifestOf, Carries
<1>4. a # f => pub[a].seq # pub[f].seq
  <2>1. pub[a].by = pub[f].by
    BY <1>1, <1>3, StoreAssumption DEF OneWriter
  <2>. QED
    BY <1>1, <1>3, <2>1 DEF PublicationsFit, DistinctOfOne
<1>5. sequence \in Int /\ a \in Nat
  BY <1>1, Records, StoreAssumption
<1>. QED
  <2>1. manifests[a].seq <= manifests[f].seq /\ (a # f => manifests[a].seq # manifests[f].seq)
    BY <1>1, <1>2, <1>3, <1>4
  <2>2. manifests[a].seq \in Nat /\ manifests[f].seq \in Nat
    BY <1>1, <1>3
  <2> HIDE DEF f
  <2>3. ~Newer(a, f)
    BY <1>5, <2>1, <2>2 DEF Newer
  <2>. QED
    BY <2>3 DEF f

LEMMA CheckPointerFits ==
  ASSUME PubTypeOK, PublicationsFit, NEW p \in Processes, LookFits(looking[p]), CheckPointer(p)
  PROVE  Looked(p)
<1>0. looking[p] \in LookRecord /\ looking[p].at = "pointed"
  BY LookTypes DEF CheckPointer
<1>1. CASE Trusted(p) /\ Look(p, "returned")
  <2>1. PICK r \in LookRecord :
           /\ looking' = [looking EXCEPT ![p] = r]
           /\ r.at = "returned"
           /\ r.workload = looking[p].workload /\ r.floor = looking[p].floor
           /\ r.seen = looking[p].seen /\ r.found = looking[p].found
    BY <1>1, LookMove DEF Looks
  <2>2. r.found # NoPointer
    <3>1. looking[p].found.attempt \in Attempts
      BY <1>1, LookTypes DEF Trusted
    <3>. QED
      BY <2>1, <3>1, StoreAssumption DEF NoPointer
  <2>3. OneWriter /\ ~lost => \A a \in r.floor : ~Newer(a, r.found.attempt)
    <3>1. looking[p].floor \subseteq Completed(looking[p].workload)
      BY <1>0 DEF LookFits
    <3>. QED
      BY <1>1, <2>1, <3>1, TrustedIsNewest
  <2>4. LookFits(r)
    BY <1>0, <2>1, <2>2, <2>3 DEF LookFits, NoneNewer
  <2>. QED
    BY <2>1, <2>4, LookedTo
<1>2. CASE looking' = [looking EXCEPT ![p].at = "scanning",
                                      ![p].seen = Completed(looking[p].workload),
                                      ![p].found = NoPointer]
  <2> DEFINE r == [looking[p] EXCEPT !.at = "scanning", !.seen = Completed(looking[p].workload),
                                     !.found = NoPointer]
  <2>1. /\ r \in LookRecord /\ r.at = "scanning"
        /\ r.workload = looking[p].workload /\ r.floor = looking[p].floor
        /\ r.seen = Completed(looking[p].workload) /\ r.found = NoPointer
    BY <1>0, LookTypes DEF LookRecord, Looks
  <2>2. looking' = [looking EXCEPT ![p] = r]
    BY <1>2
  <2> HIDE DEF r
  <2>3. LookFits(r)
    BY <1>0, <2>1 DEF LookFits, Names
  <2>. QED
    BY <2>1, <2>2, <2>3, LookedTo
<1>. QED
  BY <1>1, <1>2 DEF CheckPointer

LEMMA ScanFits ==
  ASSUME PubTypeOK, NEW p \in Processes, LookFits(looking[p]), Scan(p)
  PROVE  Looked(p)
<1> DEFINE w == looking[p].workload
<1>0. looking[p] \in LookRecord /\ looking[p].at = "scanning"
  BY LookTypes DEF Scan
<1>1. PICK S \in SUBSET Completed(w) :
        /\ looking[p].seen \subseteq S
        /\ IF S = {} THEN Look(p, "returned")
           ELSE looking' = [looking EXCEPT ![p].at = "found", ![p].seen = {},
                              ![p].found = [attempt |-> Newest(S),
                                            seq |-> manifests[Newest(S)].seq]]
  BY DEF Scan
<1>2. looking[p].floor \subseteq S
  BY <1>0, <1>1 DEF LookFits
<1>3. CASE S = {}
  <2>1. PICK r \in LookRecord :
           /\ looking' = [looking EXCEPT ![p] = r]
           /\ r.at = "returned"
           /\ r.workload = w /\ r.floor = looking[p].floor
           /\ r.seen = looking[p].seen /\ r.found = looking[p].found
    BY <1>1, <1>3, LookMove DEF Looks
  <2>2. r.floor = {}
    BY <1>2, <1>3, <2>1
  <2>3. LookFits(r)
    BY <1>0, <2>1, <2>2 DEF LookFits, NoneNewer
  <2>. QED
    BY <2>1, <2>3, LookedTo
<1>4. CASE S # {}
  <2> DEFINE n == Newest(S)
             ptr == [attempt |-> n, seq |-> manifests[n].seq]
             r == [looking[p] EXCEPT !.at = "found", !.seen = {}, !.found = ptr]
  <2>1. n \in S /\ \A b \in S : ~Newer(b, n)
    BY <1>1, <1>4, LookTypes, NewestOfFinite
  <2>2. n \in Completed(w) /\ n \in Attempts /\ manifests[n].seq \in Nat
    BY <2>1, LookTypes, Records DEF Manifest
  <2>3. ptr \in Pointers /\ ptr # NoPointer /\ ptr.attempt = n /\ ptr.seq = manifests[n].seq
    BY <2>2, StoreAssumption DEF Pointers, NoPointer
  <2>4. looking' = [looking EXCEPT ![p] = r]
    BY <1>1, <1>4
  <2> HIDE DEF n, ptr
  <2>5. /\ r \in LookRecord /\ r.at = "found"
        /\ r.workload = w /\ r.floor = looking[p].floor /\ r.found = ptr
    BY <1>0, <2>3 DEF LookRecord, Looks
  <2> HIDE DEF r
  <2>6. LookFits(r)
    BY <1>0, <1>2, <2>1, <2>2, <2>3, <2>5 DEF LookFits, NoneNewer, Names
  <2>. QED
    BY <2>4, <2>5, <2>6, LookedTo
<1>. QED
  BY <1>3, <1>4

LEMMA LookOnFits ==
  ASSUME PubTypeOK, NEW p \in Processes, LookFits(looking[p]), ReadAgain(p) \/ Repoint(p)
  PROVE  Looked(p)
<1>1. PICK at \in {"pointing", "returned"} : Look(p, at)
  BY DEF ReadAgain, Repoint
<1>2. at \in Looks /\ looking[p].at \in {"found", "pointing"}
  BY DEF Looks, ReadAgain, Repoint
<1>3. PICK r \in LookRecord :
           /\ looking' = [looking EXCEPT ![p] = r]
           /\ r.at = at
           /\ r.workload = looking[p].workload /\ r.floor = looking[p].floor
           /\ r.seen = looking[p].seen /\ r.found = looking[p].found
  BY <1>1, <1>2, LookMove
<1>4. LookFits(r)
  BY <1>1, <1>2, <1>3 DEF LookFits, NoneNewer
<1>. QED
  BY <1>3, <1>4, LookedTo

\* What a lookup may be, it may be after a step of anyone else.
LEMMA LookStays ==
  ASSUME PubTypeOK, PublishedStays, OrderOnlyEnds, NEW look \in LookRecord, LookFits(look)
  PROVE  LookFits(look)'
<1>1. CASE look.at = "idle"
  BY <1>1 DEF LookFits
<1>2. CASE look.at # "idle"
  <2>1. \A w : \A a \in Completed(w) : a \in Completed(w)' /\ manifests'[a] = manifests[a]
    BY CompletedStays
  <2>2. Names(look.found, look.workload)'
    BY <1>2, NamesStays DEF LookFits
  <2>3. NoneNewer(look) => NoneNewer(look)'
    <3> SUFFICES ASSUME NoneNewer(look), OneWriter', ~lost', NEW a \in look.floor
                 PROVE  ~Newer(a, look.found.attempt)'
      BY DEF NoneNewer
    <3>1. ~Newer(a, look.found.attempt)
      BY DEF NoneNewer, OrderOnlyEnds
    <3>2. manifests'[a] = manifests[a]
      BY <1>2, <2>1 DEF LookFits
    <3>3. manifests'[look.found.attempt] = manifests[look.found.attempt]
      BY <1>2, <2>1 DEF LookFits, Names, NoneNewer
    <3>. QED
      BY <3>1, <3>2, <3>3 DEF Newer
  <2>4. /\ look.floor \subseteq Completed(look.workload)'
        /\ look.seen \subseteq Completed(look.workload)
           => look.seen \subseteq Completed(look.workload)'
    BY <1>2, <2>1 DEF LookFits
  <2>. QED
    BY <1>2, <2>2, <2>3, <2>4 DEF LookFits
<1>. QED
  BY <1>1, <1>2

----------------------------------------------------------------------------
(* The inductive invariant.                                                *)

LEMMA PointersAndLooksStep ==
  ASSUME PubInv, [Next]_vars
  PROVE  /\ PointersFit' /\ pointer' \in [Workloads -> Pointers]
         /\ looking' \in [Processes -> LookRecord]
         /\ \A p \in Processes : LookFits(looking[p])'
<1>1. /\ PubTypeOK /\ PublicationsFit /\ PointersFit
      /\ \A p \in Processes : LookFits(looking[p])
      /\ PublishedStays /\ OrderOnlyEnds
      /\ looking \in [Processes -> LookRecord] /\ pointer \in [Workloads -> Pointers]
  BY PublicationsStep, LookTypes DEF PubInv
<1>2. ASSUME NEW p \in Processes, looking'[p] \in LookRecord, LookFits(looking'[p])
      PROVE  LookFits(looking[p])'
  <2>1. PICK look \in LookRecord : look = looking'[p] /\ LookFits(look)
    BY <1>2
  <2>2. LookFits(look)'
    BY <1>1, <2>1, LookStays
  <2>. QED
    BY <2>1, <2>2 DEF LookFits, NoneNewer, Names
<1>3. ASSUME UNCHANGED looking
      PROVE  /\ looking' \in [Processes -> LookRecord]
             /\ \A p \in Processes : LookFits(looking[p])'
  BY <1>1, <1>2, <1>3
<1>4. ASSUME UNCHANGED pointer
      PROVE  PointersFit' /\ pointer' \in [Workloads -> Pointers]
  BY <1>1, <1>4, SamePointers
<1>5. ASSUME NEW a \in Attempts, Publish(a)
      PROVE  /\ PointersFit' /\ pointer' \in [Workloads -> Pointers]
             /\ UNCHANGED looking
  <2>1. CASE MovePointer(a)
    <3>1. /\ pub[a].at = "pointing" /\ WritePointer(pub[a].workload, a, pub[a].seq)
          /\ UNCHANGED looking
      BY <2>1 DEF MovePointer
    <3>2. /\ pub[a].workload \in Workloads /\ pub[a].seq \in Nat /\ pub[a].state = "completed"
          /\ a \in Published /\ manifests[a] = ManifestOf(a)
      BY <1>1, <3>1 DEF PublicationsFit, PubFits, Begun
    <3>3. PICK w \in Workloads, n \in Nat : w = pub[a].workload /\ n = pub[a].seq
      BY <3>2
    <3>4. a \in Completed(w) /\ manifests[a].seq = n
      BY <3>2, <3>3 DEF Completed, ManifestOf
    <3>. QED
      BY <1>1, <3>1, <3>3, <3>4, WritePointerNames
  <2>2. CASE ~MovePointer(a)
    BY <1>4, <1>5, <2>2 DEF Publish, ReadSequence, WriteSequence, Commit, Refuse, ReadPointer
  <2>. QED
    BY <2>1, <2>2
<1>6. ASSUME NEW p \in Readers, Lookup(p)
      PROVE  /\ PointersFit' /\ pointer' \in [Workloads -> Pointers]
             /\ Looked(p)
  <2>0. p \in Processes
    BY StoreAssumption
  <2>1. Looked(p)
    BY <1>1, <1>6, <2>0, LookAtPointerFits, CheckPointerFits, ScanFits, LookOnFits DEF Lookup
  <2>2. CASE Repoint(p)
    <3>1. /\ looking[p].at = "pointing"
          /\ WritePointer(looking[p].workload, looking[p].found.attempt, looking[p].found.seq)
      BY <2>2 DEF Repoint
    <3>2. /\ looking[p].workload \in Workloads /\ looking[p].found # NoPointer
          /\ looking[p].found.attempt \in Completed(looking[p].workload)
          /\ manifests[looking[p].found.attempt].seq = looking[p].found.seq
      BY <1>1, <2>0, <3>1 DEF LookFits, Names
    <3>3. looking[p].found.attempt \in Attempts /\ looking[p].found.seq \in Nat
      BY <1>1, <2>0, <3>2 DEF LookRecord, Pointers
    <3>4. PICK w \in Workloads, a \in Attempts, n \in Nat :
            w = looking[p].workload /\ a = looking[p].found.attempt /\ n = looking[p].found.seq
      BY <3>2, <3>3
    <3>. QED
      BY <1>1, <2>1, <3>1, <3>2, <3>4, WritePointerNames
  <2>3. CASE ~Repoint(p)
    BY <1>4, <1>6, <2>1, <2>3 DEF Lookup, LookAtPointer, CheckPointer, Scan, ReadAgain
  <2>. QED
    BY <2>2, <2>3
<1>7. ASSUME NEW p \in Processes, Crash(p)
      PROVE  Looked(p) /\ UNCHANGED pointer
  <2>1. NoLookup \in LookRecord /\ LookFits(NoLookup)
    BY DEF NoLookup, LookRecord, Looks, Pointers, LookFits
  <2>. QED
    BY <1>1, <1>7, <2>1, LookedTo DEF Crash
<1>8. ASSUME NEW p \in Processes, Looked(p)
      PROVE  /\ looking' \in [Processes -> LookRecord]
             /\ \A q \in Processes : LookFits(looking[q])'
  BY <1>1, <1>2, <1>8 DEF Looked
<1>9. CASE UNCHANGED vars
  BY <1>3, <1>4, <1>9 DEF vars
<1>10. CASE \E a \in Attempts : Publish(a)
  BY <1>3, <1>5, <1>10
<1>11. CASE \E p \in Readers : Lookup(p)
  BY <1>6, <1>8, <1>11, StoreAssumption
<1>12. CASE \E p \in Processes : Crash(p)
  BY <1>4, <1>7, <1>8, <1>12
<1>. QED
  BY <1>9, <1>10, <1>11, <1>12 DEF Next

\* The rest of the type invariant.
StoreTypes == /\ manifests \in [Attempts -> Manifest \cup {NoManifest}]
              /\ sequence \in Nat \cup {-1}
              /\ issued \in [Processes -> Nat \cup {-1}]
              /\ recovered \in [Processes -> BOOLEAN]
              /\ pub \in [Attempts -> PubRecord]
              /\ lost \in BOOLEAN

LEMMA StoreTypesStep ==
  ASSUME PubInv, [Next]_vars
  PROVE  StoreTypes'
<1>1. PubTypeOK /\ PublicationsFit /\ StoreTypes
  BY DEF PubInv, PubTypeOK, StoreTypes, Manifest, PubRecord
<1>2. ASSUME UNCHANGED <<manifests, sequence, issued, recovered, pub, lost>>
      PROVE  StoreTypes'
  BY <1>1, <1>2 DEF StoreTypes
<1>3. ASSUME NEW a \in Attempts, Publish(a)
      PROVE  StoreTypes'
  <2>1. CASE \E p \in Processes, w \in Workloads, s \in States : ReadSequence(a, p, w, s)
    <3>1. PICK p \in Processes, w \in Workloads, s \in States : ReadSequence(a, p, w, s)
      BY <2>1
    <3>2. /\ pub' \in [Attempts -> PubRecord] /\ issued' \in [Processes -> Nat \cup {-1}]
          /\ recovered' \in [Processes -> BOOLEAN]
      BY <1>1, <3>1, ReadSequenceEffect
    <3>3. UNCHANGED <<manifests, sequence, lost>>
      BY <3>1 DEF ReadSequence
    <3>. QED
      BY <1>1, <3>2, <3>3 DEF StoreTypes
  <2>2. CASE WriteSequence(a)
    <3>1. pub[a].seq \in Nat
      BY <1>1, <2>2 DEF WriteSequence, PublicationsFit, PubFits, Begun
    <3>2. sequence' \in Nat \cup {-1} /\ lost' \in BOOLEAN
      BY <1>1, <2>2, <3>1 DEF WriteSequence, StoreTypes
    <3>3. pub' \in [Attempts -> PubRecord]
      BY <1>1, <2>2, MoveEffect DEF WriteSequence, Stages
    <3>. QED
      BY <1>1, <2>2, <3>2, <3>3 DEF WriteSequence, StoreTypes
  <2>3. CASE Commit(a)
    <3>1. pub' \in [Attempts -> PubRecord]
      BY <1>1, <2>3, MoveEffect DEF Commit, Stages
    <3>2. manifests' \in [Attempts -> Manifest \cup {NoManifest}]
      BY <1>1, <2>3, CommitFits DEF Commit, StoreTypes
    <3>. QED
      BY <1>1, <2>3, <3>1, <3>2 DEF Commit, StoreTypes
  <2>4. CASE Refuse(a) \/ ReadPointer(a) \/ MovePointer(a)
    BY <1>1, <2>4, PlainMoves DEF StoreTypes
  <2>. QED
    BY <1>3, <2>1, <2>2, <2>3, <2>4 DEF Publish
<1>4. ASSUME NEW p \in Readers, Lookup(p)
      PROVE  StoreTypes'
  BY <1>2, <1>4, LookupIsLookStep DEF LookStep
<1>5. ASSUME NEW p \in Processes, Crash(p)
      PROVE  StoreTypes'
  BY <1>1, <1>5, CrashEffect DEF Crash, StoreTypes
<1>. QED
  BY <1>2, <1>3, <1>4, <1>5 DEF Next, vars

\* What may be spent on numbers.
Budget == Cardinality(Active) + faults

LEMMA ActiveIsFinite ==
  /\ IsFiniteSet(Active) /\ Cardinality(Active) \in Nat
  /\ Cardinality(Active) <= Cardinality(Attempts) /\ Cardinality(Attempts) \in Nat
BY FS_Subset, FS_CardinalityType, StoreAssumption DEF Active

\* How far a step may raise the numbers, and what it adds to the budget.
SpendsNothing ==
  /\ Budget' >= Budget /\ sequence' \in {sequence} \cup {pub[a].seq : a \in Attempts}
  /\ \A p \in Processes : issued'[p] \in {issued[p], -1}
  /\ \A a \in Attempts : pub'[a].seq = pub[a].seq

SpendsOne ==
  /\ Budget' = Budget + 1 /\ sequence' = sequence
  /\ \E p \in Processes :
       /\ \A q \in Processes : issued'[q] = issued[q] \/ issued'[q] = Highest(p) + 1
       /\ \A a \in Attempts : pub'[a].seq = pub[a].seq \/ pub'[a].seq = Highest(p) + 1

LEMMA SameStages ==
  ASSUME \A a \in Attempts : pub'[a].at \in {"new", "raised"} <=> pub[a].at \in {"new", "raised"}
  PROVE  Active' = Active
BY DEF Active

\* Each step leaves the faults as they were or adds one.
LEMMA FaultsStep ==
  ASSUME PubTypeOK, [Next]_vars
  PROVE  faults' \in 0 .. MaxFaults /\ faults' \in {faults, faults + 1}
<1>1. Fault \/ UNCHANGED faults
  BY DEF Next, vars, Publish, Lookup, ReadSequence, WriteSequence, Commit, Refuse, ReadPointer,
         MovePointer, WritePointer, LookAtPointer, CheckPointer, Scan, ReadAgain, Repoint, Crash
<1>2. faults \in 0 .. MaxFaults /\ MaxFaults \in Nat
  BY StoreAssumption DEF PubTypeOK
<1>. QED
  BY <1>1, <1>2 DEF Fault

LEMMA SpendingStep ==
  ASSUME PubInv, [Next]_vars
  PROVE  SpendsNothing \/ SpendsOne
<1>1. /\ PubTypeOK /\ PublicationsFit /\ faults \in Nat /\ faults' \in {faults, faults + 1}
  BY FaultsStep, StoreAssumption DEF PubInv, PubTypeOK
<1>2. /\ IsFiniteSet(Active) /\ Cardinality(Active) \in Nat
      /\ IsFiniteSet(Active') /\ Cardinality(Active') \in Nat
  <2>1. IsFiniteSet(Active) /\ Cardinality(Active) \in Nat
    BY ActiveIsFinite
  <2>2. IsFiniteSet(Active') /\ Cardinality(Active') \in Nat
    BY FS_Subset, FS_CardinalityType, StoreAssumption DEF Active
  <2>. QED
    BY <2>1, <2>2
<1>3. Active \subseteq Active' => Budget' >= Budget
  <2> SUFFICES ASSUME Active \subseteq Active' PROVE Budget' >= Budget
    OBVIOUS
  <2>1. Cardinality(Active) <= Cardinality(Active')
    BY <1>2, FS_Subset
  <2>. QED
    BY <1>1, <1>2, <2>1 DEF Budget
<1>4. ASSUME UNCHANGED <<sequence, issued, pub>>
      PROVE  SpendsNothing
  <2>1. Active' = Active
    BY <1>4, SameStages
  <2>. QED
    BY <1>3, <1>4, <2>1 DEF SpendsNothing
<1>5. ASSUME NEW a \in Attempts, Publish(a)
      PROVE  SpendsNothing \/ SpendsOne
  <2>1. CASE \E p \in Processes, w \in Workloads, s \in States : ReadSequence(a, p, w, s)
    <3>1. PICK p \in Processes, w \in Workloads, s \in States : ReadSequence(a, p, w, s)
      BY <2>1
    <3>2. /\ pub'[a].at = "numbering" /\ pub'[a].seq = Highest(p) + 1
          /\ \A b \in Attempts : b # a => pub'[b] = pub[b]
          /\ issued'[p] = Highest(p) + 1
          /\ \A q \in Processes : q # p => issued'[q] = issued[q]
      BY <1>1, <3>1, ReadSequenceEffect
    <3>3. pub[a].at \in {"new", "raised"} /\ UNCHANGED <<sequence, faults>>
      BY <3>1 DEF ReadSequence
    <3>4. Active' = Active \cup {a} /\ a \notin Active
      BY <3>2, <3>3 DEF Active
    <3>5. Cardinality(Active') = Cardinality(Active) + 1
      BY <1>2, <3>4, FS_AddElement
    <3>6. Budget' = Budget + 1
      BY <1>1, <1>2, <3>3, <3>5 DEF Budget
    <3>7. /\ \A q \in Processes : issued'[q] = issued[q] \/ issued'[q] = Highest(p) + 1
          /\ \A b \in Attempts : pub'[b].seq = pub[b].seq \/ pub'[b].seq = Highest(p) + 1
      BY <3>2
    <3>. QED
      BY <3>3, <3>6, <3>7 DEF SpendsOne
  <2>2. CASE WriteSequence(a) \/ Commit(a)
    <3>1. PICK stage \in {"numbered", "committed", "returned"} : Moved(a, stage)
      BY <1>1, <2>2, MoveEffect DEF WriteSequence, Commit, Stages
    <3>2. pub[a].at \in {"numbering", "numbered"} /\ UNCHANGED issued
          /\ sequence' \in {sequence, pub[a].seq}
      BY <2>2 DEF WriteSequence, Commit
    <3>3. Active' = Active
      BY <3>1, <3>2, SameStages DEF Moved
    <3>. QED
      BY <1>3, <3>1, <3>2, <3>3 DEF SpendsNothing, Moved, SameNumber
  <2>3. CASE Refuse(a)
    <3>1. /\ Moved(a, "raised") /\ pub[a].at = "numbered"
          /\ UNCHANGED <<issued, sequence>> /\ faults' = faults + 1
      BY <1>1, <2>3, MoveEffect DEF Refuse, Fault, Stages
    <3>2. Active' = Active \ {a} /\ a \in Active
      BY <3>1 DEF Active, Moved
    <3>3. Cardinality(Active') = Cardinality(Active) - 1
      BY <1>2, <3>2, FS_RemoveElement
    <3>4. Budget' = Budget
      BY <1>1, <1>2, <3>1, <3>3 DEF Budget
    <3>5. Budget \in Int
      BY <1>1, <1>2 DEF Budget
    <3>. QED
      BY <3>1, <3>4, <3>5 DEF SpendsNothing, Moved, SameNumber
  <2>4. CASE ReadPointer(a) \/ MovePointer(a)
    <3>1. PICK stage \in {"pointing", "returned"} : Moved(a, stage)
      BY <1>1, <2>4, MoveEffect DEF ReadPointer, MovePointer, Stages
    <3>2. pub[a].at \in {"committed", "pointing"} /\ UNCHANGED <<issued, sequence>>
      BY <2>4 DEF ReadPointer, MovePointer
    <3>3. Active' = Active
      BY <3>1, <3>2, SameStages DEF Moved
    <3>. QED
      BY <1>3, <3>1, <3>2, <3>3 DEF SpendsNothing, Moved, SameNumber
  <2>. QED
    BY <1>5, <2>1, <2>2, <2>3, <2>4 DEF Publish
<1>6. ASSUME NEW p \in Processes, Crash(p)
      PROVE  SpendsNothing
  <2>1. /\ \A a \in Attempts : SameNumber(a) /\ pub'[a].at \in {pub[a].at, "dead"}
        /\ \A q \in Processes : issued'[q] \in {issued[q], -1}
        /\ UNCHANGED sequence
    BY <1>1, <1>6, CrashEffect DEF Crash
  <2>2. Active \subseteq Active'
    BY <2>1 DEF Active
  <2>. QED
    BY <1>3, <2>1, <2>2 DEF SpendsNothing, SameNumber
<1>7. CASE \E p \in Readers : Lookup(p)
  BY <1>4, <1>7, LookupIsLookStep DEF LookStep
<1>. QED
  BY <1>4, <1>5, <1>6, <1>7 DEF Next, vars

LEMMA NumbersPaidStep ==
  ASSUME PubInv, [Next]_vars
  PROVE  NumbersPaid'
<1>1. /\ PubTypeOK /\ NumbersPaid /\ PublicationsFit
      /\ SpendsNothing \/ SpendsOne
  BY SpendingStep DEF PubInv
<1>2. Budget \in Nat /\ Budget' \in Nat
  <2>1. faults \in Nat /\ faults' \in Nat
    BY <1>1, FaultsStep, StoreAssumption DEF PubTypeOK
  <2>2. Cardinality(Active) \in Nat /\ Cardinality(Active') \in Nat
    BY FS_Subset, FS_CardinalityType, StoreAssumption DEF Active
  <2>. QED
    BY <2>1, <2>2 DEF Budget
<1>3. /\ sequence \in Int /\ sequence < Budget
      /\ \A p \in Processes : issued[p] \in Int /\ issued[p] < Budget
      /\ \A a \in Attempts : pub[a].seq \in Int /\ pub[a].seq < Budget
      /\ -1 < Budget
  BY <1>1, <1>2, Records DEF NumbersPaid, Paid, Budget, PubRecord
<1>4. CASE SpendsNothing
  <2>1. \A n \in Int : n < Budget => n < Budget'
    BY <1>2, <1>4 DEF SpendsNothing
  <2>. QED
    BY <1>3, <1>4, <2>1 DEF SpendsNothing, NumbersPaid, Paid, Budget
<1>5. CASE SpendsOne
  <2>1. PICK p \in Processes :
          /\ \A q \in Processes : issued'[q] = issued[q] \/ issued'[q] = Highest(p) + 1
          /\ \A a \in Attempts : pub'[a].seq = pub[a].seq \/ pub'[a].seq = Highest(p) + 1
    BY <1>5 DEF SpendsOne
  <2>2. Highest(p) \in Int /\ Highest(p) < Budget
    <3>1. \A a \in Published : a \in Attempts /\ manifests[a].seq = pub[a].seq
      <4>1. \A a \in Published : a \in Attempts /\ manifests[a] = ManifestOf(a)
        BY <1>1 DEF PublicationsFit, PubFits, Published
      <4>2. \A a : ManifestOf(a).seq = pub[a].seq
        BY DEF ManifestOf
      <4>. QED
        BY <4>1, <4>2
    <3>. QED
      BY <1>1, <1>3, <3>1, HighestCovers
  <2>3. \A n \in Int : n < Budget => n < Budget' /\ n + 1 < Budget'
    BY <1>2, <1>5 DEF SpendsOne
  <2>. QED
    BY <1>3, <1>5, <2>1, <2>2, <2>3 DEF SpendsOne, NumbersPaid, Paid, Budget
<1>. QED
  BY <1>1, <1>4, <1>5

LEMMA PubInvInit == Init => PubInv
<1> SUFFICES ASSUME Init PROVE PubInv
  OBVIOUS
<1>1. /\ \A a \in Attempts : pub[a] = Unpublished /\ manifests[a] = NoManifest
      /\ Published = {} /\ Active = {}
  BY DEF Init, Published, Active, Unpublished
<1>2. PubTypeOK
  <2>1. Unpublished \in PubRecord /\ NoLookup \in LookRecord /\ NoPointer \in Pointers
    BY DEF Unpublished, PubRecord, Stages, NoLookup, LookRecord, Looks, Pointers
  <2>2. faults \in 0 .. MaxFaults
    BY StoreAssumption DEF Init
  <2>. QED
    BY <2>1, <2>2 DEF Init, PubTypeOK, PubRecord, LookRecord
<1>3. PublicationsFit
  <2>1. \A a \in Attempts : pub[a].at = "new" /\ pub[a].by = None /\ ~Carries(a) /\ a \notin Published
    BY <1>1 DEF Unpublished, Carries
  <2>2. \A p \in Processes : p # None
    BY StoreAssumption
  <2>. QED
    BY <2>1, <2>2 DEF PublicationsFit, PubFits, IssuedFits, OneNumbering, DistinctOfOne,
                      SequenceCovers, Begun, Carries
<1>4. PointersFit /\ \A p \in Processes : LookFits(looking[p])
  BY DEF Init, PointersFit, Names, LookFits, NoLookup
<1>5. NumbersPaid
  <2>1. Cardinality(Active) + faults = 0
    BY <1>1, FS_EmptySet DEF Init
  <2>. QED
    BY <1>1, <2>1 DEF Init, Unpublished, NumbersPaid, Paid
<1>. QED
  BY <1>2, <1>3, <1>4, <1>5 DEF PubInv

LEMMA PubInvStep == PubInv /\ [Next]_vars => PubInv'
<1> SUFFICES ASSUME PubInv, [Next]_vars PROVE PubInv'
  OBVIOUS
<1>1. PublicationsFit' /\ NumbersPaid'
  BY PublicationsStep, NumbersPaidStep DEF PubInv
<1>2. /\ PointersFit' /\ pointer' \in [Workloads -> Pointers]
      /\ looking' \in [Processes -> LookRecord]
      /\ \A p \in Processes : LookFits(looking[p])'
  BY PointersAndLooksStep
<1>3. PubTypeOK'
  BY <1>2, StoreTypesStep, FaultsStep
     DEF PubInv, PubTypeOK, StoreTypes, Manifest, PubRecord, LookRecord
<1>. QED
  BY <1>1, <1>2, <1>3 DEF PubInv

----------------------------------------------------------------------------
(* The theorems.                                                           *)

\* The inductive invariant, over any number of processes, faults and deaths.
THEOREM PublicationInvariant == Spec => []PubInv
BY PubInvInit, PubInvStep, PTL DEF Spec

\* Every file, counter, publication and lookup keeps its type.
THEOREM StoreTypeCorrect == Spec => []PubTypeOK
<1>1. PubInv => PubTypeOK
  BY DEF PubInv
<1>. QED
  BY <1>1, PublicationInvariant, PTL

\* One process's manifests have different numbers, over its deaths, its lost
\* sequence writes and its failed and repeated publications (_next_sequence).
THEOREM NumbersDiffer == Spec => []NumbersAreDistinct
<1>1. PubInv => NumbersAreDistinct
  <2> SUFFICES ASSUME PubInv, OneWriter, NEW a \in Published, NEW b \in Published, a # b
               PROVE  manifests[a].seq # manifests[b].seq
    BY DEF NumbersAreDistinct
  <2>1. \A c \in Published : /\ c \in Attempts /\ manifests[c] = ManifestOf(c) /\ Carries(c)
                             /\ pub[c].by \in Processes
    BY DEF PubInv, PublicationsFit, PubFits, Published, Carries, Begun
  <2>2. pub[a].by = pub[b].by
    BY <2>1, StoreAssumption DEF OneWriter
  <2>3. pub[a].seq # pub[b].seq
    BY <2>1, <2>2 DEF PubInv, PublicationsFit, DistinctOfOne
  <2>4. \A c : ManifestOf(c).seq = pub[c].seq
    BY DEF ManifestOf
  <2>. QED
    BY <2>1, <2>3, <2>4
<1>. QED
  BY <1>1, PublicationInvariant, PTL

\* A pointer is never ahead of the commit of the result it names, whoever wrote
\* it and whatever died in between (publish, lookup).
THEOREM PointersArePublished == Spec => []PointerIsPublished
<1>1. PubInv => PointerIsPublished
  BY DEF PubInv, PointersFit, Names, PointerIsPublished
<1>. QED
  BY <1>1, PublicationInvariant, PTL

\* What a lookup of a process answers is no older than what was published when
\* it began, while that process alone publishes and no write of the sequence
\* file was lost (lookup's trust in a pointer that has the last number).
THEOREM LookupsAreNewest == Spec => []LookupIsNewest
<1>1. PubInv => LookupIsNewest
  BY DEF PubInv, LookFits, NoneNewer, LookupIsNewest, Answered
<1>. QED
  BY <1>1, PublicationInvariant, PTL

----------------------------------------------------------------------------
(* The store implements the register its callers are promised.             *)

LEMMA RegisterInit == Init => Register!Init
<1> SUFFICES ASSUME Init PROVE Register!Init
  OBVIOUS
<1>1. Published = {}
  BY DEF Init, Published
<1>2. Results = [w \in Workloads |-> {}]
  <2>1. \A w \in Workloads : {AsResult(a) : a \in Completed(w)} = {}
    BY <1>1 DEF Completed
  <2>. QED
    BY <2>1 DEF Results
<1>3. Asking = [p \in Processes |-> Register!NotAsking]
  <2>1. Asked(NoLookup) = Register!NotAsking
    BY DEF Asked, NoLookup, Register!NotAsking
  <2>2. \A p \in Processes : looking[p] = NoLookup
    BY DEF Init
  <2>. QED
    BY <2>1, <2>2 DEF Asking
<1>4. Orderly = TRUE
  BY DEF Init, Orderly, OneWriter, Unpublished
<1>. QED
  BY <1>2, <1>3, <1>4 DEF Register!Init

\* A step that only publications' business changes: nothing, or the order.
LEMMA SameManifests ==
  ASSUME UNCHANGED manifests
  PROVE  /\ Results' = Results
         /\ \A look : Asked(look)' = Asked(look)
         /\ \A w : Completed(w)' = Completed(w)
BY DEF Results, Asked, AsResult, Completed, Published

LEMMA RegisterIdles ==
  ASSUME UNCHANGED <<manifests, looking>>, Orderly' => Orderly
  PROVE  [Register!Next]_(Register!vars)
<1>1. Results' = Results
  BY SameManifests
<1>2. Asking' = Asking
  BY SameManifests DEF Asking
<1>3. CASE Orderly' = Orderly
  BY <1>1, <1>2, <1>3 DEF Register!vars
<1>4. CASE Orderly' # Orderly
  <2>1. Orderly' = FALSE
    BY <1>4 DEF Orderly
  <2>. QED
    BY <1>1, <1>2, <2>1 DEF Register!Next, Register!Disorder
<1>. QED
  BY <1>3, <1>4

\* What a lookup that goes on is to its caller.
LEMMA AskingOf ==
  ASSUME PubTypeOK, NEW p \in Processes, Looked(p), UNCHANGED manifests
  PROVE  /\ Asking' = [Asking EXCEPT ![p] = Asked(looking'[p])]
         /\ Asking[p] = Asked(looking[p])
<1>1. \A q \in Processes : Asking'[q] = Asked(looking'[q])
  BY SameManifests DEF Asking
<1>2. \A q \in Processes : q # p => looking'[q] = looking[q]
  BY DEF Looked
<1>. QED
  BY <1>1, <1>2 DEF Asking

\* What was published when a lookup began, and what it answered, stay as they are.
LEMMA AskedStays ==
  ASSUME PubTypeOK, PublishedStays, NEW look \in LookRecord, LookFits(look)
  PROVE  Asked(look)' = Asked(look)
<1>1. \A w : \A a \in Completed(w) : AsResult(a)' = AsResult(a)
  BY CompletedStays DEF AsResult
<1>2. {AsResult(a) : a \in look.floor}' = {AsResult(a) : a \in look.floor}
  BY <1>1 DEF LookFits
<1>3. look.at = "returned" /\ look.found # NoPointer
      => AsResult(look.found.attempt)' = AsResult(look.found.attempt)
  BY <1>1 DEF LookFits, Names
<1>. QED
  BY <1>2, <1>3 DEF Asked

LEMMA CommitImplements ==
  ASSUME PubInv, NEW a \in Attempts, Commit(a)
  PROVE  [Register!Next]_(Register!vars)
<1>1. /\ PubTypeOK /\ PublicationsFit
      /\ PublishedStays
      /\ manifests'[a] \in Manifest /\ a \notin Published
      /\ \A b \in Attempts : b # a => manifests'[b] = manifests[b]
      /\ UNCHANGED looking
  BY PublicationsStep, CommitFits DEF PubInv, Commit, Next, Publish
<1>2. PICK k \in Workloads, n \in Nat :
        /\ k = pub[a].workload /\ n = pub[a].seq
        /\ manifests'[a] = [workload |-> k, state |-> pub[a].state, seq |-> n]
        /\ pub[a].at = "numbered" /\ pub[a].by \in Processes
  BY <1>1 DEF Commit, PubTypeOK, PublicationsFit, PubFits, Begun
<1>3. Published' = Published \cup {a}
  BY <1>1, ManifestIsOne DEF Published
<1>4. Asking' = Asking
  <2>1. \A p \in Processes : looking[p] \in LookRecord /\ LookFits(looking[p])
    BY LookTypes DEF PubInv
  <2>2. \A p \in Processes : Asked(looking[p])' = Asked(looking[p])
    <3> SUFFICES ASSUME NEW p \in Processes PROVE Asked(looking[p])' = Asked(looking[p])
      OBVIOUS
    <3>1. PICK look \in LookRecord : look = looking[p] /\ LookFits(look)
      BY <2>1
    <3>2. Asked(look)' = Asked(look)
      BY <1>1, <3>1, AskedStays
    <3>. QED
      BY <1>1, <3>1, <3>2 DEF Asked
  <2>. QED
    BY <2>2 DEF Asking
<1>5. Orderly' = Orderly
  <2>1. \E stage \in Stages : Moved(a, stage)
    BY <1>1, MoveEffect DEF Commit, Stages
  <2>2. UNCHANGED lost
    BY DEF Commit
  <2>. QED
    BY <2>1, <2>2, SameWriters DEF Orderly
<1>6. \A w \in Workloads : \A b \in Completed(w) : AsResult(b)' = AsResult(b) /\ b # a
  BY <1>1 DEF AsResult, Completed, Published
<1>7. CASE pub[a].state # "completed"
  <2>1. \A w \in Workloads : Completed(w)' = Completed(w)
    BY <1>1, <1>2, <1>3, <1>7 DEF Completed, Published
  <2>2. Results' = Results
    BY <1>6, <2>1 DEF Results
  <2>. QED
    BY <1>4, <1>5, <2>2 DEF Register!vars
<1>8. CASE pub[a].state = "completed"
  <2>1. /\ Completed(k)' = Completed(k) \cup {a}
        /\ \A w \in Workloads : w # k => Completed(w)' = Completed(w)
    BY <1>1, <1>2, <1>3, <1>8 DEF Completed, Published
  <2>2. AsResult(a)' = <<n, a>>
    BY <1>2 DEF AsResult
  <2>3. \A w \in Workloads :
          {AsResult(b) : b \in Completed(w)}'
            = IF w = k THEN {AsResult(b) : b \in Completed(w)} \cup {<<n, a>>}
              ELSE {AsResult(b) : b \in Completed(w)}
    BY <1>6, <2>1, <2>2
  <2>4. Results' = [Results EXCEPT ![k] = @ \cup {<<n, a>>}]
    BY <1>2, <2>3 DEF Results
  <2>5. \A j \in Workloads : \A r \in Results[j] :
          \E b \in Attempts : b \in Published /\ r[1] = manifests[b].seq /\ r[2] = b
    BY DEF Results, AsResult, Completed, Published
  <2>6. \A j \in Workloads : \A r \in Results[j] : r[2] # a
    BY <1>1, <2>5
  <2>7. Orderly => \A j \in Workloads : \A r \in Results[j] : r[1] # n
    <3> SUFFICES ASSUME OneWriter, NEW b \in Published PROVE manifests[b].seq # n
      BY <2>5 DEF Orderly
    <3>1. b \in Attempts /\ manifests[b] = ManifestOf(b) /\ pub[b].by \in Processes
          /\ Carries(b) /\ Carries(a) /\ b # a
      BY <1>1, <1>2 DEF PublicationsFit, PubFits, Published, Carries, Begun
    <3>2. pub[b].by = pub[a].by
      BY <1>2, <3>1, StoreAssumption DEF OneWriter
    <3>3. pub[b].seq # pub[a].seq
      BY <1>1, <3>1, <3>2 DEF PublicationsFit, DistinctOfOne
    <3>4. ManifestOf(b).seq = pub[b].seq
      BY DEF ManifestOf
    <3>. QED
      BY <1>2, <3>1, <3>3, <3>4
  <2>8. Results' # Results
    <3>1. <<n, a>> \in Results'[k]
      BY <1>2, <2>4, ZenonT(40) DEF Results
    <3>2. <<n, a>> \notin Results[k]
      BY <1>2, <2>6
    <3>. QED
      BY <3>1, <3>2
  <2>9. n \in 0 .. Cardinality(Attempts) + MaxFaults
    <3>1. n < Cardinality(Active) + faults
      BY <1>2 DEF PubInv, NumbersPaid, Paid
    <3>2. faults \in Nat /\ faults <= MaxFaults /\ MaxFaults \in Nat
      BY <1>1, StoreAssumption DEF PubTypeOK
    <3>. QED
      BY <1>2, <3>1, <3>2, ActiveIsFinite
  <2>10. Register!Publish(k, a)
    BY <1>2, <1>4, <1>5, <2>4, <2>6, <2>7, <2>8, <2>9 DEF Register!Publish
  <2>. QED
    BY <1>2, <2>10 DEF Register!Next
<1>. QED
  BY <1>7, <1>8

LEMMA AskImplements ==
  ASSUME PubInv, NEW p \in Processes, NEW w \in Workloads, LookAtPointer(p, w)
  PROVE  Register!Ask(p, w)
<1>1. /\ PubTypeOK /\ UNCHANGED <<manifests, pub, lost>>
      /\ Looked(p)
  BY LookAtPointerFits DEF PubInv, LookAtPointer
<1>2. looking'[p] = [at |-> "pointed", workload |-> w, seen |-> {},
                     floor |-> Completed(w), found |-> pointer[w]]
  BY <1>1, LookTypes DEF LookAtPointer
<1>3. Asked(looking'[p]) = [at |-> "asked", key |-> w, floor |-> Results[w], answer |-> None]
  BY <1>2 DEF Asked, Results
<1>4. Results' = Results /\ Orderly' = Orderly
  BY <1>1, SameManifests DEF Orderly, OneWriter
<1>5. Asking' = [Asking EXCEPT ![p] = Asked(looking'[p])]
  BY <1>1, AskingOf
<1>. QED
  BY <1>3, <1>4, <1>5 DEF Register!Ask

LEMMA AnsweredRecord ==
  ASSUME NEW K, NEW F, NEW A,
         NEW q \in [at : {"asked", "answered"}, key : K, floor : F, answer : A],
         NEW s \in [at : {"asked", "answered"}, key : K, floor : F, answer : A],
         s.at = "answered", s.key = q.key, s.floor = q.floor
  PROVE  s = [q EXCEPT !.at = "answered", !.answer = s.answer]
<1> DEFINE e == [q EXCEPT !.at = "answered", !.answer = s.answer]
<1>1. e \in [at : {"asked", "answered"}, key : K, floor : F, answer : A]
  OBVIOUS
<1>2. e.at = s.at /\ e.key = s.key /\ e.floor = s.floor /\ e.answer = s.answer
  OBVIOUS
<1> HIDE DEF e
<1>3. s = e
  BY <1>1, <1>2
<1>. QED
  BY <1>3 DEF e

\* A lookup that returns answers a result no older than any of its floor, or
\* that there is none when there was none.
LEMMA AnswerImplements ==
  ASSUME PubInv, NEW p \in Processes, Looked(p),
         UNCHANGED <<manifests, pub, lost>>,
         looking[p].at \in {"pointed", "scanning", "found", "pointing"},
         looking'[p].at = "returned",
         looking'[p].workload = looking[p].workload, looking'[p].floor = looking[p].floor
  PROVE  Register!Answer(p)
<1> DEFINE old == looking[p]
           new == looking'[p]
           r   == Asked(new).answer
<1>1. PubTypeOK /\ old \in LookRecord /\ new \in LookRecord /\ LookFits(new)
  BY LookTypes DEF PubInv, Looked
<1>2. Asking' = [Asking EXCEPT ![p] = Asked(new)] /\ Asking[p] = Asked(old)
  BY <1>1, AskingOf
<1>3. Results' = Results /\ Orderly' = Orderly
  BY SameManifests DEF Orderly, OneWriter
<1>4. /\ Asked(old).at = "asked" /\ Asked(old).key = new.workload
      /\ Asked(old).floor = {AsResult(a) : a \in new.floor}
      /\ Asked(new) = [Asked(old) EXCEPT !.at = "answered", !.answer = r]
  <2>1. /\ Asked(old).at = "asked" /\ Asked(old).key = new.workload
        /\ Asked(old).floor = {AsResult(a) : a \in new.floor}
    BY DEF Asked
  <2>2. Asked(new) = [at |-> "answered", key |-> new.workload,
                      floor |-> {AsResult(a) : a \in new.floor}, answer |-> r]
    BY DEF Asked
  <2>3. PICK K, F, A : /\ Asked(old) \in [at : {"asked", "answered"}, key : K, floor : F, answer : A]
                       /\ Asked(new) \in [at : {"asked", "answered"}, key : K, floor : F, answer : A]
    <3> DEFINE R == [at     : {"asked", "answered"}, key : {new.workload},
                     floor  : {{AsResult(a) : a \in new.floor}},
                     answer : {Asked(old).answer, r}]
    <3>1. Asked(old) \in R /\ Asked(new) \in R
      BY <2>1, <2>2 DEF Asked
    <3>. QED
      BY <3>1
  <2>4. Asked(new).at = "answered" /\ Asked(new).key = Asked(old).key
        /\ Asked(new).floor = Asked(old).floor
    BY <2>1, <2>2
  <2>. QED
    BY <2>1, <2>3, <2>4, AnsweredRecord
<1>5. new.workload \in Workloads /\ new.floor \subseteq Completed(new.workload) /\ NoneNewer(new)
      /\ Names(new.found, new.workload)
  BY <1>1 DEF LookFits
<1>6. CASE new.found = NoPointer
  <2>1. r = None /\ Asked(old).floor = {}
    BY <1>4, <1>5, <1>6 DEF Asked, NoneNewer
  <2>2. Register!MayAnswer(Asked(old), r)
    BY <2>1 DEF Register!MayAnswer
  <2>. QED
    BY <1>2, <1>3, <1>4, <2>1, <2>2, ZenonT(40) DEF Register!Answer
<1>7. CASE new.found # NoPointer
  <2> DEFINE f == new.found.attempt
  <2>1. f \in Completed(new.workload) /\ r = AsResult(f)
    BY <1>5, <1>7 DEF Names, Asked
  <2>2. r \in Results[new.workload]
    BY <1>5, <2>1 DEF Results
  <2>3. Orderly => \A a \in new.floor : ~Newer(a, f)
    BY <1>5 DEF NoneNewer, Orderly
  <2>4. Orderly => \A s \in Asked(old).floor : ~Register!Older(r, s)
    <3> SUFFICES ASSUME Orderly, NEW a \in new.floor PROVE ~Register!Older(r, AsResult(a))
      BY <1>4
    <3>1. ~Newer(a, f)
      BY <2>3
    <3>2. manifests[a].seq \in Nat /\ manifests[f].seq \in Nat /\ a \in Nat /\ f \in Nat
      <4>1. a \in Published /\ f \in Published /\ a \in Attempts /\ f \in Attempts
        BY <1>1, <1>5, <2>1, LookTypes
      <4>. QED
        BY <1>1, <4>1, Records, StoreAssumption DEF Manifest
    <3> HIDE DEF f
    <3>. QED
      BY <2>1, <3>1, <3>2 DEF Register!Older, Newer, AsResult
  <2>5. Register!MayAnswer(Asked(old), r)
    BY <1>4, <2>2, <2>4 DEF Register!MayAnswer
  <2>. QED
    BY <1>2, <1>3, <1>4, <2>2, <2>5, ZenonT(40) DEF Register!Answer
<1>. QED
  BY <1>6, <1>7

\* A lookup that has not returned is asked, whatever it holds.
LEMMA StillAsked ==
  ASSUME PubInv, NEW p \in Processes, Looked(p),
         UNCHANGED <<manifests, pub, lost>>,
         looking[p].at \in {"pointed", "scanning", "found", "pointing"},
         looking'[p].at \in {"pointed", "scanning", "found", "pointing"},
         looking'[p].workload = looking[p].workload, looking'[p].floor = looking[p].floor
  PROVE  UNCHANGED Register!vars
<1>1. PubTypeOK
  BY DEF PubInv
<1>2. Asking' = [Asking EXCEPT ![p] = Asked(looking'[p])] /\ Asking[p] = Asked(looking[p])
  BY <1>1, AskingOf
<1>3. Results' = Results /\ Orderly' = Orderly
  BY SameManifests DEF Orderly, OneWriter
<1>4. Asked(looking'[p]) = Asked(looking[p])
  BY DEF Asked
<1>5. Asking' = Asking
  BY <1>2, <1>4 DEF Asking
<1>. QED
  BY <1>3, <1>5 DEF Register!vars

\* What a lookup keeps while it goes on.
LEMMA LookOn ==
  ASSUME PubTypeOK, NEW p \in Processes,
         CheckPointer(p) \/ Scan(p) \/ ReadAgain(p) \/ Repoint(p)
  PROVE  /\ looking[p].at \in {"pointed", "scanning", "found", "pointing"}
         /\ looking'[p].at \in {"scanning", "found", "pointing", "returned"}
         /\ looking'[p].workload = looking[p].workload /\ looking'[p].floor = looking[p].floor
<1>1. looking \in [Processes -> LookRecord] /\ looking[p] \in LookRecord
  BY LookTypes
<1>2. ASSUME NEW at \in {"scanning", "found", "pointing", "returned"}, NEW seen, NEW found,
             \/ looking' = [looking EXCEPT ![p].at = at, ![p].seen = seen, ![p].found = found]
             \/ looking' = [looking EXCEPT ![p].at = at]
      PROVE  /\ looking'[p].at = at
             /\ looking'[p].workload = looking[p].workload
             /\ looking'[p].floor = looking[p].floor
  BY <1>1, <1>2 DEF LookRecord
<1>3. CASE CheckPointer(p)
  BY <1>2, <1>3 DEF CheckPointer, Look
<1>4. CASE Scan(p)
  BY <1>2, <1>4 DEF Scan, Look
<1>5. CASE ReadAgain(p) \/ Repoint(p)
  <2>1. PICK at \in {"pointing", "returned"} : looking' = [looking EXCEPT ![p].at = at]
    BY <1>5 DEF ReadAgain, Repoint, Look
  <2>. QED
    BY <1>2, <1>5, <2>1 DEF ReadAgain, Repoint
<1>. QED
  BY <1>3, <1>4, <1>5

LEMMA GiveUpImplements ==
  ASSUME PubInv, NEW p \in Processes, Crash(p)
  PROVE  Register!GiveUp(p)
<1>1. PubTypeOK /\ PublicationsFit /\ UNCHANGED <<manifests, lost>> /\ looking \in [Processes -> LookRecord]
  BY LookTypes DEF PubInv, Crash
<1>2. OneWriter' = OneWriter
  BY <1>1, CrashFits
<1>3. Results' = Results /\ Orderly' = Orderly
  BY <1>1, <1>2, SameManifests DEF Orderly
<1>4. looking' = [looking EXCEPT ![p] = NoLookup]
  BY DEF Crash
<1>5. Asked(NoLookup) = Register!NotAsking
  BY DEF Asked, NoLookup, Register!NotAsking
<1>6. Asking' = [Asking EXCEPT ![p] = Register!NotAsking]
  <2>1. \A q \in Processes : Asking'[q] = Asked(looking'[q])
    BY <1>1, SameManifests DEF Asking
  <2>2. looking'[p] = NoLookup /\ \A q \in Processes : q # p => looking'[q] = looking[q]
    BY <1>1, <1>4
  <2>. QED
    BY <1>5, <2>1, <2>2 DEF Asking
<1>. QED
  BY <1>3, <1>6 DEF Register!GiveUp

LEMMA RegisterStep == PubInv /\ [Next]_vars => [Register!Next]_(Register!vars)
<1> SUFFICES ASSUME PubInv, [Next]_vars PROVE [Register!Next]_(Register!vars)
  OBVIOUS
<1>1. /\ PubTypeOK /\ PublicationsFit /\ PointersFit /\ (Orderly' => Orderly)
      /\ \A p \in Processes : LookFits(looking[p])
  BY PublicationsStep DEF PubInv, OrderOnlyEnds, Orderly
<1>2. CASE UNCHANGED vars
  BY <1>1, <1>2, RegisterIdles DEF vars
<1>3. ASSUME NEW a \in Attempts, Publish(a) PROVE [Register!Next]_(Register!vars)
  <2>1. CASE Commit(a)
    BY <2>1, CommitImplements
  <2>2. CASE ~Commit(a)
    BY <1>1, <1>3, <2>2, RegisterIdles
       DEF Publish, ReadSequence, WriteSequence, Refuse, ReadPointer, MovePointer
  <2>. QED
    BY <2>1, <2>2
<1>4. ASSUME NEW p \in Processes, Lookup(p) PROVE [Register!Next]_(Register!vars)
  <2>1. CASE \E w \in Workloads : LookAtPointer(p, w)
    BY <2>1, AskImplements DEF Register!Next
  <2>2. CASE CheckPointer(p) \/ Scan(p) \/ ReadAgain(p) \/ Repoint(p)
    <3>1. Looked(p)
      BY <1>1, <2>2, CheckPointerFits, ScanFits, LookOnFits
    <3>2. UNCHANGED <<manifests, pub, lost>>
      BY <2>2 DEF CheckPointer, Scan, ReadAgain, Repoint
    <3>3. /\ looking[p].at \in {"pointed", "scanning", "found", "pointing"}
          /\ looking'[p].at \in {"scanning", "found", "pointing", "returned"}
          /\ looking'[p].workload = looking[p].workload /\ looking'[p].floor = looking[p].floor
      BY <1>1, <2>2, LookOn
    <3>4. CASE looking'[p].at = "returned"
      BY <3>1, <3>2, <3>3, <3>4, AnswerImplements DEF Register!Next
    <3>5. CASE looking'[p].at # "returned"
      BY <3>1, <3>2, <3>3, <3>5, StillAsked
    <3>. QED
      BY <3>4, <3>5
  <2>. QED
    BY <1>4, <2>1, <2>2 DEF Lookup
<1>5. ASSUME NEW p \in Processes, Crash(p) PROVE [Register!Next]_(Register!vars)
  BY <1>5, GiveUpImplements DEF Register!Next
<1>. QED
  BY <1>2, <1>3, <1>4, <1>5, StoreAssumption DEF Next

\* Whatever fails or dies, the store is the register its callers are promised:
\* a result once published stays, one asked for later is answered, and one
\* process's results are answered in order (publish, lookup).
THEOREM StoreImplementsRegister == Spec => ImplementsRegister
<1>1. PubInv /\ [Next]_vars => [Register!Next]_(Register!vars)
  BY RegisterStep
<1>. QED
  BY <1>1, RegisterInit, PublicationInvariant, PTL DEF Spec, Register!Spec, ImplementsRegister
=============================================================================
