---------------------------- MODULE Publication -----------------------------
(***************************************************************************)
(* The TraderX result store (src/engine/traderx/publication.py): files     *)
(* shared by the processes that serve the routes.  A result is published   *)
(* by numbering it, staging its manifest, renaming it into place and       *)
(* moving the workload's pointer; a lookup trusts the pointer or scans the *)
(* manifests.  Each step here is one access to the files; publications and *)
(* lookups interleave, a file operation may fail and a process may die     *)
(* between any two of them.                                                *)
(*                                                                         *)
(* Files are replaced atomically (_write_atomically: staged, fsynced and   *)
(* renamed), so that a write happens or does not; reads are taken to       *)
(* succeed.  Bindings of submission ids are another part of the store.     *)
(***************************************************************************)
EXTENDS Integers, FiniteSets, FiniteSetsExt

CONSTANTS
  None,
  Workloads,   \* workload keys
  Attempts,    \* attempt ids: numbers, for their order breaks ties
  Processes,   \* the processes sharing the store
  Readers,     \* bound: those of them that look results up
  MaxFaults    \* bound: failed file operations and deaths of a process

ASSUME StoreAssumption == /\ Attempts \subseteq Nat
                          /\ IsFiniteSet(Attempts)
                          /\ Readers \subseteq Processes
                          /\ MaxFaults \in Nat
                          /\ None \notin Workloads \cup Processes \cup Attempts

VARIABLES
  manifests,   \* attempts/: each attempt's manifest, or NoManifest
  sequence,    \* the file sequence, -1 when there is none
  pointer,     \* pointers/: each workload's pointer, or NoPointer
  issued,      \* each process: _issued_sequence
  recovered,   \* each process: _sequence_recovered
  pub,         \* each attempt: how far its publication is
  looking,     \* each process: the lookup under its _lock
  lost,        \* whether a write of the sequence file was ever lost
  faults       \* faults so far

vars == <<manifests, sequence, pointer, issued, recovered, pub, looking, lost, faults>>

States     == {"completed", "failed"}
NoManifest == [workload |-> None, state |-> None, seq |-> -1]
NoPointer  == [attempt |-> None, seq |-> -1]
NoLookup   == [at |-> "idle", workload |-> None, floor |-> {}, seen |-> {}, found |-> NoPointer]
Unpublished == [at |-> "new", by |-> None, workload |-> None, state |-> None, seq |-> -1]

\* A publication: not begun; in _next_sequence, under the sequence lock, the
\* file not yet written; numbered; committed, the pointer not yet read; about to
\* write it; returned; raised; or dead with its process.
Stages == {"new", "numbering", "numbered", "committed", "pointing",
           "returned", "raised", "dead"}
\* A lookup: none; the pointer read; scanning; about to read the pointer again
\* to advance it; about to write it; returned.
Looks  == {"idle", "pointed", "scanning", "found", "pointing", "returned"}

Pointers == [attempt : Attempts, seq : Nat] \cup {NoPointer}

PubTypeOK ==
  /\ manifests \in [Attempts -> [workload : Workloads, state : States, seq : Nat]
                                \cup {NoManifest}]
  /\ sequence \in Nat \cup {-1}
  /\ pointer \in [Workloads -> Pointers]
  /\ issued \in [Processes -> Nat \cup {-1}]
  /\ recovered \in [Processes -> BOOLEAN]
  /\ pub \in [Attempts -> [at : Stages, by : Processes \cup {None},
                           workload : Workloads \cup {None},
                           state : States \cup {None}, seq : Nat \cup {-1}]]
  /\ looking \in [Processes -> [at : Looks, workload : Workloads \cup {None},
                                floor : SUBSET Attempts, seen : SUBSET Attempts,
                                found : Pointers]]
  /\ lost \in BOOLEAN
  /\ faults \in 0 .. MaxFaults

Init == /\ manifests = [a \in Attempts |-> NoManifest]
        /\ sequence = -1
        /\ pointer = [w \in Workloads |-> NoPointer]
        /\ issued = [p \in Processes |-> -1]
        /\ recovered = [p \in Processes |-> FALSE]
        /\ pub = [a \in Attempts |-> Unpublished]
        /\ looking = [p \in Processes |-> NoLookup]
        /\ lost = FALSE
        /\ faults = 0

Published == {a \in Attempts : manifests[a] # NoManifest}

\* The completed results of a workload, and the newest of a set of attempts:
\* the highest number, ties to the larger attempt id.
Completed(w) == {a \in Published : manifests[a].workload = w /\ manifests[a].state = "completed"}

Newer(a, b) == \/ manifests[a].seq > manifests[b].seq
               \/ manifests[a].seq = manifests[b].seq /\ a > b

Newest(S) == CHOOSE a \in S : \A b \in S \ {a} : Newer(a, b)

Fault == faults < MaxFaults /\ faults' = faults + 1

----------------------------------------------------------------------------
(* Publishing an attempt.                                                  *)

\* Mutant: a number is not taken from the manifests of an earlier process.
Highest_NoScan(p) == Max({sequence, issued[p]})

\* The highest number that process p knows of: the file's, the last it issued
\* and, once per process, the manifests'.
Highest(p) ==
  Max({sequence, issued[p]} \cup
      (IF recovered[p] THEN {} ELSE {manifests[a].seq : a \in Published}))

\* An attempt is numbered by one thread of its process at a time.  One whose
\* publication raised may be published again, by the same process.
ReadSequence(a, p, w, s) ==
  /\ \/ pub[a].at = "new"
     \/ pub[a].at = "raised" /\ pub[a].by = p /\ pub[a].workload = w
  /\ \A b \in Attempts : ~(pub[b].at = "numbering" /\ pub[b].by = p)
  /\ issued' = [issued EXCEPT ![p] = Highest(p) + 1]
  /\ recovered' = [recovered EXCEPT ![p] = TRUE]
  /\ pub' = [pub EXCEPT ![a] = [at |-> "numbering", by |-> p, workload |-> w,
                                state |-> s, seq |-> Highest(p) + 1]]
  /\ UNCHANGED <<manifests, sequence, pointer, looking, lost, faults>>

Go(a, stage) == pub' = [pub EXCEPT ![a].at = stage]

\* The write of the sequence file, whose failure is swallowed.
WriteSequence(a) ==
  /\ pub[a].at = "numbering"
  /\ Go(a, "numbered")
  /\ \/ sequence' = pub[a].seq /\ UNCHANGED <<lost, faults>>
     \/ Fault /\ lost' = TRUE /\ UNCHANGED sequence
  /\ UNCHANGED <<manifests, pointer, issued, recovered, looking>>

\* Mutant: the pointer follows every attempt, failed ones too.
Commit_AnyState(a) ==
  /\ pub[a].at = "numbered"
  /\ manifests' = [manifests EXCEPT ![a] = [workload |-> pub[a].workload,
                                            state |-> pub[a].state, seq |-> pub[a].seq]]
  /\ Go(a, "committed")
  /\ UNCHANGED <<sequence, pointer, issued, recovered, looking, lost, faults>>

\* The manifest, staged and verified, is renamed into place: the commit point.
\* A failed attempt has no pointer to move.
Commit(a) ==
  /\ pub[a].at = "numbered"
  /\ manifests' = [manifests EXCEPT ![a] = [workload |-> pub[a].workload,
                                            state |-> pub[a].state, seq |-> pub[a].seq]]
  /\ Go(a, IF pub[a].state = "completed" THEN "committed" ELSE "returned")
  /\ UNCHANGED <<sequence, pointer, issued, recovered, looking, lost, faults>>

\* Staging, verifying or renaming fails: publish raises, nothing is published.
Refuse(a) ==
  /\ pub[a].at = "numbered"
  /\ Fault
  /\ Go(a, "raised")
  /\ UNCHANGED <<manifests, sequence, pointer, issued, recovered, looking, lost>>

\* _advance_pointer: nothing to do if the pointer is further than number n.
Ahead(w, n) == pointer[w].seq > n

\* ... and its write, whose failure is swallowed.
WritePointer(w, a, n) ==
  \/ pointer' = [pointer EXCEPT ![w] = [attempt |-> a, seq |-> n]] /\ UNCHANGED faults
  \/ Fault /\ UNCHANGED pointer

ReadPointer(a) ==
  /\ pub[a].at = "committed"
  /\ Go(a, IF Ahead(pub[a].workload, pub[a].seq) THEN "returned" ELSE "pointing")
  /\ UNCHANGED <<manifests, sequence, pointer, issued, recovered, looking, lost, faults>>

MovePointer(a) ==
  /\ pub[a].at = "pointing"
  /\ WritePointer(pub[a].workload, a, pub[a].seq)
  /\ Go(a, "returned")
  /\ UNCHANGED <<manifests, sequence, issued, recovered, looking, lost>>

Publish(a) ==
  \/ \E p \in Processes, w \in Workloads, s \in States : ReadSequence(a, p, w, s)
  \/ WriteSequence(a) \/ Commit(a) \/ Refuse(a) \/ ReadPointer(a) \/ MovePointer(a)

----------------------------------------------------------------------------
(* Looking a workload up: one lookup at a time in a process.               *)

Look(p, at) == looking' = [looking EXCEPT ![p].at = at]

\* floor remembers what was published at this moment; it is history.
LookAtPointer(p, w) ==
  /\ looking[p].at \in {"idle", "returned"}
  /\ looking' = [looking EXCEPT ![p] = [at |-> "pointed", workload |-> w, seen |-> {},
                                        floor |-> Completed(w), found |-> pointer[w]]]
  /\ UNCHANGED <<manifests, sequence, pointer, issued, recovered, pub, lost, faults>>

\* Mutant: the pointer is trusted whatever was published since.
Trusted_AnySequence(p) ==
  /\ looking[p].found.attempt \in Completed(looking[p].workload)
  /\ manifests[looking[p].found.attempt].seq = looking[p].found.seq

\* The pointer is trusted if it names a completed attempt of the workload, with
\* its number, which is the last one recorded.
Trusted(p) ==
  /\ looking[p].found.attempt \in Completed(looking[p].workload)
  /\ manifests[looking[p].found.attempt].seq = looking[p].found.seq
  /\ looking[p].found.seq = sequence

\* Mutant: the pointer is all there is; a stale one answers "none".
CheckPointer_NoScan(p) ==
  /\ looking[p].at = "pointed"
  /\ looking' = [looking EXCEPT ![p].at = "returned",
                                ![p].found = IF Trusted(p) THEN @ ELSE NoPointer]
  /\ UNCHANGED <<manifests, sequence, pointer, issued, recovered, pub, lost, faults>>

\* Otherwise the manifests are scanned, beginning with those there are now.
CheckPointer(p) ==
  /\ looking[p].at = "pointed"
  /\ IF Trusted(p)
     THEN Look(p, "returned")
     ELSE looking' = [looking EXCEPT ![p].at = "scanning",
                                     ![p].seen = Completed(looking[p].workload),
                                     ![p].found = NoPointer]
  /\ UNCHANGED <<manifests, sequence, pointer, issued, recovered, pub, lost, faults>>

\* The scan meets every manifest there was when it began, and may meet those
\* published meanwhile or miss them.
Scan(p) ==
  /\ looking[p].at = "scanning"
  /\ \E S \in SUBSET Completed(looking[p].workload) :
       /\ looking[p].seen \subseteq S
       /\ IF S = {} THEN Look(p, "returned")
          ELSE looking' = [looking EXCEPT ![p].at = "found", ![p].seen = {},
                             ![p].found = [attempt |-> Newest(S),
                                           seq |-> manifests[Newest(S)].seq]]
  /\ UNCHANGED <<manifests, sequence, pointer, issued, recovered, pub, lost, faults>>

\* A result that was scanned for becomes the pointer's, if it is not behind it.
ReadAgain(p) ==
  /\ looking[p].at = "found"
  /\ Look(p, IF Ahead(looking[p].workload, looking[p].found.seq) THEN "returned" ELSE "pointing")
  /\ UNCHANGED <<manifests, sequence, pointer, issued, recovered, pub, lost, faults>>

Repoint(p) ==
  /\ looking[p].at = "pointing"
  /\ WritePointer(looking[p].workload, looking[p].found.attempt, looking[p].found.seq)
  /\ Look(p, "returned")
  /\ UNCHANGED <<manifests, sequence, issued, recovered, pub, lost>>

Lookup(p) == \/ \E w \in Workloads : LookAtPointer(p, w)
             \/ CheckPointer(p) \/ Scan(p) \/ ReadAgain(p) \/ Repoint(p)

----------------------------------------------------------------------------
(* A process dies, with its threads and what it remembered, and is started *)
(* again; the files stay, staged ones unread for ever.                     *)

Crash(p) ==
  /\ Fault
  /\ issued' = [issued EXCEPT ![p] = -1]
  /\ recovered' = [recovered EXCEPT ![p] = FALSE]
  /\ pub' = [a \in Attempts |->
               IF pub[a].by = p /\ pub[a].at \notin {"returned", "dead"}
               THEN [pub[a] EXCEPT !.at = "dead"] ELSE pub[a]]
  /\ looking' = [looking EXCEPT ![p] = NoLookup]
  /\ UNCHANGED <<manifests, sequence, pointer, lost>>

Next == \/ \E a \in Attempts : Publish(a)
        \/ \E p \in Readers : Lookup(p)
        \/ \E p \in Processes : Crash(p)

Spec == Init /\ [][Next]_vars

----------------------------------------------------------------------------
(* What the store promises.                                                *)

\* The writers are one process, dead and started again or not.
OneWriter == \A a, b \in Attempts : \/ pub[a].by = None
                                     \/ pub[b].by = None
                                     \/ pub[a].by = pub[b].by

\* No two manifests of one process, whatever it and its predecessors issued,
\* lost or left behind, have the same number (_next_sequence).
NumbersAreDistinct ==
  OneWriter => \A a, b \in Published : a # b => manifests[a].seq # manifests[b].seq

\* A pointer names a published, completed result of its workload, under its own
\* number, at every moment and after any crash: it is never ahead of the commit
\* (publish's order of rename and pointer).
PointerIsPublished ==
  \A w \in Workloads : pointer[w] # NoPointer =>
    /\ pointer[w].attempt \in Completed(w)
    /\ manifests[pointer[w].attempt].seq = pointer[w].seq

Answered(p) == looking[p].at = "returned"

\* A lookup answers with the newest of the results that were published when it
\* began, or one newer, if one process publishes and its sequence file was
\* always written: neither a pointer moved backwards by two publishers, nor one
\* never moved because of a crash, is trusted (lookup).
LookupIsNewest ==
  OneWriter /\ ~lost =>
    \A p \in Processes : Answered(p) =>
      \A a \in looking[p].floor : ~Newer(a, looking[p].found.attempt)

\* "a cache: a lost write costs the scan above, never an order"
\* (publication.py:182): the same, sequence file written or not.
LostWriteKeepsOrder ==
  OneWriter =>
    \A p \in Processes : Answered(p) =>
      \A a \in looking[p].floor : ~Newer(a, looking[p].found.attempt)

\* The store as the register its callers are promised: whatever fails or dies,
\* and however many processes publish, a result published before a lookup began
\* is not answered by "none", and one process's results are answered in order.
AsResult(a) == <<manifests[a].seq, a>>

Results == [w \in Workloads |-> {AsResult(a) : a \in Completed(w)}]

\* A lookup as its caller sees it: asked until it returns.
Asked(look) ==
  [at     |-> IF look.at \in {"idle", "returned"}
              THEN (IF look.at = "returned" THEN "answered" ELSE "idle") ELSE "asked",
   key    |-> look.workload,
   floor  |-> {AsResult(a) : a \in look.floor},
   answer |-> IF look.at = "returned" /\ look.found # NoPointer
              THEN AsResult(look.found.attempt) ELSE None]

Asking  == [p \in Processes |-> Asked(looking[p])]
Orderly == OneWriter /\ ~lost

Register == INSTANCE ResultRegister WITH
  Keys    <- Workloads,
  Ids     <- Attempts,
  Numbers <- 0 .. Cardinality(Attempts) + MaxFaults,
  Clients <- Processes,
  Nothing <- None,
  results <- Results,
  asking  <- Asking,
  orderly <- Orderly

ImplementsRegister == Register!Spec
=============================================================================
