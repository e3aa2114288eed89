-------------------------- MODULE WorkerHosts_proofs --------------------------
(***************************************************************************)
(* Proofs about the hosts of a worker set, for any number of hosts, runs,  *)
(* boundaries, message lengths and faults: that they keep step, that they  *)
(* use the queue as module JobQueue lets them, and that together they are  *)
(* the one worker module EngineWorker calls a set.                         *)
(*                                                                         *)
(* HostsInv is the inductive invariant.  Whatever holds of one host by     *)
(* itself, or of the primary and its row, holds of a broken set too        *)
(* (HostFits, CommandFits, EndingFits); what relates two hosts holds of a  *)
(* whole one (InStep), and no collective completes in a broken set.        *)
(***************************************************************************)
EXTENDS WorkerHosts, JobQueue_proofs, SequenceTheorems

\* The places between two runs: of any host, and of the primary alone.
Outside  == {"off", "locking", "joining"}
Idle     == Outside \cup {"opening", "putback", "looking", "claiming"}
OnRun    == {"boundary", "agreeing", "pricing", "outcomes"}
Closing  == {"closing", "unstored"}
Preparing == {"opening", "putback", "looking", "claiming", "sharing"}

\* What holds of one host by itself.
HostFits(h) ==
  /\ place[h] \in Idle \cup {"sharing"} => message[h] = << >> /\ job[h] = 0 /\ phase[h] = 0
  /\ place[h] = "chunks" => job[h] = 0 /\ phase[h] = 0
  /\ place[h] \in Closing => message[h] = << >> /\ job[h] = 0
  /\ place[h] = "outcomes" => /\ outcome[h] # None
                              /\ outcome[h] = DONE => phase[h] = Boundaries
  /\ h # Primary => place[h] \in Collectives \cup {"off", "locking", "looking", "pricing"}

\* What the primary shares, and its row while it shares it.
CommandFits ==
  /\ place[Primary] \in Idle => command = Nothing
  /\ place[Primary] = "sharing" /\ command.kind # JOB => command.run = 0
  /\ \/ place[Primary] = "sharing" /\ command.kind = JOB
     \/ place[Primary] = "chunks"
     => /\ command.run \in RunIds /\ jobs[command.run].status = RUNNING
        /\ jobs[command.run].request \in Bodies
  /\ place[Primary] \in {"chunks"} \cup OnRun \cup Closing =>
       command.kind = JOB /\ command.run \in RunIds
  /\ place[Primary] = "off" => nextPurge = 0

\* How it closes its row.
EndingFits ==
  /\ place[Primary] \notin Closing => ending = NotEnded
  /\ place[Primary] \in Closing =>
       /\ ending.status \in {DONE, FAILED, CANCELLED}
       /\ ending.status = FAILED => ending.class \in FailureClasses
       /\ ending.status = DONE => phase[Primary] = Boundaries

\* A set is broken while it has lost a host and has others left.
BrokenFits ==
  /\ broken => (\E h \in Hosts : Joined(h)) /\ (\E h \in Hosts : ~Joined(h))
  /\ ~broken => (\A h \in Hosts : Joined(h)) \/ (\A h \in Hosts : ~Joined(h))

\* The first n bytes of run i's message.
Sent(i, n) == [k \in 1 .. n |-> <<i, k>>]

BytesOf(i) == Length[jobs[i].request]

\* Two hosts on one run: at the same boundary, or one ahead of the other by
\* the pricing of a phase that does not end the run, or by its end.
Abreast(g, h) ==
  /\ place[g] \in {"boundary", "agreeing"} /\ place[h] \in {"boundary", "agreeing"} =>
       phase[g] = phase[h]
  /\ place[g] = "pricing" /\ place[h] \in {"boundary", "agreeing"} =>
       phase[h] = phase[g] + 1 /\ ~Doomed(g)
  /\ place[g] = "pricing" /\ place[h] = "pricing" => phase[g] = phase[h]
  /\ place[g] = "outcomes" /\ place[h] = "pricing" =>
       /\ phase[g] = phase[h] /\ outcome[g] # CANCELLED
       /\ Doomed(h) \/ phase[h] = Boundaries
  /\ place[g] = "outcomes" /\ place[h] = "outcomes" =>
       phase[g] = phase[h] /\ (outcome[g] = CANCELLED => outcome[h] = CANCELLED)
  /\ place[g] = "outcomes" => place[h] \notin {"boundary", "agreeing"}

\* A whole set: where the others are when the primary is where it is.
InStep ==
  ~broken =>
    /\ place[Primary] \in Preparing \cup Closing =>
         \A h \in Followers : place[h] \in {"looking", "sharing"}
    /\ place[Primary] = "chunks" =>
         \E n \in Nat : /\ n < BytesOf(command.run)
                        /\ \A h \in Hosts : place[h] = "chunks" /\ message[h] = Sent(command.run, n)
    /\ place[Primary] \in OnRun =>
         /\ \A h \in Hosts : place[h] \in OnRun /\ job[h] = command.run
         /\ \A g, h \in Hosts : message[g] = message[h] /\ Abreast(g, h)

HostTypes ==
  /\ place \in [Hosts -> Places]
  /\ command \in [kind : {IDLE, JOB, STOP}, run : RunIds \cup {0}]
  /\ message \in [Hosts -> Seq((RunIds \cup {0}) \X Nat)]
  /\ job \in [Hosts -> RunIds \cup {0}]
  /\ phase \in [Hosts -> 0 .. Boundaries]
  /\ flag \in BOOLEAN
  /\ outcome \in [Hosts -> {None, DONE, CANCELLED} \cup RequestClasses]
  /\ fate \in Fates
  /\ ending \in [status : {RUNNING, DONE, FAILED, CANCELLED},
                 parts  : SUBSET Parts,
                 class  : FailureClasses \cup {None}]
  /\ broken \in BOOLEAN
  /\ parentAlive \in BOOLEAN
  /\ nextPurge \in Nat
  /\ faults \in 0 .. MaxFaults

\* A row that is there has the body it was submitted with.
RowsHaveBodies == \A i \in RunIds : jobs[i].status # ABSENT => jobs[i].request \in Bodies

SetFits == /\ HostTypes
           /\ \A h \in Hosts : HostFits(h)
           /\ CommandFits
           /\ EndingFits
           /\ BrokenFits
           /\ InStep

HostsInv == /\ QueueInv
            /\ RowsHaveBodies
            /\ SetFits

----------------------------------------------------------------------------

LEMMA HostsFacts ==
  /\ Primary \in Hosts /\ Followers = Hosts \ {Primary}
  /\ \A h \in Hosts : \E g \in Hosts : g # h
<1>1. HostCount \in Nat /\ HostCount > 1
  BY HostsAssumption
<1>2. 0 \in Hosts /\ 1 \in Hosts
  BY <1>1 DEF Hosts
<1>. QED
  BY <1>2 DEF Primary, Followers


LEMMA Constants ==
  /\ Boundaries \in Nat /\ PurgeInterval \in Nat /\ CHUNK_BYTES \in Nat \ {0} /\ MaxFaults \in Nat
  /\ \A b \in Bodies : Length[b] \in Nat /\ Length[b] > 0
BY HostsAssumption

LEMMA InvParts == HostsInv => /\ QueueInv /\ TypeOK /\ RowsHaveBodies /\ HostTypes
                              /\ \A h \in Hosts : HostFits(h)
                              /\ CommandFits /\ EndingFits /\ BrokenFits /\ InStep
BY DEF HostsInv, QueueInv, SetFits

\* While the primary has not joined there is nothing to keep in step.
LEMMA OutsideInStep == place'[Primary] \in Outside => InStep'
BY DEF InStep, Outside, Preparing, Closing, OnRun

LEMMA LaunchKeeps == ASSUME HostsInv, NEW h \in Hosts, Launch(h) PROVE SetFits'
<1> USE InvParts, HostsFacts DEF HostTypes, Launch, Go, runVars, heldVars, queueVars
<1>1. HostTypes'
  BY HostsAssumption DEF Places, Collectives, Nothing, NotEnded, NoFate, Fates
<1>2. \A g \in Hosts : HostFits(g)'
  BY DEF HostFits, Idle, Outside, Closing, Collectives
<1>3. CommandFits'
  BY DEF CommandFits, Idle, Outside, Closing, OnRun, Nothing, IDLE, JOB, STOP
<1>4. EndingFits'
  BY DEF EndingFits, Closing
<1>5. BrokenFits'
  BY DEF BrokenFits, Joined, OthersJoined
<1>6. InStep'
  <2> SUFFICES ASSUME ~broken PROVE InStep'
    BY DEF InStep
  <2>1. \A g \in Hosts : ~Joined(g)
    BY DEF BrokenFits, Joined
  <2>2. place'[Primary] \in Outside
    BY <2>1 DEF Joined, Outside
  <2>. QED
    BY <2>2, OutsideInStep
<1>. QED
  BY <1>1, <1>2, <1>3, <1>4, <1>5, <1>6 DEF SetFits

LEMMA TakeLockKeeps == ASSUME HostsInv, NEW h \in Hosts, TakeLock(h) PROVE SetFits'
<1> USE InvParts, HostsFacts DEF HostTypes, TakeLock, Go, runVars, heldVars, loopVars, queueVars
<1>1. HostTypes'
  BY HostsAssumption DEF Places, Collectives, Nothing, NotEnded, NoFate, Fates
<1>2. \A g \in Hosts : HostFits(g)'
  BY DEF HostFits, Idle, Outside, Closing, Collectives
<1>3. CommandFits'
  BY DEF CommandFits, Idle, Outside, Closing, OnRun, Nothing, IDLE, JOB, STOP
<1>4. EndingFits'
  BY DEF EndingFits, Closing
<1>5. BrokenFits'
  BY DEF BrokenFits, Joined, OthersJoined
<1>6. InStep'
  <2> SUFFICES ASSUME ~broken PROVE InStep'
    BY DEF InStep
  <2>1. \A g \in Hosts : ~Joined(g)
    BY DEF BrokenFits, Joined
  <2>2. place'[Primary] \in Outside
    BY <2>1 DEF Joined, Outside
  <2>. QED
    BY <2>2, OutsideInStep
<1>. QED
  BY <1>1, <1>2, <1>3, <1>4, <1>5, <1>6 DEF SetFits

LEMMA JoinKeeps == ASSUME HostsInv, Join PROVE SetFits'
<1> USE InvParts, HostsFacts DEF HostTypes, Join, AllAt, runVars, heldVars, loopVars, queueVars
<1>1. HostTypes'
  BY HostsAssumption DEF Places, Collectives, Nothing, NotEnded, NoFate, Fates
<1>2. \A g \in Hosts : HostFits(g)'
  BY DEF HostFits, Idle, Outside, Closing, Collectives
<1>3. CommandFits'
  BY DEF CommandFits, Idle, Outside, Closing, OnRun, Nothing, IDLE, JOB, STOP
<1>4. EndingFits'
  BY DEF EndingFits, Closing
<1>5. BrokenFits'
  BY DEF BrokenFits, Joined, OthersJoined
<1>6. InStep'
  BY DEF HostFits, CommandFits, BrokenFits, InStep, Joined, Preparing, Collectives, Idle,
         Outside, Closing, OnRun, Abreast, Doomed, BytesOf
<1>. QED
  BY <1>1, <1>2, <1>3, <1>4, <1>5, <1>6 DEF SetFits

LEMMA ReceiveKeeps == ASSUME HostsInv, NEW h \in Hosts, Receive(h) PROVE SetFits'
<1> USE InvParts, HostsFacts DEF HostTypes, Receive, Go, runVars, heldVars, loopVars, queueVars
<1>1. HostTypes'
  BY HostsAssumption DEF Places, Collectives, Nothing, NotEnded, NoFate, Fates
<1>2. \A g \in Hosts : HostFits(g)'
  BY DEF HostFits, Idle, Outside, Closing, Collectives
<1>3. CommandFits'
  BY DEF CommandFits, Idle, Outside, Closing, OnRun, Nothing, IDLE, JOB, STOP
<1>4. EndingFits'
  BY DEF EndingFits, Closing
<1>5. BrokenFits'
  BY DEF BrokenFits, Joined, OthersJoined
<1>6. InStep'
  <2>1. /\ place'[Primary] = place[Primary] /\ h # Primary
        /\ \A g \in Hosts \ {h} : place'[g] = place[g]
    OBVIOUS
  <2>2. CASE place[Primary] \in Preparing \cup Closing
    BY <2>1, <2>2 DEF InStep, Preparing, Closing, OnRun
  <2>3. CASE ~broken /\ place[Primary] \in OnRun \cup {"chunks"}
    BY <2>3 DEF InStep, OnRun
  <2>4. CASE broken \/ place[Primary] \notin Preparing \cup Closing \cup OnRun \cup {"chunks"}
    BY <2>1, <2>4 DEF InStep, Preparing, Closing, OnRun
  <2>. QED
    BY <2>2, <2>3, <2>4
<1>. QED
  BY <1>1, <1>2, <1>3, <1>4, <1>5, <1>6 DEF SetFits

LEMMA PutBackKeeps == ASSUME HostsInv, PutBack PROVE SetFits'
<1> USE InvParts, HostsFacts DEF HostTypes, PutBack, Go, runVars, heldVars, loopVars
<1>1. HostTypes'
  BY HostsAssumption DEF Places, Collectives, Nothing, NotEnded, NoFate, Fates
<1>2. \A g \in Hosts : HostFits(g)'
  BY DEF HostFits, Idle, Outside, Closing, Collectives
<1>3. CommandFits'
  BY DEF CommandFits, Idle, Outside, Closing, OnRun, Nothing, IDLE, JOB, STOP
<1>4. EndingFits'
  BY DEF EndingFits, Closing
<1>5. BrokenFits'
  BY DEF BrokenFits, Joined, OthersJoined
<1>6. InStep'
  BY DEF HostFits, CommandFits, BrokenFits, InStep, Joined, Preparing, Collectives, Idle,
         Outside, Closing, OnRun, Abreast, Doomed, BytesOf
<1>. QED
  BY <1>1, <1>2, <1>3, <1>4, <1>5, <1>6 DEF SetFits

LEMMA TakeOverKeeps == ASSUME HostsInv, TakeOver PROVE SetFits'
<1> USE InvParts, HostsFacts DEF HostTypes, TakeOver, Go, runVars, heldVars, loopVars
<1>1. HostTypes'
  BY HostsAssumption DEF Places, Collectives, Nothing, NotEnded, NoFate, Fates
<1>2. \A g \in Hosts : HostFits(g)'
  BY DEF HostFits, Idle, Outside, Closing, Collectives
<1>3. CommandFits'
  BY DEF CommandFits, Idle, Outside, Closing, OnRun, Nothing, IDLE, JOB, STOP
<1>4. EndingFits'
  BY DEF EndingFits, Closing
<1>5. BrokenFits'
  BY DEF BrokenFits, Joined, OthersJoined
<1>6. InStep'
  BY DEF HostFits, CommandFits, BrokenFits, InStep, Joined, Preparing, Collectives, Idle,
         Outside, Closing, OnRun, Abreast, Doomed, BytesOf
<1>. QED
  BY <1>1, <1>2, <1>3, <1>4, <1>5, <1>6 DEF SetFits

LEMMA StoreFailsKeeps == ASSUME HostsInv, StoreFails PROVE SetFits'
<1> USE InvParts, HostsFacts DEF HostTypes, StoreFails, Go, runVars, heldVars, loopVars, queueVars
<1>1. HostTypes'
  BY HostsAssumption DEF Places, Collectives, Nothing, NotEnded, NoFate, Fates
<1>2. \A g \in Hosts : HostFits(g)'
  BY DEF HostFits, Idle, Outside, Closing, Collectives
<1>3. CommandFits'
  BY DEF CommandFits, Idle, Outside, Closing, OnRun, Nothing, IDLE, JOB, STOP
<1>4. EndingFits'
  BY DEF EndingFits, Closing
<1>5. BrokenFits'
  BY DEF BrokenFits, Joined, OthersJoined
<1>6. InStep'
  BY DEF HostFits, CommandFits, BrokenFits, InStep, Joined, Preparing, Collectives, Idle,
         Outside, Closing, OnRun, Abreast, Doomed, BytesOf
<1>. QED
  BY <1>1, <1>2, <1>3, <1>4, <1>5, <1>6 DEF SetFits

LEMMA AgreeKeeps == ASSUME HostsInv, Agree PROVE SetFits'
<1> USE InvParts, HostsFacts DEF HostTypes, Agree, AllAt, Everywhere, heldVars, loopVars, queueVars
<1>1. HostTypes'
  BY DEF Places, Collectives
<1>2. \A g \in Hosts : HostFits(g)'
  <2>1. CANCELLED # None /\ CANCELLED # DONE
    BY HostsAssumption DEF TERMINAL, CANCELLED, DONE
  <2>. QED
    BY <2>1 DEF HostFits, Idle, Outside, Closing, Collectives
<1>3. CommandFits'
  BY DEF CommandFits, Idle, Outside, Closing, OnRun
<1>4. EndingFits'
  BY DEF EndingFits, Closing
<1>5. BrokenFits'
  BY DEF BrokenFits, Joined
<1>6. InStep'
  BY DEF CommandFits, BrokenFits, InStep, Joined, Preparing, Outside, Closing, OnRun, Abreast, Doomed
<1>. QED
  BY <1>1, <1>2, <1>3, <1>4, <1>5, <1>6 DEF SetFits

LEMMA LookKeeps == ASSUME HostsInv, Look PROVE SetFits'
<1> USE InvParts, HostsFacts
<1>1. /\ place[Primary] = "looking"
      /\ \/ /\ place' = [place EXCEPT ![Primary] = "sharing"]
            /\ command' = [kind |-> STOP, run |-> 0] /\ nextPurge' = nextPurge
         \/ /\ place' = [place EXCEPT ![Primary] = "claiming"]
            /\ command' = command /\ nextPurge' \in Nat
  <2>1. now + PurgeInterval \in Nat
    BY BoundsAssumption, HostsAssumption DEF TypeOK
  <2>. QED
    BY <2>1 DEF Look, Share, Go, HostTypes
<1>2. UNCHANGED <<message, job, phase, outcome, flag, fate, ending, broken, parentAlive, faults>>
  BY DEF Look, runVars, heldVars
<1> USE <1>1, <1>2 DEF HostTypes
<1>3. HostTypes'
  <2>1. place' \in [Hosts -> Places]
    BY DEF Places, Collectives
  <2>2. command' \in [kind : {IDLE, JOB, STOP}, run : RunIds \cup {0}]
    BY InvParts, SMTT(30)
  <2>. QED
    BY InvParts, <2>1, <2>2
<1>4. \A g \in Hosts : HostFits(g)'
  BY ZenonT(40) DEF HostFits, Idle, Outside, Closing, Collectives
<1>5. CommandFits'
  BY SMTT(30) DEF CommandFits, Idle, Outside, Closing, OnRun, JOB, STOP
<1>6. EndingFits'
  BY DEF EndingFits, Closing
<1>7. BrokenFits'
  BY DEF BrokenFits, Joined
<1>8. InStep'
  BY DEF InStep, Preparing, Closing, OnRun
<1>. QED
  BY <1>3, <1>4, <1>5, <1>6, <1>7, <1>8 DEF SetFits

LEMMA ClaimNextKeeps == ASSUME HostsInv, ClaimNext PROVE SetFits'
<1> USE InvParts, HostsFacts
<1>1. /\ place[Primary] = "claiming" /\ place' = [place EXCEPT ![Primary] = "sharing"]
      /\ UNCHANGED <<message, job, phase, outcome, flag, ending, broken, parentAlive, nextPurge, faults>>
      /\ fate' \in Fates
  BY DEF ClaimNext, Share, Go, runVars, loopVars, HostTypes
<1>2. \/ /\ command'.kind = JOB /\ command'.run \in RunIds
         /\ jobs'[command'.run].status = RUNNING
         /\ jobs'[command'.run].request \in Bodies
         /\ command' \in [kind : {IDLE, JOB, STOP}, run : RunIds \cup {0}]
      \/ command' = [kind |-> STOP, run |-> 0]
      \/ command' = [kind |-> IDLE, run |-> 0]
  <2>1. ASSUME NEW i \in RunIds, Claim(Self, i), Share(JOB, i)
        PROVE  /\ command'.kind = JOB /\ command'.run \in RunIds
               /\ jobs'[command'.run].status = RUNNING
               /\ jobs'[command'.run].request \in Bodies
               /\ command' \in [kind : {IDLE, JOB, STOP}, run : RunIds \cup {0}]
    <3>1. command' = [kind |-> JOB, run |-> i]
      BY <2>1 DEF Share
    <3>2. command'.kind = JOB /\ command'.run = i
      BY <3>1
    <3>3. jobs[i] \in Row /\ jobs[i].status = PENDING /\ jobs[i].request \in Bodies
      BY <2>1, StatusesDiffer DEF Claim, OldestPending, TypeOK, RowsHaveBodies
    <3>4. jobs'[i] = [jobs[i] EXCEPT !.status = RUNNING, !.worker = Self,
                                     !.attempts = jobs[i].attempts + 1]
      BY <2>1 DEF Claim, TypeOK
    <3>5. jobs'[i].status = RUNNING /\ jobs'[i].request = jobs[i].request
      BY <3>3, <3>4, ClaimedFields DEF SameSubmission
    <3>. QED
      BY <3>1, <3>2, <3>3, <3>5
  <2>2. CASE Share(IF Drain THEN STOP ELSE IDLE, 0)
    BY <2>2 DEF Share
  <2>. QED
    BY <2>1, <2>2 DEF ClaimNext
<1> USE <1>1, <1>2 DEF HostTypes
<1>3. HostTypes'
  <2>1. place' \in [Hosts -> Places]
    BY DEF Places, Collectives
  <2>2. command' \in [kind : {IDLE, JOB, STOP}, run : RunIds \cup {0}]
    BY InvParts, SMTT(30)
  <2>. QED
    BY InvParts, <2>1, <2>2
<1>4. \A g \in Hosts : HostFits(g)'
  BY DEF HostFits, Idle, Outside, Closing, Collectives
<1>5. CommandFits'
  BY SMTT(30) DEF CommandFits, Idle, Outside, Closing, OnRun, JOB, STOP, IDLE
<1>6. EndingFits'
  BY DEF EndingFits, Closing
<1>7. BrokenFits'
  BY DEF BrokenFits, Joined
<1>8. InStep'
  BY DEF InStep, Preparing, Closing, OnRun
<1>. QED
  BY <1>3, <1>4, <1>5, <1>6, <1>7, <1>8 DEF SetFits

LEMMA ShareHeaderKeeps == ASSUME HostsInv, ShareHeader PROVE SetFits'
<1> USE InvParts, HostsFacts
<1>1. /\ \A g \in Hosts : place[g] = "sharing"
      /\ UNCHANGED <<jobs, message, job, phase, outcome, flag, fate, ending, broken, faults>>
      /\ \/ /\ place' = [g \in Hosts |-> "off"] /\ command' = Nothing
            /\ parentAlive' = FALSE /\ nextPurge' = 0
         \/ /\ place' = [g \in Hosts |-> "looking"] /\ command.kind = IDLE
            /\ UNCHANGED <<command, parentAlive, nextPurge>>
         \/ /\ place' = [g \in Hosts |-> "chunks"] /\ command.kind = JOB
            /\ UNCHANGED <<command, parentAlive, nextPurge>>
  BY DEF ShareHeader, AllAt, Everywhere, runVars, heldVars, queueVars, HostTypes
<1>2. ~broken
  BY <1>1 DEF BrokenFits, Joined
<1> USE <1>1 DEF HostTypes
<1>3. HostTypes'
  <2>1. place' \in [Hosts -> Places]
    BY DEF Places, Collectives
  <2>2. command' \in [kind : {IDLE, JOB, STOP}, run : RunIds \cup {0}]
    BY SMTT(30) DEF Nothing
  <2>3. nextPurge' \in Nat
    BY SMTT(30)
  <2>4. parentAlive' \in BOOLEAN
    <3>1. parentAlive \in BOOLEAN /\ (parentAlive' = FALSE \/ parentAlive' = parentAlive)
      BY Zenon
    <3>. QED
      BY <3>1, Zenon
  <2>. QED
    BY <2>1, <2>2, <2>3, <2>4
<1>4. \A g \in Hosts : HostFits(g)'
  BY DEF HostFits, Idle, Outside, Closing, Collectives
<1>5. CommandFits'
  <2>1. command.kind = IDLE => command = Nothing
    BY DEF CommandFits, Nothing, IDLE, JOB
  <2>. QED
    BY <2>1 DEF CommandFits, Idle, Outside, Closing, OnRun
<1>6. EndingFits'
  BY DEF EndingFits, Closing
<1>7. BrokenFits'
  BY <1>2 DEF BrokenFits, Joined
<1>8. InStep'
  <2>1. CASE place'[Primary] = "chunks"
    <3>1. command.run \in RunIds /\ jobs[command.run].request \in Bodies /\ command.kind = JOB
      BY <2>1 DEF CommandFits
    <3>2. 0 < BytesOf(command.run)
      BY <3>1, Constants DEF BytesOf
    <3>3. \A g \in Hosts : message'[g] = << >>
      BY DEF HostFits
    <3>4. Sent(command.run, 0) = << >>
      BY DEF Sent
    <3>5. 0 < BytesOf(command.run)' /\ command' = command
      BY <2>1, <3>2 DEF BytesOf
    <3>. QED
      BY <2>1, <3>3, <3>4, <3>5 DEF InStep, Preparing, Closing, OnRun, Sent
  <2>2. CASE place'[Primary] # "chunks"
    BY <2>2 DEF InStep, Preparing, Closing, OnRun
  <2>. QED
    BY <2>1, <2>2
<1>. QED
  BY <1>3, <1>4, <1>5, <1>6, <1>7, <1>8 DEF SetFits

LEMMA LookAtFlagKeeps == ASSUME HostsInv, LookAtFlag PROVE SetFits'
<1> USE InvParts, HostsFacts
<1>1. /\ place[Primary] = "boundary" /\ place' = [place EXCEPT ![Primary] = "agreeing"]
      /\ UNCHANGED <<command, message, job, phase, outcome, fate, ending, broken,
                     parentAlive, nextPurge, faults>>
  BY DEF LookAtFlag, Go, runVars, loopVars
<1>2. flag' \in BOOLEAN
  <2>1. command.run \in RunIds
    BY <1>1 DEF CommandFits, OnRun
  <2>. QED
    BY <2>1 DEF LookAtFlag, TypeOK, Row
<1> USE <1>1, <1>2 DEF HostTypes
<1>3. HostTypes'
  BY DEF Places, Collectives
<1>4. \A g \in Hosts : HostFits(g)'
  BY DEF HostFits, Idle, Outside, Closing, Collectives
<1>5. CommandFits'
  BY DEF CommandFits, Idle, Outside, Closing, OnRun
<1>6. EndingFits'
  BY DEF EndingFits, Closing
<1>7. BrokenFits'
  BY DEF BrokenFits, Joined
<1>8. InStep'
  <2> SUFFICES ASSUME ~broken
               PROVE  /\ \A h \in Hosts : place'[h] \in OnRun /\ job'[h] = command'.run
                      /\ \A g, h \in Hosts : message'[g] = message'[h] /\ Abreast(g, h)'
    BY DEF InStep, Preparing, Closing, OnRun
  <2>1. /\ \A h \in Hosts : place[h] \in OnRun /\ job[h] = command.run
        /\ \A g, h \in Hosts : message[g] = message[h] /\ Abreast(g, h)
    BY DEF InStep, OnRun
  <2>2. ASSUME NEW g \in Hosts, NEW h \in Hosts PROVE Abreast(g, h)'
    BY <2>1, ZenonT(40) DEF Abreast, Doomed
  <2>. QED
    BY <2>1, <2>2 DEF OnRun
<1>. QED
  BY <1>3, <1>4, <1>5, <1>6, <1>7, <1>8 DEF SetFits

LEMMA PricePhaseKeeps == ASSUME HostsInv, NEW h \in Hosts, PricePhase(h) PROVE SetFits'
<1> USE InvParts, HostsFacts
<1> DEFINE Passes == /\ ~Doomed(h) /\ phase[h] < Boundaries
                     /\ phase' = [phase EXCEPT ![h] = phase[h] + 1]
                     /\ place' = [place EXCEPT ![h] = IF h = Primary THEN "boundary" ELSE "agreeing"]
                     /\ UNCHANGED outcome
           Stops == /\ Doomed(h) \/ phase[h] = Boundaries
                    /\ phase' = phase
                    /\ place' = [place EXCEPT ![h] = "outcomes"]
                    /\ \E o \in {DONE} \cup RequestClasses :
                         /\ outcome' = [outcome EXCEPT ![h] = o]
                         /\ o = DONE => phase[h] = Boundaries
<1>1. /\ place[h] = "pricing"
      /\ UNCHANGED <<jobs, command, message, job, flag, fate, ending, broken,
                     parentAlive, nextPurge, faults>>
  BY DEF PricePhase, heldVars, loopVars, queueVars
<1>2. Passes \/ Stops
  <2>1. Doomed(h) => fate.class \in RequestClasses
    BY DEF Doomed, HostTypes, Fates, NoFate
  <2>2. DONE \notin RequestClasses
    BY ClassesAssumption DEF RequestClasses, FAILURE_CLASSES, INFRASTRUCTURE, DONE
  <2>. QED
    BY <2>1, <2>2 DEF PricePhase, Ends, Go
<1>3. \A o \in {DONE} \cup RequestClasses : o # None /\ o # CANCELLED
  BY ClassesAssumption, NoneAssumption, HostsAssumption
     DEF RequestClasses, FAILURE_CLASSES, INFRASTRUCTURE, DONE, CANCELLED, TERMINAL
<1>4. HostTypes'
  <2>1. CASE Passes
    <3>1. phase[h] \in 0 .. Boundaries
      BY DEF HostTypes
    <3>2. phase[h] + 1 \in 0 .. Boundaries
      BY <2>1, <3>1, Constants
    <3>. QED
      BY <1>1, <2>1, <3>2 DEF HostTypes, Places, Collectives
  <2>2. CASE Stops
    <3>1. PICK o \in {DONE} \cup RequestClasses : outcome' = [outcome EXCEPT ![h] = o]
      BY <2>2
    <3>2. outcome' \in [Hosts -> {None, DONE, CANCELLED} \cup RequestClasses]
      BY <3>1 DEF HostTypes
    <3>. QED
      BY <1>1, <2>2, <3>2 DEF HostTypes, Places, Collectives
  <2>. QED
    BY <1>2, <2>1, <2>2
<1>5. \A g \in Hosts : HostFits(g)'
  <2>1. CASE Passes
    BY <1>1, <2>1 DEF HostTypes, HostFits, Idle, Outside, Closing, Collectives
  <2>2. CASE Stops
    BY <1>1, <1>3, <2>2, ZenonT(40) DEF HostTypes, HostFits, Idle, Outside, Closing, Collectives
  <2>. QED
    BY <1>2, <2>1, <2>2
<1>6. CommandFits'
  BY <1>1, <1>2 DEF HostTypes, CommandFits, Idle, Outside, Closing, OnRun
<1>7. EndingFits'
  BY <1>1, <1>2 DEF HostTypes, EndingFits, Closing
<1>8. BrokenFits'
  BY <1>1, <1>2, ZenonT(40) DEF HostTypes, BrokenFits, Joined
<1>9. InStep'
  <2> SUFFICES ASSUME ~broken PROVE InStep'
    BY <1>1 DEF InStep
  <2>1. place[Primary] \in OnRun
    <3>1. place[Primary] \notin Outside
      BY <1>1 DEF BrokenFits, Joined, Outside
    <3>2. CASE h = Primary
      BY <1>1, <3>2 DEF OnRun
    <3>3. CASE h # Primary
      BY <1>1, <3>1, <3>3 DEF InStep, HostTypes, Places, Collectives, Outside, OnRun,
                              Preparing, Closing
    <3>. QED
      BY <3>2, <3>3
  <2>2. /\ \A g \in Hosts : place[g] \in OnRun /\ job[g] = command.run
        /\ \A f, g \in Hosts : message[f] = message[g] /\ Abreast(f, g)
    BY <2>1 DEF InStep
  <2>3. \A g \in Hosts : place'[g] \in OnRun /\ job'[g] = command'.run
    BY <1>1, <1>2, <2>2 DEF HostTypes, OnRun
  <2>4. ASSUME NEW f \in Hosts, NEW g \in Hosts PROVE Abreast(f, g)'
    <3>1. /\ Abreast(f, g) /\ Abreast(g, f) /\ Abreast(f, h) /\ Abreast(h, f)
          /\ Abreast(g, h) /\ Abreast(h, g)
      BY <2>2
    <3>2. CASE Passes
      <4>1. phase[h] \in 0 .. Boundaries /\ phase[f] \in 0 .. Boundaries /\ phase[g] \in 0 .. Boundaries
        BY DEF HostTypes
      <4>2. /\ phase'[h] = phase[h] + 1 /\ place'[h] \in {"boundary", "agreeing"}
            /\ \A k \in Hosts \ {h} : phase'[k] = phase[k] /\ place'[k] = place[k]
            /\ \A k \in Hosts : outcome'[k] = outcome[k]
        BY <3>2 DEF HostTypes
      <4>. QED
        BY <1>1, <2>2, <3>1, <3>2, <4>1, <4>2, Constants DEF Abreast, Doomed, OnRun
    <3>3. CASE Stops
      <4>1. /\ \A k \in Hosts : phase'[k] = phase[k]
            /\ place'[h] = "outcomes" /\ outcome'[h] # CANCELLED
            /\ \A k \in Hosts \ {h} : outcome'[k] = outcome[k] /\ place'[k] = place[k]
        BY <1>3, <3>3 DEF HostTypes
      <4>2. phase[h] \in 0 .. Boundaries /\ phase[f] \in 0 .. Boundaries /\ phase[g] \in 0 .. Boundaries
        BY DEF HostTypes
      <4>. QED
        BY <1>1, <2>2, <3>1, <3>3, <4>1, <4>2, Constants DEF Abreast, Doomed, OnRun
    <3>. QED
      BY <1>2, <3>2, <3>3
  <2>5. place'[Primary] \in OnRun
    BY <2>3
  <2>. QED
    BY <1>1, <2>2, <2>3, <2>4, <2>5 DEF InStep, OnRun, Preparing, Closing
<1>. QED
  BY <1>4, <1>5, <1>6, <1>7, <1>8, <1>9 DEF SetFits
LEMMA SentBytes ==
  ASSUME NEW i \in RunIds, NEW n \in Nat
  PROVE  /\ Sent(i, n) \in Seq((RunIds \cup {0}) \X Nat)
         /\ Len(Sent(i, n)) = n
         /\ \A k \in 1 .. n : Sent(i, n)[k] = <<i, k>>
<1>1. \A k \in 1 .. n : <<i, k>> \in (RunIds \cup {0}) \X Nat
  OBVIOUS
<1>. QED
  BY <1>1 DEF Sent

\* The next chunk of a run's message, cut, is the next of its bytes.
LEMMA NextChunk ==
  ASSUME NEW i \in RunIds, NEW n \in Nat, NEW m \in Nat, n < m, CHUNK_BYTES \in Nat \ {0}
  PROVE  Sent(i, n) \o Cut(Chunk(Sent(i, m), n), m - n)
           = Sent(i, IF n + CHUNK_BYTES < m THEN n + CHUNK_BYTES ELSE m)
<1> DEFINE C == CHUNK_BYTES
           chunk == Chunk(Sent(i, m), n)
           left == IF m - n < C THEN m - n ELSE C
           S == (RunIds \cup {0}) \X Nat
<1>1. left \in Nat /\ left > 0 /\ left <= C /\ n + left <= m /\ m - n \in Nat
      /\ n + left = IF n + CHUNK_BYTES < m THEN n + CHUNK_BYTES ELSE m
  OBVIOUS
<1>2. \A k \in 1 .. left : chunk[k] = <<i, n + k>> /\ chunk[k] \in S
  <2> TAKE k \in 1 .. left
  <2>1. k \in 1 .. C /\ n + k \in 1 .. m /\ Len(Sent(i, m)) = m
    BY <1>1, SentBytes
  <2>2. chunk[k] = Sent(i, m)[n + k]
    BY <2>1 DEF Chunk
  <2>3. chunk[k] = <<i, n + k>>
    BY <2>1, <2>2, SentBytes
  <2>4. n + k \in Nat
    OBVIOUS
  <2>. QED
    BY <2>3, <2>4
<1> HIDE DEF chunk, left
<1>3. /\ SubSeq(chunk, 1, left) \in Seq(S) /\ Len(SubSeq(chunk, 1, left)) = left
      /\ \A k \in 1 .. left : SubSeq(chunk, 1, left)[k] = <<i, n + k>>
  <2>1. /\ SubSeq(chunk, 1, left) \in Seq(S)
        /\ Len(SubSeq(chunk, 1, left)) = IF 1 <= left THEN left - 1 + 1 ELSE 0
        /\ \A k \in 1 .. left - 1 + 1 : SubSeq(chunk, 1, left)[k] = chunk[1 + k - 1]
    BY <1>1, <1>2, SubSeqProperties
  <2>. QED
    BY <1>1, <1>2, <2>1
<1> DEFINE cut == SubSeq(chunk, 1, left)
<1>4. Cut(chunk, m - n) = cut
  BY DEF Cut, left
<1> DEFINE all == n + left
<1> HIDE DEF cut, S, all
<1>5. all \in Nat /\ \A k \in Nat : k > n /\ k <= all => k - n \in 1 .. left /\ n + (k - n) = k
  BY <1>1 DEF all
<1>6. Sent(i, n) \in Seq(S) /\ Len(Sent(i, n)) = n /\ \A k \in 1 .. n : Sent(i, n)[k] = <<i, k>>
  BY SentBytes DEF S
<1>7. cut \in Seq(S) /\ Len(cut) = left /\ \A k \in 1 .. left : cut[k] = <<i, n + k>>
  BY <1>3 DEF cut
<1>8. /\ Sent(i, all) \in Seq(S) /\ Len(Sent(i, all)) = all
      /\ \A k \in 1 .. all : Sent(i, all)[k] = <<i, k>>
  BY <1>5, SentBytes DEF S
<1>9. /\ Sent(i, n) \o cut \in Seq(S) /\ Len(Sent(i, n) \o cut) = Len(Sent(i, n)) + Len(cut)
      /\ \A k \in 1 .. Len(Sent(i, n)) + Len(cut) : (Sent(i, n) \o cut)[k] =
           IF k <= Len(Sent(i, n)) THEN Sent(i, n)[k] ELSE cut[k - Len(Sent(i, n))]
  BY <1>6, <1>7, ConcatProperties
<1>10. Len(Sent(i, n) \o cut) = all /\ Len(Sent(i, n)) + Len(cut) = all
  BY <1>6, <1>7, <1>9 DEF all
<1>11. \A k \in 1 .. all : (Sent(i, n) \o cut)[k] = Sent(i, all)[k]
  <2> TAKE k \in 1 .. all
  <2>1. k \in Nat /\ 1 <= k /\ k <= all
    BY <1>5
  <2>2. (Sent(i, n) \o cut)[k] = IF k <= n THEN Sent(i, n)[k] ELSE cut[k - n]
    BY <1>6, <1>9, <1>10
  <2>3. Sent(i, all)[k] = <<i, k>>
    BY <1>8
  <2>4. CASE k <= n
    <3>1. k \in 1 .. n
      BY <2>1, <2>4
    <3>2. Sent(i, n)[k] = <<i, k>>
      BY <1>6, <3>1
    <3>. QED
      BY <2>4, <2>3, <2>2, <3>2
  <2>5. CASE k > n
    <3>1. k - n \in 1 .. left /\ n + (k - n) = k /\ ~(k <= n)
      BY <1>5, <2>1, <2>5
    <3>2. cut[k - n] = <<i, k>>
      BY <1>7, <3>1
    <3>. QED
      BY <2>3, <2>2, <3>1, <3>2
  <2>6. k <= n \/ k > n
    BY <2>1
  <2>. QED
    BY <2>4, <2>5, <2>6, Zenon
<1>12. Sent(i, n) \o cut = Sent(i, n + left)
  BY <1>8, <1>9, <1>10, <1>11, SeqEqual DEF all
<1>. QED
  BY <1>1, <1>4, <1>12 DEF chunk

\* A whole message names its run.
LEMMA WholeMessage ==
  ASSUME NEW i \in RunIds, jobs[i].status # ABSENT, BytesOf(i) \in Nat, BytesOf(i) > 0
  PROVE  Message(i) = Sent(i, BytesOf(i)) /\ Decode(Sent(i, BytesOf(i))) = i
<1>1. Message(i) = Sent(i, BytesOf(i))
  BY DEF Message, Sent, BytesOf
<1>2. Sent(i, BytesOf(i))[1] = <<i, 1>>
  <2>1. 1 \in 1 .. BytesOf(i)
    OBVIOUS
  <2>. QED
    BY <2>1, SentBytes
<1>. QED
  BY <1>1, <1>2 DEF Decode

LEMMA ShareChunkKeeps == ASSUME HostsInv, ShareChunk PROVE SetFits'
<1>1. /\ HostTypes /\ CommandFits /\ EndingFits /\ BrokenFits /\ InStep /\ TypeOK
      /\ \A h \in Hosts : HostFits(h)
  BY InvParts
<1>2. Primary \in Hosts /\ \A h \in Hosts : \E g \in Hosts : g # h
  BY HostsFacts
<1>3. /\ \A h \in Hosts : place[h] = "chunks"
      /\ UNCHANGED <<jobs, command, phase, outcome, flag, fate, ending, broken,
                     parentAlive, nextPurge, faults>>
  BY DEF ShareChunk, AllAt, heldVars, loopVars, queueVars
<1>4. ~broken
  BY <1>1, <1>2, <1>3 DEF BrokenFits, Joined
<1>5. PICK n \in Nat : /\ n < BytesOf(command.run)
                       /\ \A h \in Hosts : message[h] = Sent(command.run, n)
  BY <1>1, <1>2, <1>3, <1>4 DEF InStep
<1> DEFINE run == command.run
           all == BytesOf(run)
           m == IF n + CHUNK_BYTES < all THEN n + CHUNK_BYTES ELSE all
<1>6. /\ run \in RunIds /\ jobs[run].status = RUNNING /\ jobs[run].request \in Bodies
      /\ command.kind = JOB
  BY <1>1, <1>2, <1>3 DEF CommandFits
<1>7. all \in Nat /\ all > 0 /\ n < all /\ m \in Nat /\ CHUNK_BYTES \in Nat \ {0}
  BY <1>5, <1>6, Constants DEF BytesOf
<1>8. Message(run) = Sent(run, all) /\ Decode(Sent(run, all)) = run
  BY <1>6, <1>7, WholeMessage, StatusesDiffer
<1>9. Len(message[Primary]) = n /\ Len(Sent(run, all)) = all
  BY <1>2, <1>5, <1>6, <1>7, SentBytes
<1>10. Sent(run, n) \o Cut(Chunk(Sent(run, all), n), all - n) = Sent(run, m)
  BY <1>6, <1>7, NextChunk
<1> HIDE DEF run, all
<1>11. /\ message' = [h \in Hosts |-> Sent(run, m)]
      /\ \/ n + CHUNK_BYTES < all /\ UNCHANGED <<place, job>>
         \/ /\ ~(n + CHUNK_BYTES < all)
            /\ job' = [h \in Hosts |-> run]
            /\ place' = [h \in Hosts |-> IF h = Primary THEN "boundary" ELSE "agreeing"]
  <2> DEFINE got == [h \in Hosts |-> message[h] \o Cut(Chunk(Message(run), Len(message[Primary])),
                                                        Len(Message(run)) - Len(message[Primary]))]
  <2>1. got = [h \in Hosts |-> Sent(run, m)]
    BY <1>5, <1>8, <1>9, <1>10 DEF run
  <2>2. /\ message' = got
        /\ IF n + CHUNK_BYTES < all
           THEN UNCHANGED <<place, job>>
           ELSE /\ job' = [h \in Hosts |-> IF h = Primary THEN run ELSE Decode(got[h])]
                /\ place' = [h \in Hosts |-> IF h = Primary THEN "boundary" ELSE "agreeing"]
    BY <1>8, <1>9 DEF ShareChunk, run
  <2> HIDE DEF got
  <2>3. CASE n + CHUNK_BYTES < all
    BY <2>1, <2>2, <2>3
  <2>4. CASE ~(n + CHUNK_BYTES < all)
    <3>1. m = all
      BY <2>4
    <3>2. \A h \in Hosts : got[h] = Sent(run, all)
      BY <2>1, <3>1
    <3>3. \A h \in Hosts : (IF h = Primary THEN run ELSE Decode(got[h])) = run
      BY <1>8, <3>2
    <3>. QED
      BY <2>1, <2>2, <2>4, <3>3
  <2>. QED
    BY <2>3, <2>4
<1> HIDE DEF m
<1>12. m \in Nat /\ Sent(run, m) \in Seq((RunIds \cup {0}) \X Nat) /\ run \in RunIds
  BY <1>6, <1>7, SentBytes DEF run
<1>13. HostTypes'
  <2>1. /\ message' \in [Hosts -> Seq((RunIds \cup {0}) \X Nat)]
        /\ job' \in [Hosts -> RunIds \cup {0}]
    BY <1>1, <1>11, <1>12 DEF HostTypes
  <2>2. place' \in [Hosts -> Places]
    BY <1>1, <1>11 DEF HostTypes, Places, Collectives
  <2>. QED
    BY <1>1, <1>3, <2>1, <2>2 DEF HostTypes
<1>14. \A h \in Hosts : HostFits(h)'
  BY <1>1, <1>3, <1>11 DEF HostFits, Idle, Outside, Closing, Collectives
<1>15. CommandFits'
  BY <1>1, <1>2, <1>3, <1>11 DEF CommandFits, Idle, Outside, Closing, OnRun
<1>16. EndingFits'
  BY <1>1, <1>2, <1>3, <1>11 DEF EndingFits, Closing
<1>17. BrokenFits'
  BY <1>1, <1>3, <1>4, <1>11 DEF BrokenFits, Joined
<1>18. InStep'
  <2>1. CASE n + CHUNK_BYTES < all
    <3>1. m < all /\ \A h \in Hosts : place'[h] = "chunks" /\ message'[h] = Sent(run, m)
      BY <1>3, <1>7, <1>11, <2>1 DEF m
    <3>2. all = BytesOf(command.run)' /\ command'.run = run
      BY <1>3 DEF BytesOf, all, run
    <3>. QED
      BY <1>2, <1>12, <3>1, <3>2 DEF InStep, Sent, Preparing, Closing, OnRun
  <2>2. CASE ~(n + CHUNK_BYTES < all)
    <3>1. \A h \in Hosts : /\ place'[h] \in {"boundary", "agreeing"}
                           /\ job'[h] = run /\ message'[h] = Sent(run, m) /\ phase'[h] = 0
      BY <1>1, <1>3, <1>11, <2>2 DEF HostFits
    <3>2. command'.run = run
      BY <1>3 DEF run
    <3>. QED
      BY <1>2, <3>1, <3>2 DEF InStep, Abreast, Preparing, Closing, OnRun
  <2>. QED
    BY <2>1, <2>2
<1>. QED
  BY <1>13, <1>14, <1>15, <1>16, <1>17, <1>18 DEF SetFits

\* The primary closes its row with one of the endings a row may have.
LEMMA EndingsFit ==
  ASSUME HostTypes, \A h \in Hosts : HostFits(h), AllAt("outcomes"), NEW e \in Combined
  PROVE  /\ e \in [status : {RUNNING, DONE, FAILED, CANCELLED}, parts : SUBSET Parts,
                   class : FailureClasses \cup {None}]
         /\ e.status \in {DONE, FAILED, CANCELLED}
         /\ e.status = FAILED => e.class \in FailureClasses
         /\ e.status = DONE => phase[Primary] = Boundaries
<1>1. /\ outcome[Primary] \in {DONE, CANCELLED} \cup RequestClasses
      /\ outcome[Primary] = DONE => phase[Primary] = Boundaries
  BY HostsFacts DEF HostTypes, HostFits, AllAt
<1>2. RequestClasses \subseteq FailureClasses /\ INFRASTRUCTURE \in FailureClasses
  BY ClassesAssumption DEF RequestClasses
<1>3. CASE e = [NotEnded EXCEPT !.status = FAILED, !.class = INFRASTRUCTURE]
  BY <1>2, <1>3 DEF NotEnded, FAILED, DONE
<1>4. CASE /\ outcome[Primary] = DONE
           /\ \E p \in SUBSET Parts : e = [NotEnded EXCEPT !.status = DONE, !.parts = p]
  BY <1>1, <1>4 DEF NotEnded, FAILED, DONE
<1>5. CASE e = [NotEnded EXCEPT !.status = CANCELLED]
  BY <1>5 DEF NotEnded, FAILED, DONE, CANCELLED
<1>6. CASE /\ outcome[Primary] \in RequestClasses
           /\ e = [NotEnded EXCEPT !.status = FAILED, !.class = outcome[Primary]]
  BY <1>2, <1>6 DEF NotEnded, FAILED, DONE
<1>. QED
  BY <1>1, <1>3, <1>4, <1>5, <1>6 DEF Combined

LEMMA GatherOutcomesKeeps == ASSUME HostsInv, GatherOutcomes PROVE SetFits'
<1> USE InvParts, HostsFacts
<1>1. /\ \A h \in Hosts : place[h] = "outcomes"
      /\ place' = [h \in Hosts |-> IF h = Primary THEN "closing" ELSE "looking"]
      /\ message' = [h \in Hosts |-> << >>] /\ job' = [h \in Hosts |-> 0]
      /\ phase' = [h \in Hosts |-> IF h = Primary THEN phase[h] ELSE 0]
      /\ outcome' = [h \in Hosts |-> None]
      /\ UNCHANGED <<jobs, command, flag, fate, broken, parentAlive, nextPurge, faults>>
  BY DEF GatherOutcomes, AllAt, Everywhere, loopVars, queueVars
<1>2. /\ ending' \in [status : {RUNNING, DONE, FAILED, CANCELLED}, parts : SUBSET Parts,
                      class : FailureClasses \cup {None}]
      /\ ending'.status \in {DONE, FAILED, CANCELLED}
      /\ ending'.status = FAILED => ending'.class \in FailureClasses
      /\ ending'.status = DONE => phase'[Primary] = Boundaries
  <2>1. \A e \in Combined :
          /\ e \in [status : {RUNNING, DONE, FAILED, CANCELLED}, parts : SUBSET Parts,
                    class : FailureClasses \cup {None}]
          /\ e.status \in {DONE, FAILED, CANCELLED}
          /\ e.status = FAILED => e.class \in FailureClasses
          /\ e.status = DONE => phase[Primary] = Boundaries
    BY EndingsFit DEF GatherOutcomes
  <2>2. ending' \in Combined
    BY DEF GatherOutcomes
  <2>3. phase'[Primary] = phase[Primary]
    BY <1>1
  <2>. QED
    BY <2>1, <2>2, <2>3
<1>3. HostTypes'
  <2>1. place' \in [Hosts -> Places]
    BY <1>1 DEF Places, Collectives
  <2>2. message' \in [Hosts -> Seq((RunIds \cup {0}) \X Nat)] /\ job' \in [Hosts -> RunIds \cup {0}]
    BY <1>1
  <2>3. phase' \in [Hosts -> 0 .. Boundaries]
    BY <1>1, Constants DEF HostTypes
  <2>. QED
    BY <1>1, <1>2, <2>1, <2>2, <2>3 DEF HostTypes
<1>4. \A h \in Hosts : HostFits(h)'
  BY <1>1 DEF HostFits, Idle, Outside, Closing, Collectives
<1>5. CommandFits'
  BY <1>1 DEF CommandFits, Idle, Outside, Closing, OnRun
<1>6. EndingFits'
  BY <1>1, <1>2 DEF EndingFits, Closing
<1>7. BrokenFits'
  BY <1>1 DEF BrokenFits, Joined
<1>8. InStep'
  BY <1>1 DEF InStep, Preparing, Closing, OnRun
<1>. QED
  BY <1>3, <1>4, <1>5, <1>6, <1>7, <1>8 DEF SetFits

LEMMA BackToLoopKeeps ==
  ASSUME HostsInv, place[Primary] \in Closing, BackToLoop
  PROVE  SetFits'
<1> USE InvParts, HostsFacts DEF HostTypes
<1>1. /\ place[Primary] \in {"closing", "unstored"}
      /\ place' = [place EXCEPT ![Primary] = "looking"]
      /\ command' = Nothing /\ flag' = FALSE /\ fate' = NoFate /\ ending' = NotEnded
      /\ phase' = [phase EXCEPT ![Primary] = 0]
      /\ UNCHANGED <<message, job, outcome, broken, parentAlive, nextPurge, faults>>
  BY DEF BackToLoop, Go, loopVars, Closing
<1>2. HostTypes'
  <2>1. NotEnded \in [status : {RUNNING, DONE, FAILED, CANCELLED}, parts : SUBSET Parts,
                      class : FailureClasses \cup {None}]
    BY DEF NotEnded
  <2>2. Nothing \in [kind : {IDLE, JOB, STOP}, run : RunIds \cup {0}] /\ NoFate \in Fates
    BY DEF Nothing, Fates
  <2>3. place' \in [Hosts -> Places] /\ phase' \in [Hosts -> 0 .. Boundaries]
    <3>1. 0 \in 0 .. Boundaries /\ "looking" \in Places
      BY Constants DEF Places
    <3>2. place \in [Hosts -> Places] /\ phase \in [Hosts -> 0 .. Boundaries]
      BY InvParts DEF HostTypes
    <3> HIDE DEF HostTypes
    <3>3. place' \in [Hosts -> Places]
      BY <1>1, <3>1, <3>2
    <3>4. phase' \in [Hosts -> 0 .. Boundaries]
      BY <1>1, <3>1, <3>2
    <3>. QED
      BY <3>3, <3>4
  <2>. QED
    BY <1>1, <2>1, <2>2, <2>3
<1>3. \A h \in Hosts : HostFits(h)'
  BY <1>1 DEF HostFits, Idle, Outside, Closing, Collectives
<1>4. CommandFits'
  BY <1>1 DEF CommandFits, Idle, Outside, Closing, OnRun
<1>5. EndingFits'
  BY <1>1 DEF EndingFits, Closing
<1>6. BrokenFits'
  BY <1>1 DEF BrokenFits, Joined
<1>7. InStep'
  BY <1>1 DEF InStep, Preparing, Closing, OnRun
<1>. QED
  BY <1>2, <1>3, <1>4, <1>5, <1>6, <1>7 DEF SetFits

LEMMA ForgetKeeps ==
  ASSUME HostsInv, NEW h \in Hosts, Forget(h), UNCHANGED jobs, faults' \in 0 .. MaxFaults,
         broken' = OthersJoined(h),
         Joined(h) \/ \A g \in Hosts : ~Joined(g)
  PROVE  SetFits'
<1> USE InvParts, HostsFacts
<1>1. /\ place' = [place EXCEPT ![h] = "off"]
      /\ message' = [message EXCEPT ![h] = << >>]
      /\ job' = [job EXCEPT ![h] = 0]
      /\ phase' = [phase EXCEPT ![h] = 0]
      /\ outcome' = [outcome EXCEPT ![h] = None]
      /\ \/ /\ h = Primary /\ command' = Nothing /\ flag' = FALSE /\ fate' = NoFate
            /\ ending' = NotEnded /\ parentAlive' = FALSE /\ nextPurge' = 0
         \/ /\ h # Primary
            /\ UNCHANGED <<command, flag, fate, ending, parentAlive, nextPurge>>
  BY DEF Forget, Go, heldVars
<1>2. HostTypes'
  <2>1. HostTypes /\ 0 \in 0 .. Boundaries /\ "off" \in Places
        /\ << >> \in Seq((RunIds \cup {0}) \X Nat) /\ 0 \in Nat
    BY Constants DEF Places
  <2>2. /\ NotEnded \in [status : {RUNNING, DONE, FAILED, CANCELLED}, parts : SUBSET Parts,
                         class : FailureClasses \cup {None}]
        /\ Nothing \in [kind : {IDLE, JOB, STOP}, run : RunIds \cup {0}]
        /\ NoFate \in Fates
    BY DEF NotEnded, Nothing, Fates
  <2>3. place' \in [Hosts -> Places]
    BY <1>1, <2>1, InvParts DEF HostTypes
  <2>4. phase' \in [Hosts -> 0 .. Boundaries]
    BY <1>1, <2>1, InvParts DEF HostTypes
  <2>5. message' \in [Hosts -> Seq((RunIds \cup {0}) \X Nat)]
    <3>1. message \in [Hosts -> Seq((RunIds \cup {0}) \X Nat)]
      BY <2>1 DEF HostTypes
    <3> DEFINE M == Seq((RunIds \cup {0}) \X Nat)
    <3>2. message \in [Hosts -> M] /\ << >> \in M
      BY <2>1, <3>1
    <3> HIDE DEF M
    <3>3. [message EXCEPT ![h] = << >>] \in [Hosts -> M]
      BY <3>2
    <3>. QED
      BY <1>1, <3>3 DEF M
  <2>6. job' \in [Hosts -> RunIds \cup {0}]
    BY <1>1, <2>1, InvParts DEF HostTypes
  <2>7. outcome' \in [Hosts -> {None, DONE, CANCELLED} \cup RequestClasses]
    BY <1>1, <2>1, InvParts DEF HostTypes
  <2>8. broken' \in BOOLEAN
    BY DEF OthersJoined
  <2>9. command' \in [kind : {IDLE, JOB, STOP}, run : RunIds \cup {0}]
    BY <1>1, <2>1, <2>2 DEF HostTypes
  <2>10. fate' \in Fates /\ ending' \in [status : {RUNNING, DONE, FAILED, CANCELLED},
                   parts : SUBSET Parts, class : FailureClasses \cup {None}]
    BY <1>1, <2>1, <2>2 DEF HostTypes
  <2>11. flag' \in BOOLEAN /\ parentAlive' \in BOOLEAN
    BY <1>1, <2>1, Zenon DEF HostTypes
  <2>12. nextPurge' \in Nat
    BY <1>1, <2>1 DEF HostTypes
  <2>. QED
    BY <2>3, <2>4, <2>5, <2>6, <2>7, <2>8, <2>9, <2>10, <2>11, <2>12 DEF HostTypes
<1> USE DEF HostTypes
<1>3. \A g \in Hosts : HostFits(g)'
  BY <1>1 DEF HostFits, Idle, Outside, Closing, Collectives
<1>4. CommandFits'
  BY <1>1 DEF CommandFits, Idle, Outside, Closing, OnRun
<1>5. EndingFits'
  BY <1>1 DEF EndingFits, Closing
<1>6. BrokenFits'
  BY <1>1 DEF BrokenFits, Joined, OthersJoined
<1>7. InStep'
  <2>1. ~broken' => \A g \in Hosts : ~Joined(g)'
    BY <1>1 DEF OthersJoined, Joined
  <2>2. ~Joined(Primary)' => place'[Primary] \in Outside
    BY DEF Joined, Outside
  <2>. QED
    BY <2>1, <2>2 DEF InStep, Outside, Preparing, Closing, OnRun
<1>. QED
  BY <1>2, <1>3, <1>4, <1>5, <1>6, <1>7 DEF SetFits

LEMMA DeathsKeep ==
  ASSUME HostsInv, NEW h \in Hosts, Dies(h) \/ ServiceStops(h)
  PROVE  SetFits'
<1> USE InvParts
<1>1. Forget(h) /\ UNCHANGED jobs /\ broken' = OthersJoined(h)
  BY DEF Dies, ServiceStops, queueVars
<1>2. faults' \in 0 .. MaxFaults
  <2>1. faults \in 0 .. MaxFaults
    BY DEF HostTypes
  <2>2. faults' = faults \/ (faults < MaxFaults /\ faults' = faults + 1)
    BY DEF Dies, ServiceStops
  <2>. QED
    BY <2>1, <2>2, Constants
<1>3. Joined(h) \/ \A g \in Hosts : ~Joined(g)
  BY DEF Dies, ServiceStops, BrokenFits
<1>. QED
  BY <1>1, <1>2, <1>3, ForgetKeeps

\* What callers do, and the clock, leave a running row running.
LEMMA CallersLeaveRows ==
  ASSUME TypeOK, UnusedAreAbsent, ClientStep \/ Tick \/ UNCHANGED queueVars,
         NEW i \in RunIds, jobs[i].status = RUNNING
  PROVE  jobs'[i].status = RUNNING /\ jobs'[i].request = jobs[i].request
<1> USE BoundsAssumption, NoRowFields, StatusesDiffer
<1>1. CASE Tick \/ UNCHANGED queueVars
  BY <1>1 DEF Tick, queueVars
<1>2. ASSUME NEW key \in Keys \cup {None}, NEW body \in Bodies, NEW keep \in BOOLEAN,
             Submit(key, body, keep)
      PROVE  jobs'[i] = jobs[i]
  <2>1. lastSeq + 1 \in RunIds /\ lastSeq + 1 > lastSeq
    BY <1>2 DEF Submit, TypeOK, RunIds
  <2>2. jobs[lastSeq + 1] = NoRow
    BY <2>1 DEF UnusedAreAbsent
  <2>3. i # lastSeq + 1
    BY <2>2
  <2>. QED
    BY <1>2, <2>1, <2>3 DEF Submit, TypeOK
<1>3. ASSUME NEW j \in RunIds, Cancel(j)
      PROVE  jobs'[i].status = RUNNING /\ jobs'[i].request = jobs[i].request
  <2>1. jobs[i] \in Row
    BY DEF TypeOK
  <2>2. CASE j # i
    BY <1>3, <2>2 DEF Cancel, TypeOK
  <2>3. CASE j = i
    <3>1. jobs'[i] = [jobs[i] EXCEPT !.cancel_requested = TRUE]
      BY <1>3, <2>3 DEF Cancel, TypeOK
    <3>. QED
      BY <2>1, <3>1 DEF Row
  <2>. QED
    BY <2>2, <2>3
<1>. QED
  BY <1>1, <1>2, <1>3 DEF ClientStep

LEMMA RestKeeps ==
  ASSUME HostsInv, Callers \/ ParentDies \/ UNCHANGED vars
  PROVE  SetFits'
<1> USE InvParts, HostsFacts
<1>1. /\ UNCHANGED <<place, command, message, job, phase, outcome, flag, fate, ending,
                     broken, nextPurge>>
      /\ ClientStep \/ Tick \/ UNCHANGED queueVars
  BY DEF Callers, ParentDies, vars, runVars, heldVars, loopVars, queueVars
<1>2. \A i \in RunIds : jobs[i].status = RUNNING =>
        jobs'[i].status = RUNNING /\ jobs'[i].request = jobs[i].request
  BY <1>1, CallersLeaveRows DEF HostsInv, QueueInv
<1>3. HostTypes'
  <2>1. parentAlive' \in BOOLEAN
    BY DEF HostTypes, Callers, ParentDies, vars, loopVars
  <2>2. faults' \in 0 .. MaxFaults
    <3>1. faults \in 0 .. MaxFaults
      BY DEF HostTypes
    <3>2. faults' = faults \/ (faults < MaxFaults /\ faults' = faults + 1)
      BY DEF Callers, ParentDies, vars, loopVars
    <3>. QED
      BY <3>1, <3>2, Constants
  <2>. QED
    BY <1>1, <2>1, <2>2 DEF HostTypes
<1>4. \A h \in Hosts : HostFits(h)'
  BY <1>1 DEF HostFits
<1>5. CommandFits'
  BY <1>1, <1>2 DEF CommandFits
<1>6. EndingFits'
  BY <1>1 DEF EndingFits
<1>7. BrokenFits'
  BY <1>1 DEF BrokenFits, Joined
<1>8. InStep'
  <2>1. CASE place[Primary] = "chunks"
    <3>1. BytesOf(command.run)' = BytesOf(command.run)
      BY <1>1, <1>2, <2>1 DEF CommandFits, BytesOf
    <3>. QED
      BY <1>1, <2>1, <3>1 DEF InStep, Sent, Preparing, Closing, OnRun
  <2>2. CASE place[Primary] # "chunks"
    BY <1>1, <2>2 DEF InStep, Abreast, Doomed
  <2>. QED
    BY <2>1, <2>2
<1>. QED
  BY <1>3, <1>4, <1>5, <1>6, <1>7, <1>8 DEF SetFits

----------------------------------------------------------------------------
(* The set on its queue.                                                   *)

\* A row keeps the body it was submitted with.
LEMMA BodiesStep ==
  ASSUME TypeOK, UnusedAreAbsent, RowsHaveBodies, QueueNext
  PROVE  RowsHaveBodies'
<1> USE BoundsAssumption, NoRowFields, StatusesDiffer
<1>1. ASSUME NEW key \in Keys \cup {None}, NEW body \in Bodies, NEW keep \in BOOLEAN,
             Submit(key, body, keep)
      PROVE  RowsHaveBodies'
  <2>1. lastSeq + 1 \in RunIds
    BY <1>1 DEF Submit, TypeOK, RunIds
  <2> DEFINE new == [NoRow EXCEPT !.status = PENDING, !.request = body,
                                  !.idempotency_key = key, !.keep = keep]
  <2>2. new.request = body
    BY NoRowIsRow, InsertedFields
  <2>3. jobs'[lastSeq + 1] = new /\ \A i \in RunIds : i # lastSeq + 1 => jobs'[i] = jobs[i]
    BY <1>1, <2>1 DEF Submit, TypeOK
  <2> HIDE DEF new
  <2>. QED
    BY <2>1, <2>2, <2>3 DEF RowsHaveBodies
<1>2. ASSUME ~Inserts, NEW i \in RunIds, jobs'[i].status # ABSENT
      PROVE  jobs'[i].request \in Bodies
  <2>1. Kept(i) \/ Changed(i) \/ Removed(i)
    BY <1>2, StepEffect DEF Changes, Removes
  <2>2. jobs'[i].request = jobs[i].request /\ jobs[i].status # ABSENT
    <3>1. CASE Kept(i)
      BY <1>2, <3>1 DEF Kept
    <3>2. CASE Changed(i)
      BY <3>2 DEF Changed, SameSubmission, Claimed, Flagged, SentBack, Closed
    <3>3. CASE Removed(i)
      BY <1>2, <3>3 DEF Removed
    <3>. QED
      BY <2>1, <3>1, <3>2, <3>3
  <2>. QED
    BY <2>2 DEF RowsHaveBodies
<1>3. ASSUME Inserts PROVE RowsHaveBodies'
  <2>1. lastSeq' # lastSeq
    BY <1>3 DEF Inserts, Inserted, TypeOK
  <2>2. \E key \in Keys \cup {None}, body \in Bodies, keep \in BOOLEAN : Submit(key, body, keep)
    BY <2>1 DEF QueueNext, ClientStep, WorkerStep, Tick, Cancel, Claim, Finish, Fail,
       CancelRunning, CloseRunning, Requeue, Interrupt, Purge
  <2>. QED
    BY <1>1, <2>2
<1>. QED
  BY <1>2, <1>3 DEF RowsHaveBodies

LEMMA SelfWorks == Self \in Workers /\ Workers = {Self}
BY HostsAssumption DEF Self

LEMMA UsesQueue ==
  ASSUME HostsInv, [Next]_vars
  PROVE  [QueueNext]_queueVars
<1> USE InvParts, HostsFacts
<1>1. CASE Callers \/ UNCHANGED vars
  BY <1>1 DEF Callers, QueueNext, vars, queueVars
<1>2. CASE Together
  BY <1>2 DEF Together, Join, ShareHeader, ShareChunk, Agree, GatherOutcomes, queueVars
<1>3. ASSUME NEW h \in Hosts, Launch(h) \/ Alone(h) \/ Dies(h) \/ ServiceStops(h)
      PROVE  UNCHANGED queueVars
  BY <1>3 DEF Launch, Alone, TakeLock, Receive, PricePhase, Dies, ServiceStops, queueVars
<1>4. CASE ParentDies
  BY <1>4 DEF ParentDies, queueVars
<1>5. CASE PrimaryStep
  <2>1. CASE PutBack \/ TakeOver \/ Look \/ LookAtFlag \/ StoreFails
    BY <2>1 DEF PutBack, TakeOver, Look, LookAtFlag, StoreFails, QueueNext, WorkerStep, queueVars
  <2>2. CASE ClaimNext
    BY <2>2, SelfWorks DEF ClaimNext, QueueNext, WorkerStep, queueVars
  <2>3. CASE CloseRow
    <3>1. command.run \in RunIds
      BY <2>3 DEF CloseRow, CommandFits, Closing
    <3>2. ending.status = FAILED => ending.class \in FailureClasses
      BY <2>3 DEF CloseRow, EndingFits, Closing
    <3>3. ending.parts \in SUBSET Parts
      BY DEF HostTypes
    <3>. QED
      BY <2>3, <3>1, <3>2, <3>3 DEF CloseRow, QueueNext, WorkerStep
  <2>4. CASE FailUnstored
    <3>1. command.run \in RunIds
      BY <2>4 DEF FailUnstored, CommandFits, Closing
    <3>. QED
      BY <2>4, <3>1, ClassesAssumption DEF FailUnstored, QueueNext, WorkerStep
  <2>. QED
    BY <1>5, <2>1, <2>2, <2>3, <2>4 DEF PrimaryStep
<1>. QED
  BY <1>1, <1>2, <1>3, <1>4, <1>5 DEF Next

----------------------------------------------------------------------------
(* The invariant.                                                          *)

LEMMA HostsInvInit == Init => HostsInv
<1> SUFFICES ASSUME Init PROVE HostsInv
  OBVIOUS
<1> USE HostsFacts DEF Init, Everywhere
<1>1. QueueInv /\ RowsHaveBodies
  <2>1. \A i \in RunIds : jobs[i] = NoRow
    BY DEF QueueInit
  <2>. QED
    BY <2>1, QueueInvInit, NoRowFields DEF RowsHaveBodies
<1>2. HostTypes
  <2>1. 0 \in 0 .. Boundaries /\ 0 \in 0 .. MaxFaults /\ "off" \in Places
    BY Constants DEF Places
  <2>2. /\ NotEnded \in [status : {RUNNING, DONE, FAILED, CANCELLED}, parts : SUBSET Parts,
                         class : FailureClasses \cup {None}]
        /\ Nothing \in [kind : {IDLE, JOB, STOP}, run : RunIds \cup {0}]
        /\ NoFate \in Fates
    BY DEF NotEnded, Nothing, Fates
  <2>3. message \in [Hosts -> Seq((RunIds \cup {0}) \X Nat)]
    OBVIOUS
  <2>. QED
    BY <2>1, <2>2, <2>3 DEF HostTypes
<1>3. \A h \in Hosts : HostFits(h)
  BY DEF HostFits, Idle, Outside, Closing, Collectives
<1>4. CommandFits
  BY DEF CommandFits, Idle, Outside, Closing, OnRun
<1>5. EndingFits /\ BrokenFits
  BY DEF EndingFits, BrokenFits, Closing, Joined
<1>6. InStep
  BY DEF InStep, Preparing, Closing, OnRun
<1>. QED
  BY <1>1, <1>2, <1>3, <1>4, <1>5, <1>6 DEF HostsInv, SetFits

LEMMA SetFitsStep ==
  ASSUME HostsInv, [Next]_vars
  PROVE  SetFits'
<1>1. CASE Callers \/ ParentDies \/ UNCHANGED vars
  BY <1>1, RestKeeps
<1>2. CASE Together
  BY <1>2, JoinKeeps, ShareHeaderKeeps, ShareChunkKeeps, AgreeKeeps, GatherOutcomesKeeps
     DEF Together
<1>3. ASSUME NEW h \in Hosts, Launch(h) \/ Alone(h) \/ Dies(h) \/ ServiceStops(h)
      PROVE  SetFits'
  BY <1>3, LaunchKeeps, TakeLockKeeps, ReceiveKeeps, PricePhaseKeeps, DeathsKeep DEF Alone
<1>4. CASE PrimaryStep
  <2>1. CASE CloseRow \/ FailUnstored
    BY <2>1, BackToLoopKeeps DEF CloseRow, FailUnstored, Closing
  <2>2. CASE PutBack \/ TakeOver \/ Look \/ ClaimNext \/ LookAtFlag \/ StoreFails
    BY <2>2, PutBackKeeps, TakeOverKeeps, LookKeeps, ClaimNextKeeps, LookAtFlagKeeps, StoreFailsKeeps
  <2>. QED
    BY <1>4, <2>1, <2>2 DEF PrimaryStep
<1>. QED
  BY <1>1, <1>2, <1>3, <1>4 DEF Next

LEMMA HostsInvStep == HostsInv /\ [Next]_vars => HostsInv'
<1> SUFFICES ASSUME HostsInv, [Next]_vars PROVE HostsInv'
  OBVIOUS
<1>1. [QueueNext]_queueVars
  BY UsesQueue
<1>2. QueueInv'
  BY <1>1, QueueInvStep DEF HostsInv
<1>3. RowsHaveBodies'
  <2>1. CASE QueueNext
    BY <2>1, BodiesStep DEF HostsInv, QueueInv
  <2>2. CASE UNCHANGED queueVars
    BY <2>2 DEF HostsInv, RowsHaveBodies, queueVars
  <2>. QED
    BY <1>1, <2>1, <2>2
<1>. QED
  BY <1>2, <1>3, SetFitsStep DEF HostsInv

\* What holds of a whole set is what it promises.
LEMMA InStepIsStep == HostsInv => HostsKeepStep
<1> SUFFICES ASSUME HostsInv, ~broken, NEW g \in Hosts, NEW h \in Hosts
             PROVE  /\ Waiting(g) /\ Waiting(h) =>
                         /\ place[g] = place[h]
                         /\ phase[g] = phase[h] /\ job[g] = job[h] /\ message[g] = message[h]
                         /\ place[h] = "agreeing" => job[h] = command.run
                    /\ place[h] = "pricing" => job[h] = command.run
  BY DEF HostsKeepStep
<1> USE InvParts, HostsFacts
<1>1. place[Primary] \in Places /\ place[g] \in Places /\ place[h] \in Places
  BY DEF HostTypes
<1>2. HostFits(g) /\ HostFits(h)
  OBVIOUS
<1>3. CASE place[Primary] \in Outside
  <2>1. \A k \in Hosts : ~Joined(k)
    BY <1>3 DEF BrokenFits, Joined, Outside
  <2>2. place[g] \in Outside /\ place[h] \in Outside
    BY <2>1 DEF Joined, Outside
  <2>. QED
    BY <1>2, <2>2 DEF Waiting, Collectives, HostFits, Idle, Outside
<1>4. CASE place[Primary] \in Preparing \cup Closing
  <2>1. \A k \in Followers : place[k] \in {"looking", "sharing"}
    BY <1>4 DEF InStep
  <2>2. \A k \in Hosts : Waiting(k) => place[k] = "sharing"
    BY <1>4, <2>1 DEF Waiting, Collectives, Preparing, Closing
  <2>3. place[h] # "pricing"
    BY <1>4, <2>1 DEF Preparing, Closing
  <2>. QED
    BY <1>2, <2>2, <2>3 DEF HostFits
<1>5. CASE place[Primary] = "chunks"
  <2>1. place[g] = "chunks" /\ place[h] = "chunks" /\ message[g] = message[h]
    BY <1>5 DEF InStep
  <2>. QED
    BY <1>2, <2>1 DEF HostFits
<1>6. CASE place[Primary] \in OnRun
  <2>1. /\ place[g] \in OnRun /\ place[h] \in OnRun /\ job[g] = command.run /\ job[h] = command.run
        /\ message[g] = message[h] /\ Abreast(g, h) /\ Abreast(h, g)
    BY <1>6 DEF InStep
  <2>. QED
    BY <2>1 DEF Abreast, OnRun, Waiting, Collectives
<1>. QED
  BY <1>1, <1>3, <1>4, <1>5, <1>6 DEF Places, Collectives, Outside, Preparing, Closing, OnRun

----------------------------------------------------------------------------
(* The hosts as one worker: the state of the set module EngineWorker sees. *)

SetParent == parentAlive /\ ~Stopping
SetPurge  == IF Stopping THEN 0 ELSE nextPurge
SetFaults == IF broken /\ Joined(Primary) /\ ~Stopping THEN faults - 1 ELSE faults

\* The instance reads and writes the one queue.
LEMMA SameReads ==
  /\ TheSet!RunIds = RunIds /\ TheSet!PENDING = PENDING /\ TheSet!RUNNING = RUNNING
  /\ TheSet!InStatus(PENDING) = InStatus(PENDING)
  /\ TheSet!queueVars = queueVars
  /\ TheSet!NotEnded = NotEnded /\ TheSet!INFRASTRUCTURE = INFRASTRUCTURE
  /\ TheSet!DONE = DONE /\ TheSet!FAILED = FAILED /\ TheSet!CANCELLED = CANCELLED
BY DEF TheSet!RunIds, RunIds, TheSet!InStatus, InStatus, TheSet!queueVars, queueVars,
   TheSet!NotEnded, NotEnded, TheSet!PENDING, PENDING, TheSet!RUNNING, RUNNING,
   TheSet!INFRASTRUCTURE, INFRASTRUCTURE, TheSet!DONE, DONE, TheSet!FAILED, FAILED,
   TheSet!CANCELLED, CANCELLED

LEMMA SameCallers ==
  ASSUME ClientStep \/ Tick
  PROVE  TheSet!ClientStep \/ TheSet!Tick
<1>1. Tick => TheSet!Tick
  BY DEF Tick, TheSet!Tick
<1>2. ClientStep => TheSet!ClientStep
  BY DEF ClientStep, TheSet!ClientStep, Submit, TheSet!Submit, Cancel, TheSet!Cancel,
     KeyTaken, TheSet!KeyTaken, NoRow, TheSet!NoRow, RunIds, TheSet!RunIds,
     ABSENT, TheSet!ABSENT, PENDING, TheSet!PENDING, RUNNING, TheSet!RUNNING,
     CANCELLED, TheSet!CANCELLED
<1>. QED
  BY <1>1, <1>2

LEMMA SameTakeovers ==
  /\ Requeue => TheSet!Requeue
  /\ Interrupt => TheSet!Interrupt
  /\ Purge(now - KeepFor) => TheSet!Purge(now - KeepFor)
<1> USE DEF RunIds, TheSet!RunIds, PENDING, TheSet!PENDING, RUNNING, TheSet!RUNNING,
            CANCELLED, TheSet!CANCELLED, INTERRUPTED, TheSet!INTERRUPTED
<1>1. Requeue => TheSet!Requeue
  BY DEF Requeue, TheSet!Requeue, MAX_ATTEMPTS, TheSet!MAX_ATTEMPTS
<1>2. Interrupt => TheSet!Interrupt
  BY DEF Interrupt, TheSet!Interrupt
<1>3. Purge(now - KeepFor) => TheSet!Purge(now - KeepFor)
  BY DEF Purge, TheSet!Purge, Purgeable, TheSet!Purgeable, TERMINAL, TheSet!TERMINAL,
     DONE, TheSet!DONE, FAILED, TheSet!FAILED, NoRow, TheSet!NoRow, ABSENT, TheSet!ABSENT
<1>. QED
  BY <1>1, <1>2, <1>3

LEMMA SameCloses ==
  ASSUME NEW i
  PROVE  /\ CancelRunning(i) => TheSet!CancelRunning(i)
         /\ \A class : Fail(i, class) => TheSet!Fail(i, class)
         /\ \A parts : Finish(i, parts) => TheSet!Finish(i, parts)
         /\ \A w : Claim(w, i) => TheSet!Claim(w, i)
<1> USE DEF PENDING, TheSet!PENDING, RUNNING, TheSet!RUNNING, DONE, TheSet!DONE,
            FAILED, TheSet!FAILED, CANCELLED, TheSet!CANCELLED
<1>1. \A status, result, class : CloseRunning(i, status, result, class)
        => TheSet!CloseRunning(i, status, result, class)
  BY DEF CloseRunning, TheSet!CloseRunning
<1>2. \A w : Claim(w, i) => TheSet!Claim(w, i)
  BY DEF Claim, TheSet!Claim, OldestPending, TheSet!OldestPending, InStatus, TheSet!InStatus,
     RunIds, TheSet!RunIds
<1>. QED
  BY <1>1, <1>2 DEF CancelRunning, TheSet!CancelRunning, Fail, TheSet!Fail, Finish, TheSet!Finish

\* A function of one worker, and what EXCEPT makes of it.
LEMMA OneWorker ==
  /\ \A x, y : [ByItself(x) EXCEPT ![Self] = y] = ByItself(y)
  /\ \A x : ByItself(x)[Self] = x
BY SelfWorks DEF ByItself

LEMMA OneLockHolder ==
  /\ Self # None
  /\ \A x, y : [[l \in {"lock"} |-> x] EXCEPT !["lock"] = y] = [l \in {"lock"} |-> y]
BY SelfWorks, NoneAssumption

LEMMA SetStutters ==
  ASSUME UNCHANGED <<queueVars, SetAt, command.run, phase[Primary], SetEnding,
                     SetParent, SetPurge, SetFaults>>
  PROVE  UNCHANGED TheSet!vars
BY DEF TheSet!vars, queueVars, SetParent, SetPurge, SetFaults, ByItself

\* What the set's state must do for the set to take each step of a worker.
LEMMA StartsAsSet ==
  ASSUME SetAt = "off", SetAt' = "locking", SetParent',
         UNCHANGED <<queueVars, command.run, phase[Primary], SetEnding, SetPurge, SetFaults>>
  PROVE  TheSet!Start(Self)
<1> USE OneWorker, SelfWorks DEF ByItself
<1>1. ByItself(SetAt)[Self] = "off" /\ ByItself("lock")[Self] = "lock"
  OBVIOUS
<1>2. [ByItself(SetAt) EXCEPT ![Self] = "locking"] = ByItself(SetAt)'
  OBVIOUS
<1>3. [ByItself(SetParent) EXCEPT ![Self] = TRUE] = ByItself(SetParent)'
  OBVIOUS
<1>. QED
  BY <1>1, <1>2, <1>3 DEF TheSet!Start, TheSet!Go, TheSet!queueVars, queueVars, SetParent, SetPurge, SetFaults

LEMMA AcquiresAsSet ==
  ASSUME SetAt = "locking", SetAt' = "opening",
         UNCHANGED <<queueVars, command.run, phase[Primary], SetEnding, SetParent, SetPurge, SetFaults>>
  PROVE  TheSet!Acquire(Self)
<1> USE OneWorker, SelfWorks DEF ByItself
<1>1. ByItself(SetAt)[Self] = "locking" /\ ByItself("lock")[Self] = "lock"
  OBVIOUS
<1>2. [ByItself(SetAt) EXCEPT ![Self] = "opening"] = ByItself(SetAt)'
  OBVIOUS
<1>. QED
  BY <1>1, <1>2, OneLockHolder
     DEF TheSet!Acquire, TheSet!Go, TheSet!queueVars, queueVars, SetParent, SetPurge, SetFaults

LEMMA TakesOverAsSet ==
  ASSUME \/ SetAt = "opening" /\ SetAt' = "putback" /\ Requeue
         \/ SetAt = "putback" /\ SetAt' = "looking" /\ Interrupt,
         UNCHANGED <<command.run, phase[Primary], SetEnding, SetParent, SetPurge, SetFaults>>
  PROVE  TheSet!PutBack(Self) \/ TheSet!TakeOver(Self)
<1> USE OneWorker, SelfWorks DEF ByItself
<1>1. ByItself(SetAt)[Self] = SetAt /\ HostCount > 1
  BY HostsAssumption
<1>2. [ByItself(SetAt) EXCEPT ![Self] = SetAt'] = ByItself(SetAt)'
  OBVIOUS
<1>. QED
  BY <1>1, <1>2, SameTakeovers
     DEF TheSet!PutBack, TheSet!TakeOver, TheSet!Go, SetParent, SetPurge, SetFaults

LEMMA LooksAsSet ==
  ASSUME SetAt = "looking", SetAt' = "claiming", SetParent,
         \/ now >= SetPurge /\ Purge(now - KeepFor) /\ SetPurge' = now + PurgeInterval
         \/ now < SetPurge /\ UNCHANGED <<queueVars, SetPurge>>,
         UNCHANGED <<command.run, phase[Primary], SetEnding, SetParent, SetFaults>>
  PROVE  TheSet!Look(Self)
<1> USE OneWorker, SelfWorks DEF ByItself
<1>1. /\ ByItself(SetAt)[Self] = "looking" /\ ByItself(SetParent)[Self] = SetParent
      /\ ByItself(SetPurge)[Self] = SetPurge
  OBVIOUS
<1>2. [ByItself(SetAt) EXCEPT ![Self] = "claiming"] = ByItself(SetAt)'
  OBVIOUS
<1>3. [ByItself(SetPurge) EXCEPT ![Self] = now + PurgeInterval] = ByItself(now + PurgeInterval)
  OBVIOUS
<1>. QED
  BY <1>1, <1>2, <1>3, SameTakeovers
     DEF TheSet!Look, TheSet!Go, TheSet!queueVars, queueVars, SetParent, SetPurge, SetFaults

\* Every way the set goes: as an orphan, with the queue drained, or killed.
LEMMA LeavesAsSet ==
  ASSUME SetAt # "off", SetAt' = "off", command'.run = 0, phase'[Primary] = 0,
         SetEnding' = NotEnded, ~SetParent', SetPurge' = 0, UNCHANGED queueVars,
         SetFaults \in Int,
         \/ SetAt = "looking" /\ ~SetParent /\ UNCHANGED SetFaults
         \/ SetAt = "claiming" /\ Drain /\ InStatus(PENDING) = {} /\ UNCHANGED SetFaults
         \/ SetFaults < MaxFaults /\ SetFaults' = SetFaults + 1
  PROVE  TheSet!StopOrphan(Self) \/ TheSet!StopDrained(Self) \/ TheSet!Kill(Self)
<1> USE OneWorker, SelfWorks DEF ByItself
<1>1. ByItself(SetAt)[Self] = SetAt /\ ByItself(SetParent)[Self] = SetParent
  OBVIOUS
<1>2. TheSet!Exit(Self)
  <2>1. [ByItself(SetAt) EXCEPT ![Self] = "off"] = ByItself(SetAt)'
    OBVIOUS
  <2>2. [ByItself(SetParent) EXCEPT ![Self] = FALSE] = ByItself(SetParent)'
    OBVIOUS
  <2>3. /\ [ByItself(command.run) EXCEPT ![Self] = 0] = ByItself(command.run)'
        /\ [ByItself(phase[Primary]) EXCEPT ![Self] = 0] = ByItself(phase[Primary])'
        /\ [ByItself(SetEnding) EXCEPT ![Self] = NotEnded] = ByItself(SetEnding)'
        /\ [ByItself(SetPurge) EXCEPT ![Self] = 0] = ByItself(SetPurge)'
    OBVIOUS
  <2>. QED
    BY <2>1, <2>2, <2>3, OneLockHolder
       DEF TheSet!Exit, TheSet!Go, TheSet!NotEnded, NotEnded, TheSet!RUNNING, RUNNING, SetParent, SetPurge
<1>3. UNCHANGED TheSet!queueVars
  BY DEF TheSet!queueVars, queueVars
<1>4. CASE SetAt = "looking" /\ ~SetParent /\ UNCHANGED SetFaults
  BY <1>1, <1>2, <1>3, <1>4 DEF TheSet!StopOrphan, SetParent, SetFaults
<1>5. CASE SetAt = "claiming" /\ Drain /\ InStatus(PENDING) = {} /\ UNCHANGED SetFaults
  BY <1>1, <1>2, <1>3, <1>5, SameReads DEF TheSet!StopDrained, SetFaults
<1>6. CASE SetFaults < MaxFaults /\ SetFaults' = SetFaults + 1
  BY <1>1, <1>2, <1>3, <1>6 DEF TheSet!Kill, SetFaults
<1>. QED
  BY <1>4, <1>5, <1>6

LEMMA ClaimsAsSet ==
  ASSUME SetAt = "claiming", SetAt' = "boundary", phase[Primary] = 0,
         NEW i \in RunIds, Claim(Self, i), command'.run = i,
         UNCHANGED <<phase[Primary], SetEnding, SetParent, SetPurge, SetFaults>>
  PROVE  TheSet!ClaimNext(Self)
<1> USE OneWorker, SelfWorks DEF ByItself
<1>1. ByItself(SetAt)[Self] = "claiming" /\ TheSet!Claim(Self, i) /\ i \in TheSet!RunIds
  BY SameCloses, SameReads
<1>2. [ByItself(SetAt) EXCEPT ![Self] = "boundary"] = ByItself(SetAt)'
  OBVIOUS
<1>3. /\ [ByItself(command.run) EXCEPT ![Self] = i] = ByItself(command.run)'
      /\ [ByItself(phase[Primary]) EXCEPT ![Self] = 0] = ByItself(phase[Primary])'
  OBVIOUS
<1>. QED
  BY <1>1, <1>2, <1>3 DEF TheSet!ClaimNext, TheSet!Go, SetParent, SetPurge, SetFaults

LEMMA IdlesAsSet ==
  ASSUME SetAt = "claiming", SetAt' = "looking", ~Drain, InStatus(PENDING) = {},
         UNCHANGED <<queueVars, command.run, phase[Primary], SetEnding, SetParent, SetPurge, SetFaults>>
  PROVE  TheSet!Idle(Self)
<1> USE OneWorker, SelfWorks DEF ByItself
<1>1. ByItself(SetAt)[Self] = "claiming"
  OBVIOUS
<1>2. [ByItself(SetAt) EXCEPT ![Self] = "looking"] = ByItself(SetAt)'
  OBVIOUS
<1>. QED
  BY <1>1, <1>2, SameReads
     DEF TheSet!Idle, TheSet!Go, TheSet!queueVars, queueVars, SetParent, SetPurge, SetFaults

LEMMA BoundaryAsSet ==
  ASSUME SetAt = "boundary", SetEnding = NotEnded,
         IF jobs[command.run].cancel_requested
         THEN SetAt' = "closing" /\ SetEnding' = [NotEnded EXCEPT !.status = CANCELLED]
         ELSE SetAt' = "pricing" /\ UNCHANGED SetEnding,
         UNCHANGED <<queueVars, command.run, phase[Primary], SetParent, SetPurge, SetFaults>>
  PROVE  TheSet!PhaseBoundary(Self)
<1> USE OneWorker, SelfWorks DEF ByItself
<1>1. ByItself(SetAt)[Self] = "boundary" /\ ByItself(command.run)[Self] = command.run
  OBVIOUS
<1>2. [ByItself(SetAt) EXCEPT ![Self] = SetAt'] = ByItself(SetAt)'
  OBVIOUS
<1>3. [ByItself(SetEnding) EXCEPT ![Self] = SetEnding'] = ByItself(SetEnding)'
  OBVIOUS
<1>. QED
  BY <1>1, <1>2, <1>3, SameReads
     DEF TheSet!PhaseBoundary, TheSet!End, TheSet!Go, TheSet!queueVars, queueVars,
         SetParent, SetPurge, SetFaults

\* A phase that does not end the run, and the end of the last or a failure.
LEMMA PricesAsSet ==
  ASSUME SetAt = "pricing",
         \/ /\ phase[Primary] < Boundaries /\ phase'[Primary] = phase[Primary] + 1
            /\ SetAt' = "boundary" /\ UNCHANGED SetEnding
         \/ /\ phase[Primary] = Boundaries /\ SetAt' = "closing" /\ UNCHANGED phase[Primary]
            /\ \E parts \in SUBSET Parts :
                 SetEnding' = [NotEnded EXCEPT !.status = DONE, !.parts = parts]
         \/ /\ SetAt' = "closing" /\ UNCHANGED phase[Primary]
            /\ \E class \in FailureClasses :
                 SetEnding' = [NotEnded EXCEPT !.status = FAILED, !.class = class],
         UNCHANGED <<queueVars, command.run, SetParent, SetPurge, SetFaults>>
  PROVE  TheSet!PricePhase(Self)
<1> USE OneWorker, SelfWorks DEF ByItself
<1>1. ByItself(SetAt)[Self] = "pricing" /\ ByItself(phase[Primary])[Self] = phase[Primary]
  OBVIOUS
<1>2. [ByItself(SetAt) EXCEPT ![Self] = SetAt'] = ByItself(SetAt)'
  OBVIOUS
<1>3. [ByItself(SetEnding) EXCEPT ![Self] = SetEnding'] = ByItself(SetEnding)'
  OBVIOUS
<1>4. [ByItself(phase[Primary]) EXCEPT ![Self] = phase'[Primary]] = ByItself(phase[Primary])'
  OBVIOUS
<1>5. /\ UNCHANGED TheSet!queueVars
      /\ UNCHANGED [l \in {"lock"} |-> IF SetAt \in {"off", "locking"} THEN None ELSE Self]
      /\ UNCHANGED <<ByItself(command.run), ByItself(SetParent), ByItself(SetPurge), SetFaults>>
  BY DEF TheSet!queueVars, queueVars
<1>6. CASE /\ phase[Primary] < Boundaries /\ phase'[Primary] = phase[Primary] + 1
           /\ SetAt' = "boundary" /\ UNCHANGED SetEnding
  BY <1>1, <1>2, <1>4, <1>5, <1>6
     DEF TheSet!PricePhase, TheSet!Go, SetParent, SetPurge, SetFaults
<1>7. CASE /\ phase[Primary] = Boundaries /\ SetAt' = "closing" /\ UNCHANGED phase[Primary]
           /\ \E parts \in SUBSET Parts :
                SetEnding' = [NotEnded EXCEPT !.status = DONE, !.parts = parts]
  BY <1>1, <1>2, <1>3, <1>5, <1>7, SameReads
     DEF TheSet!PricePhase, TheSet!End, TheSet!Go, SetParent, SetPurge, SetFaults
<1>8. CASE /\ SetAt' = "closing" /\ UNCHANGED phase[Primary]
           /\ \E class \in FailureClasses :
                SetEnding' = [NotEnded EXCEPT !.status = FAILED, !.class = class]
  <2>1. PICK class \in FailureClasses :
          SetEnding' = [NotEnded EXCEPT !.status = FAILED, !.class = class]
    BY <1>8
  <2>2. TheSet!End(Self, [NotEnded EXCEPT !.status = FAILED, !.class = class])
    BY <1>2, <1>3, <1>8, <2>1 DEF TheSet!End, TheSet!Go
  <2>3. UNCHANGED ByItself(phase[Primary])
    BY <1>8
  <2>. QED
    BY <1>1, <1>5, <2>2, <2>3, SameReads DEF TheSet!PricePhase, SetParent, SetPurge, SetFaults
<1>. QED
  BY <1>6, <1>7, <1>8

LEMMA UnstoredAsSet ==
  ASSUME SetAt = "closing", SetAt' = "unstored", SetEnding.status = DONE,
         UNCHANGED <<queueVars, command.run, phase[Primary], SetEnding, SetParent, SetPurge, SetFaults>>
  PROVE  TheSet!StoreFails(Self)
<1> USE OneWorker, SelfWorks DEF ByItself
<1>1. ByItself(SetAt)[Self] = "closing" /\ ByItself(SetEnding)[Self] = SetEnding
  OBVIOUS
<1>2. [ByItself(SetAt) EXCEPT ![Self] = "unstored"] = ByItself(SetAt)'
  OBVIOUS
<1>. QED
  BY <1>1, <1>2, SameReads
     DEF TheSet!StoreFails, TheSet!Go, TheSet!queueVars, queueVars, SetParent, SetPurge, SetFaults

LEMMA ClosesAsSet ==
  ASSUME \/ /\ SetAt = "closing"
            /\ \/ SetEnding.status = CANCELLED /\ CancelRunning(command.run)
               \/ SetEnding.status = FAILED /\ Fail(command.run, SetEnding.class)
               \/ SetEnding.status = DONE /\ Finish(command.run, SetEnding.parts)
         \/ SetAt = "unstored" /\ Fail(command.run, INFRASTRUCTURE),
         SetAt' = "looking", command'.run = 0, phase'[Primary] = 0, SetEnding' = NotEnded,
         UNCHANGED <<SetParent, SetPurge, SetFaults>>
  PROVE  TheSet!CloseRow(Self) \/ TheSet!FailUnstored(Self)
<1> USE OneWorker, SelfWorks DEF ByItself
<1>1. /\ ByItself(SetAt)[Self] = SetAt /\ ByItself(SetEnding)[Self] = SetEnding
      /\ ByItself(command.run)[Self] = command.run
  OBVIOUS
<1>2. TheSet!BackToLoop(Self)
  <2>1. /\ [ByItself(SetAt) EXCEPT ![Self] = "looking"] = ByItself(SetAt)'
        /\ [ByItself(command.run) EXCEPT ![Self] = 0] = ByItself(command.run)'
        /\ [ByItself(phase[Primary]) EXCEPT ![Self] = 0] = ByItself(phase[Primary])'
        /\ [ByItself(SetEnding) EXCEPT ![Self] = NotEnded] = ByItself(SetEnding)'
    OBVIOUS
  <2>2. UNCHANGED [l \in {"lock"} |-> IF SetAt \in {"off", "locking"} THEN None ELSE Self]
    OBVIOUS
  <2>. QED
    BY <2>1, <2>2, SameReads DEF TheSet!BackToLoop, TheSet!Go, SetParent, SetPurge, SetFaults
<1>3. /\ CancelRunning(command.run) => TheSet!CancelRunning(command.run)
      /\ \A class : Fail(command.run, class) => TheSet!Fail(command.run, class)
      /\ \A parts : Finish(command.run, parts) => TheSet!Finish(command.run, parts)
  BY SameCloses
<1>4. CASE SetAt = "unstored" /\ Fail(command.run, INFRASTRUCTURE)
  BY <1>1, <1>2, <1>3, <1>4, SameReads DEF TheSet!FailUnstored
<1>5. CASE /\ SetAt = "closing"
           /\ \/ SetEnding.status = CANCELLED /\ CancelRunning(command.run)
              \/ SetEnding.status = FAILED /\ Fail(command.run, SetEnding.class)
              \/ SetEnding.status = DONE /\ Finish(command.run, SetEnding.parts)
  BY <1>1, <1>2, <1>3, <1>5, SameReads DEF TheSet!CloseRow
<1>. QED
  BY <1>4, <1>5

LEMMA OrphanedAsSet ==
  ASSUME SetParent, ~SetParent', SetFaults < MaxFaults, SetFaults' = SetFaults + 1,
         UNCHANGED <<queueVars, SetAt, command.run, phase[Primary], SetEnding, SetPurge>>
  PROVE  TheSet!ParentDies(Self)
<1> USE OneWorker, SelfWorks DEF ByItself
<1>1. ByItself(SetParent)[Self] = SetParent
  OBVIOUS
<1>2. [ByItself(SetParent) EXCEPT ![Self] = FALSE] = ByItself(SetParent)'
  OBVIOUS
<1>. QED
  BY <1>1, <1>2 DEF TheSet!ParentDies, TheSet!queueVars, queueVars, SetParent, SetPurge, SetFaults

LEMMA CallersAsSet ==
  ASSUME ClientStep \/ Tick,
         UNCHANGED <<SetAt, command.run, phase[Primary], SetEnding, SetParent, SetPurge, SetFaults>>
  PROVE  TheSet!Callers
<1>1. UNCHANGED TheSet!workerVars
  BY DEF TheSet!workerVars, SetParent, SetPurge, SetFaults, ByItself
<1>. QED
  BY <1>1, SameCallers DEF TheSet!Callers

----------------------------------------------------------------------------
(* Where the set is, from where its primary is.                            *)

SetPlace(p, kind, cancels, outcomeIs) ==
  IF p = "off" \/ kind = STOP THEN "off"
  ELSE CASE p \in {"joining", "opening"} -> "opening"
         [] p = "sharing" -> IF kind = JOB THEN "boundary" ELSE "looking"
         [] p = "chunks" -> "boundary"
         [] p = "agreeing" -> IF cancels THEN "closing" ELSE "pricing"
         [] p = "outcomes" -> IF outcomeIs = CANCELLED THEN "closing" ELSE "pricing"
         [] OTHER -> p

LEMMA SetPlaces ==
  ASSUME NEW p, NEW kind, NEW cancels \in BOOLEAN, NEW o
  PROVE  LET at == SetPlace(p, kind, cancels, o) IN
         /\ p = "off" \/ kind = STOP => at = "off"
         /\ kind # STOP =>
              /\ p \in {"locking", "putback", "looking", "claiming", "boundary", "pricing",
                        "closing", "unstored"} => at = p
              /\ p \in {"joining", "opening"} => at = "opening"
              /\ p = "sharing" => at = IF kind = JOB THEN "boundary" ELSE "looking"
              /\ p = "chunks" => at = "boundary"
              /\ p = "agreeing" => at = IF cancels THEN "closing" ELSE "pricing"
              /\ p = "outcomes" => at = IF o = CANCELLED THEN "closing" ELSE "pricing"
BY DEF SetPlace

LEMMA SetAtPlace ==
  /\ SetAt = SetPlace(place[Primary], command.kind, flag, outcome[Primary])
  /\ SetAt' = SetPlace(place'[Primary], command'.kind, flag', outcome'[Primary])
BY DEF SetAt, SetPlace, Stopping

\* Once the primary has decided to stop, or has not started, the set is off.
LEMMA StoppingIs ==
  ASSUME HostsInv
  PROVE  /\ Stopping <=> place[Primary] = "off" \/ command.kind = STOP
         /\ Stopping <=> SetAt = "off"
         /\ Stopping => /\ place[Primary] \in {"off", "sharing"}
                        /\ command.run = 0 /\ phase[Primary] = 0 /\ SetEnding = NotEnded
                        /\ ~SetParent /\ SetPurge = 0 /\ SetFaults = faults
         /\ ~Stopping => SetParent = parentAlive /\ SetPurge = nextPurge
         /\ SetFaults \in Int /\ SetFaults <= MaxFaults /\ faults \in Int
         /\ broken /\ Joined(Primary) /\ ~Stopping => SetFaults < MaxFaults
<1> USE InvParts, HostsFacts
<1>1. Stopping <=> place[Primary] = "off" \/ command.kind = STOP
  BY DEF Stopping
<1>2. flag \in BOOLEAN /\ place[Primary] \in Places /\ parentAlive \in BOOLEAN
  BY DEF HostTypes
<1>3. Stopping <=> SetAt = "off"
  <2>1. Stopping => SetAt = "off"
    BY <1>1, <1>2, SetAtPlace, SetPlaces
  <2>2. ~Stopping => SetAt # "off"
    BY <1>1, <1>2, SetAtPlace, SetPlaces DEF Places, Collectives
  <2>. QED
    BY <2>1, <2>2
<1>4. Stopping => place[Primary] \in {"off", "sharing"} /\ command.run = 0 /\ phase[Primary] = 0
                  /\ ending = NotEnded
  BY <1>1, <1>2 DEF CommandFits, EndingFits, HostFits, Idle, Outside, Closing, OnRun, Places,
                    Collectives, Nothing, JOB, STOP, IDLE
<1>5. faults \in 0 .. MaxFaults /\ MaxFaults \in Nat
  BY Constants DEF HostTypes
<1>6. /\ SetFaults \in Int /\ SetFaults <= MaxFaults /\ faults \in Int
      /\ broken /\ Joined(Primary) /\ ~Stopping => SetFaults < MaxFaults
  BY <1>5 DEF SetFaults
<1>7. Stopping => SetEnding = NotEnded
  BY <1>3, <1>4 DEF SetEnding
<1>8. Stopping => ~SetParent /\ SetPurge = 0 /\ SetFaults = faults
  BY DEF SetParent, SetPurge, SetFaults
<1>9. ~Stopping => SetParent = parentAlive /\ SetPurge = nextPurge
  BY <1>2 DEF SetParent, SetPurge
<1>. QED
  BY <1>1, <1>3, <1>4, <1>6, <1>7, <1>8, <1>9

\* The set sees nothing of a step that leaves its primary where it is.
LEMMA SetRests ==
  ASSUME UNCHANGED <<queueVars, place[Primary], command, phase[Primary], flag, outcome[Primary],
                     ending, parentAlive, nextPurge>>, UNCHANGED SetFaults
  PROVE  UNCHANGED TheSet!vars
<1>1. UNCHANGED <<SetAt, Stopping>>
  BY SetAtPlace DEF Stopping
<1>2. UNCHANGED <<SetEnding, SetParent, SetPurge>>
  BY <1>1 DEF SetEnding, SetParent, SetPurge
<1>. QED
  BY <1>1, <1>2, SetStutters

----------------------------------------------------------------------------
(* Every step of the hosts is a step of the set, or none of its business.  *)

LEMMA FollowersRest ==
  ASSUME HostsInv, NEW h \in Followers, Launch(h) \/ Alone(h)
  PROVE  UNCHANGED TheSet!vars
<1> USE InvParts, HostsFacts
<1>1. /\ UNCHANGED <<queueVars, place[Primary], command, phase[Primary], flag, outcome[Primary],
                     ending, nextPurge, broken, faults>>
      /\ parentAlive' = parentAlive \/ parentAlive' = (parentAlive \/ h = Primary)
  BY DEF Launch, Alone, TakeLock, Receive, PricePhase, Ends, Go, HostTypes, runVars, heldVars,
         loopVars
<1>2. UNCHANGED parentAlive
  <2>1. parentAlive \in BOOLEAN /\ h # Primary
    BY DEF HostTypes
  <2>. QED
    BY <1>1, <2>1
<1>3. UNCHANGED SetFaults
  BY <1>1 DEF SetFaults, Joined, Stopping
<1>. QED
  BY <1>1, <1>2, <1>3, SetRests

LEMMA LaunchAsSet == ASSUME HostsInv, Launch(Primary) PROVE TheSet!Start(Self)
<1> USE InvParts, HostsFacts
<1>1. /\ place[Primary] = "off" /\ place'[Primary] = "locking" /\ command.kind = IDLE
      /\ nextPurge = 0
      /\ UNCHANGED <<queueVars, command, phase, flag, outcome, ending, nextPurge, broken, faults>>
  BY DEF Launch, Go, HostTypes, CommandFits, Idle, Outside, Nothing, runVars, heldVars
<1>2. parentAlive' /\ flag \in BOOLEAN
  BY DEF Launch, HostTypes
<1>3. SetAt = "off" /\ SetAt' = "locking"
  BY <1>1, <1>2, SetAtPlace, SetPlaces DEF IDLE, STOP
<1>4. Stopping /\ ~Stopping'
  BY <1>1 DEF Stopping, IDLE, STOP
<1>5. SetParent' /\ UNCHANGED <<SetEnding, SetPurge>>
  BY <1>1, <1>2, <1>3, <1>4 DEF SetParent, SetEnding, SetPurge
<1>6. UNCHANGED SetFaults
  BY <1>1, <1>4 DEF SetFaults, Joined
<1>. QED
  BY <1>1, <1>3, <1>5, <1>6, StartsAsSet

LEMMA TakeLockAsSet == ASSUME HostsInv, TakeLock(Primary) PROVE TheSet!Acquire(Self)
<1> USE InvParts, HostsFacts
<1>1. /\ place[Primary] = "locking" /\ place'[Primary] = "joining" /\ command.kind = IDLE
      /\ UNCHANGED <<queueVars, command, phase, flag, outcome, ending, parentAlive, nextPurge,
                     broken, faults>>
  BY DEF TakeLock, Go, HostTypes, CommandFits, Idle, Outside, Nothing, runVars, heldVars, loopVars
<1>2. flag \in BOOLEAN
  BY DEF HostTypes
<1>3. SetAt = "locking" /\ SetAt' = "opening"
  BY <1>1, <1>2, SetAtPlace, SetPlaces DEF IDLE, STOP
<1>4. UNCHANGED <<SetEnding, SetParent, SetPurge, SetFaults>>
  BY <1>1, <1>3 DEF SetParent, SetEnding, SetPurge, SetFaults, Joined, Stopping
<1>. QED
  BY <1>1, <1>3, <1>4, AcquiresAsSet

LEMMA JoinRests == ASSUME HostsInv, Join PROVE UNCHANGED TheSet!vars
<1> USE InvParts, HostsFacts
<1>1. /\ place[Primary] = "joining" /\ place'[Primary] = "opening" /\ command.kind = IDLE
      /\ UNCHANGED <<queueVars, command, phase, flag, outcome, ending, parentAlive, nextPurge,
                     broken, faults>>
  BY DEF Join, AllAt, HostTypes, CommandFits, Idle, Outside, Nothing, runVars, heldVars, loopVars
<1>2. ~broken /\ flag \in BOOLEAN
  BY DEF Join, AllAt, BrokenFits, Joined, HostTypes
<1>3. SetAt = "opening" /\ SetAt' = "opening"
  BY <1>1, <1>2, SetAtPlace, SetPlaces DEF IDLE, STOP
<1>4. UNCHANGED <<SetEnding, SetParent, SetPurge, SetFaults>>
  BY <1>1, <1>2, <1>3 DEF SetParent, SetEnding, SetPurge, SetFaults, Stopping
<1>. QED
  BY <1>1, <1>3, <1>4, SetStutters

LEMMA TakeOverAsSet ==
  ASSUME HostsInv, PutBack \/ TakeOver
  PROVE  TheSet!PutBack(Self) \/ TheSet!TakeOver(Self)
<1> USE InvParts, HostsFacts
<1>1. /\ \/ place[Primary] = "opening" /\ place'[Primary] = "putback" /\ Requeue
         \/ place[Primary] = "putback" /\ place'[Primary] = "looking" /\ Interrupt
      /\ command.kind = IDLE
      /\ UNCHANGED <<command, phase, flag, outcome, ending, parentAlive, nextPurge, broken, faults>>
  BY SMTT(30) DEF PutBack, TakeOver, Go, HostTypes, CommandFits, Idle, Nothing, runVars, heldVars, loopVars
<1>2. flag \in BOOLEAN
  BY DEF HostTypes
<1>3. SetAt = place[Primary] /\ SetAt' = place'[Primary]
  BY <1>1, <1>2, SetAtPlace, SetPlaces DEF IDLE, STOP
<1>4. UNCHANGED <<SetEnding, SetParent, SetPurge, SetFaults>>
  BY <1>1, <1>3 DEF SetParent, SetEnding, SetPurge, SetFaults, Joined, Stopping
<1>. QED
  BY <1>1, <1>3, <1>4, TakesOverAsSet

\* The set stops as an orphan; a broken one is seen as killed at that point.
LEMMA LookAsSet ==
  ASSUME HostsInv, Look
  PROVE  \/ TheSet!Look(Self)
         \/ TheSet!StopOrphan(Self) \/ TheSet!StopDrained(Self) \/ TheSet!Kill(Self)
<1> USE InvParts, HostsFacts
<1>1. /\ place[Primary] = "looking" /\ command = Nothing /\ command.kind = IDLE
      /\ phase[Primary] = 0 /\ ending = NotEnded
      /\ UNCHANGED <<phase, flag, outcome, ending, parentAlive, broken, faults>>
  BY DEF Look, HostFits, CommandFits, EndingFits, Idle, Outside, Closing, Nothing, runVars, heldVars
<1>2. flag \in BOOLEAN /\ ~Stopping
  BY <1>1 DEF HostTypes, Stopping, IDLE, STOP
<1>3. SetAt = "looking"
  BY <1>1, <1>2, SetAtPlace, SetPlaces DEF IDLE, STOP
<1>4. SetParent = parentAlive /\ SetPurge = nextPurge /\ Joined(Primary) /\ SetEnding = NotEnded
  BY <1>1, <1>2, <1>3, StoppingIs DEF Joined, SetEnding
<1>5. CASE ~parentAlive
  <2>1. /\ place'[Primary] = "sharing" /\ command' = [kind |-> STOP, run |-> 0]
        /\ UNCHANGED <<queueVars, nextPurge>>
    BY <1>1, <1>5 DEF Look, Share, Go, HostTypes
  <2>2. Stopping' /\ SetAt' = "off"
    BY <1>1, <1>2, <2>1, SetAtPlace, SetPlaces DEF Stopping
  <2>3. SetEnding' = NotEnded /\ ~SetParent' /\ SetPurge' = 0 /\ SetFaults' = faults
    BY <1>1, <2>2 DEF SetEnding, SetParent, SetPurge, SetFaults
  <2>4. \/ UNCHANGED SetFaults
        \/ SetFaults < MaxFaults /\ SetFaults' = SetFaults + 1
    BY <1>2, <1>4, <2>3, StoppingIs DEF SetFaults
  <2>5. command'.run = 0 /\ phase'[Primary] = 0
    BY <1>1, <2>1
  <2>. QED
    BY <1>3, <1>4, <1>5, <2>1, <2>2, <2>3, <2>4, <2>5, StoppingIs, LeavesAsSet
<1>6. CASE parentAlive
  <2>1. /\ place'[Primary] = "claiming" /\ UNCHANGED command
        /\ \/ now >= nextPurge /\ Purge(now - KeepFor) /\ nextPurge' = now + PurgeInterval
           \/ now < nextPurge /\ UNCHANGED <<queueVars, nextPurge>>
    BY <1>6 DEF Look, Go, HostTypes
  <2>2. SetAt' = "claiming" /\ ~Stopping'
    BY <1>1, <1>2, <2>1, SetAtPlace, SetPlaces DEF IDLE, STOP, Stopping
  <2>3. UNCHANGED <<SetEnding, SetParent, SetFaults>> /\ SetPurge' = nextPurge'
    BY <1>1, <1>2, <1>3, <2>1, <2>2 DEF SetEnding, SetParent, SetPurge, SetFaults, Joined
  <2>. QED
    BY <1>1, <1>3, <1>4, <1>6, <2>1, <2>2, <2>3, LooksAsSet
<1>. QED
  BY <1>5, <1>6

LEMMA ClaimNextAsSet ==
  ASSUME HostsInv, ClaimNext
  PROVE  \/ TheSet!ClaimNext(Self) \/ TheSet!Idle(Self)
         \/ TheSet!StopOrphan(Self) \/ TheSet!StopDrained(Self) \/ TheSet!Kill(Self)
<1> USE InvParts, HostsFacts
<1>1. /\ place[Primary] = "claiming" /\ place'[Primary] = "sharing"
      /\ command = Nothing /\ command.kind = IDLE /\ command.run = 0
      /\ phase[Primary] = 0 /\ ending = NotEnded
      /\ UNCHANGED <<phase, flag, outcome, ending, parentAlive, nextPurge, broken, faults>>
  BY DEF ClaimNext, Share, Go, HostTypes, HostFits, CommandFits, EndingFits, Idle, Outside,
         Closing, Nothing, runVars, loopVars
<1>2. flag \in BOOLEAN /\ ~Stopping
  BY <1>1 DEF HostTypes, Stopping, IDLE, STOP
<1>3. SetAt = "claiming" /\ SetEnding = NotEnded /\ Joined(Primary)
  BY <1>1, <1>2, SetAtPlace, SetPlaces DEF IDLE, STOP, SetEnding, Joined
<1>4. ASSUME command'.kind # STOP
      PROVE  UNCHANGED <<SetParent, SetPurge, SetFaults>> /\ ~Stopping'
  BY <1>1, <1>2, <1>4 DEF SetParent, SetPurge, SetFaults, Joined, Stopping
<1>5. ASSUME NEW i \in RunIds, Claim(Self, i), Share(JOB, i) PROVE TheSet!ClaimNext(Self)
  <2>1. command' = [kind |-> JOB, run |-> i]
    BY <1>5 DEF Share
  <2>2. command'.kind = JOB /\ command'.run = i /\ JOB # STOP
    BY <2>1 DEF JOB, STOP
  <2>3. SetAt' = "boundary"
    BY <1>1, <1>2, <2>2, SetAtPlace, SetPlaces
  <2>4. UNCHANGED SetEnding
    BY <1>1, <1>3, <2>3 DEF SetEnding
  <2>. QED
    BY <1>1, <1>3, <1>4, <1>5, <2>2, <2>3, <2>4, ClaimsAsSet
<1>6. CASE InStatus(PENDING) = {} /\ UNCHANGED queueVars /\ ~Drain /\ Share(IDLE, 0)
  <2>1. command'.kind = IDLE /\ command'.run = 0 /\ IDLE # STOP /\ IDLE # JOB
    BY <1>6 DEF Share, IDLE, STOP, JOB
  <2>2. SetAt' = "looking"
    BY <1>1, <1>2, <2>1, SetAtPlace, SetPlaces
  <2>3. UNCHANGED SetEnding
    BY <1>1, <1>3, <2>2 DEF SetEnding
  <2>. QED
    BY <1>1, <1>3, <1>4, <1>6, <2>1, <2>2, <2>3, IdlesAsSet
<1>7. CASE InStatus(PENDING) = {} /\ UNCHANGED queueVars /\ Drain /\ Share(STOP, 0)
  <2>1. command'.kind = STOP /\ command'.run = 0
    BY <1>7 DEF Share
  <2>2. Stopping' /\ SetAt' = "off"
    BY <1>1, <1>2, <2>1, SetAtPlace, SetPlaces DEF Stopping
  <2>3. SetEnding' = NotEnded /\ ~SetParent' /\ SetPurge' = 0 /\ SetFaults' = faults
    BY <1>1, <2>2 DEF SetEnding, SetParent, SetPurge, SetFaults
  <2>4. \/ UNCHANGED SetFaults
        \/ SetFaults < MaxFaults /\ SetFaults' = SetFaults + 1
    BY <1>2, <1>3, <2>3, StoppingIs DEF SetFaults
  <2>5. phase'[Primary] = 0
    BY <1>1
  <2>. QED
    BY <1>3, <1>7, <2>1, <2>2, <2>3, <2>4, <2>5, StoppingIs, LeavesAsSet
<1>. QED
  <2>1. Drain \in BOOLEAN
    BY HostsAssumption
  <2>. QED
    BY <1>5, <1>6, <1>7, <2>1 DEF ClaimNext

LEMMA ShareRests == ASSUME HostsInv, ShareHeader \/ ShareChunk PROVE UNCHANGED TheSet!vars
<1> USE InvParts, HostsFacts
<1>1. UNCHANGED <<queueVars, phase, flag, outcome, ending, broken, faults>>
  BY DEF ShareHeader, ShareChunk, runVars, heldVars, loopVars
<1>2. flag \in BOOLEAN /\ ending = NotEnded /\ place[Primary] \in {"sharing", "chunks"}
  BY DEF HostTypes, EndingFits, Closing, ShareHeader, ShareChunk, AllAt
<1>3. CASE ShareHeader /\ command.kind = STOP
  <2>1. Stopping /\ SetAt = "off" /\ command.run = 0
    BY <1>3, StoppingIs
  <2>2. place'[Primary] = "off" /\ command'.run = 0
    BY <1>3 DEF ShareHeader, Everywhere, Nothing
  <2>3. Stopping' /\ SetAt' = "off"
    BY <1>1, <1>2, <2>2, SetAtPlace, SetPlaces DEF Stopping
  <2>4. UNCHANGED <<SetEnding, SetParent, SetPurge, SetFaults>>
    BY <1>1, <2>1, <2>3 DEF SetEnding, SetParent, SetPurge, SetFaults
  <2>. QED
    BY <1>1, <2>1, <2>2, <2>3, <2>4, SetStutters
<1>4. CASE (ShareHeader /\ command.kind # STOP) \/ ShareChunk
  <2>1. /\ UNCHANGED <<command, parentAlive, nextPurge>>
        /\ \/ /\ place[Primary] = "sharing"
              /\ place'[Primary] = IF command.kind = IDLE THEN "looking" ELSE "chunks"
           \/ /\ place[Primary] = "chunks" /\ place'[Primary] \in {"chunks", "boundary"}
    BY <1>4 DEF ShareHeader, ShareChunk, Everywhere, AllAt, loopVars, HostTypes
  <2>2. command.kind \in {IDLE, JOB}
    BY <1>2, <1>4 DEF ShareChunk, AllAt, HostTypes, CommandFits
  <2>3. UNCHANGED SetAt /\ SetAt # "closing"
    BY <1>1, <1>2, <2>1, <2>2, SetAtPlace, SetPlaces DEF IDLE, JOB, STOP
  <2>4. ~Stopping /\ ~Stopping'
    BY <1>2, <2>1, <2>2 DEF Stopping, IDLE, JOB, STOP
  <2>5. UNCHANGED <<SetEnding, SetParent, SetPurge, SetFaults>>
    BY <1>1, <1>2, <2>1, <2>3, <2>4 DEF SetEnding, SetParent, SetPurge, SetFaults, Joined
  <2>. QED
    BY <1>1, <2>1, <2>3, <2>5, SetStutters
<1>. QED
  BY <1>3, <1>4

LEMMA ClassesAreNoStatus ==
  /\ \A class \in RequestClasses : class \in FailureClasses /\ class \notin {None, DONE, CANCELLED}
  /\ DONE # CANCELLED /\ INFRASTRUCTURE \in FailureClasses
<1>1. RequestClasses \subseteq FAILURE_CLASSES /\ None \notin FAILURE_CLASSES
  BY ClassesAssumption, NoneAssumption DEF RequestClasses
<1>2. DONE \notin FAILURE_CLASSES /\ CANCELLED \notin FAILURE_CLASSES /\ DONE # CANCELLED
  BY DEF DONE, CANCELLED, FAILURE_CLASSES, INFRASTRUCTURE
<1>. QED
  BY <1>1, <1>2, ClassesAssumption DEF RequestClasses

LEMMA LookAtFlagAsSet == ASSUME HostsInv, LookAtFlag PROVE TheSet!PhaseBoundary(Self)
<1> USE InvParts, HostsFacts
<1>1. /\ place[Primary] = "boundary" /\ place'[Primary] = "agreeing" /\ command.kind = JOB
      /\ ending = NotEnded /\ command.run \in RunIds
      /\ flag' = jobs[command.run].cancel_requested
      /\ UNCHANGED <<queueVars, command, phase, outcome, ending, parentAlive, nextPurge, broken,
                     faults>>
  BY DEF LookAtFlag, Go, HostTypes, CommandFits, EndingFits, OnRun, Closing, runVars, loopVars
<1>2. flag \in BOOLEAN /\ flag' \in BOOLEAN
  BY <1>1 DEF HostTypes, TypeOK, Row
<1>3. SetAt = "boundary" /\ SetAt' = IF flag' THEN "closing" ELSE "pricing"
  BY <1>1, <1>2, SetAtPlace, SetPlaces DEF JOB, STOP
<1>4. /\ SetEnding = NotEnded
      /\ SetEnding' = IF flag' THEN [NotEnded EXCEPT !.status = CANCELLED] ELSE NotEnded
  BY <1>1, <1>3 DEF SetEnding
<1>5. UNCHANGED <<SetParent, SetPurge, SetFaults>>
  BY <1>1 DEF SetParent, SetPurge, SetFaults, Joined, Stopping
<1>. QED
  BY <1>1, <1>3, <1>4, <1>5, BoundaryAsSet

LEMMA AgreeRests == ASSUME HostsInv, Agree PROVE UNCHANGED TheSet!vars
<1> USE InvParts, HostsFacts
<1>1. /\ place[Primary] = "agreeing" /\ command.kind = JOB
      /\ place'[Primary] = IF flag THEN "outcomes" ELSE "pricing"
      /\ outcome'[Primary] = IF flag THEN CANCELLED ELSE None
      /\ UNCHANGED <<queueVars, command, phase, flag, ending, parentAlive, nextPurge, broken, faults>>
  BY DEF Agree, AllAt, Everywhere, HostTypes, CommandFits, OnRun, heldVars, loopVars
<1>2. flag \in BOOLEAN
  BY DEF HostTypes
<1>3. UNCHANGED SetAt
  BY <1>1, <1>2, SetAtPlace, SetPlaces DEF JOB, STOP
<1>4. UNCHANGED <<SetEnding, SetParent, SetPurge, SetFaults>>
  BY <1>1, <1>3 DEF SetEnding, SetParent, SetPurge, SetFaults, Joined, Stopping
<1>. QED
  BY <1>1, <1>3, <1>4, SetStutters

\* The end of the primary's work waits for the others': the set sees it when
\* the outcomes are gathered.
LEMMA PriceAsSet ==
  ASSUME HostsInv, PricePhase(Primary)
  PROVE  TheSet!PricePhase(Self) \/ UNCHANGED TheSet!vars
<1> USE InvParts, HostsFacts
<1>1. /\ place[Primary] = "pricing" /\ command.kind = JOB /\ flag \in BOOLEAN
      /\ ending = NotEnded /\ phase[Primary] \in Int
      /\ UNCHANGED <<queueVars, command, flag, ending, parentAlive, nextPurge, broken, faults>>
  <2>1. phase[Primary] \in 0 .. Boundaries /\ Boundaries \in Nat
    BY Constants DEF HostTypes
  <2>. QED
    BY <2>1 DEF PricePhase, HostTypes, CommandFits, EndingFits, OnRun, Closing, heldVars, loopVars
<1>2. SetAt = "pricing" /\ SetEnding = NotEnded
  BY <1>1, SetAtPlace, SetPlaces DEF JOB, STOP, SetEnding
<1>3. ASSUME place'[Primary] \in {"boundary", "outcomes"}
      PROVE  UNCHANGED <<SetParent, SetPurge, SetFaults>>
  BY <1>1, <1>3 DEF SetParent, SetPurge, SetFaults, Joined, Stopping
<1>4. CASE /\ phase[Primary] < Boundaries
           /\ phase' = [phase EXCEPT ![Primary] = @ + 1]
           /\ Go(Primary, "boundary")
  <2>1. place'[Primary] = "boundary" /\ phase'[Primary] = phase[Primary] + 1
    BY <1>4 DEF Go, HostTypes
  <2>2. SetAt' = "boundary"
    BY <1>1, <2>1, SetAtPlace, SetPlaces DEF JOB, STOP
  <2>3. UNCHANGED SetEnding
    BY <1>1, <1>2, <2>2 DEF SetEnding
  <2>. QED
    BY <1>1, <1>2, <1>3, <1>4, <2>1, <2>2, <2>3, PricesAsSet
<1>5. ASSUME NEW o \in {DONE} \cup RequestClasses, Ends(Primary, o)
      PROVE  UNCHANGED TheSet!vars
  <2>1. place'[Primary] = "outcomes" /\ outcome'[Primary] = o /\ UNCHANGED phase
    BY <1>5 DEF Ends, Go, HostTypes
  <2>2. SetAt' = "pricing"
    BY <1>1, <2>1, SetAtPlace, SetPlaces, ClassesAreNoStatus DEF JOB, STOP
  <2>3. UNCHANGED SetEnding
    BY <1>1, <1>2, <2>2 DEF SetEnding
  <2>. QED
    BY <1>1, <1>2, <1>3, <2>1, <2>2, <2>3, SetStutters
<1>6. Doomed(Primary) => fate.class \in RequestClasses
  BY DEF Doomed, HostTypes, Fates, NoFate
<1>. QED
  BY <1>4, <1>5, <1>6 DEF PricePhase

LEMMA GatherAsSet ==
  ASSUME HostsInv, GatherOutcomes
  PROVE  TheSet!PricePhase(Self) \/ UNCHANGED TheSet!vars
<1> USE InvParts, HostsFacts
<1>1. /\ \A h \in Hosts : place[h] = "outcomes"
      /\ place'[Primary] = "closing" /\ command.kind = JOB /\ flag \in BOOLEAN
      /\ phase'[Primary] = phase[Primary] /\ ending = NotEnded /\ ending' \in Combined
      /\ UNCHANGED <<queueVars, command, flag, parentAlive, nextPurge, broken, faults>>
  BY DEF GatherOutcomes, AllAt, HostTypes, CommandFits, EndingFits, OnRun, Closing, loopVars
<1>2. ~broken
  BY <1>1 DEF BrokenFits, Joined
<1>3. /\ outcome[Primary] \in {DONE, CANCELLED} \cup RequestClasses
      /\ outcome[Primary] = DONE => phase[Primary] = Boundaries
  BY <1>1 DEF HostTypes, HostFits
<1>4. SetAt = (IF outcome[Primary] = CANCELLED THEN "closing" ELSE "pricing") /\ SetAt' = "closing"
  BY <1>1, SetAtPlace, SetPlaces DEF JOB, STOP
<1>5. SetEnding' = ending' /\ UNCHANGED <<SetParent, SetPurge, SetFaults>>
  BY <1>1 DEF SetEnding, SetParent, SetPurge, SetFaults, Joined, Stopping
<1>6. CASE outcome[Primary] = CANCELLED
  <2>1. \A h \in Hosts : outcome[h] = CANCELLED
    BY <1>1, <1>2, <1>6 DEF InStep, OnRun, Abreast
  <2>2. ending' = [NotEnded EXCEPT !.status = CANCELLED]
    BY <1>1, <1>6, <2>1, ClassesAreNoStatus DEF Combined
  <2>3. UNCHANGED <<SetAt, SetEnding>>
    BY <1>1, <1>4, <1>5, <1>6, <2>2 DEF SetEnding
  <2>. QED
    BY <1>1, <1>5, <2>3, SetStutters
<1>7. CASE outcome[Primary] # CANCELLED
  <2>1. \/ /\ phase[Primary] = Boundaries
           /\ \E parts \in SUBSET Parts :
                ending' = [NotEnded EXCEPT !.status = DONE, !.parts = parts]
        \/ \E class \in FailureClasses :
             ending' = [NotEnded EXCEPT !.status = FAILED, !.class = class]
    BY <1>1, <1>3, <1>7, ClassesAreNoStatus DEF Combined
  <2>. QED
    BY <1>1, <1>4, <1>5, <1>7, <2>1, PricesAsSet
<1>. QED
  BY <1>6, <1>7

LEMMA CloseAsSet ==
  ASSUME HostsInv, CloseRow \/ FailUnstored
  PROVE  TheSet!CloseRow(Self) \/ TheSet!FailUnstored(Self)
<1> USE InvParts, HostsFacts
<1>1. /\ place[Primary] \in {"closing", "unstored"} /\ place'[Primary] = "looking"
      /\ command.kind = JOB /\ flag \in BOOLEAN /\ flag' \in BOOLEAN /\ command' = Nothing
      /\ phase'[Primary] = 0 /\ ending' = NotEnded
      /\ UNCHANGED <<outcome, parentAlive, nextPurge, broken, faults>>
  BY DEF CloseRow, FailUnstored, BackToLoop, Go, HostTypes, CommandFits, Closing, loopVars
<1>2. command'.kind = IDLE /\ command'.run = 0 /\ IDLE # STOP /\ JOB # STOP
  BY <1>1 DEF Nothing, IDLE, JOB, STOP
<1>3. SetAt = place[Primary] /\ SetAt' = "looking"
  BY <1>1, <1>2, SetAtPlace, SetPlaces
<1>4. SetEnding' = NotEnded
  BY <1>1, <1>3 DEF SetEnding
<1>5. UNCHANGED <<SetParent, SetPurge, SetFaults>>
  BY <1>1, <1>2 DEF SetParent, SetPurge, SetFaults, Joined, Stopping
<1>6. CASE CloseRow
  <2>1. SetEnding = ending /\ place[Primary] = "closing"
    BY <1>3, <1>6 DEF SetEnding, CloseRow
  <2>. QED
    BY <1>1, <1>2, <1>3, <1>4, <1>5, <1>6, <2>1, ClosesAsSet DEF CloseRow
<1>7. CASE FailUnstored
  BY <1>1, <1>2, <1>3, <1>4, <1>5, <1>7, ClosesAsSet DEF FailUnstored
<1>. QED
  BY <1>6, <1>7

LEMMA StoreFailsAsSet == ASSUME HostsInv, StoreFails PROVE TheSet!StoreFails(Self)
<1> USE InvParts, HostsFacts
<1>1. /\ place[Primary] = "closing" /\ place'[Primary] = "unstored" /\ ending.status = DONE
      /\ command.kind = JOB /\ flag \in BOOLEAN
      /\ UNCHANGED <<queueVars, command, phase, flag, outcome, ending, parentAlive, nextPurge,
                     broken, faults>>
  BY DEF StoreFails, Go, HostTypes, CommandFits, Closing, runVars, heldVars, loopVars
<1>2. SetAt = "closing" /\ SetAt' = "unstored"
  BY <1>1, SetAtPlace, SetPlaces DEF JOB, STOP
<1>3. SetEnding = ending /\ SetEnding' = ending
  BY <1>1, <1>2 DEF SetEnding
<1>4. UNCHANGED <<SetParent, SetPurge, SetFaults>>
  BY <1>1 DEF SetParent, SetPurge, SetFaults, Joined, Stopping
<1>. QED
  BY <1>1, <1>2, <1>3, <1>4, UnstoredAsSet

\* The primary's death is the set's, once: whoever of the set dies first pays
\* for it, and a set that has decided to stop is not there to be killed.
LEMMA PrimaryDiesAsSet ==
  ASSUME HostsInv, Dies(Primary) \/ ServiceStops(Primary)
  PROVE  \/ TheSet!StopOrphan(Self) \/ TheSet!StopDrained(Self) \/ TheSet!Kill(Self)
         \/ UNCHANGED TheSet!vars
<1> USE InvParts, HostsFacts
<1>1. /\ place'[Primary] = "off" /\ command' = Nothing /\ command'.run = 0
      /\ phase'[Primary] = 0 /\ ending' = NotEnded /\ flag' \in BOOLEAN
      /\ UNCHANGED queueVars
  <2>1. Forget(Primary) /\ UNCHANGED queueVars
    BY DEF Dies, ServiceStops
  <2>2. command' = Nothing /\ flag' = FALSE /\ ending' = NotEnded
    BY <2>1, Zenon DEF Forget
  <2>3. place'[Primary] = "off" /\ phase'[Primary] = 0
    BY <2>1 DEF Forget, Go, HostTypes
  <2>. QED
    BY <2>1, <2>2, <2>3 DEF Nothing
<1>2. SetAt' = "off" /\ Stopping'
  BY <1>1, SetAtPlace, SetPlaces DEF Stopping
<1>3. SetEnding' = NotEnded /\ ~SetParent' /\ SetPurge' = 0 /\ SetFaults' = faults'
  BY <1>1, <1>2 DEF SetEnding, SetParent, SetPurge, SetFaults
<1>4. CASE Stopping
  <2>1. /\ SetAt = "off" /\ command.run = 0 /\ phase[Primary] = 0 /\ SetEnding = NotEnded
        /\ ~SetParent /\ SetPurge = 0 /\ SetFaults = faults
    BY <1>4, StoppingIs
  <2>2. faults' = faults
    BY <1>4 DEF Dies, ServiceStops
  <2>3. SetParent' = SetParent
    BY <1>3, <2>1 DEF SetParent
  <2>. QED
    BY <1>1, <1>2, <1>3, <2>1, <2>2, <2>3, SetStutters
<1>5. CASE ~Stopping
  <2>1. SetAt # "off" /\ SetFaults \in Int /\ faults \in Int /\ faults <= MaxFaults /\ MaxFaults \in Nat
    BY <1>5, StoppingIs, Constants DEF HostTypes
  <2>2. CASE Dies(Primary)
    <3>1. SetFaults = faults /\ faults < MaxFaults /\ faults' = faults + 1
      BY <1>5, <2>2 DEF Dies, SetFaults
    <3>. QED
      BY <1>1, <1>2, <1>3, <2>1, <3>1, LeavesAsSet
  <2>3. CASE ServiceStops(Primary)
    <3>1. SetFaults = faults - 1 /\ faults' = faults
      BY <1>5, <2>3 DEF ServiceStops, SetFaults
    <3>2. SetFaults < MaxFaults /\ SetFaults' = SetFaults + 1
      BY <1>3, <2>1, <3>1
    <3>. QED
      BY <1>1, <1>2, <1>3, <2>1, <3>2, LeavesAsSet
  <2>. QED
    BY <2>2, <2>3
<1>. QED
  BY <1>4, <1>5

\* A follower's death shows once it stops the primary.
LEMMA FollowerDiesRests ==
  ASSUME HostsInv, NEW h \in Followers, Dies(h) \/ ServiceStops(h)
  PROVE  UNCHANGED TheSet!vars
<1> USE InvParts, HostsFacts
<1>1. UNCHANGED <<queueVars, place[Primary], command, phase[Primary], flag, outcome[Primary],
                  ending, parentAlive, nextPurge>>
  BY DEF Dies, ServiceStops, Forget, Go, HostTypes, heldVars
<1>2. UNCHANGED <<Stopping, Joined(Primary)>>
  BY <1>1 DEF Stopping, Joined
<1>3. Joined(Primary) => broken'
  BY DEF Dies, ServiceStops, OthersJoined
<1>4. faults \in Int
  BY StoppingIs
<1>5. CASE Dies(h)
  <2>1. Joined(Primary) /\ ~broken
    BY <1>5 DEF Dies, BrokenFits
  <2>2. faults' = IF Stopping THEN faults ELSE faults + 1
    BY <1>5 DEF Dies
  <2>3. UNCHANGED SetFaults
    BY <1>2, <1>3, <1>4, <2>1, <2>2 DEF SetFaults
  <2>. QED
    BY <1>1, <2>3, SetRests
<1>6. CASE ServiceStops(h)
  <2>1. broken /\ UNCHANGED faults
    BY <1>6 DEF ServiceStops
  <2>2. UNCHANGED SetFaults
    BY <1>2, <1>3, <2>1 DEF SetFaults
  <2>. QED
    BY <1>1, <2>2, SetRests
<1>. QED
  BY <1>5, <1>6

LEMMA ParentDiesAsSet == ASSUME HostsInv, ParentDies PROVE TheSet!ParentDies(Self)
<1> USE InvParts, HostsFacts
<1>1. /\ parentAlive /\ ~parentAlive' /\ ~Stopping /\ faults < MaxFaults /\ faults' = faults + 1
      /\ UNCHANGED <<queueVars, place, command, phase, flag, outcome, ending, nextPurge, broken>>
  BY DEF ParentDies, runVars, heldVars
<1>2. UNCHANGED <<SetAt, Stopping>>
  BY <1>1, SetAtPlace DEF Stopping
<1>3. SetParent /\ ~SetParent' /\ UNCHANGED <<SetEnding, SetPurge>>
  BY <1>1, <1>2 DEF SetParent, SetEnding, SetPurge
<1>4. SetFaults < MaxFaults /\ SetFaults' = SetFaults + 1
  <2>1. faults \in Int /\ MaxFaults \in Nat
    BY StoppingIs, Constants
  <2>2. UNCHANGED Joined(Primary)
    BY <1>1 DEF Joined
  <2>. QED
    BY <1>1, <1>2, <2>1, <2>2 DEF SetFaults
<1>. QED
  BY <1>1, <1>2, <1>3, <1>4, OrphanedAsSet

LEMMA CallersAsCallers == ASSUME HostsInv, Callers PROVE TheSet!Callers
<1>1. UNCHANGED <<place, command, phase, flag, outcome, ending, parentAlive, nextPurge, broken, faults>>
  BY DEF Callers, runVars, heldVars, loopVars
<1>2. UNCHANGED <<SetAt, Stopping>>
  BY <1>1, SetAtPlace DEF Stopping
<1>3. UNCHANGED <<SetEnding, SetParent, SetPurge, SetFaults>>
  BY <1>1, <1>2 DEF SetEnding, SetParent, SetPurge, SetFaults, Joined
<1>. QED
  BY <1>1, <1>2, <1>3, CallersAsSet DEF Callers

LEMMA SetSteps ==
  ASSUME TheSet!Start(Self) \/ TheSet!Work(Self) \/ TheSet!Fault(Self)
  PROVE  TheSet!Next
<1>1. UNCHANGED ByItself("lock")
  BY DEF ByItself
<1>. QED
  BY <1>1, SelfWorks DEF TheSet!Next

LEMMA SetInit == Init => TheSet!Init
<1> SUFFICES ASSUME Init PROVE TheSet!Init
  OBVIOUS
<1> USE HostsFacts DEF Init, Everywhere
<1>1. HostsInv /\ Stopping
  BY HostsInvInit DEF Stopping
<1>2. /\ SetAt = "off" /\ command.run = 0 /\ phase[Primary] = 0 /\ SetEnding = NotEnded
      /\ SetParent = FALSE /\ SetPurge = 0 /\ SetFaults = 0
  <2>1. SetParent = FALSE
    BY <1>1 DEF SetParent
  <2>. QED
    BY <1>1, <2>1, StoppingIs
<1>3. TheSet!QueueInit
  BY DEF QueueInit, TheSet!QueueInit, RunIds, TheSet!RunIds, NoRow, TheSet!NoRow, ABSENT, TheSet!ABSENT
<1>. QED
  BY <1>2, <1>3, SameReads DEF TheSet!Init, ByItself, SetParent, SetPurge, SetFaults

LEMMA SetNext ==
  ASSUME HostsInv, [Next]_vars
  PROVE  [TheSet!Next]_(TheSet!vars)
<1>1. CASE UNCHANGED vars
  <2>1. UNCHANGED <<queueVars, place, command, phase, flag, outcome, ending, parentAlive, nextPurge,
                    broken, faults>>
    BY <1>1 DEF vars, queueVars
  <2>2. UNCHANGED SetFaults
    BY <2>1 DEF SetFaults, Joined, Stopping
  <2>. QED
    BY <2>1, <2>2, SetRests
<1>2. CASE Callers \/ ParentDies
  BY <1>2, CallersAsCallers, ParentDiesAsSet, SetSteps DEF TheSet!Next, TheSet!Fault
<1>3. CASE Together
  BY <1>3, JoinRests, ShareRests, AgreeRests, GatherAsSet, SetSteps DEF Together, TheSet!Work
<1>4. CASE PrimaryStep
  BY <1>4, TakeOverAsSet, LookAsSet, ClaimNextAsSet, LookAtFlagAsSet, CloseAsSet,
     StoreFailsAsSet, SetSteps DEF PrimaryStep, TheSet!Work, TheSet!Fault
<1>5. ASSUME NEW h \in Hosts, Launch(h) \/ Alone(h) \/ Dies(h) \/ ServiceStops(h)
      PROVE  TheSet!Next \/ UNCHANGED TheSet!vars
  <2>1. CASE h \in Followers
    BY <1>5, <2>1, FollowersRest, FollowerDiesRests
  <2>2. CASE h = Primary
    <3>1. ~Receive(Primary)
      BY DEF Receive, Followers
    <3>. QED
      BY <1>5, <2>2, <3>1, LaunchAsSet, TakeLockAsSet, PriceAsSet, PrimaryDiesAsSet, SetSteps
         DEF Alone, TheSet!Work, TheSet!Fault
  <2>. QED
    BY <2>1, <2>2, HostsFacts
<1>. QED
  BY <1>1, <1>2, <1>3, <1>4, <1>5 DEF Next

----------------------------------------------------------------------------
(* The theorems.                                                           *)

\* All the conjuncts of HostsInv hold, whichever hosts start, die and are
\* stopped, and whenever.
THEOREM HostsInvariant == Spec => []HostsInv
BY HostsInvInit, HostsInvStep, PTL DEF Spec

\* The set uses the queue as JobQueue says it may be used, so that whatever is
\* proved of QueueSpec holds of the queue with its set (serve, run_job).
THEOREM SetUsesQueue == Spec => QueueSpec
<1>1. Init => QueueInit
  BY DEF Init
<1>2. HostsInv /\ [Next]_vars => [QueueNext]_queueVars
  BY UsesQueue
<1>. QED
  BY <1>1, <1>2, HostsInvariant, PTL DEF Spec, QueueSpec

\* Hosts of a whole set that wait, wait in the same collective, at the same
\* boundary of the same run, with the same bytes of it (share, agree, outcomes).
THEOREM HostsStayInStep == Spec => []HostsKeepStep
BY InStepIsStep, HostsInvariant, PTL

\* The hosts together are the one worker module EngineWorker puts on the queue,
\* for any number of hosts and however many are lost (serve, run_job, hosts.py).
THEOREM HostsImplementSet == Spec => ImplementsSet
<1>1. Init => TheSet!Init
  BY SetInit
<1>2. HostsInv /\ [Next]_vars => [TheSet!Next]_(TheSet!vars)
  BY SetNext
<1>. QED
  BY <1>1, <1>2, HostsInvariant, PTL DEF Spec, ImplementsSet, TheSet!Spec

=============================================================================
