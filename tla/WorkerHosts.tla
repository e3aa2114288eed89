---------------------------- MODULE WorkerHosts ----------------------------
(***************************************************************************)
(* A worker set: one engine worker on every host of a pod slice, all       *)
(* running the same run at the same time (src/engine/api/hosts.py, and     *)
(* serve and run_job of src/engine/api/worker.py on each host).  Host 0,   *)
(* the primary, alone touches the queue; it hands each run to the others   *)
(* (share), decides for all of them whether a cancel stops it (agree) and  *)
(* learns how it ended on each (outcomes).  All three are collectives of   *)
(* JAX: a host in one waits until every host is in the same one.           *)
(*                                                                         *)
(* Seen from the queue the set is one worker, the one module EngineWorker  *)
(* calls a set: ImplementsSet.  The hosts' own locks are uncontended here. *)
(***************************************************************************)
EXTENDS JobQueue, Sequences

CONSTANTS
  HostCount,      \* hosts of the set (jax.process_count)
  Length,         \* the bytes of a run's message, by its request body
  CHUNK_BYTES,    \* the bytes of it broadcast at once
  Boundaries,     \* phase boundaries of a run after its "start"
  Drain,          \* whether the set exits once nothing is pending
  PurgeInterval,  \* PURGE_INTERVAL_SECONDS
  MaxFaults       \* bound: sets broken and parents lost

ASSUME HostsAssumption == /\ HostCount \in Nat /\ HostCount > 1
                          /\ Length \in [Bodies -> Nat \ {0}]
                          /\ CHUNK_BYTES \in Nat \ {0}
                          /\ Boundaries \in Nat
                          /\ Drain \in BOOLEAN
                          /\ PurgeInterval \in Nat \ {0}
                          /\ MaxFaults \in Nat
                          /\ \E w \in Workers : Workers = {w}
                          /\ None \notin TERMINAL

VARIABLES
  place,        \* where each host's process is
  command,      \* what the primary shares: the kind, and the run of a JOB
  message,      \* the bytes of the run's message each host has
  job,          \* the run each host is on, 0 when none
  phase,        \* the boundaries of it each host has passed
  flag,         \* the primary's last look at the cancel flag
  outcome,      \* how the run ended on each host: DONE, CANCELLED or a class
  fate,         \* how its request makes it fail on every host, if it does
  ending,       \* how the primary closes its row
  broken,       \* whether the set has lost a host and has others left
  parentAlive,  \* whether the primary's parent is running
  nextPurge,    \* the earliest time of the next purge
  faults        \* sets broken and parents lost so far

runVars  == <<message, job, phase, outcome>>
heldVars == <<flag, fate, ending>>
loopVars == <<parentAlive, nextPurge, faults>>
vars == <<jobs, artifacts, lastSeq, now, place, command, message, job, phase,
          flag, outcome, fate, ending, broken, parentAlive, nextPurge, faults>>

Hosts     == 0 .. HostCount - 1
Primary   == 0
Followers == Hosts \ {Primary}
Self      == CHOOSE w \in Workers : TRUE

IDLE == "IDLE"
JOB  == "JOB"
STOP == "STOP"
Nothing == [kind |-> IDLE, run |-> 0]

\* The collectives a host waits in.
Collectives == {"joining", "sharing", "chunks", "agreeing", "outcomes"}
\* ... and where else it may be; the last five are the primary's only.
Places == Collectives \cup {"off", "locking", "looking", "pricing",
                            "opening", "putback", "claiming", "boundary",
                            "closing", "unstored"}

RequestClasses == FailureClasses \ {INFRASTRUCTURE}
NoFate   == [phase |-> 0, class |-> None]
Fates    == {NoFate} \cup [phase : 0 .. Boundaries, class : RequestClasses]
NotEnded == [status |-> RUNNING, parts |-> {}, class |-> None]

\* One place per host, one request at a time, and no more faults than bound.
HostsTypeOK ==
  /\ TypeOK
  /\ place \in [Hosts -> Places]
  /\ command \in [kind : {IDLE, JOB, STOP}, run : RunIds \cup {0}]
  /\ \A h \in Hosts : \A k \in 1 .. Len(message[h]) :
       message[h][k] \in (RunIds \cup {0}) \X Nat
  /\ job \in [Hosts -> RunIds \cup {0}]
  /\ phase \in [Hosts -> 0 .. Boundaries]
  /\ flag \in BOOLEAN
  /\ outcome \in [Hosts -> {None, DONE, CANCELLED} \cup RequestClasses]
  /\ fate \in Fates
  /\ ending \in [status : {RUNNING, DONE, FAILED, CANCELLED},
                 parts  : SUBSET Parts,
                 class  : FailureClasses \cup {None}]
  /\ broken \in BOOLEAN
  /\ parentAlive \in BOOLEAN
  /\ nextPurge \in Nat
  /\ faults \in 0 .. MaxFaults

Everywhere(x) == [h \in Hosts |-> x]

Init == /\ QueueInit
        /\ place = Everywhere("off")
        /\ command = Nothing
        /\ message = Everywhere(<< >>)
        /\ job = Everywhere(0)
        /\ phase = Everywhere(0)
        /\ flag = FALSE
        /\ outcome = Everywhere(None)
        /\ fate = NoFate
        /\ ending = NotEnded
        /\ broken = FALSE
        /\ parentAlive = FALSE
        /\ nextPurge = 0
        /\ faults = 0

Go(h, p)  == place' = [place EXCEPT ![h] = p]
AllAt(p)  == \A h \in Hosts : place[h] = p

----------------------------------------------------------------------------
(* Starting, stopping and breaking the set.                                *)

\* Whoever runs the hosts starts a worker on one that has none.
Launch(h) ==
  /\ place[h] = "off"
  /\ Go(h, "locking")
  /\ parentAlive' = (parentAlive \/ h = Primary)
  /\ UNCHANGED <<queueVars, command, runVars, heldVars, broken, nextPurge, faults>>

TakeLock(h) ==
  /\ place[h] = "locking"
  /\ Go(h, "joining")
  /\ UNCHANGED <<queueVars, command, runVars, heldVars, broken, loopVars>>

\* jax.distributed.initialize returns once every host has called it.
Join ==
  /\ AllAt("joining")
  /\ place' = [h \in Hosts |-> IF h = Primary THEN "opening" ELSE "looking"]
  /\ UNCHANGED <<queueVars, command, runVars, heldVars, broken, loopVars>>

\* Host h's process is gone, with all it held; the primary's takes the
\* queue's side of the set with it.
Forget(h) ==
  /\ Go(h, "off")
  /\ message' = [message EXCEPT ![h] = << >>]
  /\ job' = [job EXCEPT ![h] = 0]
  /\ phase' = [phase EXCEPT ![h] = 0]
  /\ outcome' = [outcome EXCEPT ![h] = None]
  /\ IF h = Primary
     THEN /\ command' = Nothing /\ flag' = FALSE /\ fate' = NoFate
          /\ ending' = NotEnded /\ parentAlive' = FALSE /\ nextPurge' = 0
     ELSE UNCHANGED <<command, heldVars, parentAlive, nextPurge>>

Joined(h)  == place[h] \notin {"off", "locking", "joining"}
OthersJoined(h) == \E g \in Hosts \ {h} : Joined(g)
Stopping   == place[Primary] = "off" \/ command.kind = STOP
\* A host dies: killed, by a failure outside any run, or in a run by a
\* failure that may be its own (fail_stop, exit 4).  A follower that dies
\* before it joins is one launched later; the bound leaves alone a set that
\* has decided to stop.
Dies(h) ==
  /\ Joined(h) \/ (h = Primary /\ place[h] # "off")
  /\ ~broken /\ faults < MaxFaults
  /\ Forget(h)
  /\ broken' = OthersJoined(h)
  /\ faults' = IF Stopping THEN faults ELSE faults + 1
  /\ UNCHANGED queueVars

\* JAX's distributed service stops every other host of a set that lost one.
ServiceStops(h) ==
  /\ broken /\ Joined(h)
  /\ Forget(h)
  /\ broken' = OthersJoined(h)
  /\ UNCHANGED <<queueVars, faults>>

ParentDies ==
  /\ parentAlive /\ ~Stopping
  /\ faults < MaxFaults
  /\ faults' = faults + 1
  /\ parentAlive' = FALSE
  /\ UNCHANGED <<queueVars, place, command, runVars, heldVars, broken, nextPurge>>

----------------------------------------------------------------------------
(* The primary's side of the loop.                                         *)

PutBack ==
  /\ place[Primary] = "opening"
  /\ Requeue
  /\ Go(Primary, "putback")
  /\ UNCHANGED <<command, runVars, heldVars, broken, loopVars>>

\* Mutant: each restart of the set puts the run back, its attempts spent or not.
TakeOver_PutsBack ==
  /\ place[Primary] = "putback"
  /\ jobs' = [i \in RunIds |-> IF jobs[i].status = RUNNING
                               THEN [jobs[i] EXCEPT !.status = PENDING, !.worker = None]
                               ELSE jobs[i]]
  /\ Go(Primary, "looking")
  /\ UNCHANGED <<artifacts, lastSeq, now, command, runVars, heldVars, broken, loopVars>>

TakeOver ==
  /\ place[Primary] = "putback"
  /\ Interrupt
  /\ Go(Primary, "looking")
  /\ UNCHANGED <<command, runVars, heldVars, broken, loopVars>>

Share(kind, i) == /\ command' = [kind |-> kind, run |-> i]
                  /\ Go(Primary, "sharing")

\* The next command: STOP for an orphan, else a purge when due, then a claim.
Look ==
  /\ place[Primary] = "looking"
  /\ \/ /\ ~parentAlive
        /\ Share(STOP, 0)
        /\ UNCHANGED <<queueVars, nextPurge>>
     \/ /\ parentAlive /\ now >= nextPurge
        /\ Purge(now - KeepFor)
        /\ nextPurge' = now + PurgeInterval
        /\ Go(Primary, "claiming") /\ UNCHANGED command
     \/ /\ parentAlive /\ now < nextPurge
        /\ Go(Primary, "claiming")
        /\ UNCHANGED <<queueVars, nextPurge, command>>
  /\ UNCHANGED <<runVars, heldVars, broken, parentAlive, faults>>

\* How the request fails, if it does, is the request's: the same on every host.
ClaimNext ==
  /\ place[Primary] = "claiming"
  /\ \/ /\ \E i \in RunIds : Claim(Self, i) /\ Share(JOB, i)
        /\ fate' \in Fates
     \/ /\ InStatus(PENDING) = {}
        /\ Share(IF Drain THEN STOP ELSE IDLE, 0)
        /\ UNCHANGED <<queueVars, fate>>
  /\ UNCHANGED <<runVars, flag, ending, broken, loopVars>>

\* A follower is back at the top of its loop: it calls share.
Receive(h) ==
  /\ h \in Followers /\ place[h] = "looking"
  /\ Go(h, "sharing")
  /\ UNCHANGED <<queueVars, command, runVars, heldVars, broken, loopVars>>

----------------------------------------------------------------------------
(* share: a header, then the run's message in chunks of one shape.         *)

\* The message _encode makes of a run: byte k of run i.
Message(i) == [k \in 1 .. Length[jobs[i].request] |-> <<i, k>>]
Zero == <<0, 0>>

\* The chunk broadcast from byte `start` on, zeros after the message's end.
Chunk(m, start) ==
  [k \in 1 .. CHUNK_BYTES |-> IF start + k <= Len(m) THEN m[start + k] ELSE Zero]

\* Mutant: keeps the zeros of a last short chunk.
Cut_Nothing(chunk, left) == chunk

\* What of it belongs to a message with `left` bytes to come.
Cut(chunk, left) == SubSeq(chunk, 1, IF left < CHUNK_BYTES THEN left ELSE CHUNK_BYTES)

\* _decode: the run whose message this is; 0 if it is no run's.
Decode(m) == IF \E i \in RunIds : jobs[i].status # ABSENT /\ m = Message(i)
             THEN m[1][1] ELSE 0

ShareHeader ==
  /\ AllAt("sharing")
  /\ place' = Everywhere(IF command.kind = STOP THEN "off"
                         ELSE IF command.kind = IDLE THEN "looking" ELSE "chunks")
  /\ IF command.kind = STOP
     THEN command' = Nothing /\ parentAlive' = FALSE /\ nextPurge' = 0
     ELSE UNCHANGED <<command, parentAlive, nextPurge>>
  /\ UNCHANGED <<queueVars, runVars, heldVars, broken, faults>>

ShareChunk ==
  /\ AllAt("chunks")
  /\ LET sent  == Message(command.run)
         start == Len(message[Primary])
         got   == [h \in Hosts |-> message[h] \o
                     Cut(Chunk(sent, start), Len(sent) - start)]
     IN /\ message' = got
        /\ IF start + CHUNK_BYTES < Len(sent)
           THEN UNCHANGED <<place, job>>
           ELSE /\ job' = [h \in Hosts |-> IF h = Primary THEN command.run
                                           ELSE Decode(got[h])]
                /\ place' = [h \in Hosts |-> IF h = Primary THEN "boundary"
                                             ELSE "agreeing"]
  /\ UNCHANGED <<queueVars, command, phase, outcome, heldVars, broken, loopVars>>

----------------------------------------------------------------------------
(* A run on every host.                                                    *)

\* At a phase boundary the primary looks at the row's flag ...
LookAtFlag ==
  /\ place[Primary] = "boundary"
  /\ flag' = jobs[command.run].cancel_requested
  /\ Go(Primary, "agreeing")
  /\ UNCHANGED <<queueVars, command, runVars, fate, ending, broken, loopVars>>

\* Mutant: only the primary, which can see the row, stops.
Agree_PrimaryStops ==
  /\ AllAt("agreeing")
  /\ LET stops(h) == flag /\ h = Primary
     IN /\ outcome' = [h \in Hosts |-> IF stops(h) THEN CANCELLED ELSE None]
        /\ place' = [h \in Hosts |-> IF stops(h) THEN "outcomes" ELSE "pricing"]
  /\ UNCHANGED <<queueVars, command, message, job, phase, heldVars, broken, loopVars>>

\* ... and all hosts act on what it saw.
Agree ==
  /\ AllAt("agreeing")
  /\ outcome' = Everywhere(IF flag THEN CANCELLED ELSE None)
  /\ place' = Everywhere(IF flag THEN "outcomes" ELSE "pricing")
  /\ UNCHANGED <<queueVars, command, message, job, phase, heldVars, broken, loopVars>>

Ends(h, o) == /\ outcome' = [outcome EXCEPT ![h] = o]
              /\ Go(h, "outcomes")
              /\ UNCHANGED phase

Doomed(h) == fate.class # None /\ fate.phase = phase[h]

\* The work of one phase on one host.  A failure the request determines comes
\* at the same phase on every host; in the last phase, which no collective
\* follows but outcomes, one host may also end by itself in such a failure.
PricePhase(h) ==
  /\ place[h] = "pricing"
  /\ \/ /\ ~Doomed(h) /\ phase[h] < Boundaries
        /\ phase' = [phase EXCEPT ![h] = @ + 1]
        /\ Go(h, IF h = Primary THEN "boundary" ELSE "agreeing")
        /\ UNCHANGED outcome
     \/ /\ ~Doomed(h) /\ phase[h] = Boundaries
        /\ \E o \in {DONE} \cup RequestClasses : Ends(h, o)
     \/ Doomed(h) /\ Ends(h, fate.class)
  /\ UNCHANGED <<queueVars, command, message, job, heldVars, broken, loopVars>>

How(o) == IF o \in RequestClasses THEN FAILED ELSE o

\* The endings the primary may close the row with, from every host's outcome.
Combined ==
  IF \E h \in Followers : How(outcome[h]) # How(outcome[Primary])
  THEN {[NotEnded EXCEPT !.status = FAILED, !.class = INFRASTRUCTURE]}
  ELSE IF outcome[Primary] = DONE
  THEN {[NotEnded EXCEPT !.status = DONE, !.parts = p] : p \in SUBSET Parts}
  ELSE IF outcome[Primary] = CANCELLED
  THEN {[NotEnded EXCEPT !.status = CANCELLED]}
  ELSE {[NotEnded EXCEPT !.status = FAILED, !.class = outcome[Primary]]}

\* The followers are done with the run; the primary closes its row.
GatherOutcomes ==
  /\ AllAt("outcomes")
  /\ ending' \in Combined
  /\ place' = [h \in Hosts |-> IF h = Primary THEN "closing" ELSE "looking"]
  /\ message' = Everywhere(<< >>)
  /\ job' = Everywhere(0)
  /\ phase' = [h \in Hosts |-> IF h = Primary THEN phase[h] ELSE 0]
  /\ outcome' = Everywhere(None)
  /\ UNCHANGED <<queueVars, command, flag, fate, broken, loopVars>>

BackToLoop ==
  /\ Go(Primary, "looking")
  /\ command' = Nothing /\ flag' = FALSE /\ fate' = NoFate /\ ending' = NotEnded
  /\ phase' = [phase EXCEPT ![Primary] = 0]
  /\ UNCHANGED <<message, job, outcome, broken, loopVars>>

CloseRow ==
  /\ place[Primary] = "closing"
  /\ \/ ending.status = CANCELLED /\ CancelRunning(command.run)
     \/ ending.status = FAILED /\ Fail(command.run, ending.class)
     \/ ending.status = DONE /\ Finish(command.run, ending.parts)
  /\ BackToLoop

StoreFails ==
  /\ place[Primary] = "closing" /\ ending.status = DONE
  /\ Go(Primary, "unstored")
  /\ UNCHANGED <<queueVars, command, runVars, heldVars, broken, loopVars>>

FailUnstored ==
  /\ place[Primary] = "unstored"
  /\ Fail(command.run, INFRASTRUCTURE)
  /\ BackToLoop

----------------------------------------------------------------------------
(* The specification.                                                      *)

Alone(h) == TakeLock(h) \/ Receive(h) \/ PricePhase(h)

PrimaryStep == \/ PutBack \/ TakeOver \/ Look \/ ClaimNext \/ LookAtFlag
               \/ CloseRow \/ StoreFails \/ FailUnstored

Together == Join \/ ShareHeader \/ ShareChunk \/ Agree \/ GatherOutcomes

Callers == /\ ClientStep \/ Tick
           /\ UNCHANGED <<place, command, runVars, heldVars, broken, loopVars>>

Next == \/ Callers
        \/ PrimaryStep \/ Together
        \/ \E h \in Hosts : Launch(h) \/ Alone(h) \/ Dies(h) \/ ServiceStops(h)
        \/ ParentDies

Spec == Init /\ [][Next]_vars

\* Processes that run go on running, a collective every host has entered
\* completes, JAX's service stops what is left of a broken set, and whoever
\* runs the hosts starts a worker again on a host that has none.
Fairness == /\ WF_vars(PrimaryStep) /\ WF_vars(Together)
            /\ \A h \in Hosts : /\ WF_vars(Alone(h))
                                /\ WF_vars(ServiceStops(h))
                                /\ WF_vars(Launch(h))

FairSpec == Spec /\ Fairness

----------------------------------------------------------------------------
(* What the hosts promise.                                                 *)

Waiting(h) == place[h] \in Collectives

\* Hosts of one set keep step: two that wait, wait in the same collective, at
\* the same boundary of the same run with the same bytes of it received (a
\* mismatch would leave all of them waiting, or feed one's header to
\* another's flag), and every host that prices prices the run the primary
\* claimed, reassembled from its chunks (share, agree, outcomes).
HostsKeepStep ==
  ~broken => \A g, h \in Hosts :
    /\ Waiting(g) /\ Waiting(h) =>
         /\ place[g] = place[h]
         /\ phase[g] = phase[h] /\ job[g] = job[h] /\ message[g] = message[h]
         /\ place[h] = "agreeing" => job[h] = command.run
    /\ place[h] = "pricing" => job[h] = command.run

\* The set as one worker: up from its primary's start to the STOP it decides.
SetAt ==
  IF Stopping THEN "off"
  ELSE CASE place[Primary] \in {"joining", "opening"} -> "opening"
         [] place[Primary] = "sharing" ->
              IF command.kind = JOB THEN "boundary" ELSE "looking"
         [] place[Primary] = "chunks" -> "boundary"
         [] place[Primary] = "agreeing" -> IF flag THEN "closing" ELSE "pricing"
         [] place[Primary] = "outcomes" ->
              IF outcome[Primary] = CANCELLED THEN "closing" ELSE "pricing"
         [] OTHER -> place[Primary]

SetEnding ==
  IF SetAt = "closing" /\ place[Primary] # "closing"
  THEN [NotEnded EXCEPT !.status = CANCELLED] ELSE ending

ByItself(x) == [w \in Workers |-> x]

TheSet == INSTANCE EngineWorker WITH
            Locks       <- {"lock"},
            LockSetups  <- {ByItself("lock")},
            Draining    <- IF Drain THEN Workers ELSE {},
            lockOf      <- ByItself("lock"),
            holder      <- [l \in {"lock"} |->
                              IF SetAt \in {"off", "locking"} THEN None ELSE Self],
            at          <- ByItself(SetAt),
            job         <- ByItself(command.run),
            phase       <- ByItself(phase[Primary]),
            ending      <- ByItself(SetEnding),
            parentAlive <- ByItself(parentAlive /\ ~Stopping),
            nextPurge   <- ByItself(IF Stopping THEN 0 ELSE nextPurge),
            faults      <- IF broken /\ Joined(Primary) /\ ~Stopping
                           THEN faults - 1 ELSE faults

\* The hosts together are the set that EngineWorker puts on the queue: one
\* worker, which stops a run at one boundary, closes its row once, and runs
\* what a lost host left behind once more and no oftener (serve, run_job).
ImplementsSet == TheSet!Spec

\* No host waits for ever: whatever host failed and wherever the others were
\* waiting for it, they are answered or stopped (fail_stop).
NobodyWaitsForever == \A h \in Hosts : Waiting(h) ~> ~Waiting(h)
=============================================================================
