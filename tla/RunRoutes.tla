----------------------------- MODULE RunRoutes ------------------------------
(***************************************************************************)
(* The run routes of the HTTP API (src/engine/api/routes.py): POST /runs,  *)
(* GET /runs/{id}?wait=N and POST /runs/{id}/cancel.  A route makes        *)
(* several queue operations, each its own transaction, while the engine    *)
(* worker and the other requests make theirs; a request here is one thread *)
(* of the server's pool, with what it has read so far.                     *)
(*                                                                         *)
(* Starting the worker (_ensure_worker) has no effect on the queue and is  *)
(* modelled in WorkerSupervisor; here the worker may do any of the queue's *)
(* worker operations at any time.                                          *)
(***************************************************************************)
EXTENDS JobQueue, FiniteSets

CONSTANTS
  Requests,  \* the requests being served
  Posts      \* the submissions callers send that pass the body's own check

Post == [key : Keys \cup {None}, body : Bodies, keep : BOOLEAN]

ASSUME PostsAssumption == Posts \subseteq Post

VARIABLES
  req,       \* each request: where it is, and the run it asks about
  accepted,  \* history: the 202 answers of POST /runs with a key
  told,      \* history: the final statuses callers were told of each run
  acked      \* history: the runs whose cancel was answered 200

routeVars == <<req, accepted, told, acked>>
servedVars == <<jobs, artifacts, lastSeq, now, req, accepted, told, acked>>

\* A request between two of its reads of the queue: GET holding an unfinished
\* row, about to look again, or about to read the result; cancel about to
\* answer; and a route an exception came out of, answered 500.
RequestPlaces == {"idle", "waiting", "again", "splicing", "recheck", "raised"}

NoRequest == [at |-> "idle", run |-> 0]

RoutesTypeOK ==
  /\ TypeOK
  /\ req \in [Requests -> [at : RequestPlaces, run : RunIds \cup {0}]]
  /\ accepted \subseteq [id : RunIds, post : Post]
  /\ told \in [RunIds -> SUBSET TERMINAL]
  /\ acked \subseteq RunIds

RoutesInit == /\ QueueInit
              /\ req = [r \in Requests |-> NoRequest]
              /\ accepted = {}
              /\ told = [i \in RunIds |-> {}]
              /\ acked = {}

GoTo(r, place, i) == req' = [req EXCEPT ![r] = [at |-> place, run |-> i]]
Answer(r)         == req' = [req EXCEPT ![r] = NoRequest]

\* Callers learn of a final status only.
Tell(i, status) == told' = [told EXCEPT ![i] = @ \cup ({status} \cap TERMINAL)]

----------------------------------------------------------------------------
(* POST /runs.  The body's own check (400) and the look at the host's      *)
(* worker (503) come first and touch no queue state: a request they refuse *)
(* does nothing here, and one they pass is one transaction of the queue.   *)

\* The canonical body, `keep` included and the key left out, is what a retry
\* is compared by (body_sha256).
SameBody(i, post) == jobs[i].request = post.body /\ jobs[i].keep = post.keep

Accept(i, post) ==
  accepted' = IF post.key = None THEN accepted
              ELSE accepted \cup {[id |-> i, post |-> post]}

PostNew(r) ==
  /\ req[r].at = "idle"
  /\ \E post \in Posts : /\ Submit(post.key, post.body, post.keep)
                         /\ Accept(lastSeq + 1, post)
  /\ UNCHANGED <<req, told, acked>>

\* Mutant: answers the id of the key's row whatever body was sent.
PostAgain_AnyBody(r) ==
  /\ req[r].at = "idle"
  /\ \E post \in Posts, i \in RunIds :
       /\ KeyTaken(post.key) /\ jobs[i].idempotency_key = post.key
       /\ Accept(i, post)
  /\ UNCHANGED <<queueVars, req, told, acked>>

\* A row has the key: a retry of its body is answered its id (202), any other
\* body is a conflict (409).
PostAgain(r) ==
  /\ req[r].at = "idle"
  /\ \E post \in Posts, i \in RunIds :
       /\ KeyTaken(post.key) /\ jobs[i].idempotency_key = post.key
       /\ IF SameBody(i, post) THEN Accept(i, post) ELSE UNCHANGED accepted
  /\ UNCHANGED <<queueVars, req, told, acked>>

----------------------------------------------------------------------------
(* GET /runs/{id}?wait=N.                                                  *)

\* What a row's status leads to: finished, answer it, after reading the result
\* document of a done one; unfinished, wait.
Respond(r, i) ==
  /\ \/ /\ jobs[i].status \in TERMINAL \ {DONE}
        /\ Answer(r) /\ Tell(i, jobs[i].status)
     \/ /\ jobs[i].status = DONE
        /\ GoTo(r, "splicing", i) /\ UNCHANGED told
     \/ /\ jobs[i].status \in {PENDING, RUNNING}
        /\ GoTo(r, "waiting", i) /\ UNCHANGED told
  /\ UNCHANGED <<queueVars, accepted, acked>>

\* A row that is not there is answered 404, with no effect.
GetRun(r) == /\ req[r].at = "idle"
             /\ \E i \in RunIds : Respond(r, i)

\* Out of time, the status read is the answer; else sleep and look again.
Wait(r) ==
  /\ req[r].at = "waiting"
  /\ Answer(r) \/ GoTo(r, "again", req[r].run)
  /\ UNCHANGED <<queueVars, accepted, told, acked>>

\* The later reads take the row for granted.
RaiseIfGone(r) ==
  /\ req[r].at \in {"again", "splicing", "recheck"}
  /\ jobs[req[r].run].status = ABSENT
  /\ GoTo(r, "raised", req[r].run)
  /\ UNCHANGED <<queueVars, accepted, told, acked>>

LookAgain(r) == req[r].at = "again" /\ Respond(r, req[r].run)

Splice(r) ==
  LET i == req[r].run IN
  /\ req[r].at = "splicing"
  /\ jobs[i].status # ABSENT
  /\ Answer(r) /\ Tell(i, DONE)
  /\ UNCHANGED <<queueVars, accepted, acked>>

----------------------------------------------------------------------------
(* POST /runs/{id}/cancel.                                                 *)

CancelRun(r, i) ==
  /\ req[r].at = "idle"
  /\ \/ Cancel(i) /\ GoTo(r, "recheck", i) /\ UNCHANGED told
     \/ /\ jobs[i].status = CANCELLED
        /\ GoTo(r, "recheck", i) /\ UNCHANGED <<queueVars, told>>
     \/ /\ jobs[i].status \in TERMINAL \ {CANCELLED}             \* 409
        /\ Tell(i, jobs[i].status) /\ UNCHANGED <<queueVars, req>>
  /\ UNCHANGED <<accepted, acked>>

Recheck(r) ==
  LET i == req[r].run IN
  /\ req[r].at = "recheck"
  /\ jobs[i].status # ABSENT
  /\ Answer(r) /\ Tell(i, jobs[i].status)
  /\ acked' = acked \cup {i}
  /\ UNCHANGED <<queueVars, accepted>>

ErrorAnswered(r) == /\ req[r].at = "raised"
                    /\ Answer(r)
                    /\ UNCHANGED <<queueVars, accepted, told, acked>>

----------------------------------------------------------------------------
Request(r) == \/ PostNew(r) \/ PostAgain(r)
              \/ GetRun(r) \/ Wait(r) \/ LookAgain(r) \/ Splice(r)
              \/ (\E i \in RunIds : CancelRun(r, i)) \/ Recheck(r)
              \/ RaiseIfGone(r) \/ ErrorAnswered(r)

RoutesNext == \/ \E r \in Requests : Request(r)
              \/ (WorkerStep \/ Tick) /\ UNCHANGED routeVars

RoutesSpec == RoutesInit /\ [][RoutesNext]_servedVars

----------------------------------------------------------------------------
(* What the routes promise their callers.                                  *)

\* However their requests interleave with each other, with the worker and with
\* a restart, callers are told at most one final status of a run, and it is
\* the row's for as long as there is a row (get_run, cancel_run).
ToldOneOutcome ==
  \A i \in RunIds : /\ Cardinality(told[i]) <= 1
                    /\ jobs[i].status # ABSENT => told[i] \subseteq {jobs[i].status}

\* An id answered for a key names a run of the body that was sent with it, and
\* two bodies are never answered one id, over concurrent submissions and the
\* purge of the first (submit, body_sha256).
AcceptedIsOwnRun ==
  /\ \A a \in accepted : jobs[a.id].status # ABSENT =>
       /\ jobs[a.id].idempotency_key = a.post.key
       /\ SameBody(a.id, a.post)
  /\ \A a, b \in accepted : a.id = b.id => a.post = b.post

\* A cancel that was answered is not forgotten: its run is cancelled, or still
\* flagged and running, or reached its end first; it is never pending again
\* after a restart of the worker set (cancel_run, requeue_running).
CancelSticks ==
  \A i \in acked : /\ jobs[i].status # PENDING
                   /\ jobs[i].status = RUNNING => jobs[i].cancel_requested

\* A run that retention purged is answered 404 (docs/reference/http-api.md):
\* no route raises because a row it saw is gone.
NoServerError == \A r \in Requests : req[r].at # "raised"
=============================================================================
