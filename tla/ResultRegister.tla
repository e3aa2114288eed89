--------------------------- MODULE ResultRegister ---------------------------
(***************************************************************************)
(* What the TraderX result store promises a caller who asks for a          *)
(* workload's result, with no file, pointer or sequence counter in sight:  *)
(* a result once published stays, and whoever asks later is answered one   *)
(* at least as new as the newest there was when he asked.  The order is    *)
(* promised only to the users of one process (orderly); that an answer     *)
(* exists is promised to all.  Module Publication implements it.           *)
(***************************************************************************)
EXTENDS Integers

CONSTANTS Keys,      \* workload keys
          Ids,       \* attempt ids, numbers
          Numbers,   \* what results are numbered with
          Clients,   \* who asks
          Nothing    \* the answer for a workload without a result

VARIABLES results,   \* each key: its published results, as <<number, id>>
          asking,    \* each client: not asking, asking, or answered
          orderly    \* whether numbers still tell which result is newer

vars == <<results, asking, orderly>>

NotAsking == [at |-> "idle", key |-> Nothing, floor |-> {}, answer |-> Nothing]

\* Results are ordered by number, then by id.
Older(r, s) == r[1] < s[1] \/ (r[1] = s[1] /\ r[2] < s[2])

Init == /\ results = [k \in Keys |-> {}]
        /\ asking = [c \in Clients |-> NotAsking]
        /\ orderly = TRUE

Publish(k, id) ==
  /\ \A j \in Keys : \A r \in results[j] : r[2] # id
  /\ results' # results
  /\ \E n \in Numbers :
       /\ orderly => \A j \in Keys : \A r \in results[j] : r[1] # n
       /\ results' = [results EXCEPT ![k] = @ \cup {<<n, id>>}]
  /\ UNCHANGED <<asking, orderly>>

Ask(c, k) ==
  /\ asking' = [asking EXCEPT ![c] = [at |-> "asked", key |-> k,
                                      floor |-> results[k], answer |-> Nothing]]
  /\ UNCHANGED <<results, orderly>>

MayAnswer(q, r) ==
  \/ r = Nothing /\ q.floor = {}
  \/ /\ r \in results[q.key]
     /\ orderly => \A s \in q.floor : ~Older(r, s)

Answer(c) ==
  /\ asking[c].at = "asked"
  /\ \E r \in results[asking[c].key] \cup {Nothing} :
       /\ MayAnswer(asking[c], r)
       /\ asking' = [asking EXCEPT ![c].at = "answered", ![c].answer = r]
  /\ UNCHANGED <<results, orderly>>

\* A client's process dies with its question.
GiveUp(c) == /\ asking' = [asking EXCEPT ![c] = NotAsking]
             /\ UNCHANGED <<results, orderly>>

\* A second process starts publishing, or the count of numbers was lost.
Disorder == orderly' = FALSE /\ UNCHANGED <<results, asking>>

Next == \/ \E k \in Keys, id \in Ids : Publish(k, id)
        \/ \E c \in Clients : \/ \E k \in Keys : Ask(c, k)
                              \/ Answer(c)
                              \/ GiveUp(c)
        \/ Disorder

Spec == Init /\ [][Next]_vars
=============================================================================
