----------------------------- MODULE WriteQueue -----------------------------
(***************************************************************************)
(* What the write path of a Firestore client promises, with no batch ids,  *)
(* streams, pipelines, handshakes or timers: every user has a queue of     *)
(* writes; the backend deals with them in the order in which they were     *)
(* issued, maybe more than once; only the first one of a queue is ever     *)
(* settled, only after the backend has dealt with it, and whoever issued   *)
(* it is told once, provided that the client has not been restarted since. *)
(* WritePipeline implements this specification.                            *)
(***************************************************************************)
EXTENDS Naturals, Sequences

CONSTANTS
    Users,      \* the users that can be signed in
    Durable     \* the queues survive a restart of the client

VARIABLES
    pending,    \* pending[u]: the writes of u that are not settled, in order
    author,     \* author[w] is the user that issued write w
    live,       \* the writes issued since the client started
    told,       \* the writes whose issuer was told [ok, error]
    server      \* the writes that the backend [applied, refused]

vars == <<pending, author, live, told, server>>

Seen == server.applied \cup server.refused

\* Who learns of the outcome of the first pending write of u.
Tell(u, outcome) ==
    told' = [told EXCEPT ![outcome] = @ \cup ({Head(pending[u])} \cap live)]

-----------------------------------------------------------------------------
Issue(u) ==
    /\ pending' = [pending EXCEPT ![u] = Append(@, Len(author) + 1)]
    /\ author' = Append(author, u)
    /\ live' = live \cup {Len(author) + 1}
    /\ UNCHANGED <<told, server>>

\* The backend deals with the i-th pending write of u, which it may have seen
\* before, when it has seen the ones before it.
Deal(u, i, verdict) ==
    /\ i \in 1..Len(pending[u])
    /\ \A j \in 1..(i - 1) : pending[u][j] \in Seen
    /\ server' = [server EXCEPT ![verdict] = @ \cup {pending[u][i]}]
    /\ UNCHANGED <<pending, author, live, told>>

\* A success is reported only for a write that was applied, and no failure
\* for a write that the backend has not seen.
Settle(u, outcome) ==
    /\ pending[u] # <<>>
    /\ Head(pending[u]) \in IF outcome = "ok" THEN server.applied ELSE Seen
    /\ Tell(u, outcome)
    /\ pending' = [pending EXCEPT ![u] = Tail(@)]
    /\ UNCHANGED <<author, live, server>>

\* The process ends and a new client starts, perhaps after the user was told
\* of a success and before that was recorded.
Restart ==
    /\ live' = {}
    /\ pending' = IF Durable THEN pending ELSE [u \in Users |-> <<>>]
    /\ \/ UNCHANGED told
       \/ \E u \in Users : /\ pending[u] # <<>>
                           /\ Head(pending[u]) \in server.applied
                           /\ Tell(u, "ok")
    /\ UNCHANGED <<author, server>>

-----------------------------------------------------------------------------
Init ==
    /\ pending = [u \in Users |-> <<>>]
    /\ author = <<>>
    /\ live = {}
    /\ told = [ok |-> {}, error |-> {}]
    /\ server = [applied |-> {}, refused |-> {}]

Next ==
    \/ \E u \in Users : Issue(u)
    \/ \E u \in Users : \E i \in 1..Len(pending[u]) :
           Deal(u, i, "applied") \/ Deal(u, i, "refused")
    \/ \E u \in Users : Settle(u, "ok") \/ Settle(u, "error")
    \/ Restart

Spec == Init /\ [][Next]_vars
=============================================================================
