--------------------------- MODULE WritePipeline ---------------------------
(***************************************************************************)
(* How a Firestore client gets the user's writes to the backend:           *)
(*                                                                         *)
(*   SyncEngine     core/sync_engine.cc     user callbacks per batch       *)
(*   LocalStore     local/local_store.cc    per-user mutation queues       *)
(*   RemoteStore    remote/remote_store.cc  the write pipeline             *)
(*   Stream         remote/stream.cc        connection state machine       *)
(*   WriteStream    remote/write_stream.cc  handshake and stream token     *)
(*   GrpcStream     remote/grpc_stream.cc   the wire (partly external)     *)
(*                                                                         *)
(* All client code runs on one serial AsyncQueue, so every handler is one  *)
(* atomic step; what interleaves is the user's calls, timers, credential   *)
(* callbacks, gRPC completions, the backend, and process death.            *)
(*                                                                         *)
(* The write half of RemoteStore and the WriteStream it owns are one       *)
(* record r, and every C++ method is an operator from r to r of the same   *)
(* name, so that a handler is the composition of the calls it makes:       *)
(*                                                                         *)
(*   net      is_network_enabled_                                          *)
(*   pipe     write_pipeline_                                              *)
(*   state    Stream::state_                                               *)
(*   hs       handshake_complete_                                          *)
(*   idle     idleness_timer_ is scheduled                                 *)
(*   backoff  the timer of backoff_ is scheduled                           *)
(*   closes   close_count_                                                 *)
(*   token    last_stream_token_                                           *)
(*   auth     close counts captured by GetToken callbacks still to come    *)
(*   up       requests written and not yet handled by the backend          *)
(*   down     responses of the backend not yet read                        *)
(*   fin      the status with which the backend ended the call, or "none"  *)
(*   ok       no HARD_ASSERT has failed                                    *)
(***************************************************************************)
EXTENDS MutationQueue, Stream

CONSTANTS
    Tokens,              \* the stream tokens the backend hands out
    NoToken,             \* the empty ByteString
    kMaxPendingWrites,   \* capacity of the write pipeline (10 in the code)
    WireFaults,          \* "drop_unread": a failed write may finish the call
                         \* before all responses have been read;
                         \* "malformed": a response may not decode
    MaxWrites,           \* bound: writes issued by all users
    MaxFaults            \* bound: disruptions (failures, toggles, restarts)

ASSUME PipelineAssumption ==
    /\ kMaxPendingWrites \in Nat \ {0}
    /\ MaxWrites \in Nat
    /\ MaxFaults \in Nat
    /\ WireFaults \subseteq {"drop_unread", "malformed"}
    /\ NoToken \notin Tokens

VARIABLES
    queue,       \* persisted: the mutation queue of every user
    stored,      \* persisted: the last stream token of every user
    next,        \* next_batch_id_ of every user's queue
    user,        \* SyncEngine::current_user_
    rs,          \* RemoteStore (write half) and its WriteStream, see above
    callbacks,   \* mutation_callbacks_: for every user, a set of batches
                 \* [id |-> batch id, w |-> the write to be notified]
    waiters,     \* pending_writes_callbacks_: [id |-> batch id,
                 \* pending |-> the writes pending when it was registered]
    author,      \* history: author[w] is the user that issued write w
    session,     \* history: the writes issued since the client started
    told,        \* history: the writes whose callback got [ok, error]
    server,      \* backend: the writes [applied, refused] so far
    faults       \* disruptions so far

vars == <<queue, stored, next, user, rs, callbacks, waiters, author, session,
          told, server, faults>>

-----------------------------------------------------------------------------
(* Status codes, by how Datastore classifies them (remote/datastore.cc).   *)

Errors == {"unavailable", "aborted", "invalid_argument", "data_loss"}

IsPermanentError(status) ==
    status \in {"aborted", "invalid_argument", "data_loss"}

\* Mutant: "aborted" is treated like every other permanent error.
IsPermanentWriteErrorOrAborted(status) == IsPermanentError(status)

IsPermanentWriteError(status) ==
    IsPermanentError(status) /\ status # "aborted"

\* The first request of a connection; batch ids start at 1.
Handshake == [id |-> 0, w |-> 0]

-----------------------------------------------------------------------------
(* WriteStream requests                                                    *)

WriteHandshake(r) == Write(HardAssert(r, ~r.hs), <<Handshake>>)

WriteMutations(r, batches) ==
    Write(HardAssert(r, batches # <<>> => r.hs), batches)

-----------------------------------------------------------------------------
(* RemoteStore: the write pipeline.  q is the current user's queue.        *)

ShouldStartWriteStream(r) == r.net /\ ~IsStarted(r) /\ r.pipe # <<>>

StartWriteStreamIfNeeded(r) ==
    IF ShouldStartWriteStream(r) THEN Start(r) ELSE r

\* The batches that the loop of FillWritePipeline() fetches: those after the
\* last one in the pipeline, while there is room.
NextBatches(r, q) ==
    LET last  == IF r.pipe = <<>> THEN kBatchIdUnknown
                                  ELSE r.pipe[Len(r.pipe)].id
        first == NextMutationBatchAfterBatchId(q, last)
        room  == kMaxPendingWrites - Len(r.pipe)
        avail == Len(q) - first + 1
        n     == IF ~r.net \/ room <= 0 THEN 0
                 ELSE IF avail < room THEN avail ELSE room
    IN  [i \in 1..n |-> q[first + i - 1]]

AddToWritePipeline(r, batches) ==
    LET added == [r EXCEPT !.pipe = @ \o batches]
    IN  IF IsOpen(r) /\ r.hs THEN WriteMutations(added, batches) ELSE added

FillWritePipeline(r, q) ==
    LET filled == AddToWritePipeline(r, NextBatches(r, q))
    IN  StartWriteStreamIfNeeded(
            IF r.net /\ filled.pipe = <<>> THEN MarkIdle(filled) ELSE filled)

HandleHandshakeError(r, status) ==
    IF IsPermanentError(status) THEN [r EXCEPT !.token = NoToken] ELSE r

\* q is the queue after HandleRejectedWrite() has removed the batch.
HandleWriteError(r, status, q) ==
    IF IsPermanentWriteError(status)
    THEN FillWritePipeline(InhibitBackoff([r EXCEPT !.pipe = Tail(@)]), q)
    ELSE r

\* Mutant: the stream is not started again after an error.
OnWriteStreamCloseForGood(r, status, q) ==
    IF status = "ok" THEN HardAssert(r, ~ShouldStartWriteStream(r))
    ELSE IF r.pipe = <<>> THEN r
    ELSE IF r.hs THEN HandleWriteError(r, status, q)
    ELSE HandleHandshakeError(r, status)

OnWriteStreamClose(r, status, q) ==
    LET handled ==
          IF status = "ok" THEN HardAssert(r, ~ShouldStartWriteStream(r))
          ELSE IF r.pipe = <<>> THEN r
          ELSE IF r.hs THEN HandleWriteError(r, status, q)
          ELSE HandleHandshakeError(r, status)
    IN  StartWriteStreamIfNeeded(handled)

\* Mutant: the timer of backoff_ is not cancelled.
CloseKeepsBackoff(r, status, q) ==
    IF status = "ok" /\ ~IsStarted(r) THEN r
    ELSE LET closed == [HardAssert(r, IsStarted(r)) EXCEPT
                          !.idle = FALSE, !.closes = @ + 1,
                          !.up = <<>>, !.down = <<>>, !.fin = "none",
                          !.state = IF status = "ok" THEN "Initial"
                                                     ELSE "Error"]
         IN  [OnWriteStreamClose(closed, status, q) EXCEPT !.hs = FALSE]

\* Stream::Close() down to WriteStream::NotifyStreamClose().
Close(r, status, q) ==
    IF status = "ok" /\ ~IsStarted(r) THEN r
    ELSE LET closed == [HardAssert(r, IsStarted(r)) EXCEPT
                          !.idle = FALSE, !.backoff = FALSE,
                          !.closes = @ + 1,
                          !.up = <<>>, !.down = <<>>, !.fin = "none",
                          !.state = IF status = "ok" THEN "Initial"
                                                     ELSE "Error"]
         IN  [OnWriteStreamClose(closed, status, q) EXCEPT !.hs = FALSE]

Stop(r) == Close(r, "ok", <<>>)

\* Mutant: write_pipeline_ is not cleared.
DisableNetworkKeepsPipeline(r) == Stop(r)

DisableNetworkInternal(r) == [Stop(r) EXCEPT !.pipe = <<>>]

DisableNetworkOp(r) == DisableNetworkInternal([r EXCEPT !.net = FALSE])

EnableNetworkOp(r, q, token) ==
    FillWritePipeline([r EXCEPT !.net = TRUE, !.token = token], q)

RestartNetwork(r, q, token) ==
    EnableNetworkOp(InhibitBackoff(DisableNetworkOp(r)), q, token)

\* A stream that was just constructed.
NewRemoteStore ==
    [net |-> FALSE, pipe |-> <<>>, state |-> "Initial", hs |-> FALSE,
     idle |-> FALSE, backoff |-> FALSE, closes |-> 0, token |-> NoToken,
     auth |-> {}, up |-> <<>>, down |-> <<>>, fin |-> "none", ok |-> TRUE]

-----------------------------------------------------------------------------
(* SyncEngine and LocalStore: settling a batch.                            *)

\* NotifyUser(): the callbacks of the current user registered for b's id.
CallbacksFor(b) == {c \in callbacks[user] : c.id = b.id}

\* Mutant: a rejected batch is removed without NotifyUser().
SettleSilently(b, outcome) ==
    /\ UNCHANGED <<told, callbacks>>
    /\ waiters' = {x \in waiters : x.id # b.id}
    /\ queue' = [queue EXCEPT ![user] = RemoveMutationBatch(@, b)]

\* Mutant: HandleRejectedWrite() notifies the user with an OK status.
SettleAsOk(b, outcome) ==
    /\ told' = [told EXCEPT !.ok = @ \cup {c.w : c \in CallbacksFor(b)}]
    /\ callbacks' = [callbacks EXCEPT ![user] = @ \ CallbacksFor(b)]
    /\ waiters' = {x \in waiters : x.id # b.id}
    /\ queue' = [queue EXCEPT ![user] = RemoveMutationBatch(@, b)]

\* Mutant: TriggerPendingWriteCallbacks() calls every callback.
SettleTriggersAll(b, outcome) ==
    /\ told' = [told EXCEPT ![outcome] =
                              @ \cup {c.w : c \in CallbacksFor(b)}]
    /\ callbacks' = [callbacks EXCEPT ![user] = @ \ CallbacksFor(b)]
    /\ waiters' = {}
    /\ queue' = [queue EXCEPT ![user] = RemoveMutationBatch(@, b)]

\* HandleSuccessfulWrite() and HandleRejectedWrite(): NotifyUser(),
\* TriggerPendingWriteCallbacks() and the removal of b from the queue.
Settle(b, outcome) ==
    /\ told' = [told EXCEPT ![outcome] =
                              @ \cup {c.w : c \in CallbacksFor(b)}]
    /\ callbacks' = [callbacks EXCEPT ![user] = @ \ CallbacksFor(b)]
    /\ waiters' = {x \in waiters : x.id # b.id}
    /\ queue' = [queue EXCEPT ![user] = RemoveMutationBatch(@, b)]

Disrupt == faults < MaxFaults /\ faults' = faults + 1

-----------------------------------------------------------------------------
(* Calls of the user                                                       *)

\* SyncEngine::WriteMutations().
WriteMutationsCall ==
    /\ Len(author) < MaxWrites
    /\ LET b == [id |-> next[user], w |-> Len(author) + 1]
           q == queue[user]
       IN  /\ queue' = [queue EXCEPT ![user] = Append(q, b)]
           /\ callbacks' = [callbacks EXCEPT ![user] =
                             IF CallbacksFor(b) = {} THEN @ \cup {b} ELSE @]
           /\ rs' = FillWritePipeline(
                      HardAssert(rs, q # <<>> => q[Len(q)].id < b.id),
                      Append(q, b))
           /\ session' = session \cup {b.w}
    /\ next' = [next EXCEPT ![user] = @ + 1]
    /\ author' = Append(author, user)
    /\ UNCHANGED <<stored, user, waiters, told, server, faults>>

\* SyncEngine::RegisterPendingWritesCallback(); when nothing is pending the
\* callback is called at once and nothing changes.
WaitForPendingWrites ==
    LET highest == GetHighestUnacknowledgedBatchId(queue[user], next[user])
    IN  /\ highest # kBatchIdUnknown
        /\ waiters' = waiters \cup
               {[id |-> highest, pending |-> {b.w : b \in Batches(queue[user])}]}
        /\ UNCHANGED <<queue, stored, next, user, rs, callbacks, author,
                       session, told, server, faults>>

EnableNetwork ==
    /\ rs' = EnableNetworkOp(rs, queue[user], stored[user])
    /\ UNCHANGED <<queue, stored, next, user, callbacks, waiters, author,
                   session, told, server, faults>>

DisableNetwork ==
    /\ Disrupt
    /\ rs' = DisableNetworkOp(rs)
    /\ UNCHANGED <<queue, stored, next, user, callbacks, waiters, author,
                   session, told, server>>

-----------------------------------------------------------------------------
(* Events of the environment                                               *)

\* SyncEngine::HandleCredentialChange(); u is the current user again when
\* only its auth token changed.
HandleCredentialChange(u) ==
    /\ Disrupt
    /\ user' = u
    /\ next' = IF u = user THEN next ELSE StartMutationQueue(queue, next, u)
    /\ waiters' = IF u = user THEN waiters ELSE {}
    /\ rs' = IF rs.net THEN RestartNetwork(rs, queue[u], stored[u]) ELSE rs
    /\ UNCHANGED <<queue, stored, callbacks, author, session, told, server>>

\* The callback that RemoteStore::Start() gives to the ConnectivityMonitor.
ConnectivityChange ==
    /\ Disrupt
    /\ rs.net
    /\ rs' = RestartNetwork(rs, queue[user], stored[user])
    /\ UNCHANGED <<queue, stored, next, user, callbacks, waiters, author,
                   session, told, server>>

\* The process dies (or the client is terminated) and a new client starts as
\* user u: FirestoreClient::Initialize(), LocalStore::Start() and
\* RemoteStore::Start().  Callbacks are gone; only LevelDB survives.
StartClient(u) ==
    LET kept   == IF Persistence = "leveldb" THEN queue
                                             ELSE [v \in Users |-> <<>>]
        tokens == IF Persistence = "leveldb" THEN stored
                                             ELSE [v \in Users |-> NoToken]
    IN  /\ queue' = kept
        /\ stored' = tokens
        /\ next' = StartMutationQueue(kept, [v \in Users |-> 1], u)
        /\ rs' = EnableNetworkOp(NewRemoteStore, kept[u], tokens[u])
        /\ user' = u
        /\ callbacks' = [v \in Users |-> {}]
        /\ waiters' = {}
        /\ session' = {}

Restart(u) ==
    /\ Disrupt
    /\ StartClient(u)
    /\ UNCHANGED <<author, told, server>>

\* The process dies in HandleSuccessfulWrite(), after the user's callback
\* ran and before the transaction of AcknowledgeBatch() committed.
DieBeforeAcknowledge(u) ==
    /\ Disrupt
    /\ rs.down # <<>> /\ rs.hs /\ rs.pipe # <<>>
    /\ told' = [told EXCEPT !.ok =
                  @ \cup {c.w : c \in CallbacksFor(rs.pipe[1])}]
    /\ StartClient(u)
    /\ UNCHANGED <<author, server>>

-----------------------------------------------------------------------------
(* Timers and credential callbacks                                         *)

\* The callback of BackoffAndTryRestarting().
BackoffElapsed ==
    /\ rs.backoff
    /\ rs' = RestartAfterBackoff(rs)
    /\ UNCHANGED <<queue, stored, next, user, callbacks, waiters, author,
                   session, told, server, faults>>

\* The callback of MarkIdle().
IdleTimeout ==
    /\ rs.idle
    /\ rs' = Stop([rs EXCEPT !.idle = FALSE])
    /\ UNCHANGED <<queue, stored, next, user, callbacks, waiters, author,
                   session, told, server, faults>>

\* A token arrives for a stream that was closed since: dropped.
StaleCredentials(c) ==
    /\ c \in rs.auth
    /\ c # rs.closes
    /\ rs' = [rs EXCEPT !.auth = @ \ {c}]
    /\ UNCHANGED <<queue, stored, next, user, callbacks, waiters, author,
                   session, told, server, faults>>

\* ResumeStartWithCredentials() with a token: GrpcStream::Start() reports
\* OnStreamStart() at once, and OnWriteStreamOpen() sends the handshake.
ResumeStartWithCredentials ==
    /\ rs.closes \in rs.auth
    /\ rs' = WriteHandshake(
                [HardAssert(rs, rs.state = "Starting") EXCEPT
                   !.auth = @ \ {rs.closes}, !.state = "Open"])
    /\ UNCHANGED <<queue, stored, next, user, callbacks, waiters, author,
                   session, told, server, faults>>

\* The part of Close() that changes the LocalStore: a permanent error before
\* the handshake clears the stream token, one after it rejects the first
\* batch of the pipeline.
CloseWithError(r, status) ==
    IF r.pipe # <<>> /\ r.hs /\ IsPermanentWriteError(status)
    THEN LET b == r.pipe[1]
         IN  /\ Settle(b, "error")
             /\ rs' = Close(
                        HardAssert(r, CanRemoveMutationBatch(queue[user], b)),
                        status, RemoveMutationBatch(queue[user], b))
             /\ UNCHANGED stored
    ELSE /\ rs' = Close(r, status, queue[user])
         /\ stored' = IF r.pipe # <<>> /\ ~r.hs /\ IsPermanentError(status)
                      THEN [stored EXCEPT ![user] = NoToken]
                      ELSE stored
         /\ UNCHANGED <<queue, callbacks, waiters, told>>

\* ResumeStartWithCredentials() with an error.
CredentialsError(status) ==
    /\ Disrupt
    /\ rs.closes \in rs.auth
    /\ CloseWithError([HardAssert(rs, rs.state = "Starting") EXCEPT
                         !.auth = @ \ {rs.closes}], status)
    /\ UNCHANGED <<next, user, author, session, server>>

-----------------------------------------------------------------------------
(* gRPC completions                                                        *)

\* Mutant: only the first batch of the pipeline is written.
HandshakeResponseWritesOne(t) ==
    /\ rs.down # <<>>
    /\ ~rs.hs
    /\ rs' = WriteMutations([rs EXCEPT !.down = Tail(@), !.token = t,
                                       !.hs = TRUE], SubSeq(rs.pipe, 1, 1))
    /\ stored' = [stored EXCEPT ![user] = t]
    /\ UNCHANGED <<queue, next, user, callbacks, waiters, author, session,
                   told, server, faults>>

\* NotifyStreamResponse() for the first response of a connection, down to
\* OnWriteStreamHandshakeComplete().
HandshakeResponse(t) ==
    /\ rs.down # <<>>
    /\ ~rs.hs
    /\ rs' = WriteMutations([rs EXCEPT !.down = Tail(@), !.token = t,
                                       !.hs = TRUE], rs.pipe)
    /\ stored' = [stored EXCEPT ![user] = t]
    /\ UNCHANGED <<queue, next, user, callbacks, waiters, author, session,
                   told, server, faults>>

\* Mutant: AcknowledgeBatch() does not store the stream token.
MutationResultKeepsToken(t) ==
    /\ rs.down # <<>> /\ rs.hs /\ rs.pipe # <<>>
    /\ Settle(rs.pipe[1], "ok")
    /\ rs' = FillWritePipeline(
               [rs EXCEPT !.down = Tail(@), !.token = t, !.pipe = Tail(@)],
               RemoveMutationBatch(queue[user], rs.pipe[1]))
    /\ UNCHANGED <<stored, next, user, author, session, server, faults>>

\* NotifyStreamResponse() for a later one, down to
\* OnWriteStreamMutationResult(): the response names no batch, it is taken
\* to answer the first one in the pipeline.
MutationResult(t) ==
    /\ rs.down # <<>>
    /\ rs.hs
    /\ IF rs.pipe = <<>>
       THEN /\ rs' = HardAssert(rs, FALSE)
            /\ UNCHANGED <<queue, stored, callbacks, waiters, told>>
       ELSE LET b == rs.pipe[1]
                q == queue[user]
            IN  /\ Settle(b, "ok")
                /\ stored' = [stored EXCEPT ![user] = t]
                /\ rs' = FillWritePipeline(
                           [HardAssert(rs, CanRemoveMutationBatch(q, b)) EXCEPT
                              !.down = Tail(@), !.token = t,
                              !.pipe = Tail(@)],
                           RemoveMutationBatch(q, b))
    /\ UNCHANGED <<next, user, author, session, server, faults>>

\* NotifyStreamResponse() cannot decode the response: the stream is finished
\* by the client with data_loss, possibly after the token was captured.
MalformedResponse(t) ==
    /\ Disrupt
    /\ "malformed" \in WireFaults
    /\ rs.down # <<>>
    /\ rs.hs \/ t = rs.token
    /\ CloseWithError([rs EXCEPT !.token = t], "data_loss")
    /\ UNCHANGED <<next, user, author, session, server>>

\* GrpcStream::OnOperationFailed(), FinishAndNotify(), OnStreamFinish().  A
\* failed read comes after the last response; a failed write may come
\* earlier, and the reads still outstanding are cancelled.
StreamFinish ==
    /\ rs.fin # "none"
    /\ rs.down = <<>> \/ "drop_unread" \in WireFaults
    /\ CloseWithError(rs, rs.fin)
    /\ UNCHANGED <<next, user, author, session, server, faults>>

-----------------------------------------------------------------------------
(* The backend (external): handles the requests of a connection in order.  *)

ServerAccept ==
    /\ rs.fin = "none"
    /\ rs.up # <<>>
    /\ rs' = [rs EXCEPT !.up = Tail(@), !.down = Append(@, rs.up[1])]
    /\ server' = IF rs.up[1] = Handshake THEN server
                 ELSE [server EXCEPT !.applied = @ \cup {rs.up[1].w}]
    /\ UNCHANGED <<queue, stored, next, user, callbacks, waiters, author,
                   session, told, faults>>

\* A batch is refused: the call ends with a permanent error and later
\* requests are not looked at.
ServerRefuse ==
    /\ rs.fin = "none"
    /\ rs.up # <<>> /\ rs.up[1] # Handshake
    /\ rs' = [rs EXCEPT !.up = <<>>, !.fin = "invalid_argument"]
    /\ server' = [server EXCEPT !.refused = @ \cup {rs.up[1].w}]
    /\ UNCHANGED <<queue, stored, next, user, callbacks, waiters, author,
                   session, told, faults>>

\* The call breaks, or the handshake is refused.
ServerFail(status) ==
    /\ Disrupt
    /\ rs.fin = "none" /\ IsOpen(rs)
    /\ \/ status \in {"unavailable", "aborted"}
       \/ status = "invalid_argument" /\ rs.up # <<>> /\ rs.up[1] = Handshake
    /\ rs' = [rs EXCEPT !.up = <<>>, !.fin = status]
    /\ UNCHANGED <<queue, stored, next, user, callbacks, waiters, author,
                   session, told, server>>

-----------------------------------------------------------------------------
Init ==
    /\ queue = [v \in Users |-> <<>>]
    /\ stored = [v \in Users |-> NoToken]
    /\ next = [v \in Users |-> 1]
    /\ user \in Users
    /\ rs = EnableNetworkOp(NewRemoteStore, <<>>, NoToken)
    /\ callbacks = [v \in Users |-> {}]
    /\ waiters = {}
    /\ author = <<>>
    /\ session = {}
    /\ told = [ok |-> {}, error |-> {}]
    /\ server = [applied |-> {}, refused |-> {}]
    /\ faults = 0

Next ==
    \/ WriteMutationsCall
    \/ WaitForPendingWrites
    \/ EnableNetwork
    \/ DisableNetwork
    \/ \E u \in Users : HandleCredentialChange(u)
    \/ ConnectivityChange
    \/ \E u \in Users : Restart(u)
    \/ \E u \in Users : DieBeforeAcknowledge(u)
    \/ BackoffElapsed
    \/ IdleTimeout
    \/ \E c \in rs.auth : StaleCredentials(c)
    \/ ResumeStartWithCredentials
    \/ \E status \in Errors : CredentialsError(status)
    \/ \E t \in Tokens : HandshakeResponse(t)
    \/ \E t \in Tokens : MutationResult(t)
    \/ \E t \in Tokens \cup {rs.token} : MalformedResponse(t)
    \/ StreamFinish
    \/ ServerAccept
    \/ ServerRefuse
    \/ \E status \in Errors : ServerFail(status)

Spec == Init /\ [][Next]_vars

\* Timers fire, a requested token arrives, the backend answers or ends the
\* call, and gRPC completions run.  Nothing is assumed of the user.
Fairness ==
    /\ WF_vars(BackoffElapsed)
    /\ WF_vars(ResumeStartWithCredentials)
    /\ WF_vars(ServerAccept)
    /\ WF_vars(\E t \in Tokens : HandshakeResponse(t))
    /\ WF_vars(\E t \in Tokens : MutationResult(t))
    /\ WF_vars(StreamFinish)

FairSpec == Spec /\ Fairness

-----------------------------------------------------------------------------
(* Properties                                                              *)

RemoteStoreType ==
    [net : BOOLEAN, pipe : Seq(Batch), state : StreamStates, hs : BOOLEAN,
     idle : BOOLEAN, backoff : BOOLEAN, closes : Nat,
     token : Tokens \cup {NoToken}, auth : SUBSET Nat, up : Seq(Batch),
     down : Seq(Batch), fin : Errors \cup {"none"}, ok : BOOLEAN]

\* Every variable has the type its declaration says.
TypeOK ==
    /\ queue \in [Users -> Seq(Batch)]
    /\ stored \in [Users -> Tokens \cup {NoToken}]
    /\ next \in [Users -> Nat]
    /\ user \in Users
    /\ rs \in RemoteStoreType
    /\ callbacks \in [Users -> SUBSET Batch]
    /\ waiters \in SUBSET [id : Int, pending : SUBSET Nat]
    /\ author \in Seq(Users)
    /\ session \in SUBSET Nat
    /\ told \in [ok : SUBSET Nat, error : SUBSET Nat]
    /\ server \in [applied : SUBSET Nat, refused : SUBSET Nat]
    /\ faults \in Nat

\* No HARD_ASSERT of Stream, WriteStream, RemoteStore and the mutation queues
\* on the write path can fail: the stream is never stopped gracefully while
\* it is needed, no timer fires in the wrong state, a result never meets an
\* empty pipeline or a batch that is not the first of the queue.
NoHardAssertFails == rs.ok

\* What RemoteStore relies on when it correlates responses by position: the
\* write pipeline is always the beginning of the current user's queue, also
\* across user changes, restarts, rejected batches and reused batch ids.
PipelineIsQueuePrefix ==
    /\ Len(rs.pipe) <= Len(queue[user])
    /\ \A i \in 1..Len(rs.pipe) : rs.pipe[i] = queue[user][i]
    /\ Len(rs.pipe) <= kMaxPendingWrites
    /\ ~rs.net => rs.pipe = <<>>

\* Once the handshake is complete, the unread responses followed by the
\* unanswered requests are exactly the pipeline, as long as the backend has
\* not ended the call: OnWriteStreamMutationResult() answers the right batch.
ResponsesMatchPipeline ==
    rs.hs =>
      /\ Len(rs.down) <= Len(rs.pipe)
      /\ \A i \in 1..Len(rs.down) : rs.down[i] = rs.pipe[i]
      /\ rs.fin = "none" =>
           /\ Len(rs.pipe) = Len(rs.down) + Len(rs.up)
           /\ \A i \in 1..Len(rs.up) : rs.up[i] = rs.pipe[Len(rs.down) + i]

\* mutation_callbacks_ holds the callback of every write of this session that
\* is still queued, under the id of that very write, and nothing else: no
\* callback is lost, called for another write, or called twice.
CallbacksMatchQueue ==
    \A u \in Users :
        callbacks[u] = {b \in Batches(queue[u]) : b.w \in session}

\* A user is told that a write succeeded only if the backend applied it.
SuccessMeansApplied == told.ok \subseteq server.applied

\* A user is told that a write failed only if the backend refused it
\* (RemoteStore::HandleWriteError() blames the first batch of the pipeline).
FailureMeansRefused == told.error \subseteq server.refused

\* The backend sees the writes of a user in the order in which they were
\* issued: when it applies or refuses one, it has dealt with all earlier ones
\* (or, with memory persistence, they were lost with the process).
BackendSeesWritesInOrder ==
    LET seen == server.applied \cup server.refused
    IN  \A w \in seen : \A v \in 1..(w - 1) :
            author[v] = author[w] /\ (Persistence = "leveldb" \/ v \in session)
                => v \in seen

\* Whoever waits for pending writes waits for a batch that is queued for the
\* current user, and every write it asked about that is still queued is at or
\* before that batch.
WaitersCanBeAnswered ==
    \A x \in waiters :
        /\ \E b \in Batches(queue[user]) : b.id = x.id
        /\ \A b \in Batches(queue[user]) : b.w \in x.pending => b.id <= x.id

\* With a complete handshake the stream token in memory is the persisted one,
\* so enabling an enabled network (which reloads it) changes nothing.
StreamTokenIsPersisted == rs.hs => rs.token = stored[user]

\* The client, and all that it keeps in memory, goes in this very step.
ClientGoesAway == \E u \in Users : Restart(u) \/ DieBeforeAcknowledge(u)

\* A waiter is dropped only by a step that settles the last of its writes, by
\* a change of the user, or by the step in which the client goes away.  A
\* client that was just restarted, with the writes of its previous life still
\* queued and none of its own, keeps its waiters like any other.
WaitersAnsweredInTime ==
    [][\A x \in waiters \ waiters' :
          \/ user' # user
          \/ ClientGoesAway
          \/ \A b \in Batches(queue'[user]) : b.w \notin x.pending]_vars

\* If the network stays enabled for one user, then every write of that user
\* is eventually settled, whatever failed before.
WritesEventuallySettle ==
    \A u \in Users : <>[](user = u /\ rs.net) => <>[](queue[u] = <<>>)

-----------------------------------------------------------------------------
\* The abstract queues: the batches of every user, without their ids.
Pending == [u \in Users |-> [i \in 1..Len(queue[u]) |-> queue[u][i].w]]

WQ == INSTANCE WriteQueue WITH
        pending <- Pending, live <- session,
        Durable <- Persistence = "leveldb"

\* The write path as a whole implements WriteQueue: whatever fails and in
\* whatever order completions, timers, user changes and restarts come, each
\* step of the client settles at most the first write of one user, only after
\* the backend has dealt with it, and tells exactly its issuer; the backend
\* receives the writes of every user in their order.
ImplementsWriteQueue == WQ!Spec
=============================================================================
