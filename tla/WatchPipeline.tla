---------------------------- MODULE WatchPipeline ----------------------------
(***************************************************************************)
(* How a Firestore client follows the results of its queries:              *)
(*                                                                         *)
(*   SyncEngine             core/sync_engine.cc   one view per target      *)
(*   LocalStore             local/local_store.cc  the target cache         *)
(*   RemoteStore            remote/remote_store.cc  the listens            *)
(*   WatchChangeAggregator  remote/remote_event.cc                         *)
(*   OnlineStateTracker     remote/online_state_tracker.cc                 *)
(*   Stream, WatchStream    remote/stream.cc, remote/watch_stream.cc       *)
(*                                                                         *)
(* Every handler runs on the AsyncQueue and is one atomic step.  What the  *)
(* process keeps in memory is one record r, and every C++ method is an     *)
(* operator from r to r of the same name.  Besides the fields that Stream  *)
(* and OnlineStateTracker document, r has:                                 *)
(*                                                                         *)
(*   net     is_network_enabled_                                           *)
(*   views   the targets with a view (queries_by_target_) and with target  *)
(*           data in LocalStore (target_data_by_target_)                   *)
(*   data    the resume token in that target data                          *)
(*   on      the targets in listen_targets_                                *)
(*   tokens  their resume tokens                                           *)
(*   exists  watch_change_aggregator_ is not null                          *)
(*   agg     *watch_change_aggregator_                                     *)
(*   down    responses of the backend not yet read                         *)
(*   srv     what the backend knows about the targets of this connection   *)
(*   read    the last snapshot version that the backend sent on it         *)
(*                                                                         *)
(* A snapshot version is a position in the history of the database; a      *)
(* resume token is the version at which it was issued, 0 if it is empty.   *)
(***************************************************************************)
EXTENDS OnlineStateTracker, WatchChangeAggregator

CONSTANTS
    kResumeTokenMaxAge,  \* age at which a token is persisted without changes
    Misfortunes,         \* what the backend may do to a target: "rejected"
                         \* (end it with an error), "reset" (resend it), and
                         \* "lossy" (resume it without removals, and send an
                         \* existence filter)
    MaxListens,          \* bound: calls of Listen()
    MaxVersions,         \* bound: versions of the database
    MaxFaults            \* bound: disruptions

ASSUME WatchAssumption ==
    /\ kResumeTokenMaxAge \in Nat
    /\ Misfortunes \subseteq {"rejected", "reset", "lossy"}
    /\ MaxListens \in Nat /\ MaxVersions \in Nat /\ MaxFaults \in Nat

VARIABLES
    r,           \* the client's memory, see above
    cache,       \* persisted: TargetCache, the matching keys and the token
                 \* of every target (View::synced_documents_ is a copy of the
                 \* keys for as long as there is a view)
    last,        \* persisted: GetLastRemoteSnapshotVersion()
    history,     \* backend: the documents in every target at every version
    listens,     \* calls of Listen() so far
    faults       \* disruptions so far

vars == <<r, cache, last, history, listens, faults>>

Keys == [t \in Targets |-> cache[t].keys]

\* The documents of target t at version v; there were none at version 0.
DocsAt(t, v) == IF v = 0 THEN {} ELSE history[v][t]

-----------------------------------------------------------------------------
(* RemoteStore: the listens                                                *)

\* The elements of a set of numbers, in order.
InOrder(S, n) ==
    LET f[i \in 0..n] == IF i = 0 THEN <<>>
                         ELSE IF i \in S THEN Append(f[i - 1], i) ELSE f[i - 1]
    IN  f[n]

WatchRequest(s, t) == [kind |-> "watch", t |-> t, token |-> s.tokens[t]]

UnwatchRequest(t) == [kind |-> "unwatch", t |-> t, token |-> 0]

\* Mutant: SendUnwatchRequest() does not record the request.
SendRequestsCountsWatches(s, t, requests) ==
    LET watches == SelectSeq(requests, LAMBDA q : q.kind = "watch")
    IN  [Write(HardAssert(s, s.exists), requests) EXCEPT
           !.agg.states[t] = RecordPendingTargetRequests(@, Len(watches))]

\* SendWatchRequest() and SendUnwatchRequest(), for one target.
SendRequests(s, t, requests) ==
    [Write(HardAssert(s, s.exists), requests) EXCEPT
       !.agg.states[t] = RecordPendingTargetRequests(@, Len(requests))]

ShouldStartWatchStream(s) == s.net /\ ~IsStarted(s) /\ s.on # {}

StartWatchStream(s) ==
    HandleWatchStreamStart(
        Start([HardAssert(s, ShouldStartWatchStream(s)) EXCEPT
                 !.exists = TRUE, !.agg = NewAggregator]))

CleanUpWatchStreamState(s) ==
    [s EXCEPT !.exists = FALSE, !.agg = NewAggregator]

\* Mutant: UpdateState() is not called for a stream that is not needed.
OnWatchStreamCloseQuietly(s, status) ==
    LET clean == CleanUpWatchStreamState(
                   HardAssert(s, status = "ok" => ~ShouldStartWatchStream(s)))
    IN  IF ShouldStartWatchStream(clean)
        THEN StartWatchStream(HandleWatchStreamFailure(clean))
        ELSE clean

OnWatchStreamClose(s, status) ==
    LET clean == CleanUpWatchStreamState(
                   HardAssert(s, status = "ok" => ~ShouldStartWatchStream(s)))
    IN  IF ShouldStartWatchStream(clean)
        THEN StartWatchStream(HandleWatchStreamFailure(clean))
        ELSE UpdateState(clean, "Unknown")

\* The backend of a connection that does not watch anything yet.
NothingWatched == [t \in Targets |-> [on |-> FALSE, at |-> 0, cur |-> FALSE]]

\* Stream::Close() down to WatchStream::NotifyStreamClose().
Close(s, status) ==
    IF status = "ok" /\ ~IsStarted(s) THEN s
    ELSE OnWatchStreamClose(
           [HardAssert(s, IsStarted(s)) EXCEPT
              !.idle = FALSE, !.backoff = FALSE, !.closes = @ + 1,
              !.up = <<>>, !.down = <<>>, !.srv = NothingWatched, !.read = 0,
              !.state = IF status = "ok" THEN "Initial" ELSE "Error"], status)

Stop(s) == Close(s, "ok")

\* The watch half of EnableNetwork(), DisableNetwork() and RestartNetwork().
EnableNetworkOp(s) ==
    LET enabled == [s EXCEPT !.net = TRUE]
    IN  IF ShouldStartWatchStream(enabled) THEN StartWatchStream(enabled)
        ELSE UpdateState(enabled, "Unknown")

DisableNetworkInternal(s) == CleanUpWatchStreamState(Stop(s))

DisableNetworkOp(s) ==
    UpdateState(DisableNetworkInternal([s EXCEPT !.net = FALSE]), "Offline")

RestartNetwork(s) ==
    EnableNetworkOp(InhibitBackoff(
        UpdateState(DisableNetworkInternal([s EXCEPT !.net = FALSE]),
                    "Unknown")))

\* RemoteStore::Listen() with the target data that AllocateTarget() returned.
RemoteListen(s, t, token) ==
    IF t \in s.on THEN s
    ELSE LET listening == [s EXCEPT !.on = @ \cup {t}, !.tokens[t] = token]
         IN  IF ShouldStartWatchStream(listening)
             THEN StartWatchStream(listening)
             ELSE IF IsOpen(listening)
             THEN SendRequests(listening, t, <<WatchRequest(listening, t)>>)
             ELSE listening

\* RemoteStore::StopListening().
RemoteStopListening(s, t) ==
    LET erased == [HardAssert(s, t \in s.on) EXCEPT !.on = @ \ {t}]
        sent   == IF IsOpen(erased)
                  THEN SendRequests(erased, t, <<UnwatchRequest(t)>>)
                  ELSE erased
    IN  IF sent.on # {} THEN sent
        ELSE IF IsOpen(sent) THEN MarkIdle(sent)
        ELSE IF sent.net THEN UpdateState(sent, "Unknown")
        ELSE sent

\* What is left of a target in memory after LocalStore::ReleaseTarget() and
\* SyncEngine::RemoveAndCleanupTarget().
RemoveAndCleanupTarget(s, t) ==
    [s EXCEPT !.views = @ \ {t}, !.current[t] = FALSE]

\* A client that was just constructed.
NewClient ==
    [net |-> FALSE, views |-> {}, data |-> [t \in Targets |-> 0],
     current |-> [t \in Targets |-> FALSE], on |-> {},
     tokens |-> [t \in Targets |-> 0], exists |-> FALSE,
     agg |-> NewAggregator, online |-> "Unknown", failures |-> 0,
     timer |-> FALSE, state |-> "Initial", idle |-> FALSE, backoff |-> FALSE,
     closes |-> 0, auth |-> {}, up |-> <<>>, down |-> <<>>,
     srv |-> NothingWatched, read |-> 0, ok |-> TRUE]

Disrupt == faults < MaxFaults /\ faults' = faults + 1

-----------------------------------------------------------------------------
(* Calls of the user                                                       *)

\* SyncEngine::Listen(): AllocateTarget() and a view that is not current.
Listen(t) ==
    /\ listens < MaxListens
    /\ t \notin r.views
    /\ r' = RemoteListen([r EXCEPT !.views = @ \cup {t},
                                   !.data[t] = cache[t].token,
                                   !.current[t] = FALSE], t, cache[t].token)
    /\ listens' = listens + 1
    /\ UNCHANGED <<cache, last, history, faults>>

\* Mutant: ReleaseTarget() and RemoveAndCleanupTarget() are not called.
StopListeningKeepsTarget(t) ==
    /\ t \in r.views
    /\ r' = RemoteStopListening(r, t)
    /\ UNCHANGED <<cache, last, history, listens, faults>>

\* SyncEngine::StopListening(): ReleaseTarget() persists the resume token.
StopListening(t) ==
    /\ t \in r.views
    /\ cache' = [cache EXCEPT ![t].token = r.data[t]]
    /\ r' = RemoveAndCleanupTarget(RemoteStopListening(r, t), t)
    /\ UNCHANGED <<last, history, listens, faults>>

EnableNetwork ==
    /\ r' = EnableNetworkOp(r)
    /\ UNCHANGED <<cache, last, history, listens, faults>>

DisableNetwork ==
    /\ Disrupt
    /\ r' = DisableNetworkOp(r)
    /\ UNCHANGED <<cache, last, history, listens>>

\* RemoteStore::HandleCredentialChange(), and the connectivity callback.
NetworkChange ==
    /\ Disrupt
    /\ r.net
    /\ r' = RestartNetwork(r)
    /\ UNCHANGED <<cache, last, history, listens>>

\* The process dies and a new client starts.
Restart ==
    /\ Disrupt
    /\ r' = EnableNetworkOp(NewClient)
    /\ UNCHANGED <<cache, last, history, listens>>

-----------------------------------------------------------------------------
(* Timers, credentials, and the end of a call                              *)

BackoffElapsed ==
    /\ r.backoff
    /\ r' = RestartAfterBackoff(r)
    /\ UNCHANGED <<cache, last, history, listens, faults>>

IdleTimeout ==
    /\ r.idle
    /\ r' = Stop([r EXCEPT !.idle = FALSE])
    /\ UNCHANGED <<cache, last, history, listens, faults>>

OnlineStateTimeout ==
    /\ r.timer
    /\ r' = HandleOnlineStateTimeout(r)
    /\ UNCHANGED <<cache, last, history, listens, faults>>

\* A token arrives for a stream that was closed since: dropped.
StaleCredentials(c) ==
    /\ c \in r.auth
    /\ c # r.closes
    /\ r' = [r EXCEPT !.auth = @ \ {c}]
    /\ UNCHANGED <<cache, last, history, listens, faults>>

\* SendWatchRequest() for every target in listen_targets_.
WatchAll(s) ==
    LET targets == InOrder(s.on, NumTargets)
    IN  IF targets = <<>> THEN s
        ELSE [Write(HardAssert(s, s.exists),
                    [i \in 1..Len(targets) |-> WatchRequest(s, targets[i])])
              EXCEPT !.agg.states =
                [t \in Targets |->
                   IF t \in s.on THEN RecordPendingTargetRequests(@[t], 1)
                                 ELSE @[t]]]

\* ResumeStartWithCredentials() with a token, down to OnWatchStreamOpen().
ResumeStartWithCredentials ==
    /\ r.closes \in r.auth
    /\ r' = WatchAll([HardAssert(r, r.state = "Starting") EXCEPT
                        !.auth = @ \ {r.closes}, !.state = "Open"])
    /\ UNCHANGED <<cache, last, history, listens, faults>>

\* ResumeStartWithCredentials() with an error.
CredentialsError ==
    /\ Disrupt
    /\ r.closes \in r.auth
    /\ r' = Close([HardAssert(r, r.state = "Starting") EXCEPT
                     !.auth = @ \ {r.closes}], "error")
    /\ UNCHANGED <<cache, last, history, listens>>

\* The call breaks, or a response does not decode: unread responses are lost.
StreamFinish ==
    /\ Disrupt
    /\ IsOpen(r)
    /\ r' = Close(r, "error")
    /\ UNCHANGED <<cache, last, history, listens>>

-----------------------------------------------------------------------------
(* Responses: WatchStream::NotifyStreamResponse(), OnWatchStreamChange()   *)

\* The first response is read, and the connection is known to be alive.
ReadResponse == UpdateState([r EXCEPT !.down = Tail(@)], "Online")

\* The responses that only change the aggregator.
Aggregate(a, m) ==
    CASE m.kind = "added"   -> HandleAdded(a, m.t)
      [] m.kind = "removed" -> HandleRemoved(a, m.t)
      [] m.kind = "current" -> HandleCurrent(a, r.on, m.t, m.v)
      [] m.kind = "reset"   -> HandleReset(a, r.on, Keys, m.t)
      [] m.kind = "put"     -> AddDocumentToTarget(a, r.on, Keys, m.t, m.v)
      [] m.kind = "drop"    -> RemoveDocumentFromTarget(a, r.on, Keys, m.t, m.v)
      [] m.kind = "filter"  -> HandleExistenceFilter(a, r.on, Keys, m.t, m.v)

OnTargetOrDocumentChange ==
    /\ r.down # <<>>
    /\ Head(r.down).kind \notin {"rejected", "snapshot"}
    /\ r' = [HardAssert(ReadResponse, r.exists) EXCEPT
               !.agg = Aggregate(@, Head(r.down))]
    /\ UNCHANGED <<cache, last, history, listens, faults>>

\* ProcessTargetError() and SyncEngine::HandleRejectedListen().
ProcessTargetError ==
    /\ r.down # <<>>
    /\ Head(r.down).kind = "rejected"
    /\ LET t == Head(r.down).t
       IN  IF t \notin r.on
           THEN r' = ReadResponse /\ UNCHANGED cache
           ELSE /\ r' = RemoveAndCleanupTarget(
                          [ReadResponse EXCEPT !.on = @ \ {t},
                                               !.agg = RemoveTarget(@, t)], t)
                /\ cache' = [cache EXCEPT ![t].token = r.data[t]]
    /\ UNCHANGED <<last, history, listens, faults>>

\* LocalStore::ShouldPersistTargetData().
ShouldPersistTargetData(new, old, change) ==
    \/ old = 0
    \/ new - old >= kResumeTokenMaxAge
    \/ change.added \cup change.modified \cup change.removed # {}

\* RaiseWatchSnapshot(): re-listen to the mismatched targets from scratch.
Relisten(s, t) ==
    LET cleared == [s EXCEPT !.tokens[t] = 0]
    IN  SendRequests(cleared, t, <<UnwatchRequest(t), WatchRequest(cleared, t)>>)

RelistenAll(s, targets) ==
    LET f[i \in 0..NumTargets] ==
          IF i = 0 THEN s
          ELSE IF i \in targets THEN Relisten(f[i - 1], i) ELSE f[i - 1]
    IN  f[NumTargets]

\* RaiseWatchSnapshot(), SyncEngine::ApplyRemoteEvent(),
\* LocalStore::ApplyRemoteEvent() and View::ApplyTargetChange().
RaiseWatchSnapshot(s, v) ==
    LET changed == ChangedTargets(s.agg, s.on)
        change  == [t \in Targets |-> ToTargetChange(s.agg.states[t])]
        renewed == {t \in changed : change[t].token # 0}
    IN  /\ r' = RelistenAll(
                  [HardAssert(s, /\ v >= last
                                 /\ \A t \in changed :
                                      change[t].modified \subseteq cache[t].keys)
                   EXCEPT
                     !.agg = ClearAfterEvent(@, s.on),
                     !.tokens = [t \in Targets |-> IF t \in renewed
                                                   THEN change[t].token
                                                   ELSE @[t]],
                     !.data = [t \in Targets |-> IF t \in renewed
                                                 THEN change[t].token ELSE @[t]],
                     !.current = [t \in Targets |-> IF t \in changed
                                                    THEN change[t].current
                                                    ELSE @[t]]],
                  s.agg.resets \cap s.on)
        /\ cache' =
             [t \in Targets |->
               IF t \notin changed THEN cache[t]
               ELSE [keys  |-> (cache[t].keys \ change[t].removed)
                                 \cup change[t].added,
                     token |-> IF /\ t \in renewed
                                  /\ ShouldPersistTargetData(change[t].token,
                                                       s.data[t], change[t])
                               THEN change[t].token ELSE cache[t].token]]
        /\ last' = v

\* Mutant: a snapshot of the version of the last one is ignored.
OnNewerSnapshot ==
    /\ r.down # <<>>
    /\ Head(r.down).kind = "snapshot"
    /\ LET v == Head(r.down).v
           s == [HardAssert(ReadResponse, r.exists) EXCEPT
                   !.agg = HandleNoChange(@, r.on, v)]
       IN  IF v > last THEN RaiseWatchSnapshot(s, v)
           ELSE r' = s /\ UNCHANGED <<cache, last>>
    /\ UNCHANGED <<history, listens, faults>>

\* A NoChange without target ids and with a snapshot version.
OnSnapshot ==
    /\ r.down # <<>>
    /\ Head(r.down).kind = "snapshot"
    /\ LET v == Head(r.down).v
           s == [HardAssert(ReadResponse, r.exists) EXCEPT
                   !.agg = HandleNoChange(@, r.on, v)]
       IN  IF v >= last THEN RaiseWatchSnapshot(s, v)
           ELSE r' = s /\ UNCHANGED <<cache, last>>
    /\ UNCHANGED <<history, listens, faults>>

-----------------------------------------------------------------------------
(* The backend (external): every request is answered once, in order; a     *)
(* snapshot is sent when all watched targets are up to date with it.       *)

Message(kind, t, v) == [kind |-> kind, t |-> t, v |-> v]

\* A document enters or leaves a target.
Commit(t, d) ==
    /\ Len(history) < MaxVersions
    /\ LET now == history[Len(history)]
       IN  history' = Append(history,
             [now EXCEPT ![t] = IF d \in @ THEN @ \ {d} ELSE @ \cup {d}])
    /\ UNCHANGED <<r, cache, last, listens, faults>>

ServerAnswer ==
    /\ r.up # <<>>
    /\ LET q == Head(r.up)
       IN  r' = [r EXCEPT
                   !.up = Tail(@),
                   !.down = Append(@, Message(IF q.kind = "watch" THEN "added"
                                                                  ELSE "removed",
                                              q.t, 0)),
                   !.srv[q.t] = [on |-> q.kind = "watch", at |-> q.token,
                                 cur |-> FALSE]]
    /\ UNCHANGED <<cache, last, history, listens, faults>>

\* A request to watch (v = 1), or a watched target (v = 0), ends with an error.
ServerReject(t) ==
    /\ "rejected" \in Misfortunes
    /\ Disrupt
    /\ \/ /\ r.up # <<>> /\ Head(r.up).kind = "watch" /\ Head(r.up).t = t
          /\ r' = [r EXCEPT !.up = Tail(@),
                            !.down = Append(@, Message("rejected", t, 1))]
       \/ /\ r.srv[t].on
          /\ r' = [r EXCEPT !.srv[t].on = FALSE,
                            !.down = Append(@, Message("rejected", t, 0))]
    /\ UNCHANGED <<cache, last, history, listens>>

Puts(t, docs) ==
    LET ds == InOrder(docs, NumDocs)
    IN  [i \in 1..Len(ds) |-> Message("put", t, ds[i])]

Drops(t, docs) ==
    LET ds == InOrder(docs, NumDocs)
    IN  [i \in 1..Len(ds) |-> Message("drop", t, ds[i])]

\* The responses that bring target t from version at to version v.
CatchUp(t, at, v, mode) ==
    LET old == DocsAt(t, at)
        new == DocsAt(t, v)
    IN  CASE mode = "delta" -> Drops(t, old \ new) \o Puts(t, new \ old)
          [] mode = "reset" -> <<Message("reset", t, 0)>> \o Puts(t, new)
          [] mode = "lossy" -> Puts(t, new \ old)
                               \o <<Message("filter", t, Cardinality(new))>>

\* The backend sends version v: the changes of all watched targets, CURRENT
\* for those that were not current, and the snapshot itself.  Target odd is
\* caught up in the given mode.
ServerSnapshot(v, odd, mode) ==
    LET watched == {t \in Targets : r.srv[t].on}
        part[t \in 0..NumTargets] ==
          IF t = 0 THEN <<>>
          ELSE IF t \notin watched THEN part[t - 1]
          ELSE part[t - 1]
               \o CatchUp(t, r.srv[t].at, v, IF t = odd THEN mode ELSE "delta")
               \o (IF r.srv[t].cur /\ ~(t = odd /\ mode = "reset") THEN <<>>
                   ELSE <<Message("current", t, v)>>)
    IN  /\ v >= r.read
        /\ \A t \in watched : r.srv[t].at <= v
        /\ \E t \in watched : r.srv[t].at < v \/ ~r.srv[t].cur
        /\ odd \in watched \cup {0}
        /\ r' = [r EXCEPT
                   !.down = @ \o part[NumTargets] \o <<Message("snapshot", 0, v)>>,
                   !.read = v,
                   !.srv = [t \in Targets |->
                              IF t \in watched
                              THEN [on |-> TRUE, at |-> v, cur |-> TRUE]
                              ELSE @[t]]]
        /\ UNCHANGED <<cache, last, history, listens>>

ServerSend(v) == ServerSnapshot(v, 0, "delta") /\ UNCHANGED faults

\* A reset at any time; a lossy resumption only of a target with a token.
ServerSendOddly(v, odd, mode) ==
    /\ mode \in Misfortunes \cap {"reset", "lossy"}
    /\ odd # 0
    /\ mode = "lossy" => ~r.srv[odd].cur /\ r.srv[odd].at # 0
    /\ Disrupt
    /\ ServerSnapshot(v, odd, mode)

-----------------------------------------------------------------------------
Init ==
    /\ r = EnableNetworkOp(NewClient)
    /\ cache = [t \in Targets |-> [keys |-> {}, token |-> 0]]
    /\ last = 0
    /\ \E h \in [Targets -> SUBSET Docs] : history = <<h>>
    /\ listens = 0
    /\ faults = 0

Next ==
    \/ \E t \in Targets : Listen(t)
    \/ \E t \in Targets : StopListening(t)
    \/ EnableNetwork
    \/ DisableNetwork
    \/ NetworkChange
    \/ Restart
    \/ BackoffElapsed
    \/ IdleTimeout
    \/ OnlineStateTimeout
    \/ \E c \in r.auth : StaleCredentials(c)
    \/ ResumeStartWithCredentials
    \/ CredentialsError
    \/ StreamFinish
    \/ OnTargetOrDocumentChange
    \/ ProcessTargetError
    \/ OnSnapshot
    \/ \E t \in Targets, d \in Docs : Commit(t, d)
    \/ ServerAnswer
    \/ \E t \in Targets : ServerReject(t)
    \/ \E v \in 1..Len(history) : ServerSend(v)
    \/ \E v \in 1..Len(history), t \in Targets, mode \in Misfortunes :
          ServerSendOddly(v, t, mode)

Spec == Init /\ [][Next]_vars

\* Timers fire, a requested token arrives, and responses are read.
ClientFairness ==
    /\ WF_vars(BackoffElapsed)
    /\ WF_vars(OnlineStateTimeout)
    /\ WF_vars(ResumeStartWithCredentials)
    /\ WF_vars(OnTargetOrDocumentChange)
    /\ WF_vars(ProcessTargetError)
    /\ WF_vars(OnSnapshot)

\* The backend answers requests and sends the latest version.
BackendFairness ==
    /\ WF_vars(ServerAnswer)
    /\ WF_vars(ServerSend(Len(history)))

\* A client whose backend may fall silent, and one whose backend does not.
ClientSpec == Spec /\ ClientFairness
FairSpec == ClientSpec /\ BackendFairness

-----------------------------------------------------------------------------
(* Properties                                                              *)

Request == [kind : {"watch", "unwatch"}, t : Targets, token : Nat]

Response ==
    [kind : {"added", "removed", "rejected", "current", "reset", "put", "drop",
             "filter", "snapshot"}, t : Nat, v : Nat]

ClientType ==
    [net : BOOLEAN, views : SUBSET Targets, data : [Targets -> Nat],
     current : [Targets -> BOOLEAN], on : SUBSET Targets,
     tokens : [Targets -> Nat], exists : BOOLEAN,
     agg : [states : [Targets -> TargetState], resets : SUBSET Targets],
     online : OnlineStates, failures : Nat, timer : BOOLEAN,
     state : StreamStates, idle : BOOLEAN, backoff : BOOLEAN, closes : Nat,
     auth : SUBSET Nat, up : Seq(Request), down : Seq(Response),
     srv : [Targets -> [on : BOOLEAN, at : Nat, cur : BOOLEAN]], read : Nat,
     ok : BOOLEAN]

\* Every variable has the type its declaration says.
WatchTypeOK ==
    /\ r \in ClientType
    /\ cache \in [Targets -> [keys : SUBSET Docs, token : Nat]]
    /\ last \in Nat
    /\ history \in Seq([Targets -> SUBSET Docs])
    /\ listens \in Nat
    /\ faults \in Nat

\* No HARD_ASSERT on the watch path can fail, and the aggregator is never
\* used while it is null: timers fire in the state they were set for, the
\* stream is not stopped while it is needed, a modified document is one that
\* the view has.
NoWatchAssertFails == r.ok

\* The client calls itself online only while the stream is open, and waits
\* for the online state timer only while the state is still unknown and the
\* stream is on its way.
OnlineStateMatchesStream ==
    /\ r.online = "Online" => IsOpen(r)
    /\ r.timer => r.online = "Unknown" /\ IsStarted(r)

\* RemoteStore listens to exactly the targets that SyncEngine has views for,
\* and keeps an aggregator exactly as long as the stream is started.
ListensMatchViews ==
    /\ r.on = r.views
    /\ r.exists <=> IsStarted(r)

\* outstanding_responses_ is the number of requests for the target that are
\* not answered plus the answers that are not read ("The number of
\* outstanding responses (adds or removes) that we are waiting on").
OutstandingResponsesAreExact ==
    LET Asked(t)    == {i \in 1..Len(r.up) : r.up[i].t = t}
        Answered(t) == {i \in 1..Len(r.down) :
                          /\ r.down[i].t = t
                          /\ \/ r.down[i].kind \in {"added", "removed"}
                             \/ r.down[i].kind = "rejected" /\ r.down[i].v = 1}
    IN  \A t \in Targets : r.agg.states[t].out
                            = Cardinality(Asked(t)) + Cardinality(Answered(t))

\* The documents that are stored for a target are the result of its query at
\* the version of the stored resume token: resuming from it loses nothing.
CacheMatchesResumeToken ==
    \A t \in Targets : cache[t].keys = DocsAt(t, cache[t].token)

\* A view that is current shows the result of its query at the version of
\* the resume token in memory, no matter how often the target was removed
\* and added and how often the connection was lost.
CurrentViewIsExact ==
    \A t \in r.views :
        r.current[t] => cache[t].keys = DocsAt(t, r.tokens[t])

\* As long as a client with listens has an enabled network, it does not wait
\* forever to become online or offline ("we transition to Offline rather than
\* waiting indefinitely").
OnlineStateSettles ==
    ~<>[](r.net /\ r.on # {} /\ r.online = "Unknown")

\* The two ways in which an existence filter mismatch leaves documents in the
\* cache for which no later request to watch asks.  Both need a target that is
\* listened to again.  (1) LocalStore stored the emptied target together with
\* the new resume token (local_store.cc:288), and the view went away before
\* the listen without a token was answered: the next listen resumes from that
\* token.  (2) The user stopped listening and listened again between the
\* filter and the snapshot: the target waits for the answers to those requests,
\* so the snapshot does not empty it, but RaiseWatchSnapshot() still listens
\* without a token, and no removal is ever sent for what the cache holds.
MismatchForgotten(t) ==
    \/ t \notin r.views /\ cache[t].keys # DocsAt(t, cache[t].token)
    \/ t \in r.views /\ r.tokens[t] = 0 /\ cache[t].keys # {}

\* A view that stays is eventually current and shows the latest version,
\* through resets, existence filter mismatches, lost connections, restarts and
\* a second listen to the same target, unless a mismatch was forgotten.
ViewsCatchUp ==
    \A t \in Targets :
        <>[](t \in r.views /\ r.net) =>
            \/ <>[](r.current[t] /\ cache[t].keys = DocsAt(t, Len(history)))
            \/ <>MismatchForgotten(t)
=============================================================================
