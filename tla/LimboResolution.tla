-------------------------- MODULE LimboResolution --------------------------
(***************************************************************************)
(* Resolving documents in limbo (core/sync_engine.cc, core/view.cc).       *)
(*                                                                         *)
(* A document is in limbo for a view if the local cache has it among the   *)
(* results and the backend does not.  SyncEngine then listens to that one  *)
(* document, on a target of its own, to learn whether it still exists; the *)
(* number of such targets is limited and further documents wait in a queue.*)
(*                                                                         *)
(* SyncEngine's bookkeeping is one record e, and its methods are operators *)
(* from e to e of the same name:                                           *)
(*                                                                         *)
(*   refs     limbo_document_refs_, a set of [key, view]                   *)
(*   queue    enqueued_limbo_resolutions_                                  *)
(*   byKey    active_limbo_targets_by_key_, 0 for a key without an entry   *)
(*   byId     active_limbo_resolutions_by_target_, a set of [id, key]      *)
(*   listens  the limbo targets in RemoteStore::listen_targets_            *)
(*   ids      how many ids target_id_generator_ has handed out             *)
(*   ok       no HARD_ASSERT has failed                                    *)
(*                                                                         *)
(* Documents and views are numbers: DocumentKeySet iterates in the order   *)
(* of the keys.  Which documents a view finds in limbo is up to the        *)
(* contents of caches and backend and is not determined here.              *)
(***************************************************************************)
EXTENDS Integers, Sequences, FiniteSets

CONSTANTS
    NumKeys,       \* the document keys are 1..NumKeys
    NumViews,      \* the targets of the user's queries are 1..NumViews
    kMaxConcurrentLimboResolutions,
    MaxIds,        \* bound: limbo targets that are ever started
    MaxQueue       \* bound: length of the queue of waiting documents

ASSUME LimboAssumption ==
    /\ NumKeys \in Nat /\ NumViews \in Nat /\ MaxIds \in Nat
    /\ MaxQueue \in Nat
    /\ kMaxConcurrentLimboResolutions \in Nat \ {0}

Keys == 1..NumKeys
Views == 1..NumViews

VARIABLES
    e,           \* SyncEngine's bookkeeping, see above
    open,        \* the views that are open
    limbo,       \* View::limbo_documents_ of every view
    rejected     \* history: documents whose resolution was rejected while a
                 \* view that was not current had them in limbo

vars == <<e, open, limbo, rejected>>

-----------------------------------------------------------------------------
ReferencedKeys(s, view) == {k \in Keys : [key |-> k, view |-> view] \in s.refs}

ContainsKey(s, key) == \E x \in s.refs : x.key = key

ActiveKeys(s) == {k \in Keys : s.byKey[k] # 0}

\* One iteration of the loop of PumpEnqueuedLimboResolutions(); emplace()
\* does not overwrite an entry.
StartResolution(s) ==
    LET key == Head(s.queue)
        id  == s.ids + 1
    IN  [s EXCEPT !.queue = Tail(@),
                  !.ids = id,
                  !.byId = @ \cup {[id |-> id, key |-> key]},
                  !.byKey[key] = IF @ = 0 THEN id ELSE @,
                  !.listens = @ \cup {id}]

PumpEnqueuedLimboResolutions(s) ==
    LET f[i \in 0..Len(s.queue)] ==
          IF i = 0 THEN s
          ELSE IF Cardinality(ActiveKeys(f[i - 1]))
                    < kMaxConcurrentLimboResolutions
          THEN StartResolution(f[i - 1]) ELSE f[i - 1]
    IN  f[Len(s.queue)]

TrackLimboChange(s, key) ==
    IF s.byKey[key] # 0 THEN s
    ELSE PumpEnqueuedLimboResolutions([s EXCEPT !.queue = Append(@, key)])

\* Mutant: RemoteStore::StopListening() is not called.
RemoveLimboTargetKeepsListen(s, key) ==
    IF s.byKey[key] = 0 THEN s
    ELSE PumpEnqueuedLimboResolutions(
           [s EXCEPT !.byKey[key] = 0,
                     !.byId = {x \in @ : x.id # s.byKey[key]}])

\* Mutant: the next enqueued resolutions are not started.
RemoveLimboTargetWithoutPump(s, key) ==
    IF s.byKey[key] = 0 THEN s
    ELSE [s EXCEPT !.ok = @ /\ s.byKey[key] \in s.listens,
                   !.listens = @ \ {s.byKey[key]},
                   !.byKey[key] = 0,
                   !.byId = {x \in @ : x.id # s.byKey[key]}]

RemoveLimboTarget(s, key) ==
    IF s.byKey[key] = 0 THEN s
    ELSE PumpEnqueuedLimboResolutions(
           [s EXCEPT !.ok = @ /\ s.byKey[key] \in s.listens,
                     !.listens = @ \ {s.byKey[key]},
                     !.byKey[key] = 0,
                     !.byId = {x \in @ : x.id # s.byKey[key]}])

\* LimboDocumentChange::Added and Removed in UpdateTrackedLimboDocuments().
AddLimboDocument(s, key, view) ==
    TrackLimboChange(
        [s EXCEPT !.refs = @ \cup {[key |-> key, view |-> view]}], key)

RemoveLimboDocument(s, key, view) ==
    LET removed == [s EXCEPT !.refs = @ \ {[key |-> key, view |-> view]}]
    IN  IF ContainsKey(removed, key) THEN removed
        ELSE RemoveLimboTarget(removed, key)

\* UpdateTrackedLimboDocuments() with the changes of UpdateLimboDocuments():
\* first the documents that left limbo, then those that entered it.
UpdateTrackedLimboDocuments(s, view, old, new) ==
    LET f[i \in 0..(2 * NumKeys)] ==
          IF i = 0 THEN s
          ELSE IF i \in old \ new THEN RemoveLimboDocument(f[i - 1], i, view)
          ELSE IF i - NumKeys \in new \ old
          THEN AddLimboDocument(f[i - 1], i - NumKeys, view)
          ELSE f[i - 1]
    IN  f[2 * NumKeys]

\* Mutant: a target is removed though another view refers to the document.
CleanupRemovesShared(s, view) ==
    LET keys == ReferencedKeys(s, view)
        f[i \in 0..NumKeys] ==
          IF i = 0 THEN [s EXCEPT !.refs = {x \in @ : x.view # view}]
          ELSE IF i \in keys THEN RemoveLimboTarget(f[i - 1], i)
          ELSE f[i - 1]
    IN  f[NumKeys]

\* The part of RemoveAndCleanupTarget() that deals with limbo documents.
RemoveAndCleanupTarget(s, view) ==
    LET keys == ReferencedKeys(s, view)
        f[i \in 0..NumKeys] ==
          IF i = 0 THEN [s EXCEPT !.refs = {x \in @ : x.view # view}]
          ELSE IF i \in keys /\ ~ContainsKey(f[i - 1], i)
          THEN RemoveLimboTarget(f[i - 1], i)
          ELSE f[i - 1]
    IN  f[NumKeys]

-----------------------------------------------------------------------------
\* At most MaxIds limbo targets in all, and MaxQueue waiting documents.
Bounded == e'.ids <= MaxIds /\ Len(e'.queue) <= MaxQueue

\* SyncEngine::Listen(): a new view, not yet current, has no limbo documents.
Listen(view) ==
    /\ view \notin open
    /\ open' = open \cup {view}
    /\ UNCHANGED <<e, limbo, rejected>>

\* SyncEngine::StopListening() and HandleRejectedListen() of a query.
StopListening(view) ==
    /\ view \in open
    /\ open' = open \ {view}
    /\ e' = RemoveAndCleanupTarget(e, view)
    /\ Bounded
    /\ limbo' = [limbo EXCEPT ![view] = {}]
    /\ rejected' = {k \in rejected : \E v \in Views : k \in limbo'[v]}

\* EmitNewSnapshotsAndNotifyLocalStore() for a current view, after a remote
\* event or a write: UpdateLimboDocuments() finds the documents new in limbo.
UpdateLimboDocuments(view, new) ==
    /\ view \in open
    /\ new # limbo[view]
    /\ e' = UpdateTrackedLimboDocuments(e, view, limbo[view], new)
    /\ Bounded
    /\ limbo' = [limbo EXCEPT ![view] = new]
    /\ rejected' = {k \in rejected : \E v \in Views : k \in limbo'[v]}
    /\ UNCHANGED open

\* HandleRejectedListen() of a limbo target, which ProcessTargetError() has
\* already erased from listen_targets_: a synthetic event says that the
\* document was deleted, and the current views drop it.
HandleRejectedLimboTarget(x, current) ==
    /\ x \in e.byId
    /\ LET erased == PumpEnqueuedLimboResolutions(
                       [e EXCEPT !.listens = @ \ {x.id},
                                 !.byKey[x.key] = 0,
                                 !.byId = @ \ {x}])
           f[v \in 0..NumViews] ==
             IF v = 0 THEN erased
             ELSE IF v \in current
             THEN UpdateTrackedLimboDocuments(f[v - 1], v, limbo[v],
                                              limbo[v] \ {x.key})
             ELSE f[v - 1]
       IN  e' = f[NumViews]
    /\ Bounded
    /\ limbo' = [v \in Views |-> IF v \in current THEN limbo[v] \ {x.key}
                                                  ELSE limbo[v]]
    /\ rejected' = IF \E v \in open : x.key \in limbo'[v]
                   THEN rejected \cup {x.key} ELSE rejected \ {x.key}
    /\ UNCHANGED open

Init ==
    /\ e = [refs |-> {}, queue |-> <<>>, byKey |-> [k \in Keys |-> 0],
            byId |-> {}, listens |-> {}, ids |-> 0, ok |-> TRUE]
    /\ open = {}
    /\ limbo = [v \in Views |-> {}]
    /\ rejected = {}

Next ==
    \/ \E view \in Views : Listen(view)
    \/ \E view \in Views : StopListening(view)
    \/ \E view \in Views, new \in SUBSET Keys : UpdateLimboDocuments(view, new)
    \/ \E x \in e.byId, current \in SUBSET open :
          HandleRejectedLimboTarget(x, current)

Spec == Init /\ [][Next]_vars

-----------------------------------------------------------------------------
(* Properties                                                              *)

\* Every variable has the type its declaration says, and a limbo target has an
\* id that target_id_generator_ has handed out.
LimboTypeOK ==
    /\ e \in [refs : SUBSET [key : Keys, view : Views], queue : Seq(Keys),
              byKey : [Keys -> 0..e.ids],
              byId : SUBSET [id : 1..e.ids, key : Keys],
              listens : SUBSET (1..e.ids), ids : Nat, ok : BOOLEAN]
    /\ open \subseteq Views
    /\ limbo \in [Views -> SUBSET Keys]
    /\ rejected \subseteq Keys

\* RemoteStore listens to exactly the targets of active_limbo_resolutions_by_-
\* target_, an active key has the target that the other map has for it, and
\* StopListening() is never called for a target that is not watched.
LimboTargetsMatchListens ==
    /\ e.ok
    /\ e.listens = {x.id : x \in e.byId}
    /\ \A k \in ActiveKeys(e) : [id |-> e.byKey[k], key |-> k] \in e.byId

\* limbo_document_refs_ has the limbo documents of the open views, and each
\* of them is being resolved or waits for it, or its resolution was rejected
\* while the view was not current and so could not drop the document.
NoLimboDocumentForgotten ==
    /\ e.refs = {x \in [key : Keys, view : Views] : x.key \in limbo[x.view]}
    /\ \A x \in e.refs : \/ e.byKey[x.key] # 0
                         \/ \E i \in 1..Len(e.queue) : e.queue[i] = x.key
                         \/ x.key \in rejected

\* A document waits only while the limit is reached.
QueueMeansFull ==
    e.queue # <<>> =>
        Cardinality(ActiveKeys(e)) >= kMaxConcurrentLimboResolutions

\* "Starts listens for documents in limbo that are enqueued for resolution,
\* subject to a maximum number of concurrent resolutions."
LimboListensAreLimited ==
    Cardinality(e.listens) <= kMaxConcurrentLimboResolutions
=============================================================================
