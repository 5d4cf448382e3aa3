# Verification of the Firestore client core

This directory specifies and verifies the synchronization core of the Cloud
Firestore client (`Firestore/core/src`), the part of this repository with the
most concurrency and failure handling, together with the parts of its
surroundings that have such behaviour too: the worker queue, the flow of
credentials from Firebase Auth, transactions, and the event transport that other
libraries log through. It contains TLA+ modules, TLC configurations for small
instances, and TLAPS proofs that hold for all values of the constants. Paths below
are relative to `src/Firestore/core/src/` unless they start with `src/`.

* [Inventory](#inventory)
* [Modules](#modules)
* [Runs](#runs)
* [Proofs](#proofs)
* [Disagreements found](#disagreements-found)
* [What is abstracted, and what is not modelled](#what-is-abstracted-and-what-is-not-modelled)
* [Plan](#plan)

## Inventory

The repository is the Firebase SDK for Apple platforms, about thirty libraries.
Firestore is the largest and the one whose core is written in portable C++.
`PROJECT.json` lists every component with its status; this is the part that is
verified and its neighbourhood.

| Component | State | Operations | Correct if |
|---|---|---|---|
| `FirestoreClient` (core/firestore_client.cc) | the objects below | start, terminate, enable and disable the network, write, listen, wait for pending writes | every call becomes one operation on the queue |
| `SyncEngine` (core/sync_engine.cc) | views, callbacks per batch, waiters, limbo bookkeeping | listen, stop listening, write, remote event, acknowledged, rejected, user change, online state | every callback gets the outcome of its own write; every view follows its query; every limbo document is resolved |
| `View` (core/view.cc) | synced and limbo documents, `current_` | apply changes, target change, online state | a current view is exact |
| `LocalStore` (local/local_store.cc) | mutation queue, target cache, documents | accept, acknowledge and reject a batch, apply a remote event, allocate and release a target | what is stored can be resumed from after a crash |
| mutation queues (local/\*_mutation_queue.cc) | batches of one user, stream token, next id | start, add, next after, highest, acknowledge, remove | batches leave in order, ids grow |
| `RemoteStore` (remote/remote_store.cc) | write pipeline, listen targets, aggregator, network flag | fill the pipeline, listen, stop, all stream callbacks, restart | the pipeline is the head of the queue; listens match views |
| `Stream`, `WatchStream`, `WriteStream` (remote/stream.cc, ...) | connection state, timers, close count, handshake, token | start, stop, close, write, mark idle, inhibit backoff | never stopped while needed, no timer fires in a wrong state |
| `OnlineStateTracker` (remote/online_state_tracker.cc) | state, failures, timer | start, failure, update | online only with a live stream; the wait ends |
| `WatchChangeAggregator` (remote/remote_event.cc) | state per target, pending resets | target change, document change, existence filter, create an event | changes of a previous life of a target are dropped, all others kept |
| `AsyncQueue`, `ExecutorLibdispatch`, `Task` (util/) | mode, tasks with state and reference count, schedule, the dispatch queue | enqueue, schedule, cancel, restrict, dispose | tasks are freed once; nothing runs after disposal; accepted work runs |
| `FirebaseCredentialsProvider` (auth/) and `FIRAuth` (src/FirebaseAuth) | current user, token counter, forced refresh; user, token, notification | get and invalidate a token, listener, sign in and out, refresh | a token is paired with its user; streams act for the engine's user |
| `Transaction`, `TransactionRunner` (core/) | versions read, mutations, retries left | lookup, set, update, delete, commit, retry | commits are serializable, results true, retries end |
| GoogleDataTransport (src/GoogleDataTransport) | event files, batch directories, batch counter, upload flag | store, batch, upload, answer, remove, expire | no stored event is lost, no batch stranded, uploads do not stop |
| `GrpcStream`, `Datastore` (remote/grpc_stream.cc, remote/datastore.cc) | buffered writes, outstanding completions | write, finish, observer callbacks; classification of errors | no event after finish |

**Interaction.** A user's call is enqueued on the `AsyncQueue`; so are timers,
answers of the credentials provider, and gRPC completions. The queue is serial,
so each of these is one atomic step and calls between components inside a step
are ordinary function calls. What makes the queue serial, and what happens when it
is disposed of while threads use it, is the subject of `WorkerQueue`; how users and
tokens cross from Auth's queue over the main queue to the worker, that of
`CredentialFlow`. Within the core what interleaves is the order of the steps, and
everything beyond the process: the wire, the backend, and the death of the
process between a step that the backend has seen and one that the disk has
seen. That order is what tests hardly reach and what the models explore.

**Hard behaviours.** Write responses carry no batch id and are matched by
position. A target id is reused while answers to its previous life are in
flight. Users change with requests, tokens and responses outstanding. The
stream has three timers and an asynchronous start, each of which can be
overtaken by a stop. Persistence lags behind memory. `PROJECT.json` lists these
as hazards, each at its line with the properties that cover it.

## Modules

| Module | Models |
|---|---|
| `MutationQueue` | both mutation queues: order, ids, removal. Parameterised by `Persistence` |
| `Stream` | the state machine that both streams inherit |
| `WritePipeline` | `MutationQueue` and `Stream` composed with `WriteStream`, the write half of `RemoteStore`, `LocalStore` and `SyncEngine`, the wire and the backend |
| `WritePipelineProofs` | the theorems about `WritePipeline`, and that it implements `WriteQueue` |
| `OnlineStateTracker` | the tracker and its timer |
| `WatchChangeAggregator` | the aggregator |
| `WatchPipeline` | `Stream`, `OnlineStateTracker` and `WatchChangeAggregator` composed with the watch half of `RemoteStore`, the target side of `LocalStore`, `SyncEngine` and `View`, the wire and the backend |
| `LimboResolution` | `SyncEngine`'s bookkeeping of limbo documents |
| `WriteQueue` | what the write path promises, without ids, streams, pipelines or timers; `WritePipeline` implements it |
| `WorkerQueue` | `AsyncQueue`, `ExecutorLibdispatch`, `Task` and libdispatch, under `Firestore` and `FirestoreClient` being disposed of, terminated and cleared |
| `CredentialFlow` | `FIRAuth` with its token service, `FirebaseCredentialsProvider` and a stream that asks for a token, on three queues |
| `TransactionRunner` | `Transaction`, `TransactionRunner`, the update block, the unary calls and a backend that others write to |
| `EventTransport` | `GDTCORFlatFileStorage`, `GDTCCTUploader` and `GDTCORUploadCoordinator`, the backend, and the end of the process |
| `WatchPipelineProofs`, `LimboResolutionProofs`, `WorkerQueueProofs`, `CredentialFlowProofs`, `TransactionRunnerProofs`, `EventTransportProofs` | the theorems about these modules |
| `SequenceFacts` | lemmas about sequences, and induction |
| `MC*` | the instances for TLC |

**How code becomes TLA+.** The memory of a component is a record (`rs`, `r`,
`e`), and a C++ method is an operator of the same name from record to record, so
that a handler is the composition of the calls it makes, in the order in which it
makes them. A handler that runs on the queue is one action. A `HARD_ASSERT` is
`HardAssert(r, condition)`, which records in the field `ok` whether all of them
held; that `ok` stays true is a property, not an assumption. Where C++ and TLA+
would use one name for a method and for an action that calls it, the method gets
the suffix `Op` or the name of its class (`EnableNetworkOp`, `RemoteListen`).
Definitions marked *Mutant* are faulty variants of the definition that follows
them; none of them is used by a specification. `PROJECT.json` gives the lines of
every definition and pairs each mutant with the property that detects it.

**`WritePipeline`.** A write `w` is a number in the order of issue; a batch is
`[id, w]`. With LevelDB, `queue` and `stored` survive `Restart`. The wire is two sequences,
`up` and `down`, and the status `fin` with which the backend ended the call. `author`,
`session`, `told` are history variables: who issued a write, which were issued by this
process, and what their callbacks were told. `StreamFinish` is the one place where
responses can be lost although they arrived, because a failed gRPC write cancels the
reads. `DieBeforeAcknowledge` is a process that dies inside `HandleSuccessfulWrite()`,
between the notification of the user and the commit. `Restart` is every other end of
the process, at a moment between two handlers: each handler commits at most one
transaction that matters here, so a death inside one leaves on disk what a death
before or after it leaves, and differs only in what the user was told. A death after
`RejectBatch()` and before `NotifyUser()` (core/sync_engine.cc:362-374) is the
remaining case; it is as if the process died right after the rejection, with a
callback that has not run, so `told` is smaller and no promise about `told` is
affected. `Close` drops the requests that the backend has not taken. A request that
still reaches the backend after the close is, for the client, one that the backend
took before the close and whose answer was not read, which the model has; only its
arrival behind requests of the next call is excluded.

**`WatchPipeline`.** A version is a position in `history`, the sequence of the
backend's states; a resume token is the version at which it was issued. `cache`
is what is persisted per target (keys and token), `r.data` the copy of the token
that `LocalStore` keeps in memory, and `r.tokens` the one in
`RemoteStore::listen_targets_`: three places that the code updates at different
times. The backend answers each request once and in order, then sends changes,
`CURRENT` and a snapshot; `Misfortunes` says which of the following it may also
do: end a target with an error, reset a target, or resume a target without
removals and send an existence filter.

**`LimboResolution`.** Which documents a view finds in limbo depends on cache and
backend contents and is left open: a view may find any set at any time. The
bookkeeping behind it is exact, including `emplace()` that does not overwrite.

**`WriteQueue` and the refinement.** The abstract state is the queue of pending
writes of each user, who issued what, which writes belong to the present process,
what their issuers were told, and what the backend applied or refused. Its actions
are `Issue`, `Deal` (the backend deals with a pending write, maybe again, when it
has dealt with those before it), `Settle` (only the head of a queue, only after the
backend has dealt with it, told once and only to a live issuer) and `Restart`.
`WritePipeline` maps `pending` to the writes of its batches and `live` to `session`;
all else has the same name. Batch ids, waiters, stream tokens, the pipeline, the
wire and the timers are hidden. `ImplementsWriteQueue` is the property
`WQ!Spec`. It contains what `SuccessMeansApplied` and `BackendSeesWritesInOrder`
say of states, and says in addition that no write is settled twice, or out of
turn, or without its issuer being told.

**`WorkerQueue`.** The one module in which threads interleave inside the client. A
thread has a program counter; a critical section that makes no blocking call is one
step, and the holders of the two mutexes that are kept across calls are variables.
A task is a record with the fields of `Task`; its reference count is the
implementation's, and `Owners(t)` is what it ought to count. `Worker` is the thread
that libdispatch runs the serial queue on. An operation is ordinary work, which may
make one call back into the queue (enqueue, schedule, cancel or query the timer), a
termination, the operation of `Dispose()`, or that of `ClearPersistence()`. The
application's callbacks run on the user executor, `user`, a second instance of the
same class that is reduced to what this module shows of the class: a callback runs
before `Dispose()` completes or not at all, and the first `Dispose()` waits for one
that runs on another thread. Its queue is serial, as the main queue is, which is the
default. A thread that runs a callback may make every call that a thread can make;
`EnsureClientConfigured` stands for the beginning of every call of the API. A call
that locks `Firestore::mutex_` is two steps, the call and the lock, so that a thread
can be stuck in it.

**`CredentialFlow`.** Auth's work queue, the main queue and the worker are three
sequences whose heads are executed concurrently. `contents` is the provider's
shared state: the main queue changes it under its mutex, the worker reads it
without, so `GetToken()` on the worker is three steps (`GetTokenCount`,
`GetTokenDispatch`, `GetTokenReset`), each one access. A token is the pair of its
user and a number, so that a property can tell whose it is. The stream is reduced
to its state, close count and token.

**`TransactionRunner`.** The update block is any sequence of at most `MaxOps` reads
and writes; it may return the error of a read, give up with an error of its own, or
succeed. A version is a number and 0 that of a document that does not exist.
`applied`, `lost` and `seen` are history variables: how often the backend applied
the transaction, how often the answer to that was lost, and which versions the
block was given.

**`EventTransport`.** A file is an event; a directory of a batch is a record of
its id, target and files. The queues of storage and uploader are sequences of jobs,
one per block that the code dispatches and that reads or changes something, so that
attempts to upload interleave as their blocks do; a block that only passes a result on
(GDTCORFlatFileStorage.m:197-213, between the batch id and the search for files) is
part of the one before it. `Crash` ends the process between two jobs or halfway
through the files of one.

## Runs

Expected result *pass* unless stated. The numbers are distinct states.

| Run | Checks | States |
|---|---|---|
| `write_safety` | two users, LevelDB, three writes, pipeline of two, two faults and both wire faults: `TypeOK`, `NoHardAssertFails`, `PipelineIsQueuePrefix`, `ResponsesMatchPipeline`, `WaitersAnsweredInTime`, `ImplementsWriteQueue` | 594,592 |
| `write_memory` | memory persistence, two users, a backend that changes the stream token, no lost responses: ids are reused, and `CallbacksMatchQueue`, `WaitersCanBeAnswered`, `FailureMeansRefused`, `StreamTokenIsPersisted` and `ImplementsWriteQueue` (with queues that are lost in a restart) still hold | 396,218 |
| `write_liveness` | `WritesEventuallySettle` under `FairSpec`, with two faults and a pipeline of one | 11,210 |
| `watch_listens` | one target, two listens, two faults, all misfortunes: `NoWatchAssertFails`, `OnlineStateMatchesStream`, `ListensMatchViews` | 1,124,214 |
| `watch_results` | two targets, resets, one fault: `OutstandingResponsesAreExact`, `CacheMatchesResumeToken`, `CurrentViewIsExact` | 1,712,136 |
| `watch_liveness` | `ViewsCatchUp` under `FairSpec`, with two listens to one target, resets, mismatches and two faults; the two ways in which a mismatch is forgotten are its stated exceptions | 773,432 |
| `limbo_full` | three documents, two views, two resolutions at once: `LimboTargetsMatchListens`, `NoLimboDocumentForgotten`, `QueueMeansFull` | 306,048 |
| `worker_dispose` | two threads making any calls, also from callbacks, and two tasks besides those of `Dispose()`: `TasksAreOwned`, `NothingRunsAfterDispose`, `NoWorkAfterTermination`, `AcceptedWorkIsNotDropped`, and under `FairSpec` `DisposeReturns` and `AcceptedWorkRuns` | 303,996 |
| `credentials` | a user who signs in and out, two events: `TokenHasItsUser`, `StreamActsForEngineUser`, `StartingStreamHasRequest`, and under `FairSpec` `EngineFollowsAuth` and `StreamsGetTokens` | 386,416 |
| `transactions` | one transaction with one retry, two documents, blocks of three operations, other clients: `ResultMatchesBackend`, `CommittedReadsAreCurrent`, and under `FairSpec` `TransactionsEnd` | 468,346 |
| `transport_upload` | a fast event and one of another target, one timer, two faults: `TransportTypeOK`, `NoEventLost`, `BatchesHaveOwners`, and under `FairSpec` `UploaderUnlocks` | 215,185 |
| `transport_single` | *violation* of `SingleUpload` | |

The type invariants of the other modules (`WatchTypeOK`, `LimboTypeOK`,
`WorkerTypeOK`, `CredentialTypeOK`, `TransactionTypeOK`) hold in the same instances.
They are proved, and not listed in the configurations.

Deadlock is checked in the runs of the write path, the watch path and limbo
resolution: there the user can always enable the network, or open or close a view.
It is not checked in the others, because their systems may come to rest: a client
that is disposed of or terminated, a transaction that is done, a transport with
nothing to send. That they do not rest too early is what their liveness properties
say.

**Bounds.** `MaxWrites`, `MaxListens`, `MaxVersions`, `MaxIds`, `MaxQueue`,
`MaxTasks`, `MaxCallbacks`, `MaxOps` and `MaxFires` bound what users and backend do;
`MaxFaults` and `MaxEvents` bound disruptions (network switches, user changes,
restarts, failed credentials, broken calls, misfortunes, crashes), each of which is an
action of its own and counts in its guard. Three writes and a pipeline of two are the
smallest instance in which a batch is acknowledged while a second is on the wire and a
third waits for room; two users are needed for ids to meet. Two faults let a
disruption hit the recovery from another one. Two targets are needed for a snapshot to
arrive while another target is pending; two listens and two versions for a target to
be resumed with a changed result, in `watch_liveness` also after a mismatch. Two views
and three documents are needed for a document to wait for two views. Two threads, and
two tasks before those of the disposals (whose calls `MaxTasks` does not bound), let a
disposal meet another one, a termination, a clearing or an accepted operation, and a
timer; no thread can be in more than one call at a time. One waiting callback is
enough for one thread to be in a callback while the other disposes. The invariants of
this run also pass with three tasks (2,921,504 states), which is too much for the
liveness properties. One user besides none lets the user change while a token is
requested, and two events while it is requested again; the instance with two users
passes too (1,468,558 states) and takes several minutes longer. One retry suffices
because successive attempts share nothing but `retries_left_`; two documents are
needed for one to be read and another to be written. Two targets with a forced and a
timed upload are needed for one attempt to unlock the uploader for another. The proofs
show that the bounds are not what makes the invariants true. No symmetry is used:
users and tokens are two at most and everything else is ordered.

**Fairness.** `Fairness` of `WritePipeline` and `ClientFairness` of
`WatchPipeline` are weak fairness of the backoff timer, the online state timer
(the queue executes scheduled operations), the answer of the credentials
provider, and the handlers of responses and of the end of a call (gRPC
completions are delivered). For liveness the backend is assumed to answer:
`ServerAccept`, `ServerAnswer` and `ServerSend` of the latest version. Faults are
bounded and never fair, so a liveness property speaks of the time after the last
fault. Nothing is assumed of the user, of `EnableNetwork()`, or of the idle timer.
`ClientSpec` leaves out the backend's part.

`FairSpec` of the other modules is weak fairness of each thread that has begun a call
and of the queue (`WorkerQueue`: threads are scheduled, libdispatch runs its blocks)
and strong fairness of the end of a callback (the application's callbacks end once the
calls that they make return; nothing is assumed of when one begins), of each of the
three queues (`CredentialFlow`; requests for tokens end, with a token or an error), of
the steps of a transaction (`TransactionRunner`: timers fire, update blocks end, calls
are answered or fail), and of the two queues and the network (`EventTransport`: a
request ends, if only by its timeout; the redirection handler,
GDTCCTUploader.m:680-685, does not call its completion handler for a 301 or 302 to any
but one address, so for those it is indeed the timeout that `UploaderUnlocks` rests
on). No timer of the uploader is assumed to fire, no delayed operation to become due,
and no thread to begin a call.

## Proofs

The theorems hold for every value of the constants: any sets of users, tokens,
events and threads, any number of documents, views, tasks and retries, either kind of
persistence, every `kMaxPendingWrites > 0`, and all values of the bounds. The
assumptions are the named `ASSUME`s of the modules, which say of what kind the
constants are, and the hypotheses that the table shows.

| Module | Theorem | States |
|---|---|---|
| `WritePipelineProofs` | `TypeCorrect` | `Spec => []TypeOK` |
| | `PipelinePrefix` | `Spec => []PipelineIsQueuePrefix` |
| | `ResponsesMatch` | `Spec => []ResponsesMatchPipeline` |
| | `HardAssertsHold` | `Spec => []NoHardAssertFails` |
| | `QueueRefinement` | `Spec => ImplementsWriteQueue` |
| | `CallbacksMatch` | `Spec => []CallbacksMatchQueue` |
| | `WaitersAnswerable`, `WaitersInTime` | `Spec => []WaitersCanBeAnswered`, `Spec => WaitersAnsweredInTime` |
| | `TokenPersisted` | `Spec => []StreamTokenIsPersisted` |
| | `WritesInOrder`, `SuccessesAreApplied` | `Spec => []BackendSeesWritesInOrder`, `Spec => []SuccessMeansApplied` |
| | `FailuresAreRefusals` | `WireFaults = {}` implies `Spec => []FailureMeansRefused` |
| `WatchPipelineProofs` | `WatchAssertsHold` | `Spec => []NoWatchAssertFails` |
| | `OnlineStateFollowsStream` | `Spec => []OnlineStateMatchesStream` |
| | `ListensFollowViews` | `Spec => []ListensMatchViews` |
| | `WatchTypes` | `Spec => []WatchTypeOK` |
| | `OutstandingCounts` | `"rejected" \notin Misfortunes` implies `Spec => []OutstandingResponsesAreExact` |
| | `CacheFollowsToken` | `Misfortunes \subseteq {"reset"}` implies `Spec => []CacheMatchesResumeToken` |
| | `CurrentViewsAreExact` | `Misfortunes \subseteq {"reset"}` implies `Spec => []CurrentViewIsExact` |
| `LimboResolutionProofs` | `ListensAreKnown` | `Spec => []LimboTargetsMatchListens` |
| | `LimboIsRemembered` | `Spec => []NoLimboDocumentForgotten` |
| | `NoNeedlessWait` | `Spec => []QueueMeansFull` |
| | `LimboTypes` | `Spec => []LimboTypeOK` |
| `WorkerQueueProofs` | `RefCountsAreExact` | `Spec => []TasksAreOwned` |
| | `NothingOutlivesDispose` | `Spec => []NothingRunsAfterDispose` |
| | `TerminationIsLast` | `Spec => []NoWorkAfterTermination` |
| | `WorkIsKept` | `Spec => []AcceptedWorkIsNotDropped` |
| | `QueueTypes` | `Spec => []WorkerTypeOK` |
| `CredentialFlowProofs` | `TokensHaveTheirUser` | `CreatedOnMain` implies `Spec => []TokenHasItsUser` |
| | `StreamsActForEngineUser` | `CreatedOnMain` implies `Spec => []StreamActsForEngineUser` |
| | `StartingStreams` | `Spec => []StartingStreamHasRequest` |
| | `CredentialTypes` | `Spec => []CredentialTypeOK` |
| `TransactionRunnerProofs` | `Serializability` | `Spec => CommittedReadsAreCurrent` |
| | `ResultsAreTrue` | `Spec => []ResultMatchesBackend` |
| | `TransactionTypes` | `Spec => []TransactionTypeOK` |
| `EventTransportProofs` | `EventsAreKept` | `Spec => []NoEventLost` |
| | `BatchesAreOwned` | `Spec => []BatchesHaveOwners` |
| | `FilesInOnePlace` | `Spec => []TransportTypeOK` |

The hypotheses are about the backend, the wire and the thread on which the client is
created, and they cannot be dropped: without `WireFaults = {}`, without
`CreatedOnMain`, with rejected targets (`OutstandingCounts`) and with lossy resumes
(`CacheFollowsToken`, `CurrentViewsAreExact`) the properties are false, and the
section on disagreements says why. `CacheFollowsToken` and `CurrentViewsAreExact`
exclude rejected targets as well because their invariant contains the exact count;
with `Misfortunes <- Rejections` both hold in the instance of `watch_listens` (869,430
states), which is all that is known about that case.

**The write path** (`WritePipelineProofs`). None of the invariants is inductive
alone. That a response answers the first batch of the pipeline depends on what is
on the wire, which depends on when the stream was opened, which depends on timers
and outstanding credentials. The inductive invariant is
`IInv == TypeOK /\ QueueInv /\ StoreInv(rs, queue[user])`:

* `QueueInv`: in every queue ids increase, and those of the current user's queue
  are below its `next_batch_id_`, so the batch after the last one in the pipeline
  is the next in the queue (`NextAfterPrefix`), and removing the first batch leaves
  the others (`RemoveFirst`).
* `StoreInv` contains `CoreInv`, which holds between any two calls inside a
  handler, and what holds only between handlers: a complete handshake means an
  open stream, and a stream that is needed is started.
* `CoreInv` consists of `PrefixInv` (the pipeline is a beginning of the queue,
  within its capacity, and empty without network), `WireInv` (unread responses
  followed by unanswered requests are aligned with the pipeline, before and after
  the handshake), `TimerInv` (the backoff timer runs exactly in state `Backoff`,
  the idle timer only after the handshake and with an empty pipeline) and `AuthInv` (a
  stream is `Starting` exactly if a credentials callback with the present close
  count is outstanding, and no callback has a greater one).

The proof has one lemma per method (`StartInv`, `AddInv`, `FillInv`, `StopInv`,
`EnableInv`, `CloseErrorInv`, ...), which says that the method preserves `CoreInv`
or establishes `StoreInv`; `NextInv` composes them, one step per action.

**Promises to the user** (`WritePipelineProofs`). `HInv` adds to `IInv` the
`HistoryInv`: an unread response stands for a write that the backend applied, and a
call that it ended because of a write stands for one that it refused (`SeenInv`);
callbacks and waiters match the queue; the token in memory is the persisted one. The
lemmas of the actions show of every step that it is a step of `WriteQueue` or leaves
its variables alone, from which the refinement follows, and that a step that drops a
waiter with unsettled writes is a change of the user or the end of the client itself
(`ClientGoesAway`, one of the two actions that start a new one). That writes reach the
backend in order, and that a reported success was applied, is then shown of
`WriteQueue`'s actions and holds of `WritePipeline` because it implements them.

**The watch path** (`WatchPipelineProofs`). There are three invariants, each of which
contains the one before.

* `WatchInv` holds whatever the backend does. It has the types, `StreamInv` (as
  `TimerInv` and `AuthInv` of the write path, and a stream that is not open has
  nothing on the wire and a new aggregator), `TrackerInv` (the online state and its
  timer), `DownInv` (every response makes sense by itself) and `FitsCache`: the
  changes that wait for a snapshot fit the stored keys, in that a document that is
  called modified is stored. The last is what the assertion in `View` needs.
* `CountedInv` adds `CountInv`: of the responses that a target waits for, those whose
  request has left the client are the answers on their way. A request moves from one
  queue to the other when the backend takes it, and `RecordTargetResponse()` counts
  it down when its answer is read.
* `ExactInv` adds `Exact`. The stored keys are the result of the query at the stored
  token, and likewise for the view. On an open stream every target that is listened
  to is `Synced`: either the last request for it is on its way and has the right
  resume token (`AsksFor`), or the backend watches it and the responses on their way,
  applied to what the aggregator has collected (or, if the answer to the last request is
  still to come, to the stored keys), pass through the result of the query at each
  snapshot that will be raised and end with what the backend believes the client to
  have (`Arriving`, with `Tracks`). So the target can be stopped, listened to again,
  reset or cut off at any point in between.

The actions are taken apart once. `NextSteps` says that every step is one of twelve
kinds (`NeutralStep`, `RestartStep`, `ListenStep`, `OpenStep`, `SnapshotStep`,
`DeliverStep`, ...), each with what it does to requests, responses, target states,
tokens and cache; it rests on one lemma per method, and on lemmas by induction about the
loops (`WatchAll`, `RelistenAll`, the parts of a delivery). That each invariant is
preserved is then shown of the twelve kinds.

**Limbo resolution** (`LimboResolutionProofs`). The loops of `SyncEngine` are
recursive functions; each has a lemma that says what it keeps, by induction on the
number of iterations. `Engines` is the set of records whose maps agree and in which
no target id is used twice; `Sound` adds that nothing waits without need (`Pumped`)
and that every document referred to is being resolved or waits (`Tracked`).
`PumpFacts` is the central one: after `i` iterations the limit is reached or the
queue is `i` shorter, and whatever waited or was being resolved still waits or is
being resolved. Above it `UpdateTrackedFacts`, `CleanupFacts` and `DropFacts` say that
the references end up as asked for. That ids are unique is what makes erasing a
target from three maps consistent, also for a document that was enqueued twice.

**The worker queue** (`WorkerQueueProofs`). `WorkerQueueInv` has eleven parts, on
mutexes, modes, program counters and the places in which a task can be.
`AsyncQueue`'s mutex is held from the check of the mode until libdispatch has the
task, so tasks that terminate or dispose come after all work (`OrderInv`);
`Dispose()` waits for such a task, so finds no work that has not run (`WorkInv`); a
task that can still run is in `tasks_` or in the `local_tasks` of the thread in
`Dispose()`, which waits for it (`StateInv`). `CountInv` states the reference count as
a sum of the ways in which a task can be held, so that every step changes as many of
its terms as it changes the count. `UserInv` is about the user executor: disposed, it
has no callback that waits, and a thread is at the end of `Dispose()` only when it is
disposed.

**Credentials** (`CredentialFlowProofs`). `FlowInv` says where requests are, that
none is newer than the token counter, and in which states of the client there are
any. `ProviderInv` and `ClientInv` are about the order of what is queued: on the
main queue an answer that no notification will overtake is outdated or for the user
whom the provider knows, and the last notification is for the current user of
`FIRAuth`; on the worker queue a token the stream would accept, with no change of
user before it, is for the user of the engine.

**Transactions** (`TransactionRunnerProofs`). `ReadsInv`: as long as no write has
failed, the first mutation of a document that was read requires the version that was
read; when it commits there is one for every document read, because `Committed` adds
a verify mutation for the others. `CommitChecksVersions`, by two inductions over
`Performed`: if no mutation of a commit is refused, the backend has not changed a
document before its first mutation, so that mutation's condition was evaluated on
the version before the commit.

**Event transport** (`EventTransportProofs`). The argument is about batch ids: one
that was given out names at most one batch (`IdInv`), and the jobs and requests with
that id know all its files (`DeliveryInv`), so a batch is deleted only after the
backend has answered for each of its files.

`SequenceFacts` has the lemmas about sequences that these share, and induction: the
library's induction theorems take an operator as a parameter, which the installed
provers cannot instantiate, but the least element of a set of numbers comes from the
well-foundedness of `<` without one (`LeastNumber`). `SetInduction` and
`IterationExists` (a function defined by recursion on numbers exists) follow, and
with them what `Performed` and the loops of `LimboResolution` and `WatchPipeline`
compute for every input.

The proofs changed the models in six places. `RunToken` of `CredentialFlow` was a
`CASE` with overlapping guards, whose value is not determined; it is now nested as
in the code. `CredentialAssumption` and `WorkerAssumption` say that the names of
threads, users and owners differ. `Performed` and `InOrder` of `WatchPipeline` are
recursive functions, where they were a fold and a `SelectSeq`, and the two
alternatives of `Lookup` are two assignments.

Every invariant that a run checks is also proved. Only model-checked are the liveness
properties (`WritesEventuallySettle`, `ViewsCatchUp`, `DisposeReturns`,
`AcceptedWorkRuns`, `EngineFollowsAuth`, `StreamsGetTokens`, `TransactionsEnd`,
`UploaderUnlocks`), as liveness under fairness and `ENABLED` are out of the prover's
reach.

## Disagreements found

**With a run.** *A second upload starts during the first* (`transport_single`,
src/GoogleDataTransport/GDTCCTLibrary/GDTCCTUploader.m:242). Every attempt without
events to upload resets `isCurrentlyUploading`, also one that was refused because an
upload is in progress. The next attempt starts a second request: that is what the trace
shows, with requests for two targets. If both are for one target, the second attempt
also moves the files of the first one's batch back (line 398), so that its events are
sent twice; this is read off the code and is not in the trace. `transport_upload` shows
that nothing is lost by it.

**Others.** Each of these was found as a counterexample, and can be found again by
checking the property in a configuration with the given constants.

| Property | Constants | What the code does |
|---|---|---|
| `FailureMeansRefused` of `WritePipeline` | as `write_memory` with `WireFaults <- DropUnreadOnly` | A failed gRPC write finishes the call before responses that arrived are read (remote/grpc_stream.cc:313); `HandleWriteError()` then rejects the first batch of the pipeline, which may have been applied. remote/remote_store.cc:513: "the request itself was the problem". |
| `CurrentViewIsExact` of `WatchPipeline` | as `watch_listens` with `Misfortunes <- LossyResumes` | After an existence filter mismatch the emptied target is stored with the resume token of the snapshot (local/local_store.cc:288). A client that stops listening or dies before the new listen is answered resumes there, without the documents. remote/remote_event.h:271: "Listens for these targets should be re-established without resume tokens." |
| `ViewsCatchUp` of `WatchPipeline` without `MismatchForgotten` | as `watch_liveness` | The same defect, seen by the user: a view that is opened again resumes from the token of the emptied target and is current and incomplete for good. There is a second way to it. If the user stops listening and listens again after the filter was read and before its snapshot, the target waits for answers and is not emptied (remote/remote_event.cc:149), but `pending_target_resets_` is kept and `RaiseWatchSnapshot()` still listens without a token (remote/remote_store.cc:319-348): the backend sends what matches, nothing removes the stored documents that no longer do, and the view is current and shows them. `watch_liveness` shows that there is no third. |
| `OutstandingResponsesAreExact` of `WatchPipeline` | as `watch_listens` with `Misfortunes <- Rejections` | `ProcessTargetError()` ignores an error for a target that is no longer listened to (remote/remote_store.cc:357), so it is never counted as an answer; a target that is listened to again stays pending until the stream is reopened. |
| `OnlineStateSettles` of `WatchPipeline` | as `watch_listens` with `ClientSpec`, `MaxListens = 1` and `Misfortunes <- NoMisfortune` | A redundant `EnableNetwork()`, or `StopListening()` of the last target, while the stream is starting cancels the online state timer (remote/remote_store.cc:111), and nothing schedules it again. remote/online_state_tracker.cc:44: "rather than waiting indefinitely". |
| `LimboListensAreLimited` of `LimboResolution` | as `limbo_full` | A waiting document that a second view finds in limbo is enqueued again (core/sync_engine.cc:531); the second listen is not counted and never stopped. For the same reason a document that leaves limbo while it waits stays in the queue (core/sync_engine.cc:557). |
| `DisposeReturns` of `WorkerQueue` without `BlockedByClear` | as `worker_dispose` | `Firestore::Dispose()` holds `mutex_` (api/firestore.cc:74) while it waits for the worker; the operation of `ClearPersistence()` locks it on the worker (api/firestore.cc:171). core/firestore_client.cc:232 says of this race "but that's OK". |
| `DisposeReturns` of `WorkerQueue` without `BlockedByCallback` | as `worker_dispose` | With `mutex_` held, `FirestoreClient::Dispose()` also disposes the user executor (core/firestore_client.cc:256), which waits for a callback that is running (util/task.cc:193-195). A callback that calls into Firestore waits for `mutex_` in `EnsureClientConfigured()` (api/firestore.cc:204), or in a `Dispose()` of its own. `worker_dispose` shows that in the model there is no third way in which a `Dispose()` that has the mutex hangs. |
| `NoWorkAfterTermination` of `WorkerQueue` for `"timer"` tasks | as `worker_dispose` | When `Dispose()` has taken all tasks from the executor and not yet cancelled them, `TerminateInternal()` cannot find the timer it cancels (core/firestore_client.cc:277), and its operation may run on a reset `local_store_`. |
| `NoGetTokenAfterRemoval` of `CredentialFlow` | as `credentials` | A callback of Auth that finds the token out of date calls `GetToken()` (auth/firebase_credentials_provider_apple.mm:99), whose assertion fails if `TerminateInternal()` removed the listener before. |
| `TokenHasItsUser` of `CredentialFlow` | as `credentials` with `CreatedOnMain = FALSE` | The constructor reads the user before it adds the observer (auth/firebase_credentials_provider_apple.mm:34); a notification posted in between is missed. On the main thread there is no in between. |
| `RetryFindsRemoteStore` of `TransactionRunner` | as `transactions` | The backoff of a retry keeps a plain pointer to the `RemoteStore` (core/transaction_runner.cc:65), which `TerminateInternal()` destroys. |

Noticed while reading, with no property: `ShouldPersistTargetData()`
(local/local_store.cc:384) measures the age of a resume token against the copy in
memory, which line 293 replaces at every event, rather than against the stored one.
`SyncEngine::Transaction()` ignores its parameter `retries`, which
core/sync_engine.h:125 describes as the number of attempts. `InvalidateToken()`
during a request that is made again on the main queue is forgotten
(auth/firebase_credentials_provider_apple.mm:127). A backend that ends a stream with
OK while it is needed violates the assertions at remote/remote_store.cc:233 and 453.
GDTCOREvent.h says that events with `GDTCOREventQoSUnknown` will never be sent, but
the uploader selects them over wifi, and selects `GDTCOREventQoSDaily` only when it
is forced (GDTCCTUploader.m:615-650).

## What is abstracted, and what is not modelled

* There is one query per target. Targets keep their ids when they are released, as
  with LRU garbage collection; collection itself is not modelled.
* Documents have no contents. A target is a set of keys; `View::synced_documents_`
  and the keys in the target cache change together and are one set.
* The branches of the aggregator for targets on a single document, which
  synthesize deletions, are left out, and so are the `document_received` flags of
  limbo resolutions.
* The backend ends a stream that the client needs with an error, never with OK.
  It sends a snapshot when all watched targets are up to date with it.
* Delays, jitter and the growth of the backoff are left out: a timer fires at some
  time after it was set and before it is cancelled. That a cancelled timer does not
  fire, and that operations do not overlap, is assumed by the modules of the core
  and is what `WorkerQueue` is about.
* In `WritePipeline` and `WatchPipeline` a credentials request succeeds, fails or is
  overtaken; the provider's own steps are those of `CredentialFlow`.
* `WorkerQueue` has the executor of Apple platforms. `ExecutorStd` with its
  `Schedule`, `ExecuteBlocking()` and what only tests call (`RunScheduledOperationsUntil`,
  `PopFromSchedule`) are left out. The user executor, a second instance of the same
  class, has no tasks of its own in the model but a number of waiting callbacks and at
  most one thread that runs one; an application that gives it a concurrent queue is
  not covered. Whether a thread that waits for `Firestore::mutex_` gets it is up to the
  scheduler, so `DisposeReturns` begins when it has it.
* `CredentialFlow` leaves out backoff, more than one stream, and the branch for an
  app without Auth.
* `TransactionRunner` looks up one document at a time.
* `EventTransport` leaves out transformers, the size limit, background tasks,
  reachability other than at the start of an attempt, and failures of the file
  system other than the end of the process.
* Serialization, logging and the contents of errors are left out. The status codes
  are one of each class that `Datastore` distinguishes.
* Not modelled in Firestore: `EventManager` and `QueryListener`, documents in
  `LocalStore` and their overlay, the persistence layer and the garbage collectors,
  the completion queue thread of gRPC. The other libraries of the repository are
  listed in `PROJECT.json` with a reason each; much of the repository's size is
  generated code, certificates, data and user interface, and two more
  synchronization engines (the Realtime Database and FirebaseInstallations) of which
  a module each would be worthwhile.

## Plan

Done, in this order: the write path and its first proofs; the watch path; limbo
resolution; the abstract write queue and its refinement by TLC; the worker queue;
credentials; transactions; the event transport; their proofs; the proofs of the watch
path.

Theorems next: `CacheFollowsToken` and `CurrentViewsAreExact` with rejected targets,
from an invariant in which the count is a bound and not exact; an abstract
specification of a listen, with `WatchPipeline` shown to implement it.

Modules next: `GrpcCall` (`GrpcStream` and `GrpcCompletion` on two threads),
`DocumentCache` (documents, the overlay of pending batches, LRU collection),
`EventManager` and `QueryListener`, `InstallationsController`.
