--------------------------- MODULE EventTransport ---------------------------
(***************************************************************************)
(* GoogleDataTransport: events are written to files by                     *)
(* GDTCORFlatFileStorage, and GDTCCTUploader moves them into batches and   *)
(* uploads these when GDTCORUploadCoordinator's timer fires or a fast      *)
(* event was stored.                                                       *)
(*                                                                         *)
(* Storage and uploader each have a serial dispatch queue.  A call of one  *)
(* to the other is a block on the other's queue, so that an upload is a    *)
(* chain of jobs which interleave with those of other uploads.  The queues *)
(* of GDTCORTransformer and GDTCORUploadCoordinator only pass things on.   *)
(***************************************************************************)
EXTENDS Naturals, Sequences, FiniteSets, SequencesExt

CONSTANTS
    Events,     \* records [id, target, qos]
    Targets,    \* the targets an uploader is registered for
    MaxFires,   \* bound: how often the timer fires
    MaxFaults   \* bound: crashes, expirations and failing requests

ASSUME TransportAssumption ==
    /\ Targets \subseteq {"cct", "fll", "csh"}
    /\ \A e \in Events :
          /\ e.target \in Targets
          /\ e.qos \in {"unknown", "telemetry", "daily", "default", "fast", "wifi"}
    /\ MaxFires \in Nat /\ MaxFaults \in Nat

VARIABLES
    main,           \* files in gdt_event_data
    batches,        \* directories of gdt_batch_data that hold files
    counter,        \* the library data of gBatchIDCounterKey
    storageQueue,   \* jobs of _storageQueue
    uploaderQueue,  \* jobs of _uploaderQueue
    uploading,      \* isCurrentlyUploading
    wait,           \* _CCTNextUploadTime, _FLLNextUploadTime are in the future
    requests,       \* upload tasks in progress
    fires, faults,  \* counters of the bounds
    unsent,         \* events not given to sendEvent: yet
    told,           \* history: events reported as written
    gone,           \* history: events received, refused or expired
    orphans         \* history: batches that a crash left behind

files == <<main, batches, counter>>
inputs == <<fires, unsent>>
history == <<told, gone, orphans>>
vars == <<files, storageQueue, uploaderQueue, uploading, wait, requests, faults,
          inputs, history>>

-----------------------------------------------------------------------------
(* Jobs.  An attempt is a call of uploadTarget:withConditions:.            *)

Conditions == {"wifi", "mobile", "high"}
Attempts == [target : Targets, conditions : Conditions]
NoAttempt == [target |-> "none", conditions |-> "none"]

Job(op, attempt) ==
    [op |-> op, attempt |-> attempt, id |-> 0, events |-> {}, flag |-> FALSE]

\* completion(nil, nil) of an attempt.
Nothing == Job("nothing", NoAttempt)

RemoveJob(id, deleteEvents) ==
    [Job("remove", NoAttempt) EXCEPT !.id = id, !.flag = deleteEvents]

Storage(op) == storageQueue # <<>> /\ Head(storageQueue).op = op
Uploader(op) == uploaderQueue # <<>> /\ Head(uploaderQueue).op = op

\* A job ends with new jobs for the two queues.
StorageDone(forStorage, forUploader) ==
    /\ storageQueue' = Tail(storageQueue) \o forStorage
    /\ uploaderQueue' = uploaderQueue \o forUploader

UploaderDone(forStorage, forUploader) ==
    /\ storageQueue' = storageQueue \o forStorage
    /\ uploaderQueue' = Tail(uploaderQueue) \o forUploader

-----------------------------------------------------------------------------
(* GDTCORTransport and GDTCORUploadCoordinator                             *)

SendEvent(e) ==
    /\ e \in unsent
    /\ unsent' = unsent \ {e}
    /\ storageQueue' = Append(storageQueue, [Job("store", NoAttempt) EXCEPT !.events = {e}])
    /\ UNCHANGED <<files, uploaderQueue, uploading, wait, requests, faults, fires, history>>

\* uploadTargets:conditions: with a network connection; the keys of a
\* dictionary come in any order.
TimerFires(conditions, order) ==
    /\ fires < MaxFires
    /\ fires' = fires + 1
    /\ uploaderQueue' = uploaderQueue \o
          [i \in 1..Len(order) |->
             Job("upload", [target |-> order[i], conditions |-> conditions])]
    /\ UNCHANGED <<files, storageQueue, uploading, wait, requests, faults, unsent, history>>

\* appWillForeground:.
Foreground ==
    /\ faults < MaxFaults
    /\ faults' = faults + 1
    /\ storageQueue' = Append(storageQueue, Job("expire", NoAttempt))
    /\ UNCHANGED <<files, uploaderQueue, uploading, wait, requests, inputs, history>>

-----------------------------------------------------------------------------
(* GDTCORFlatFileStorage                                                   *)

\* storeEvent:.  A fast event forces an upload, if there is a network.
StoreEvent(connected) ==
    /\ Storage("store")
    /\ LET e == CHOOSE x \in Head(storageQueue).events : TRUE
           force == Job("upload", [target |-> e.target, conditions |-> "high"])
       IN  /\ main' = main \cup {e}
           /\ told' = told \cup {e}
           /\ StorageDone(<<>>, IF e.qos = "fast" /\ connected THEN <<force>> ELSE <<>>)
    /\ UNCHANGED <<batches, counter, uploading, wait, requests, faults, inputs,
                   gone, orphans>>

\* The files of batches with this id, whatever their targets.
FilesOf(id) == UNION {b.events : b \in {c \in batches : c.id = id}}

Without(ids, fs) ==
    {b \in {IF c.id \in ids THEN [c EXCEPT !.events = @ \ fs] ELSE c : c \in batches} :
        b.events # {}}

\* syncThreadUnsafeRemoveBatchWithID:, as far as it comes: the files fs.
RemoveFiles(job, fs) ==
    /\ main' = IF job.flag THEN main ELSE main \cup fs
    /\ batches' = Without({job.id}, fs)

\* The last one of the batches of removeBatchesForTarget: leaves the group.
RemoveBatch ==
    LET job == Head(storageQueue)
    IN  /\ Storage("remove")
        /\ RemoveFiles(job, FilesOf(job.id))
        /\ StorageDone(<<>>, IF job.attempt = NoAttempt THEN <<>>
                             ELSE <<Job("cleared", job.attempt)>>)
        /\ UNCHANGED <<counter, uploading, wait, requests, faults, inputs, history>>

\* batchIDsForTarget: and the rest of removeBatchesForTarget:.
BatchIDs ==
    LET attempt == Head(storageQueue).attempt
        ids == SetToSeq({b.id : b \in {c \in batches : c.target = attempt.target}})
        last == Len(ids)
    IN  /\ Storage("batchIDs")
        /\ StorageDone(IF ids = <<>> THEN <<Job("hasEvents", attempt)>>
                       ELSE [i \in 1..last |->
                               IF i = last
                               THEN [RemoveJob(ids[i], FALSE) EXCEPT !.attempt = attempt]
                               ELSE RemoveJob(ids[i], FALSE)],
                       <<>>)
        /\ UNCHANGED <<files, uploading, wait, requests, faults, inputs, history>>

HasEvents ==
    LET attempt == Head(storageQueue).attempt
        has == \E e \in main : e.target = attempt.target
    IN  /\ Storage("hasEvents")
        /\ StorageDone(<<>>, <<[Job("final", attempt) EXCEPT !.flag = has]>>)
        /\ UNCHANGED <<files, uploading, wait, requests, faults, inputs, history>>

\* Mutant: the new value is not written.
NextBatchIDUnsaved ==
    /\ Storage("nextBatchID")
    /\ StorageDone(<<[Job("paths", Head(storageQueue).attempt) EXCEPT !.id = counter]>>, <<>>)
    /\ UNCHANGED <<files, uploading, wait, requests, faults, inputs, history>>

\* nextBatchID: in batchWithEventSelector:.
NextBatchID ==
    /\ Storage("nextBatchID")
    /\ counter' = counter + 1
    /\ StorageDone(<<[Job("paths", Head(storageQueue).attempt) EXCEPT !.id = counter]>>, <<>>)
    /\ UNCHANGED <<main, batches, uploading, wait, requests, faults, inputs, history>>

\* The QoS tiers of eventSelectorTarget:withConditions:.
QosTiers(conditions) ==
    CASE conditions = "high" -> {"unknown", "telemetry", "daily", "default", "fast", "wifi"}
      [] conditions = "wifi" -> {"fast", "wifi", "default", "telemetry", "unknown"}
      [] conditions = "mobile" -> {"fast", "default"}

\* pathsForTarget:.
PathsForTarget ==
    LET job == Head(storageQueue)
        paths == {e \in main : /\ e.target = job.attempt.target
                               /\ e.qos \in QosTiers(job.attempt.conditions)}
    IN  /\ Storage("paths")
        /\ StorageDone(<<[job EXCEPT !.op = "move", !.events = paths]>>, <<>>)
        /\ UNCHANGED <<files, uploading, wait, requests, faults, inputs, history>>

\* The loop over the paths, as far as it comes: the files fs.
MoveFiles(job, fs) ==
    /\ main' = main \ fs
    /\ batches' = IF fs = {} THEN batches
                  ELSE batches \cup {[id |-> job.id, target |-> job.attempt.target,
                                      events |-> fs]}

\* onPathsForTargetComplete: a file that is no longer there is passed over.
MoveIntoBatch ==
    LET job == Head(storageQueue)
        events == job.events \cap main
    IN  /\ Storage("move")
        /\ MoveFiles(job, events)
        /\ StorageDone(<<>>, IF events = {} THEN <<Nothing>>
                             ELSE <<[job EXCEPT !.op = "send", !.events = events]>>)
        /\ UNCHANGED <<counter, uploading, wait, requests, faults, inputs, history>>

\* checkForExpirations: the batches ids and the events expired are out of date.
CheckForExpirations(ids, expired) ==
    LET back == UNION {FilesOf(id) : id \in ids}
    IN  /\ Storage("expire")
        /\ ids \subseteq {b.id : b \in batches}
        /\ expired \subseteq main \cup back
        /\ main' = (main \cup back) \ expired
        /\ batches' = Without(ids, back)
        /\ gone' = gone \cup expired
        /\ StorageDone(<<>>, <<>>)
        /\ UNCHANGED <<counter, uploading, wait, requests, faults, inputs, told, orphans>>

-----------------------------------------------------------------------------
(* GDTCCTUploader                                                          *)

\* FLL and CSH have one next upload time.
WaitOf(target) == IF target = "cct" THEN "cct" ELSE "fll"

ReadyToUploadTarget(attempt) ==
    /\ ~uploading
    /\ \/ attempt.target = "csh"
       \/ attempt.conditions = "high"
       \/ ~wait[WaitOf(attempt.target)]

\* uploadTarget:withConditions: up to the first check.
UploadTarget ==
    LET attempt == Head(uploaderQueue).attempt
    IN  /\ Uploader("upload")
        /\ IF ReadyToUploadTarget(attempt)
           THEN UploaderDone(<<Job("batchIDs", attempt)>>, <<>>)
           ELSE UploaderDone(<<>>, <<Nothing>>)
        /\ UNCHANGED <<files, uploading, wait, requests, faults, inputs, history>>

\* All batches of the target have been removed.
BatchesRemoved ==
    /\ Uploader("cleared")
    /\ UploaderDone(<<Job("hasEvents", Head(uploaderQueue).attempt)>>, <<>>)
    /\ UNCHANGED <<files, uploading, wait, requests, faults, inputs, history>>

\* batchToUploadForTarget:...hasEvents:.
BatchToUpload ==
    LET job == Head(uploaderQueue)
        go == job.flag /\ ReadyToUploadTarget(job.attempt)
    IN  /\ Uploader("final")
        /\ uploading' = (uploading \/ go)
        /\ IF go THEN UploaderDone(<<Job("nextBatchID", job.attempt)>>, <<>>)
                 ELSE UploaderDone(<<>>, <<Nothing>>)
        /\ UNCHANGED <<files, wait, requests, faults, inputs, history>>

\* Mutant: an attempt that finds nothing leaves isCurrentlyUploading alone.
NoEventsSelectedLocked ==
    /\ Uploader("nothing")
    /\ UploaderDone(<<>>, <<>>)
    /\ UNCHANGED <<files, uploading, wait, requests, faults, inputs, history>>

\* The completion without events: of any attempt, also of one that another
\* upload has kept from starting.
NoEventsSelected ==
    /\ Uploader("nothing")
    /\ uploading' = FALSE
    /\ UploaderDone(<<>>, <<>>)
    /\ UNCHANGED <<files, wait, requests, faults, inputs, history>>

\* sendURLRequestForBatchWithID:.
SendRequest ==
    LET job == Head(uploaderQueue)
    IN  /\ Uploader("send")
        /\ requests' = requests \cup {[id |-> job.id, target |-> job.attempt.target,
                                       events |-> job.events, state |-> "sent"]}
        /\ UploaderDone(<<>>, <<>>)
        /\ UNCHANGED <<files, uploading, wait, faults, inputs, history>>

\* Mutant: every answer counts as delivered.
HandleResponseDeletes ==
    LET job == Head(uploaderQueue)
    IN  /\ Uploader("response")
        /\ wait' = [wait EXCEPT ![WaitOf(job.attempt.target)] = TRUE]
        /\ uploading' = FALSE
        /\ UploaderDone(<<RemoveJob(job.id, TRUE)>>, <<>>)
        /\ UNCHANGED <<files, requests, faults, inputs, history>>

\* Mutant: a batch that is to be retried stays where it is.
HandleResponseKeeps ==
    LET job == Head(uploaderQueue)
    IN  /\ Uploader("response")
        /\ wait' = [wait EXCEPT ![WaitOf(job.attempt.target)] = TRUE]
        /\ uploading' = FALSE
        /\ UploaderDone(IF job.flag THEN <<RemoveJob(job.id, TRUE)>> ELSE <<>>, <<>>)
        /\ UNCHANGED <<files, requests, faults, inputs, history>>

\* handleURLResponse: and the end of uploadBatchWithID:.  The response always
\* yields a next upload time.  flag: neither an error nor 429 nor 503.
HandleResponse ==
    LET job == Head(uploaderQueue)
    IN  /\ Uploader("response")
        /\ wait' = [wait EXCEPT ![WaitOf(job.attempt.target)] = TRUE]
        /\ uploading' = FALSE
        /\ UploaderDone(<<RemoveJob(job.id, job.flag)>>, <<>>)
        /\ UNCHANGED <<files, requests, faults, inputs, history>>

-----------------------------------------------------------------------------
(* External: the backend, the network, the clock, and crashes.             *)

\* The backend stores the events, refuses them for good, or wants a retry.
Receive(r, verdict) ==
    /\ r.state = "sent"
    /\ verdict = "ok" \/ faults < MaxFaults
    /\ faults' = IF verdict = "ok" THEN faults ELSE faults + 1
    /\ requests' = (requests \ {r}) \cup {[r EXCEPT !.state = verdict]}
    /\ gone' = IF verdict = "retry" THEN gone ELSE gone \cup r.events
    /\ UNCHANGED <<files, storageQueue, uploaderQueue, uploading, wait, inputs,
                   told, orphans>>

Complete(r, flag) ==
    /\ requests' = requests \ {r}
    /\ uploaderQueue' = Append(uploaderQueue,
          [Job("response", [target |-> r.target, conditions |-> "wifi"])
             EXCEPT !.id = r.id, !.flag = flag])
    /\ UNCHANGED <<files, storageQueue, uploading, wait, inputs, history>>

Respond(r) ==
    /\ r.state # "sent"
    /\ Complete(r, r.state # "retry")
    /\ UNCHANGED faults

\* The request fails or is cancelled, before or after the backend has it.
Break(r) ==
    /\ faults < MaxFaults
    /\ faults' = faults + 1
    /\ Complete(r, FALSE)

\* The next upload time comes.
TimePasses(w) ==
    /\ wait[w]
    /\ wait' = [wait EXCEPT ![w] = FALSE]
    /\ UNCHANGED <<files, storageQueue, uploaderQueue, uploading, requests, faults,
                   inputs, history>>

\* The process ends, maybe halfway through the files of a storage job.
Crash(fs) ==
    /\ faults < MaxFaults
    /\ faults' = faults + 1
    /\ \/ Storage("remove") /\ fs \subseteq FilesOf(Head(storageQueue).id)
          /\ RemoveFiles(Head(storageQueue), fs)
       \/ Storage("move") /\ fs \subseteq Head(storageQueue).events \cap main
          /\ MoveFiles(Head(storageQueue), fs)
       \/ ~Storage("remove") /\ ~Storage("move") /\ fs = {}
          /\ UNCHANGED <<main, batches>>
    /\ orphans' = {b.id : b \in batches'}
    /\ storageQueue' = <<>> /\ uploaderQueue' = <<>> /\ requests' = {}
    /\ uploading' = FALSE
    /\ wait' = [w \in {"cct", "fll"} |-> FALSE]
    /\ UNCHANGED <<counter, inputs, told, gone>>

-----------------------------------------------------------------------------
Init ==
    /\ main = {} /\ batches = {} /\ counter = 0
    /\ storageQueue = <<>> /\ uploaderQueue = <<>>
    /\ uploading = FALSE
    /\ wait = [w \in {"cct", "fll"} |-> FALSE]
    /\ requests = {}
    /\ fires = 0 /\ faults = 0
    /\ unsent = Events
    /\ told = {} /\ gone = {} /\ orphans = {}

StorageStep ==
    \/ \E connected \in BOOLEAN : StoreEvent(connected)
    \/ RemoveBatch
    \/ BatchIDs
    \/ HasEvents
    \/ NextBatchID
    \/ PathsForTarget
    \/ MoveIntoBatch
    \/ \E ids \in SUBSET {b.id : b \in batches}, expired \in SUBSET Events :
          CheckForExpirations(ids, expired)

UploaderStep ==
    \/ UploadTarget
    \/ BatchesRemoved
    \/ BatchToUpload
    \/ NoEventsSelected
    \/ SendRequest
    \/ HandleResponse

\* The backend answers, or the request runs into its timeout.
NetworkStep ==
    \E r \in requests :
        \/ \E verdict \in {"ok", "refused", "retry"} : Receive(r, verdict)
        \/ Respond(r)
        \/ Break(r)

Next ==
    \/ \E e \in Events : SendEvent(e)
    \/ \E conditions \in {"wifi", "mobile"}, order \in SetToSeqs(Targets) :
          TimerFires(conditions, order)
    \/ Foreground
    \/ StorageStep
    \/ UploaderStep
    \/ NetworkStep
    \/ \E w \in {"cct", "fll"} : TimePasses(w)
    \/ \E fs \in SUBSET Events : Crash(fs)

Spec == Init /\ [][Next]_vars

\* Dispatch queues run their blocks, and URL requests end.
FairSpec == Spec /\ WF_vars(StorageStep) /\ WF_vars(UploaderStep) /\ WF_vars(NetworkStep)

-----------------------------------------------------------------------------
(* Properties                                                              *)

StorageOps == {"store", "remove", "batchIDs", "hasEvents", "nextBatchID", "paths",
               "move", "expire"}
UploaderOps == {"upload", "cleared", "final", "nothing", "send", "response"}

\* Every variable has the type its declaration says, and a file is in one place.
TransportTypeOK ==
    /\ main \subseteq Events
    /\ \A b \in batches : b.id \in 0..counter - 1 /\ b.events \subseteq Events \ main
    /\ \A b, c \in batches : b # c => b.events \cap c.events = {}
    /\ \A i \in DOMAIN storageQueue : storageQueue[i].op \in StorageOps
    /\ \A i \in DOMAIN uploaderQueue : uploaderQueue[i].op \in UploaderOps
    /\ uploading \in BOOLEAN
    /\ \A r \in requests : r.state \in {"sent", "ok", "refused", "retry"}

\* An event that was reported as written stays in a file until the backend has
\* answered for it or it has expired, whatever uploads run at a time, batches
\* expire, requests fail and processes end.
NoEventLost ==
    \A e \in told \ gone : e \in main \/ \E b \in batches : e \in b.events

\* No batch is stranded: unless the process ended, an upload that is under way or
\* a removal that is due takes care of every batch.
BatchesHaveOwners ==
    \A b \in batches :
        \/ b.id \in orphans
        \/ \E r \in requests : r.id = b.id
        \/ \E i \in DOMAIN uploaderQueue :
              uploaderQueue[i].op \in {"send", "response"} /\ uploaderQueue[i].id = b.id
        \/ \E i \in DOMAIN storageQueue :
              storageQueue[i].op = "remove" /\ storageQueue[i].id = b.id

\* "The current implementation supports only a single upload operation."
SingleUpload == Cardinality(requests) <= 1

\* isCurrentlyUploading never stays set: else nothing would be uploaded again.
UploaderUnlocks == uploading ~> ~uploading
=============================================================================
