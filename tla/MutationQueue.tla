--------------------------- MODULE MutationQueue ---------------------------
(***************************************************************************)
(* The persisted queue of mutation batches that a Firestore client keeps   *)
(* for every user (local/leveldb_mutation_queue.cc and                     *)
(* local/memory_mutation_queue.cc).  A queue is the sequence of a user's   *)
(* unacknowledged batches in the order of their batch ids.                 *)
(*                                                                         *)
(* A batch is [id, w]: the BatchId that the queue assigned, and the        *)
(* mutations themselves, of which only the identity matters here (w is the *)
(* number of the user's write among all writes ever issued).  Batch ids    *)
(* are reused, writes are not.                                             *)
(***************************************************************************)
EXTENDS Integers, Sequences

CONSTANTS
    Users,         \* the users that can be signed in
    Persistence    \* "leveldb" (durable) or "memory"

ASSUME PersistenceAssumption == Persistence \in {"leveldb", "memory"}

\* model/mutation_batch.h: the id of no batch.
kBatchIdUnknown == -1

Batch == [id : Nat, w : Nat]

\* The batches of a queue, without their order.
Batches(q) == {q[i] : i \in 1..Len(q)}

(***************************************************************************)
(* Start(): the id of the next batch of user u when its queue is opened,   *)
(* given all queues and the current counters.  LevelDB takes the largest   *)
(* id over the rows of every user; a memory queue lives as long as the     *)
(* client and restarts its numbering when it is empty.                     *)
(***************************************************************************)
MaxBatchId(queues) ==
    LET ids == UNION {{b.id : b \in Batches(queues[v])} : v \in Users}
    IN  CHOOSE m \in ids \cup {0} : \A i \in ids : i <= m

\* Mutant: LoadNextBatchIdFromDb() starts from kBatchIdUnknown and returns
\* the largest id instead of the one after it.
StartMutationQueueAtMax(queues, next, u) ==
    LET ids == UNION {{b.id : b \in Batches(queues[v])} : v \in Users}
    IN  [next EXCEPT ![u] = CHOOSE m \in ids \cup {kBatchIdUnknown} :
                                \A i \in ids : i <= m]

StartMutationQueue(queues, next, u) ==
    IF Persistence = "leveldb"
    THEN [next EXCEPT ![u] = MaxBatchId(queues) + 1]
    ELSE [next EXCEPT ![u] = IF queues[u] = <<>> THEN 1 ELSE @]

(***************************************************************************)
(* NextMutationBatchAfterBatchId(): the position of the first batch of q   *)
(* whose id is greater than batchId, or the position past the end.         *)
(***************************************************************************)
NextMutationBatchAfterBatchId(q, batchId) ==
    CHOOSE i \in 1..(Len(q) + 1) :
        /\ \A j \in 1..(i - 1) : q[j].id <= batchId
        /\ i <= Len(q) => q[i].id > batchId

\* Mutant: the id to be assigned next instead of the one assigned last.
GetHighestBatchIdOffByOne(q, next) ==
    IF q = <<>> THEN kBatchIdUnknown ELSE next

\* GetHighestUnacknowledgedBatchId(): LevelDB seeks the user's last row, the
\* memory queue relies on its counter.
GetHighestUnacknowledgedBatchId(q, next) ==
    IF q = <<>> THEN kBatchIdUnknown
    ELSE IF Persistence = "leveldb" THEN q[Len(q)].id ELSE next - 1

\* The HARD_ASSERTs of AcknowledgeBatch() and RemoveMutationBatch(): the row
\* exists in LevelDB; it is the first entry of a memory queue.
CanRemoveMutationBatch(q, b) ==
    IF Persistence = "leveldb"
    THEN \E i \in 1..Len(q) : q[i].id = b.id
    ELSE q # <<>> /\ q[1].id = b.id

\* RemoveMutationBatch(): deletes the row with b's id and closes the gap.
RemoveMutationBatch(q, b) ==
    LET gap == CHOOSE i \in 1..Len(q) : q[i].id = b.id
    IN  [i \in 1..(Len(q) - 1) |-> IF i < gap THEN q[i] ELSE q[i + 1]]
=============================================================================
