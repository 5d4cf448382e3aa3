------------------------- MODULE TransactionRunner -------------------------
(***************************************************************************)
(* Optimistic transactions: Transaction (core/transaction.cc), the retries *)
(* of TransactionRunner (core/transaction_runner.cc), the update block of  *)
(* the user, which runs on a queue of its own, Datastore's unary calls, and*)
(* a backend that other clients write to as well.                          *)
(*                                                                         *)
(* A version is a number; 0 (SnapshotVersion::None()) is the version of a  *)
(* document that does not exist.                                           *)
(***************************************************************************)
EXTENDS Naturals, Sequences, SequencesExt

CONSTANTS
    Transactions,   \* the calls of runTransactionWithBlock
    Keys,           \* document keys
    kRetryCount,    \* how often a transaction is retried
    MaxOps,         \* bound: reads and writes of an update block
    MaxVersions     \* bound: other clients write no more at this version

ASSUME TransactionAssumption ==
    /\ kRetryCount \in Nat
    /\ MaxOps \in Nat
    /\ MaxVersions \in Nat

VARIABLES
    tx,         \* the runner and its current Transaction, see Attempt
    docs,       \* the backend: the version of every document
    clock,      \* the backend: the latest version
    terminated, \* FirestoreClient::TerminateInternal() has run
    applied,    \* history: how often the backend applied each transaction
    lost        \* history: how often it did so and the response was lost

vars == <<tx, docs, clock, terminated, applied, lost>>

\* A new Transaction.  state is "idle" before runTransactionWithBlock, then
\* "backoff" (waiting for a timer), "user" (in the update block), "lookup" (the
\* block waits for a document), "commit" (a request is on its way), "response"
\* (the answer is), "done" (result_callback_ was called) and "freed" (the
\* runner has called the RemoteStore after its destruction).
\*   status   what the current step reports
\*   reads    read_versions_          written  written_docs_
\*   muts     mutations_              failed   last_write_error_ is set
\*   ops      reads and writes of the block so far
\*   seen     history: keys and versions of the documents the block was given
Attempt(retries) ==
    [state |-> "backoff", retries |-> retries, status |-> "ok",
     reads |-> <<>>, written |-> {}, muts |-> <<>>, failed |-> FALSE,
     key |-> "none", ops |-> 0, permanent |-> FALSE, seen |-> {}]

-----------------------------------------------------------------------------
(* TransactionRunner                                                       *)

\* Errors of reads and commits are "aborted", "failed_precondition", "unavailable"
\* for all that are not permanent, and "not_found", "invalid_argument" and
\* "permission_denied" of those that are.
IsRetryableTransactionError(status) ==
    status \in {"aborted", "failed_precondition", "unavailable"}

\* Mutant: retries_left_ is not counted down.
HandleTransactionErrorForever(t, status) ==
    IF tx[t].retries > 0 /\ IsRetryableTransactionError(status) /\ ~tx[t].permanent
    THEN tx' = [tx EXCEPT ![t] = Attempt(tx[t].retries)]
    ELSE tx' = [tx EXCEPT ![t].state = "done", ![t].status = status]

\* Retry with backoff or report the error.
HandleTransactionError(t, status) ==
    IF tx[t].retries > 0 /\ IsRetryableTransactionError(status) /\ ~tx[t].permanent
    THEN tx' = [tx EXCEPT ![t] = Attempt(tx[t].retries - 1)]
    ELSE tx' = [tx EXCEPT ![t].state = "done", ![t].status = status]

\* SyncEngine::Transaction().
RunTransaction(t) ==
    /\ tx[t].state = "idle"
    /\ ~terminated
    /\ tx' = [tx EXCEPT ![t] = Attempt(kRetryCount)]
    /\ UNCHANGED <<docs, clock, terminated, applied, lost>>

\* The operation given to BackoffAndRun(): it asks the RemoteStore for a
\* transaction and starts the update block.
BackoffElapsed(t) ==
    /\ tx[t].state = "backoff"
    /\ tx' = [tx EXCEPT ![t].state = IF terminated THEN "freed" ELSE "user"]
    /\ UNCHANGED <<docs, clock, terminated, applied, lost>>

-----------------------------------------------------------------------------
(* Transaction, called by the update block                                 *)

GetVersion(x, k) == x.reads[k]

HasVersion(x, k) == k \in DOMAIN x.reads

\* Precondition::UpdateTime(), Exists(true) and None().
UpdateTime(v) == [type |-> "update_time", version |-> v]
Exists == [type |-> "exists", version |-> 0]
NoCondition == [type |-> "none", version |-> 0]

CreatePrecondition(x, k) ==
    IF k \notin x.written /\ HasVersion(x, k)
    THEN UpdateTime(GetVersion(x, k)) ELSE NoCondition

Mutation(k, op, condition) == [key |-> k, op |-> op, condition |-> condition]

Written(x, k, muts) ==
    [x EXCEPT !.muts = @ \o muts, !.written = @ \cup {k}, !.ops = @ + 1]

InBlock(t) == tx[t].state = "user" /\ tx[t].ops < MaxOps

\* Set() and Delete().
Write(t, k, op) ==
    /\ InBlock(t)
    /\ op \in {"set", "delete"}
    /\ tx' = [tx EXCEPT ![t] =
                Written(@, k, <<Mutation(k, op, CreatePrecondition(@, k))>>)]
    /\ UNCHANGED <<docs, clock, terminated, applied, lost>>

\* Update(), with CreateUpdatePrecondition().
Update(t, k) ==
    LET x == tx[t]
        first == k \notin x.written /\ HasVersion(x, k)
        condition == IF first THEN UpdateTime(GetVersion(x, k)) ELSE Exists
    IN  /\ InBlock(t)
        /\ tx' = [tx EXCEPT ![t] =
                    IF first /\ GetVersion(x, k) = 0
                    THEN Written([x EXCEPT !.failed = TRUE], k, <<>>)
                    ELSE Written(x, k, <<Mutation(k, "set", condition)>>)]
        /\ UNCHANGED <<docs, clock, terminated, applied, lost>>

\* Lookup(): reads after writes are refused without a request.  The block may
\* return the error it gets or go on.
Lookup(t, k) ==
    /\ InBlock(t)
    /\ IF tx[t].muts # <<>>
       THEN tx' = [tx EXCEPT ![t].status = "invalid_argument", ![t].ops = @ + 1]
       ELSE tx' = [tx EXCEPT ![t].state = "lookup", ![t].key = k, ![t].ops = @ + 1]
    /\ UNCHANGED <<docs, clock, terminated, applied, lost>>

\* RecordVersion(): a document that is read twice must not change.
RecordVersion(x, k, version) ==
    IF HasVersion(x, k)
    THEN IF GetVersion(x, k) = version THEN x ELSE [x EXCEPT !.status = "aborted"]
    ELSE [x EXCEPT !.reads = [j \in DOMAIN @ \cup {k} |->
                                IF j = k THEN version ELSE @[j]]]

\* The answer to LookupDocuments().
LookupResponse(t) ==
    LET k == tx[t].key
        back == [tx[t] EXCEPT !.state = "user", !.key = "none"]
        recorded == RecordVersion(back, k, docs[k])
        given == IF GetVersion(recorded, k) = docs[k] THEN {<<k, docs[k]>>} ELSE {}
    IN  /\ tx[t].state = "lookup"
        /\ ~terminated
        /\ tx' = [tx EXCEPT ![t] = [recorded EXCEPT !.seen = @ \cup given]]
        /\ UNCHANGED <<docs, clock, terminated, applied, lost>>

LookupFails(t) ==
    /\ tx[t].state = "lookup"
    /\ ~terminated
    /\ \E status \in {"permission_denied", "unavailable"} :
          tx' = [tx EXCEPT ![t] = [@ EXCEPT !.state = "user", !.key = "none",
                                            !.status = status]]
    /\ UNCHANGED <<docs, clock, terminated, applied, lost>>

-----------------------------------------------------------------------------
(* The end of the update block: ContinueCommit() on the worker queue.      *)

\* The documents that were read and not written.
Unwritten(x) == DOMAIN x.reads \ {x.muts[i].key : i \in DOMAIN x.muts}

\* Mutant: documents that were only read are not verified.
CommittedWithoutVerify(x) ==
    [x EXCEPT !.state = "commit", !.status = "ok"]

\* Commit() without a write error: a verify mutation for each of Unwritten.
Committed(x) ==
    LET verify == [i \in 1..Len(SetToSeq(Unwritten(x))) |->
                     LET k == SetToSeq(Unwritten(x))[i]
                     IN  Mutation(k, "verify", CreatePrecondition(x, k))]
    IN  [x EXCEPT !.state = "commit", !.status = "ok", !.muts = @ \o verify]

BlockSucceeds(t) ==
    /\ tx[t].state = "user"
    /\ ~terminated
    /\ IF tx[t].failed
       THEN HandleTransactionError(t, "invalid_argument")
       ELSE tx' = [tx EXCEPT ![t] = Committed(@)]
    /\ UNCHANGED <<docs, clock, terminated, applied, lost>>

\* The block returns the error of a read.
BlockFails(t) ==
    /\ tx[t].state = "user"
    /\ ~terminated
    /\ tx[t].status # "ok"
    /\ HandleTransactionError(t, tx[t].status)
    /\ UNCHANGED <<docs, clock, terminated, applied, lost>>

\* The block returns an error of its own: MarkPermanentlyFailed().
BlockGivesUp(t) ==
    /\ tx[t].state = "user"
    /\ ~terminated
    /\ tx' = [tx EXCEPT ![t].state = "done", ![t].status = "user_error",
                        ![t].permanent = TRUE]
    /\ UNCHANGED <<docs, clock, terminated, applied, lost>>

-----------------------------------------------------------------------------
(* The backend (external) and the response of CommitMutations().           *)

\* Whether a document of version v meets a condition.
Holds(condition, v) == CASE condition.type = "update_time" -> v = condition.version
                         [] condition.type = "exists" -> v # 0
                         [] condition.type = "none" -> TRUE

\* One mutation of a commit; bad is the error of the first one refused.
Perform(state, m) ==
    IF state.bad # "ok" THEN state
    ELSE IF ~Holds(m.condition, state.docs[m.key])
    THEN [state EXCEPT !.bad = IF m.condition.type = "exists" THEN "not_found"
                               ELSE "failed_precondition"]
    ELSE [state EXCEPT !.docs[m.key] = CASE m.op = "set" -> clock + 1
                                         [] m.op = "delete" -> 0
                                         [] m.op = "verify" -> @]

Performed(muts) ==
    LET f[i \in 0..Len(muts)] ==
          IF i = 0 THEN [docs |-> docs, bad |-> "ok"] ELSE Perform(f[i - 1], muts[i])
    IN  f[Len(muts)]

\* The backend applies all mutations or none.
ServerCommit(t) ==
    LET result == Performed(tx[t].muts)
    IN  /\ tx[t].state = "commit"
        /\ tx' = [tx EXCEPT ![t].state = "response", ![t].status = result.bad]
        /\ IF result.bad = "ok"
           THEN /\ docs' = result.docs
                /\ clock' = clock + 1
                /\ applied' = [applied EXCEPT ![t] = @ + 1]
           ELSE UNCHANGED <<docs, clock, applied>>
        /\ UNCHANGED <<terminated, lost>>

\* The request does not reach the backend, or the backend is contended.
CommitFails(t) ==
    /\ tx[t].state = "commit"
    /\ \E status \in {"aborted", "permission_denied", "unavailable"} :
          tx' = [tx EXCEPT ![t].state = "response", ![t].status = status]
    /\ UNCHANGED <<docs, clock, terminated, applied, lost>>

\* The call breaks after the backend applied it.
ResponseLost(t) ==
    /\ tx[t].state = "response"
    /\ tx[t].status = "ok"
    /\ tx' = [tx EXCEPT ![t].status = "unavailable"]
    /\ lost' = [lost EXCEPT ![t] = @ + 1]
    /\ UNCHANGED <<docs, clock, terminated, applied>>

\* Mutant: every answer is handled as an error.
DispatchResultIgnoringStatus(t) ==
    /\ tx[t].state = "response"
    /\ ~terminated
    /\ HandleTransactionError(t, "unavailable")
    /\ UNCHANGED <<docs, clock, terminated, applied, lost>>

\* DispatchResult().  A client that has terminated drops the answer.
DispatchResult(t) ==
    /\ tx[t].state = "response"
    /\ ~terminated
    /\ IF tx[t].status = "ok"
       THEN tx' = [tx EXCEPT ![t].state = "done"]
       ELSE HandleTransactionError(t, tx[t].status)
    /\ UNCHANGED <<docs, clock, terminated, applied, lost>>

\* Another client writes or deletes a document.
OtherClientWrites(k, exists) ==
    /\ clock < MaxVersions
    /\ clock' = clock + 1
    /\ docs' = [docs EXCEPT ![k] = IF exists THEN clock + 1 ELSE 0]
    /\ UNCHANGED <<tx, terminated, applied, lost>>

\* FirestoreClient::TerminateInternal() destroys the RemoteStore.
Terminate ==
    /\ ~terminated
    /\ terminated' = TRUE
    /\ UNCHANGED <<tx, docs, clock, applied, lost>>

-----------------------------------------------------------------------------
Init ==
    /\ tx = [t \in Transactions |-> [Attempt(0) EXCEPT !.state = "idle"]]
    /\ docs = [k \in Keys |-> 0]
    /\ clock = 0
    /\ terminated = FALSE
    /\ applied = [t \in Transactions |-> 0]
    /\ lost = [t \in Transactions |-> 0]

\* The steps of the client, and of a backend that answers.
Progress(t) ==
    \/ BackoffElapsed(t)
    \/ LookupResponse(t)
    \/ LookupFails(t)
    \/ BlockSucceeds(t)
    \/ BlockFails(t)
    \/ BlockGivesUp(t)
    \/ ServerCommit(t)
    \/ CommitFails(t)
    \/ DispatchResult(t)

Next ==
    \/ \E t \in Transactions : RunTransaction(t)
    \/ \E t \in Transactions, k \in Keys, op \in {"set", "delete"} : Write(t, k, op)
    \/ \E t \in Transactions, k \in Keys : Update(t, k)
    \/ \E t \in Transactions, k \in Keys : Lookup(t, k)
    \/ \E t \in Transactions : Progress(t)
    \/ \E t \in Transactions : ResponseLost(t)
    \/ \E k \in Keys, exists \in BOOLEAN : OtherClientWrites(k, exists)
    \/ Terminate

Spec == Init /\ [][Next]_vars

\* Timers fire, update blocks end, and every call is answered or fails.
FairSpec == Spec /\ \A t \in Transactions : WF_vars(Progress(t))

-----------------------------------------------------------------------------
(* Properties                                                              *)

Statuses == {"ok", "aborted", "failed_precondition", "unavailable", "not_found",
             "invalid_argument", "permission_denied", "user_error"}

\* Every variable has the type its declaration says.
TransactionTypeOK ==
    /\ \A t \in Transactions :
          /\ tx[t].state \in {"idle", "backoff", "user", "lookup", "commit",
                              "response", "done", "freed"}
          /\ tx[t].retries \in 0..kRetryCount
          /\ tx[t].status \in Statuses
          /\ DOMAIN tx[t].reads \subseteq Keys
          /\ tx[t].written \subseteq Keys
    /\ docs \in [Keys -> 0..clock]
    /\ applied \in [Transactions -> Nat] /\ lost \in [Transactions -> Nat]

\* Transactions are serializable: when the backend applies a commit, every
\* document that its update block was given is still as it was, whether the block
\* wrote it or not, whether or not it existed, and however often it was read.
CommittedReadsAreCurrent ==
    [][\A t \in Transactions : applied'[t] > applied[t] =>
          \A r \in tx[t].seen : docs[r[1]] = r[2]]_vars

\* The result tells what happened: success means that the backend applied the
\* transaction; it applies one more than once, or one that is reported to have
\* failed, only if the response to a commit was lost.
ResultMatchesBackend ==
    \A t \in Transactions :
        /\ applied[t] <= 1 + lost[t]
        /\ tx[t].state = "done" /\ tx[t].status = "ok" => applied[t] = 1 + lost[t]
        /\ tx[t].state = "done" /\ tx[t].status # "ok" => applied[t] = lost[t]

\* A retry finds the RemoteStore it was created with.
RetryFindsRemoteStore == \A t \in Transactions : tx[t].state # "freed"

\* "This block will run even if the client is offline, unless the process is
\* killed": the result is reported after finitely many retries, unless the
\* client was terminated.
TransactionsEnd ==
    \A t \in Transactions :
        tx[t].state # "idle" ~> (tx[t].state = "done" \/ terminated)
=============================================================================
