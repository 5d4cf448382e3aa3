---------------------- MODULE TransactionRunnerProofs ----------------------
(***************************************************************************)
(* Proofs about TransactionRunner, for any number of transactions, keys,   *)
(* retries and reads and writes: transactions are serializable, and the    *)
(* result that is reported tells what the backend did.                     *)
(*                                                                         *)
(* The argument for serializability: in a transaction that has not failed, *)
(* the first mutation of a document that was read has the version read as  *)
(* its precondition, and when it commits there is such a mutation for every*)
(* document read (ReadsInv).  The backend evaluates a commit mutation by   *)
(* mutation (Performed); before the first one of a document it has not     *)
(* changed that document, so the precondition is one on the stored version.*)
(***************************************************************************)
EXTENDS TransactionRunner, SequenceFacts, FiniteSetTheorems

States == {"idle", "backoff", "user", "lookup", "commit", "response", "done", "freed"}

Condition == [type : {"update_time", "exists", "none"}, version : Nat]

Mut == [key : Keys, op : {"set", "delete", "verify"}, condition : Condition]

\* x is a Transaction and its runner.
IsTx(x) ==
    /\ x \in [state : States, retries : 0..kRetryCount, status : Statuses, reads : {x.reads},
              written : SUBSET Keys, muts : Seq(Mut), failed : BOOLEAN, key : Keys \cup {"none"},
              ops : Nat, permanent : BOOLEAN, seen : {x.seen}]
    /\ DOMAIN x.reads \subseteq Keys /\ IsFiniteSet(DOMAIN x.reads)
    /\ \A k \in DOMAIN x.reads : x.reads[k] \in Nat

\* The first mutation of k requires the version v.
First(muts, k, v) ==
    \E i \in DOMAIN muts : /\ muts[i].key = k /\ muts[i].condition = UpdateTime(v)
                           /\ \A j \in DOMAIN muts : j < i => muts[j].key # k

NoneOf(muts, k) == \A i \in DOMAIN muts : muts[i].key # k

\* What the mutations say of the documents that were read.
ReadsInv(x) ==
    /\ \A r \in x.seen : r[1] \in DOMAIN x.reads /\ x.reads[r[1]] = r[2]
    /\ x.state = "lookup" => x.muts = <<>> /\ x.key \in Keys
    /\ ~x.failed /\ x.muts = <<>> => x.written = {}
    /\ ~x.failed /\ x.state \in {"backoff", "user", "lookup"} =>
          \A k \in DOMAIN x.reads :
             IF k \in x.written THEN First(x.muts, k, x.reads[k]) ELSE NoneOf(x.muts, k)
    /\ x.state = "commit" => \A k \in DOMAIN x.reads : First(x.muts, k, x.reads[k])

\* The commit that is being answered, or whose success was reported.
Succeeded(x) == x.state \in {"response", "done"} /\ x.status = "ok"

One(P) == IF P THEN 1 ELSE 0

\* x was applied a times, and of l of them the response was lost.
TxInv(x, a, l) == IsTx(x) /\ ReadsInv(x) /\ a = l + One(Succeeded(x))

TransactionInv ==
    /\ tx = [t \in Transactions |-> tx[t]]
    /\ docs \in [Keys -> 0..clock] /\ clock \in Nat /\ terminated \in BOOLEAN
    /\ applied \in [Transactions -> Nat] /\ lost \in [Transactions -> Nat]
    /\ \A t \in Transactions : TxInv(tx[t], applied[t], lost[t])

\* The properties follow.
LEMMA TransactionConsequences ==
    ASSUME TransactionInv
    PROVE  ResultMatchesBackend /\ TransactionTypeOK
  <1>1. ASSUME NEW t \in Transactions
        PROVE  /\ applied[t] = lost[t] + One(Succeeded(tx[t])) /\ applied[t] \in Nat
               /\ lost[t] \in Nat /\ IsTx(tx[t])
    BY DEF TransactionInv, TxInv
  <1>2. ASSUME NEW t \in Transactions
        PROVE  /\ applied[t] <= 1 + lost[t]
               /\ tx[t].state = "done" /\ tx[t].status = "ok" => applied[t] = 1 + lost[t]
               /\ tx[t].state = "done" /\ tx[t].status # "ok" => applied[t] = lost[t]
    BY <1>1 DEF One, Succeeded
  <1>3. ASSUME NEW t \in Transactions
        PROVE  /\ tx[t].state \in States
               /\ tx[t].retries \in 0..kRetryCount
               /\ tx[t].status \in Statuses
               /\ DOMAIN tx[t].reads \subseteq Keys
               /\ tx[t].written \subseteq Keys
    BY <1>1 DEF IsTx
  <1> QED
    BY <1>2, <1>3 DEF ResultMatchesBackend, TransactionTypeOK, TransactionInv, States

\* A step that changes one transaction.
LEMMA TxStep ==
    ASSUME TransactionInv, NEW t \in Transactions, NEW y, tx' = [tx EXCEPT ![t] = y],
           docs' \in [Keys -> 0..clock'], clock' \in Nat, terminated' \in BOOLEAN,
           applied' \in [Transactions -> Nat], lost' \in [Transactions -> Nat],
           \A u \in Transactions : u # t => applied'[u] = applied[u] /\ lost'[u] = lost[u],
           TxInv(y, applied'[t], lost'[t])
    PROVE  TransactionInv'
  <1>1. tx = [u \in Transactions |-> tx[u]]
    BY DEF TransactionInv
  <1>2. DOMAIN tx = Transactions
    BY <1>1
  <1>3. tx' = [u \in Transactions |-> tx'[u]] /\ tx'[t] = y
        /\ \A u \in Transactions : u # t => tx'[u] = tx[u]
    BY <1>2
  <1>4. \A u \in Transactions : TxInv(tx'[u], applied'[u], lost'[u])
    BY <1>3 DEF TransactionInv
  <1> QED
    BY <1>3, <1>4 DEF TransactionInv

\* The same, when the backend does not change.
LEMMA ClientStep ==
    ASSUME TransactionInv, NEW t \in Transactions, NEW y, tx' = [tx EXCEPT ![t] = y],
           UNCHANGED <<docs, clock, terminated, applied, lost>>,
           IsTx(y), ReadsInv(y), Succeeded(y) <=> Succeeded(tx[t])
    PROVE  TransactionInv'
  <1>1. TxInv(tx[t], applied[t], lost[t])
    BY DEF TransactionInv
  <1>2. One(Succeeded(y)) = One(Succeeded(tx[t]))
    BY DEF One
  <1>3. TxInv(y, applied[t], lost[t])
    BY <1>1, <1>2 DEF TxInv
  <1> QED
    BY <1>3, TxStep DEF TransactionInv

\* A new Transaction.
LEMMA AttemptFacts ==
    ASSUME NEW r \in 0..kRetryCount
    PROVE  IsTx(Attempt(r)) /\ ReadsInv(Attempt(r)) /\ ~Succeeded(Attempt(r))
  <1>1. PICK x : x = Attempt(r)
    OBVIOUS
  <1>2. /\ x.state = "backoff" /\ x.retries = r /\ x.status = "ok" /\ x.reads = <<>>
        /\ x.written = {} /\ x.muts = <<>> /\ x.failed = FALSE /\ x.key = "none" /\ x.ops = 0
        /\ x.permanent = FALSE /\ x.seen = {}
    BY <1>1 DEF Attempt
  <1>3. DOMAIN x.reads = {} /\ DOMAIN x.muts = {} /\ x.muts \in Seq(Mut)
    BY <1>2
  <1>4. IsFiniteSet({})
    BY FS_EmptySet
  <1>5. x \in [state : States, retries : 0..kRetryCount, status : Statuses, reads : {x.reads},
               written : SUBSET Keys, muts : Seq(Mut), failed : BOOLEAN, key : Keys \cup {"none"},
               ops : Nat, permanent : BOOLEAN, seen : {x.seen}]
    BY <1>1, <1>2, <1>3 DEF Attempt, States, Statuses
  <1>6. IsTx(x)
    BY <1>3, <1>4, <1>5 DEF IsTx
  <1>7. ReadsInv(x)
    BY <1>2, <1>3 DEF ReadsInv
  <1> QED
    BY <1>1, <1>2, <1>6, <1>7 DEF Succeeded

\* A transaction whose mutations and reads stay as they are.
Same(y, x) ==
    /\ y.reads = x.reads /\ y.written = x.written /\ y.muts = x.muts /\ y.failed = x.failed
    /\ y.seen = x.seen

\* Where it may go.
LEMMA SameFacts ==
    ASSUME NEW x, ReadsInv(x), NEW y, Same(y, x),
           \/ y.state \in {"idle", "response", "done", "freed"}
           \/ y.state = "user" /\ x.state \in {"backoff", "user", "lookup"}
           \/ y.state = "lookup" /\ x.state = "user" /\ y.muts = <<>> /\ y.key \in Keys
    PROVE  ReadsInv(y)
  BY DEF ReadsInv, Same

\* Retry or report the error.
LEMMA HandleTransactionErrorStep ==
    ASSUME TransactionInv, NEW t \in Transactions, NEW status \in Statuses \ {"ok"},
           HandleTransactionError(t, status), ~Succeeded(tx[t]),
           UNCHANGED <<docs, clock, terminated, applied, lost>>
    PROVE  TransactionInv'
  <1>1. PICK x : x = tx[t]
    OBVIOUS
  <1>2. IsTx(x) /\ ReadsInv(x) /\ kRetryCount \in Nat
    BY <1>1, TransactionAssumption DEF TransactionInv, TxInv
  <1>3. x.retries \in 0..kRetryCount
    BY <1>2 DEF IsTx
  <1>4. CASE x.retries > 0 /\ IsRetryableTransactionError(status) /\ ~x.permanent
    <2>1. PICK r \in 0..kRetryCount : r = x.retries - 1
      BY <1>2, <1>3, <1>4
    <2>2. tx' = [tx EXCEPT ![t] = Attempt(r)]
      BY <1>1, <1>4, <2>1, Zenon DEF HandleTransactionError
    <2>3. PICK y : y = Attempt(r)
      OBVIOUS
    <2>4. IsTx(y) /\ ReadsInv(y) /\ ~Succeeded(y) /\ tx' = [tx EXCEPT ![t] = y]
      BY <2>2, <2>3, AttemptFacts
    <2> QED
      BY <2>4, ClientStep
  <1>5. CASE ~(x.retries > 0 /\ IsRetryableTransactionError(status) /\ ~x.permanent)
    <2>1. tx' = [tx EXCEPT ![t].state = "done", ![t].status = status]
      BY <1>1, <1>5, Zenon DEF HandleTransactionError
    <2>2. PICK y : y = [x EXCEPT !.state = "done", !.status = status]
      OBVIOUS
    <2>3. tx' = [tx EXCEPT ![t] = y]
      BY <1>1, <2>1, <2>2 DEF TransactionInv
    <2>4. /\ y.state = "done" /\ y.status = status /\ Same(y, x) /\ IsTx(y)
      BY <1>2, <2>2 DEF IsTx, Same, States
    <2>5. ReadsInv(y) /\ ~Succeeded(y)
      BY <1>2, <2>4, SameFacts DEF Succeeded
    <2> QED
      BY <2>3, <2>4, <2>5, ClientStep
  <1> QED
    BY <1>4, <1>5

\* The other steps that leave mutations and reads as they are.
LEMMA SameStep ==
    ASSUME TransactionInv, NEW t \in Transactions, NEW y, tx' = [tx EXCEPT ![t] = y],
           UNCHANGED <<docs, clock, terminated, applied, lost>>,
           IsTx(y), Same(y, tx[t]), Succeeded(y) <=> Succeeded(tx[t]),
           \/ y.state \in {"idle", "response", "done", "freed"}
           \/ y.state = "user" /\ tx[t].state \in {"backoff", "user", "lookup"}
           \/ y.state = "lookup" /\ tx[t].state = "user" /\ y.muts = <<>> /\ y.key \in Keys
    PROVE  TransactionInv'
  <1>1. ReadsInv(tx[t])
    BY DEF TransactionInv, TxInv
  <1>2. ReadsInv(y)
    BY <1>1, SameFacts
  <1> QED
    BY <1>2, ClientStep

\* SyncEngine::Transaction().
LEMMA RunTransactionInv ==
    ASSUME TransactionInv, NEW t \in Transactions, RunTransaction(t)
    PROVE  TransactionInv'
  <1>1. PICK r \in 0..kRetryCount : r = kRetryCount
    BY TransactionAssumption
  <1>2. PICK y : y = Attempt(r)
    OBVIOUS
  <1>3. IsTx(y) /\ ReadsInv(y) /\ ~Succeeded(y)
    BY <1>2, AttemptFacts
  <1>4. /\ tx' = [tx EXCEPT ![t] = y] /\ tx[t].state = "idle"
        /\ UNCHANGED <<docs, clock, terminated, applied, lost>>
    BY <1>1, <1>2 DEF RunTransaction
  <1> QED
    BY <1>3, <1>4, ClientStep DEF Succeeded

\* BackoffAndRun().
LEMMA BackoffElapsedInv ==
    ASSUME TransactionInv, NEW t \in Transactions, BackoffElapsed(t)
    PROVE  TransactionInv'
  <1>1. IsTx(tx[t])
    BY DEF TransactionInv, TxInv
  <1>2. PICK s \in {"freed", "user"} : s = IF terminated THEN "freed" ELSE "user"
    OBVIOUS
  <1>3. PICK y : y = [tx[t] EXCEPT !.state = s]
    OBVIOUS
  <1>4. /\ tx[t].state = "backoff" /\ tx' = [tx EXCEPT ![t] = y]
        /\ UNCHANGED <<docs, clock, terminated, applied, lost>>
    BY <1>2, <1>3, Zenon DEF BackoffElapsed
  <1>5. y.state = s /\ Same(y, tx[t]) /\ IsTx(y)
    BY <1>1, <1>3 DEF IsTx, Same, States
  <1>6. ~Succeeded(y) /\ ~Succeeded(tx[t])
    BY <1>4, <1>5 DEF Succeeded
  <1> QED
    BY <1>4, <1>5, <1>6, SameStep

-----------------------------------------------------------------------------
(* Writes                                                                  *)

\* One more mutation.
LEMMA AppendedMutation ==
    ASSUME NEW muts \in Seq(Mut), NEW m \in Mut, NEW k, NEW v
    PROVE  /\ muts \o <<m>> \in Seq(Mut) /\ muts \o <<m>> # <<>>
           /\ First(muts, k, v) => First(muts \o <<m>>, k, v)
           /\ NoneOf(muts, k) /\ m.key # k => NoneOf(muts \o <<m>>, k)
           /\ NoneOf(muts, k) /\ m.key = k /\ m.condition = UpdateTime(v) =>
                 First(muts \o <<m>>, k, v)
  <1>1. PICK n \in Nat : n = Len(muts)
    OBVIOUS
  <1>2. PICK all : all = muts \o <<m>>
    OBVIOUS
  <1>3. /\ all \in Seq(Mut) /\ DOMAIN muts = 1..n /\ DOMAIN all = 1..(n + 1) /\ all[n + 1] = m
        /\ \A i \in 1..n : all[i] = muts[i]
    BY <1>1, <1>2
  <1>4. /\ \A i \in 1..(n + 1) : i \in 1..n \/ i = n + 1
        /\ \A i \in 1..n : i \in 1..(n + 1) /\ ~(n + 1 < i)
        /\ n + 1 \in 1..(n + 1) /\ \A i \in 1..(n + 1) : i < n + 1 => i \in 1..n
    OBVIOUS
  <1>5. all # <<>>
    BY <1>3
  <1>6. First(muts, k, v) => First(all, k, v)
    <2> SUFFICES ASSUME NEW i \in 1..n, muts[i].key = k, muts[i].condition = UpdateTime(v),
                        \A j \in 1..n : j < i => muts[j].key # k
                 PROVE  First(all, k, v)
      BY <1>3 DEF First
    <2>1. \A j \in 1..(n + 1) : j < i => all[j].key # k
      BY <1>3, <1>4
    <2> QED
      BY <1>3, <1>4, <2>1 DEF First
  <1>7. NoneOf(muts, k) /\ m.key # k => NoneOf(all, k)
    BY <1>3, <1>4 DEF NoneOf
  <1>8. NoneOf(muts, k) /\ m.key = k /\ m.condition = UpdateTime(v) => First(all, k, v)
    BY <1>3, <1>4 DEF First, NoneOf
  <1> QED
    BY <1>2, <1>3, <1>5, <1>6, <1>7, <1>8

\* The type of a transaction with one more write.
LEMMA WrittenTypes ==
    ASSUME NEW x, IsTx(x), NEW k \in Keys, NEW more, x.muts \o more \in Seq(Mut)
    PROVE  LET y == Written(x, k, more)
           IN  /\ IsTx(y) /\ y.muts = x.muts \o more /\ y.written = x.written \cup {k}
               /\ y.reads = x.reads /\ y.seen = x.seen /\ y.state = x.state /\ y.failed = x.failed
  <1>0. PICK all : all = x.muts \o more
    OBVIOUS
  <1> PICK y : y = Written(x, k, more)
    OBVIOUS
  <1>1. PICK w : w = x.written \cup {k}
    OBVIOUS
  <1>2. PICK n : n = x.ops + 1
    OBVIOUS
  <1>3. w \in SUBSET Keys /\ n \in Nat
    BY <1>1, <1>2 DEF IsTx
  <1>4. PICK a : a = [x EXCEPT !.muts = all]
    OBVIOUS
  <1>5. PICK b : b = [a EXCEPT !.written = w]
    OBVIOUS
  <1>6. PICK c : c = [b EXCEPT !.ops = n]
    OBVIOUS
  <1>7. IsTx(a) /\ a.written = x.written /\ a.ops = x.ops /\ a.muts = all /\ a.reads = x.reads
        /\ a.seen = x.seen /\ a.state = x.state /\ a.failed = x.failed
    BY <1>0, <1>4 DEF IsTx
  <1>8. IsTx(b) /\ b.written = w /\ b.ops = x.ops /\ b.muts = all /\ b.reads = x.reads
        /\ b.seen = x.seen /\ b.state = x.state /\ b.failed = x.failed
    BY <1>3, <1>5, <1>7 DEF IsTx
  <1>9. IsTx(c) /\ c.written = w /\ c.muts = all /\ c.reads = x.reads
        /\ c.seen = x.seen /\ c.state = x.state /\ c.failed = x.failed
    BY <1>3, <1>6, <1>8 DEF IsTx
  <1>10. y = c
    BY <1>0, <1>1, <1>2, <1>4, <1>5, <1>6, <1>7, <1>8 DEF Written, IsTx
  <1> QED
    BY <1>0, <1>1, <1>9, <1>10

\* A write of k whose first mutation requires the version that was read.
LEMMA WrittenFacts ==
    ASSUME NEW x, IsTx(x), ReadsInv(x), x.state = "user", NEW k \in Keys, NEW m \in Mut, m.key = k,
           k \notin x.written /\ k \in DOMAIN x.reads => m.condition = UpdateTime(x.reads[k]),
           NEW y, y = Written(x, k, <<m>>)
    PROVE  IsTx(y) /\ ReadsInv(y) /\ y.state = "user"
  <1>1. x.muts \in Seq(Mut) /\ x.written \subseteq Keys
    BY DEF IsTx
  <1>2. PICK all : all = x.muts \o <<m>>
    OBVIOUS
  <1>3. all \in Seq(Mut) /\ all # <<>>
    BY <1>1, <1>2, AppendedMutation
  <1>4. /\ y.muts = all /\ y.written = x.written \cup {k} /\ y.reads = x.reads /\ y.seen = x.seen
        /\ y.state = "user" /\ y.failed = x.failed /\ IsTx(y)
    <2>1. PICK more : more = <<m>>
      OBVIOUS
    <2>2. y = Written(x, k, more) /\ all = x.muts \o more /\ all \in Seq(Mut)
      BY <1>2, <1>3, <2>1
    <2>3. /\ IsTx(y) /\ y.muts = all /\ y.written = x.written \cup {k} /\ y.reads = x.reads
          /\ y.seen = x.seen /\ y.state = x.state /\ y.failed = x.failed
      BY ONLY <2>2, IsTx(x), k \in Keys, WrittenTypes
    <2> QED
      BY <2>3
  <1>5. IsTx(y)
    BY <1>4
  <1>6. ASSUME ~x.failed, NEW j \in DOMAIN x.reads
        PROVE  IF j \in y.written THEN First(all, j, x.reads[j]) ELSE NoneOf(all, j)
    <2>1. IF j \in x.written THEN First(x.muts, j, x.reads[j]) ELSE NoneOf(x.muts, j)
      BY <1>6 DEF ReadsInv
    <2>2. PICK v : v = x.reads[j]
      OBVIOUS
    <2>3. /\ First(x.muts, j, v) => First(all, j, v)
          /\ NoneOf(x.muts, j) /\ m.key # j => NoneOf(all, j)
          /\ NoneOf(x.muts, j) /\ m.key = j /\ m.condition = UpdateTime(v) => First(all, j, v)
      BY <1>1, <1>2, AppendedMutation
    <2>4. CASE j \in x.written
      BY <1>4, <2>1, <2>2, <2>3, <2>4
    <2>5. CASE j \notin x.written /\ j = k
      BY <1>4, <2>1, <2>2, <2>3, <2>5
    <2>6. CASE j \notin x.written /\ j # k
      BY <1>4, <2>1, <2>2, <2>3, <2>6
    <2> QED
      BY <2>4, <2>5, <2>6
  <1>7. ReadsInv(y)
    BY <1>3, <1>4, <1>6 DEF ReadsInv
  <1> QED
    BY <1>4, <1>5, <1>7

\* Set() and Delete().
LEMMA WriteInv ==
    ASSUME TransactionInv, NEW t \in Transactions, NEW k \in Keys, NEW op \in {"set", "delete"},
           Write(t, k, op)
    PROVE  TransactionInv'
  <1>1. PICK x : x = tx[t]
    OBVIOUS
  <1>2. IsTx(x) /\ ReadsInv(x) /\ x.state = "user"
    BY <1>1 DEF TransactionInv, TxInv, Write, InBlock
  <1>3. PICK c : c = CreatePrecondition(x, k)
    OBVIOUS
  <1>4. c \in Condition /\ (k \notin x.written /\ k \in DOMAIN x.reads => c = UpdateTime(x.reads[k]))
    BY <1>2, <1>3 DEF CreatePrecondition, HasVersion, GetVersion, UpdateTime, NoCondition,
       Condition, IsTx
  <1>5. PICK m : m = Mutation(k, op, c)
    OBVIOUS
  <1>6. m \in Mut /\ m.key = k /\ m.condition = c
    BY <1>4, <1>5 DEF Mutation, Mut
  <1>7. PICK y : y = Written(x, k, <<m>>)
    OBVIOUS
  <1>8. IsTx(y) /\ ReadsInv(y) /\ y.state = "user"
    BY <1>2, <1>4, <1>6, <1>7, WrittenFacts
  <1>9. /\ tx' = [tx EXCEPT ![t] = y] /\ UNCHANGED <<docs, clock, terminated, applied, lost>>
    BY <1>1, <1>3, <1>5, <1>7, Zenon DEF Write
  <1>10. ~Succeeded(y) /\ ~Succeeded(tx[t])
    BY <1>1, <1>2, <1>8 DEF Succeeded
  <1> QED
    BY <1>8, <1>9, <1>10, ClientStep

\* Update().
LEMMA UpdateInv ==
    ASSUME TransactionInv, NEW t \in Transactions, NEW k \in Keys, Update(t, k)
    PROVE  TransactionInv'
  <1>1. PICK x : x = tx[t]
    OBVIOUS
  <1>2. IsTx(x) /\ ReadsInv(x) /\ x.state = "user"
    BY <1>1 DEF TransactionInv, TxInv, Update, InBlock
  <1>3. PICK first \in BOOLEAN : first = (k \notin x.written /\ HasVersion(x, k))
    BY DEF HasVersion
  <1>4. UNCHANGED <<docs, clock, terminated, applied, lost>>
    BY DEF Update
  <1>5. CASE first /\ GetVersion(x, k) = 0
    <2>1. PICK z : z = [x EXCEPT !.failed = TRUE]
      OBVIOUS
    <2>2. IsTx(z) /\ z.failed = TRUE /\ z.reads = x.reads /\ z.seen = x.seen /\ z.state = "user"
      BY <1>2, <2>1 DEF IsTx
    <2>3. PICK y : y = Written(z, k, <<>>)
      OBVIOUS
    <2>4. z.muts \o <<>> = z.muts /\ z.muts \in Seq(Mut)
      BY <2>2 DEF IsTx
    <2>5. /\ IsTx(y) /\ y.failed = TRUE /\ y.reads = x.reads /\ y.seen = x.seen /\ y.state = "user"
      BY <2>2, <2>3, <2>4, WrittenTypes
    <2>6. ReadsInv(y)
      BY <1>2, <2>5 DEF ReadsInv
    <2>7. tx' = [tx EXCEPT ![t] = y]
      BY <1>1, <1>3, <1>5, <2>1, <2>3, Zenon DEF Update
    <2>8. ~Succeeded(y) /\ ~Succeeded(tx[t])
      BY <1>1, <1>2, <2>5 DEF Succeeded
    <2> QED
      BY <1>4, <2>5, <2>6, <2>7, <2>8, ClientStep
  <1>6. CASE ~(first /\ GetVersion(x, k) = 0)
    <2>1. PICK c : c = IF first THEN UpdateTime(GetVersion(x, k)) ELSE Exists
      OBVIOUS
    <2>2. c \in Condition /\ (k \notin x.written /\ k \in DOMAIN x.reads => c = UpdateTime(x.reads[k]))
      BY <1>2, <1>3, <2>1 DEF HasVersion, GetVersion, UpdateTime, Exists, Condition, IsTx
    <2>3. PICK m : m = Mutation(k, "set", c)
      OBVIOUS
    <2>4. m \in Mut /\ m.key = k /\ m.condition = c
      BY <2>2, <2>3 DEF Mutation, Mut
    <2>5. PICK y : y = Written(x, k, <<m>>)
      OBVIOUS
    <2>6. IsTx(y) /\ ReadsInv(y) /\ y.state = "user"
      BY <1>2, <2>2, <2>4, <2>5, WrittenFacts
    <2>7. tx' = [tx EXCEPT ![t] = y]
      BY <1>1, <1>3, <1>6, <2>1, <2>3, <2>5, Zenon DEF Update
    <2>8. ~Succeeded(y) /\ ~Succeeded(tx[t])
      BY <1>1, <1>2, <2>6 DEF Succeeded
    <2> QED
      BY <1>4, <2>6, <2>7, <2>8, ClientStep
  <1> QED
    BY <1>5, <1>6

-----------------------------------------------------------------------------
(* Reads                                                                   *)

\* Lookup().
LEMMA LookupInv ==
    ASSUME TransactionInv, NEW t \in Transactions, NEW k \in Keys, Lookup(t, k)
    PROVE  TransactionInv'
  <1>1. PICK x : x = tx[t]
    OBVIOUS
  <1>2. IsTx(x) /\ x.state = "user" /\ ~Succeeded(tx[t])
    BY <1>1 DEF TransactionInv, TxInv, Lookup, InBlock, Succeeded
  <1>3. UNCHANGED <<docs, clock, terminated, applied, lost>>
    BY DEF Lookup
  <1>4. PICK n : n = x.ops + 1
    OBVIOUS
  <1>5. n \in Nat
    BY <1>2, <1>4 DEF IsTx
  <1>6. CASE x.muts # <<>>
    <2>1. PICK y : y = [x EXCEPT !.status = "invalid_argument", !.ops = n]
      OBVIOUS
    <2>2. tx' = [tx EXCEPT ![t].status = "invalid_argument", ![t].ops = @ + 1]
      BY <1>1, <1>6 DEF Lookup
    <2>3. tx' = [tx EXCEPT ![t] = y]
      BY <1>1, <1>2, <1>4, <2>1, <2>2 DEF IsTx, TransactionInv
    <2>4. y.state = "user" /\ Same(y, x) /\ IsTx(y)
      BY <1>2, <1>5, <2>1 DEF IsTx, Same, Statuses
    <2>5. ~Succeeded(y)
      BY <2>4 DEF Succeeded
    <2> QED
      BY <1>1, <1>2, <1>3, <2>3, <2>4, <2>5, SameStep
  <1>7. CASE x.muts = <<>>
    <2>1. PICK z : z = [x EXCEPT !.state = "lookup", !.key = k]
      OBVIOUS
    <2>2. PICK y : y = [z EXCEPT !.ops = n]
      OBVIOUS
    <2>3. tx' = [tx EXCEPT ![t].state = "lookup", ![t].key = k, ![t].ops = @ + 1]
      BY <1>1, <1>7 DEF Lookup
    <2>4. z.state = "lookup" /\ z.key = k /\ Same(z, x) /\ IsTx(z) /\ z.ops = x.ops
      BY <1>2, <2>1 DEF IsTx, Same, States
    <2>5. tx' = [tx EXCEPT ![t] = y]
      BY <1>1, <1>2, <1>4, <2>1, <2>2, <2>3, <2>4 DEF IsTx, TransactionInv
    <2>6. y.state = "lookup" /\ y.key = k /\ Same(y, z) /\ IsTx(y)
      BY <1>5, <2>2, <2>4 DEF IsTx, Same
    <2>7. Same(y, x) /\ y.muts = <<>>
      BY <1>7, <2>4, <2>6 DEF Same
    <2>8. ~Succeeded(y)
      BY <2>6 DEF Succeeded
    <2> QED
      BY <1>1, <1>2, <1>3, <2>5, <2>6, <2>7, <2>8, SameStep
  <1> QED
    BY <1>6, <1>7

\* A lookup that fails.
LEMMA LookupFailsInv ==
    ASSUME TransactionInv, NEW t \in Transactions, LookupFails(t)
    PROVE  TransactionInv'
  <1>1. PICK x : x = tx[t]
    OBVIOUS
  <1>2. IsTx(x) /\ x.state = "lookup" /\ ~Succeeded(tx[t])
    BY <1>1 DEF TransactionInv, TxInv, LookupFails, Succeeded
  <1>3. UNCHANGED <<docs, clock, terminated, applied, lost>>
    BY DEF LookupFails
  <1>4. PICK status \in {"permission_denied", "unavailable"} :
           tx' = [tx EXCEPT ![t] = [x EXCEPT !.state = "user", !.key = "none", !.status = status]]
    BY <1>1 DEF LookupFails
  <1>5. PICK z : z = [x EXCEPT !.state = "user", !.key = "none"]
    OBVIOUS
  <1>6. PICK y : y = [z EXCEPT !.status = status]
    OBVIOUS
  <1>7. z.state = "user" /\ Same(z, x) /\ IsTx(z)
    BY <1>2, <1>5 DEF IsTx, Same, States
  <1>8. y.state = "user" /\ Same(y, z) /\ IsTx(y)
    BY <1>4, <1>6, <1>7 DEF IsTx, Same, Statuses
  <1>9. Same(y, x)
    BY <1>7, <1>8 DEF Same
  <1>10. tx' = [tx EXCEPT ![t] = y]
    BY <1>4, <1>5, <1>6
  <1>11. ~Succeeded(y)
    BY <1>8 DEF Succeeded
  <1> QED
    BY <1>1, <1>2, <1>3, <1>8, <1>9, <1>10, <1>11, SameStep

\* RecordVersion().
LEMMA RecordVersionFacts ==
    ASSUME NEW x, IsTx(x), NEW k \in Keys, NEW v \in Nat, NEW y, y = RecordVersion(x, k, v)
    PROVE  /\ IsTx(y) /\ y.written = x.written /\ y.muts = x.muts /\ y.failed = x.failed
           /\ y.seen = x.seen /\ y.state = x.state
           /\ DOMAIN y.reads = DOMAIN x.reads \cup {k}
           /\ \A j \in DOMAIN x.reads : y.reads[j] = x.reads[j]
  <1>1. CASE k \in DOMAIN x.reads /\ x.reads[k] = v
    <2>1. y = x
      BY <1>1 DEF RecordVersion, HasVersion, GetVersion
    <2> QED
      BY <1>1, <2>1
  <1>2. CASE k \in DOMAIN x.reads /\ x.reads[k] # v
    <2>1. y = [x EXCEPT !.status = "aborted"]
      BY <1>2 DEF RecordVersion, HasVersion, GetVersion
    <2>2. y.reads = x.reads
      BY <2>1 DEF IsTx
    <2> QED
      BY <1>2, <2>1, <2>2 DEF IsTx, Statuses
  <1>3. CASE k \notin DOMAIN x.reads
    <2>1. PICK r : r = [j \in DOMAIN x.reads \cup {k} |-> IF j = k THEN v ELSE x.reads[j]]
      OBVIOUS
    <2>2. y = [x EXCEPT !.reads = r]
      BY <1>3, <2>1 DEF RecordVersion, HasVersion, IsTx
    <2>3. /\ DOMAIN r = DOMAIN x.reads \cup {k} /\ \A j \in DOMAIN r : r[j] \in Nat
          /\ \A j \in DOMAIN x.reads : r[j] = x.reads[j]
      BY <1>3, <2>1 DEF IsTx
    <2>4. IsFiniteSet(DOMAIN r) /\ DOMAIN r \subseteq Keys
      BY <2>3, FS_AddElement DEF IsTx
    <2>5. y.reads = r
      BY <2>2 DEF IsTx
    <2>6. y \in [state : States, retries : 0..kRetryCount, status : Statuses, reads : {r},
                 written : SUBSET Keys, muts : Seq(Mut), failed : BOOLEAN, key : Keys \cup {"none"},
                 ops : Nat, permanent : BOOLEAN, seen : {y.seen}]
      BY <2>2 DEF IsTx
    <2>7. IsTx(y)
      BY <2>3, <2>4, <2>5, <2>6 DEF IsTx
    <2>8. /\ y.written = x.written /\ y.muts = x.muts /\ y.failed = x.failed /\ y.seen = x.seen
          /\ y.state = x.state
      BY <2>2 DEF IsTx
    <2> QED
      BY <2>3, <2>5, <2>7, <2>8
  <1> QED
    BY <1>1, <1>2, <1>3

\* The answer to LookupDocuments().
LEMMA LookupResponseInv ==
    ASSUME TransactionInv, NEW t \in Transactions, LookupResponse(t)
    PROVE  TransactionInv'
  <1>1. PICK x : x = tx[t]
    OBVIOUS
  <1>2. IsTx(x) /\ ReadsInv(x) /\ x.state = "lookup" /\ ~Succeeded(tx[t])
    BY <1>1 DEF TransactionInv, TxInv, LookupResponse, Succeeded
  <1>3. UNCHANGED <<docs, clock, terminated, applied, lost>>
    BY DEF LookupResponse
  <1>4. PICK k \in Keys : k = x.key
    BY <1>2 DEF ReadsInv
  <1>5. PICK v \in Nat : v = docs[k]
    BY DEF TransactionInv
  <1>6. PICK back : back = [x EXCEPT !.state = "user", !.key = "none"]
    OBVIOUS
  <1>7. IsTx(back) /\ back.state = "user" /\ Same(back, x)
    BY <1>2, <1>6 DEF IsTx, Same, States
  <1>8. PICK z : z = RecordVersion(back, k, v)
    OBVIOUS
  <1>9. /\ IsTx(z) /\ z.written = x.written /\ z.muts = x.muts /\ z.failed = x.failed
        /\ z.seen = x.seen /\ z.state = "user" /\ DOMAIN z.reads = DOMAIN x.reads \cup {k}
        /\ \A j \in DOMAIN x.reads : z.reads[j] = x.reads[j]
    <2>1. /\ IsTx(z) /\ z.written = back.written /\ z.muts = back.muts /\ z.failed = back.failed
          /\ z.seen = back.seen /\ z.state = back.state
          /\ DOMAIN z.reads = DOMAIN back.reads \cup {k}
          /\ \A j \in DOMAIN back.reads : z.reads[j] = back.reads[j]
      BY <1>7, <1>8, RecordVersionFacts
    <2> QED
      BY <1>7, <2>1 DEF Same
  <1>10. PICK s : s = z.seen \cup (IF GetVersion(z, k) = v THEN {<<k, v>>} ELSE {})
    OBVIOUS
  <1>11. PICK y : y = [z EXCEPT !.seen = s]
    OBVIOUS
  <1>12. tx' = [tx EXCEPT ![t] = y]
    <2>1. tx' = [tx EXCEPT ![t] = [z EXCEPT !.seen = @ \cup
                   (IF GetVersion(z, k) = v THEN {<<k, v>>} ELSE {})]]
      BY <1>1, <1>4, <1>5, <1>6, <1>8, Zenon DEF LookupResponse
    <2> QED
      BY <1>9, <1>10, <1>11, <2>1 DEF IsTx
  <1>13. /\ IsTx(y) /\ y.written = x.written /\ y.muts = x.muts /\ y.failed = x.failed
         /\ y.seen = s /\ y.state = "user" /\ y.reads = z.reads
    <2>1. /\ y.written = x.written /\ y.muts = x.muts /\ y.failed = x.failed
          /\ y.seen = s /\ y.state = "user" /\ y.reads = z.reads
      BY <1>9, <1>11 DEF IsTx
    <2>2. y \in [state : States, retries : 0..kRetryCount, status : Statuses, reads : {y.reads},
                 written : SUBSET Keys, muts : Seq(Mut), failed : BOOLEAN, key : Keys \cup {"none"},
                 ops : Nat, permanent : BOOLEAN, seen : {y.seen}]
      BY <1>9, <1>11 DEF IsTx
    <2>3. IsTx(y)
      BY <1>9, <2>1, <2>2 DEF IsTx
    <2> QED
      BY <2>1, <2>3
  <1>14. ReadsInv(y)
    <2>1. ASSUME NEW r \in s PROVE r[1] \in DOMAIN z.reads /\ z.reads[r[1]] = r[2]
      <3>1. CASE r \in x.seen
        BY <1>2, <1>9, <3>1 DEF ReadsInv
      <3>2. CASE r = <<k, v>> /\ z.reads[k] = v
        BY <1>9, <3>2
      <3> QED
        BY <1>9, <1>10, <2>1, <3>1, <3>2 DEF GetVersion
    <2>2. x.muts = <<>> /\ (~x.failed => x.written = {})
      BY <1>2 DEF ReadsInv
    <2>3. \A j : NoneOf(x.muts, j)
      BY <2>2 DEF NoneOf
    <2> QED
      BY <1>13, <2>1, <2>2, <2>3 DEF ReadsInv
  <1>15. ~Succeeded(y)
    BY <1>13 DEF Succeeded
  <1> QED
    BY <1>2, <1>3, <1>12, <1>13, <1>14, <1>15, ClientStep

-----------------------------------------------------------------------------
(* The end of the update block                                             *)

\* SetToSeq() lists every element of a finite set once.
LEMMA SetToSeqFacts ==
    ASSUME NEW S, IsFiniteSet(S)
    PROVE  \E n \in Nat : /\ SetToSeq(S) \in [1..n -> S]
                          /\ \A k \in S : \E i \in 1..n : SetToSeq(S)[i] = k
                          /\ \A i, j \in 1..n : SetToSeq(S)[i] = SetToSeq(S)[j] => i = j
  <1>1. PICK n \in Nat : n = Cardinality(S)
    BY FS_CardinalityType
  <1>2. ExistsBijection(1..n, S)
    BY <1>1, FS_CardinalityType
  <1>3. \E f \in [1..n -> S] : IsInjective(f)
    BY <1>2 DEF ExistsBijection, Bijection, Injection
  <1>4. PICK f : f = SetToSeq(S)
    OBVIOUS
  <1>5. f \in [1..n -> S] /\ IsInjective(f)
    BY <1>1, <1>3, <1>4, Zenon DEF SetToSeq
  <1>6. f \in Injection(1..n, S)
    BY <1>5 DEF Injection
  <1>7. 0 \in Int /\ 1 \in Int /\ n \in Int /\ n = IF 1 > n THEN 0 ELSE n - 1 + 1
    OBVIOUS
  <1>8. Cardinality(1..n) = n
    BY <1>7, FS_Interval
  <1>9. f \in Surjection(1..n, S)
    BY <1>1, <1>6, <1>8, FS_Injection
  <1>10. \A k \in S : \E i \in 1..n : f[i] = k
    BY <1>9 DEF Surjection
  <1>11. \A i, j \in 1..n : f[i] = f[j] => i = j
    BY <1>5 DEF IsInjective
  <1> QED
    BY <1>4, <1>5, <1>10, <1>11

\* Mutations after the ones there are.
LEMMA ConcatFirst ==
    ASSUME NEW muts \in Seq(Mut), NEW more \in Seq(Mut), NEW k, NEW v
    PROVE  /\ muts \o more \in Seq(Mut)
           /\ First(muts, k, v) => First(muts \o more, k, v)
           /\ NoneOf(muts, k) /\ First(more, k, v) => First(muts \o more, k, v)
  <1>1. PICK n \in Nat : n = Len(muts)
    OBVIOUS
  <1>2. PICK p \in Nat : p = Len(more)
    OBVIOUS
  <1>3. PICK all : all = muts \o more
    OBVIOUS
  <1>4. /\ all \in Seq(Mut) /\ DOMAIN muts = 1..n /\ DOMAIN more = 1..p /\ DOMAIN all = 1..(n + p)
        /\ \A i \in 1..n : all[i] = muts[i]
        /\ \A i \in 1..p : all[n + i] = more[i]
    BY <1>1, <1>2, <1>3
  <1>5. /\ \A i \in 1..(n + p) : i \in 1..n \/ (i - n \in 1..p /\ n + (i - n) = i)
        /\ \A i \in 1..n : i \in 1..(n + p) /\ \A j \in 1..(n + p) : j < i => j \in 1..n
        /\ \A i \in 1..p : /\ n + i \in 1..(n + p)
                           /\ \A j \in 1..(n + p) : j < n + i => j \in 1..n \/ j - n < i
    OBVIOUS
  <1>6. First(muts, k, v) => First(all, k, v)
    <2> SUFFICES ASSUME NEW i \in 1..n, muts[i].key = k, muts[i].condition = UpdateTime(v),
                        \A j \in 1..n : j < i => muts[j].key # k
                 PROVE  First(all, k, v)
      BY <1>4 DEF First
    <2>1. \A j \in 1..(n + p) : j < i => all[j].key # k
      BY <1>4, <1>5
    <2> QED
      BY <1>4, <1>5, <2>1 DEF First
  <1>7. NoneOf(muts, k) /\ First(more, k, v) => First(all, k, v)
    <2> SUFFICES ASSUME NoneOf(muts, k), NEW i \in 1..p, more[i].key = k,
                        more[i].condition = UpdateTime(v),
                        \A j \in 1..p : j < i => more[j].key # k
                 PROVE  First(all, k, v)
      BY <1>4 DEF First
    <2>1. \A j \in 1..n : all[j].key # k
      BY <1>4 DEF NoneOf
    <2>2. ASSUME NEW j \in 1..(n + p), j < n + i PROVE all[j].key # k
      <3>1. CASE j \in 1..n
        BY <2>1, <3>1
      <3>2. CASE j \notin 1..n
        <4>1. j - n \in 1..p /\ n + (j - n) = j /\ j - n < i
          BY <1>5, <2>2, <3>2
        <4>2. all[n + (j - n)] = more[j - n] /\ more[j - n].key # k
          BY <1>4, <4>1
        <4> QED
          BY <4>1, <4>2
      <3> QED
        BY <3>1, <3>2
    <2>3. n + i \in 1..(n + p) /\ all[n + i] = more[i]
      BY <1>4, <1>5
    <2> QED
      BY <1>4, <2>2, <2>3 DEF First
  <1> QED
    BY <1>3, <1>4, <1>6, <1>7

\* Commit(): every document that was read is in a mutation, and the first one
\* requires the version that was read.
LEMMA CommittedFacts ==
    ASSUME NEW x, IsTx(x), ReadsInv(x), ~x.failed, x.state = "user", NEW y, y = Committed(x)
    PROVE  IsTx(y) /\ ReadsInv(y) /\ y.state = "commit"
  <1>1. x.muts \in Seq(Mut) /\ DOMAIN x.reads \subseteq Keys /\ IsFiniteSet(DOMAIN x.reads)
        /\ \A k \in DOMAIN x.reads : x.reads[k] \in Nat
    BY DEF IsTx
  <1>2. PICK S : S = Unwritten(x)
    OBVIOUS
  <1>3. S \subseteq DOMAIN x.reads
    BY <1>2 DEF Unwritten
  <1>4. IsFiniteSet(S)
    BY <1>1, <1>3, FS_Subset
  <1>5. PICK q : q = SetToSeq(S)
    OBVIOUS
  <1>6. PICK n \in Nat : /\ q \in [1..n -> S] /\ \A k \in S : \E i \in 1..n : q[i] = k
                         /\ \A i, j \in 1..n : q[i] = q[j] => i = j
    BY <1>4, <1>5, SetToSeqFacts
  <1>7. Len(q) = n
    <2>1. q \in Seq(S)
      BY <1>6
    <2> QED
      BY <1>6, <2>1
  <1>8. PICK verify : verify = [i \in 1..n |-> Mutation(q[i], "verify", CreatePrecondition(x, q[i]))]
    OBVIOUS
  <1>9. ASSUME NEW k \in S
        PROVE  /\ k \in DOMAIN x.reads /\ k \notin x.written
               /\ CreatePrecondition(x, k) = UpdateTime(x.reads[k])
               /\ Mutation(k, "verify", CreatePrecondition(x, k)) \in Mut
    <2>1. k \in DOMAIN x.reads /\ \A i \in DOMAIN x.muts : x.muts[i].key # k
      BY <1>2 DEF Unwritten
    <2>2. k \notin x.written
      BY <2>1 DEF ReadsInv, First
    <2>3. CreatePrecondition(x, k) = UpdateTime(x.reads[k])
      BY <2>1, <2>2 DEF CreatePrecondition, HasVersion, GetVersion
    <2>4. UpdateTime(x.reads[k]) \in Condition
      BY <1>1, <2>1 DEF UpdateTime, Condition
    <2>5. Mutation(k, "verify", CreatePrecondition(x, k)) \in Mut
      BY <1>1, <2>1, <2>3, <2>4 DEF Mutation, Mut
    <2> QED
      BY <2>1, <2>2, <2>3, <2>5
  <1>10. verify \in Seq(Mut) /\ DOMAIN verify = 1..n
    <2>1. verify \in [1..n -> Mut]
      BY <1>6, <1>8, <1>9
    <2> QED
      BY <2>1
  <1>11. ASSUME NEW k \in S PROVE First(verify, k, x.reads[k])
    <2>1. PICK i \in 1..n : q[i] = k
      BY <1>6
    <2>2. verify[i] = Mutation(k, "verify", UpdateTime(x.reads[k]))
      BY <1>8, <1>9, <2>1
    <2>3. verify[i].key = k /\ verify[i].condition = UpdateTime(x.reads[k])
      BY <2>2 DEF Mutation
    <2>4. ASSUME NEW j \in 1..n, j < i PROVE verify[j].key # k
      <3>1. q[j] # k /\ verify[j].key = q[j]
        BY <1>6, <1>8, <2>1, <2>4 DEF Mutation
      <3> QED
        BY <3>1
    <2> QED
      BY <1>10, <2>3, <2>4 DEF First
  <1>12. PICK all : all = x.muts \o verify
    OBVIOUS
  <1>13. all \in Seq(Mut)
    BY <1>1, <1>10, <1>12, ConcatFirst
  <1>14. ASSUME NEW k \in DOMAIN x.reads PROVE First(all, k, x.reads[k])
    <2>1. PICK v : v = x.reads[k]
      OBVIOUS
    <2>2. /\ First(x.muts, k, v) => First(all, k, v)
          /\ NoneOf(x.muts, k) /\ First(verify, k, v) => First(all, k, v)
      BY <1>1, <1>10, <1>12, ConcatFirst
    <2>3. CASE k \in x.written
      BY <2>1, <2>2, <2>3 DEF ReadsInv
    <2>4. CASE k \notin x.written
      <3>1. NoneOf(x.muts, k)
        BY <2>4 DEF ReadsInv
      <3>2. k \in S
        BY <1>2, <3>1 DEF Unwritten, NoneOf
      <3> QED
        BY <1>11, <2>1, <2>2, <3>1, <3>2
    <2> QED
      BY <2>3, <2>4
  <1>15. y = [x EXCEPT !.state = "commit", !.status = "ok", !.muts = all]
    <2>1. verify = [i \in 1..Len(SetToSeq(Unwritten(x))) |->
                      LET k == SetToSeq(Unwritten(x))[i]
                      IN  Mutation(k, "verify", CreatePrecondition(x, k))]
      BY <1>2, <1>5, <1>7, <1>8
    <2>2. y = [x EXCEPT !.state = "commit", !.status = "ok", !.muts = @ \o verify]
      BY <2>1, Zenon DEF Committed
    <2> QED
      BY <1>12, <2>2 DEF IsTx
  <1>16. PICK z : z = [x EXCEPT !.state = "commit", !.status = "ok"]
    OBVIOUS
  <1>17. IsTx(z) /\ z.state = "commit" /\ Same(z, x)
    BY <1>16 DEF IsTx, Same, States, Statuses
  <1>18. y = [z EXCEPT !.muts = all]
    BY <1>15, <1>16 DEF IsTx
  <1>19. IsTx(y) /\ y.state = "commit" /\ y.muts = all /\ y.reads = x.reads /\ y.seen = x.seen
         /\ y.failed = x.failed /\ y.written = x.written
    BY <1>13, <1>17, <1>18 DEF IsTx, Same
  <1>20. all = <<>> => x.muts = <<>>
    <2>1. Len(all) = Len(x.muts) + Len(verify) /\ Len(x.muts) \in Nat /\ Len(verify) \in Nat
      BY <1>1, <1>10, <1>12
    <2>2. all = <<>> => Len(x.muts) = 0
      BY <2>1
    <2>3. Len(x.muts) = 0 => x.muts = <<>>
      BY <1>1
    <2> QED
      BY <2>2, <2>3
  <1>21. ReadsInv(y)
    BY <1>14, <1>19, <1>20 DEF ReadsInv
  <1> QED
    BY <1>19, <1>21

\* ContinueCommit() after the block succeeded.
LEMMA BlockSucceedsInv ==
    ASSUME TransactionInv, NEW t \in Transactions, BlockSucceeds(t)
    PROVE  TransactionInv'
  <1>1. PICK x : x = tx[t]
    OBVIOUS
  <1>2. IsTx(x) /\ ReadsInv(x) /\ x.state = "user" /\ ~Succeeded(tx[t])
    BY <1>1 DEF TransactionInv, TxInv, BlockSucceeds, Succeeded
  <1>3. UNCHANGED <<docs, clock, terminated, applied, lost>>
    BY DEF BlockSucceeds
  <1>4. CASE x.failed
    <2>1. PICK status \in Statuses \ {"ok"} : status = "invalid_argument"
      BY DEF Statuses
    <2>2. HandleTransactionError(t, status)
      BY <1>1, <1>4, <2>1 DEF BlockSucceeds
    <2> QED
      BY <1>2, <1>3, <2>2, HandleTransactionErrorStep
  <1>5. CASE ~x.failed
    <2>1. PICK y : y = Committed(x)
      OBVIOUS
    <2>2. tx' = [tx EXCEPT ![t] = y]
      BY <1>1, <1>5, <2>1, Zenon DEF BlockSucceeds
    <2>3. IsTx(y) /\ ReadsInv(y) /\ y.state = "commit"
      BY <1>2, <1>5, <2>1, CommittedFacts
    <2>4. ~Succeeded(y)
      BY <2>3 DEF Succeeded
    <2> QED
      BY <1>2, <1>3, <2>2, <2>3, <2>4, ClientStep
  <1> QED
    BY <1>4, <1>5

\* ContinueCommit() after the block returned the error of a read.
LEMMA BlockFailsInv ==
    ASSUME TransactionInv, NEW t \in Transactions, BlockFails(t)
    PROVE  TransactionInv'
  <1>1. PICK status : status = tx[t].status
    OBVIOUS
  <1>2. status \in Statuses \ {"ok"} /\ ~Succeeded(tx[t])
    BY <1>1 DEF TransactionInv, TxInv, IsTx, BlockFails, Succeeded
  <1>3. HandleTransactionError(t, status) /\ UNCHANGED <<docs, clock, terminated, applied, lost>>
    BY <1>1 DEF BlockFails
  <1> QED
    BY <1>2, <1>3, HandleTransactionErrorStep

\* ContinueCommit() after the block returned an error of its own.
LEMMA BlockGivesUpInv ==
    ASSUME TransactionInv, NEW t \in Transactions, BlockGivesUp(t)
    PROVE  TransactionInv'
  <1>1. PICK x : x = tx[t]
    OBVIOUS
  <1>2. IsTx(x) /\ x.state = "user" /\ ~Succeeded(tx[t])
    BY <1>1 DEF TransactionInv, TxInv, BlockGivesUp, Succeeded
  <1>3. UNCHANGED <<docs, clock, terminated, applied, lost>>
    BY DEF BlockGivesUp
  <1>4. PICK z : z = [x EXCEPT !.state = "done", !.status = "user_error"]
    OBVIOUS
  <1>5. PICK y : y = [z EXCEPT !.permanent = TRUE]
    OBVIOUS
  <1>6. IsTx(z) /\ z.state = "done" /\ z.status = "user_error" /\ Same(z, x)
    BY <1>2, <1>4 DEF IsTx, Same, States, Statuses
  <1>7. IsTx(y) /\ y.state = "done" /\ y.status = "user_error" /\ Same(y, z)
    BY <1>5, <1>6 DEF IsTx, Same
  <1>8. Same(y, x) /\ ~Succeeded(y)
    BY <1>6, <1>7 DEF Same, Succeeded
  <1>9. tx' = [tx EXCEPT ![t] = y]
    BY <1>1, <1>4, <1>5 DEF BlockGivesUp, TransactionInv
  <1> QED
    BY <1>1, <1>2, <1>3, <1>7, <1>8, <1>9, SameStep

-----------------------------------------------------------------------------
(* The backend and the response                                            *)

\* A commit that fails.
LEMMA CommitFailsInv ==
    ASSUME TransactionInv, NEW t \in Transactions, CommitFails(t)
    PROVE  TransactionInv'
  <1>1. PICK x : x = tx[t]
    OBVIOUS
  <1>2. IsTx(x) /\ x.state = "commit" /\ ~Succeeded(tx[t])
    BY <1>1 DEF TransactionInv, TxInv, CommitFails, Succeeded
  <1>3. UNCHANGED <<docs, clock, terminated, applied, lost>>
    BY DEF CommitFails
  <1>4. PICK status \in {"aborted", "permission_denied", "unavailable"} :
           tx' = [tx EXCEPT ![t].state = "response", ![t].status = status]
    BY DEF CommitFails
  <1>5. PICK y : y = [x EXCEPT !.state = "response", !.status = status]
    OBVIOUS
  <1>6. IsTx(y) /\ y.state = "response" /\ y.status = status /\ Same(y, x)
    BY <1>2, <1>4, <1>5 DEF IsTx, Same, States, Statuses
  <1>7. tx' = [tx EXCEPT ![t] = y]
    BY <1>1, <1>4, <1>5 DEF TransactionInv
  <1>8. ~Succeeded(y)
    BY <1>4, <1>6 DEF Succeeded
  <1> QED
    BY <1>1, <1>2, <1>3, <1>6, <1>7, <1>8, SameStep

\* A response that is lost.
LEMMA ResponseLostInv ==
    ASSUME TransactionInv, NEW t \in Transactions, ResponseLost(t)
    PROVE  TransactionInv'
  <1>1. PICK x : x = tx[t]
    OBVIOUS
  <1>2. /\ IsTx(x) /\ ReadsInv(x) /\ x.state = "response" /\ x.status = "ok"
        /\ applied[t] = lost[t] + One(Succeeded(x)) /\ applied[t] \in Nat /\ lost[t] \in Nat
    BY <1>1 DEF TransactionInv, TxInv, ResponseLost
  <1>3. applied[t] = lost[t] + 1
    BY <1>2 DEF One, Succeeded
  <1>4. PICK y : y = [x EXCEPT !.status = "unavailable"]
    OBVIOUS
  <1>5. IsTx(y) /\ y.state = "response" /\ y.status = "unavailable" /\ Same(y, x)
    BY <1>2, <1>4 DEF IsTx, Same, States, Statuses
  <1>6. ReadsInv(y) /\ One(Succeeded(y)) = 0
    BY <1>2, <1>5, SameFacts DEF One, Succeeded
  <1>7. /\ lost' \in [Transactions -> Nat] /\ lost'[t] = lost[t] + 1
        /\ \A u \in Transactions : u # t => lost'[u] = lost[u]
    BY <1>2 DEF ResponseLost, TransactionInv
  <1>8. TxInv(y, applied[t], lost'[t])
    BY <1>2, <1>3, <1>5, <1>6, <1>7 DEF TxInv
  <1>9. tx' = [tx EXCEPT ![t] = y] /\ UNCHANGED <<docs, clock, terminated, applied>>
    BY <1>1, <1>4 DEF ResponseLost, TransactionInv
  <1>10. /\ docs' \in [Keys -> 0..clock'] /\ clock' \in Nat /\ terminated' \in BOOLEAN
         /\ applied' \in [Transactions -> Nat] /\ TxInv(y, applied'[t], lost'[t])
         /\ \A u \in Transactions : u # t => applied'[u] = applied[u] /\ lost'[u] = lost[u]
    BY <1>7, <1>8, <1>9 DEF TransactionInv
  <1>11. tx' = [tx EXCEPT ![t] = y]
    BY <1>9
  <1> QED
    BY <1>7, <1>10, <1>11, TxStep

\* DispatchResult().
LEMMA DispatchResultInv ==
    ASSUME TransactionInv, NEW t \in Transactions, DispatchResult(t)
    PROVE  TransactionInv'
  <1>1. PICK x : x = tx[t]
    OBVIOUS
  <1>2. IsTx(x) /\ x.state = "response" /\ x.status \in Statuses
    BY <1>1 DEF TransactionInv, TxInv, IsTx, DispatchResult
  <1>3. UNCHANGED <<docs, clock, terminated, applied, lost>>
    BY DEF DispatchResult
  <1>4. CASE x.status = "ok"
    <2>1. PICK y : y = [x EXCEPT !.state = "done"]
      OBVIOUS
    <2>2. IsTx(y) /\ y.state = "done" /\ y.status = "ok" /\ Same(y, x)
      BY <1>2, <1>4, <2>1 DEF IsTx, Same, States
    <2>3. Succeeded(y) /\ Succeeded(tx[t])
      BY <1>1, <1>2, <1>4, <2>2 DEF Succeeded
    <2>4. tx' = [tx EXCEPT ![t] = y]
      BY <1>1, <1>4, <2>1 DEF DispatchResult, TransactionInv
    <2> QED
      BY <1>1, <1>3, <2>2, <2>3, <2>4, SameStep
  <1>5. CASE x.status # "ok"
    <2>1. PICK status \in Statuses \ {"ok"} : status = x.status
      BY <1>2, <1>5
    <2>2. HandleTransactionError(t, status)
      BY <1>1, <1>5, <2>1 DEF DispatchResult
    <2>3. ~Succeeded(tx[t])
      BY <1>1, <1>5 DEF Succeeded
    <2> QED
      BY <1>3, <2>2, <2>3, HandleTransactionErrorStep
  <1> QED
    BY <1>4, <1>5

\* Another client writes.
LEMMA OtherClientWritesInv ==
    ASSUME TransactionInv, NEW k \in Keys, NEW exists \in BOOLEAN, OtherClientWrites(k, exists)
    PROVE  TransactionInv'
  <1>1. /\ clock \in Nat /\ docs \in [Keys -> 0..clock] /\ clock' = clock + 1
        /\ docs' = [docs EXCEPT ![k] = IF exists THEN clock + 1 ELSE 0]
        /\ tx' = tx /\ terminated' = terminated /\ applied' = applied /\ lost' = lost
    BY DEF TransactionInv, OtherClientWrites
  <1>2. PICK v : v = IF exists THEN clock + 1 ELSE 0
    OBVIOUS
  <1>3. v \in 0..clock' /\ clock' \in Nat /\ 0..clock \subseteq 0..clock'
    BY <1>1, <1>2
  <1>4. docs' \in [Keys -> 0..clock']
    BY <1>1, <1>2, <1>3
  <1> QED
    BY <1>1, <1>3, <1>4 DEF TransactionInv

\* TerminateInternal().
LEMMA TerminateInv ==
    ASSUME TransactionInv, Terminate
    PROVE  TransactionInv'
  BY DEF TransactionInv, Terminate

-----------------------------------------------------------------------------
(* A commit                                                                *)

\* What the backend has after some of the mutations of a commit.
Outcome == [docs : [Keys -> 0..(clock + 1)], bad : Statuses]

\* One mutation: it changes no other document, and not after an error.
LEMMA PerformFacts ==
    ASSUME clock \in Nat, NEW s \in Outcome, NEW m \in Mut
    PROVE  /\ Perform(s, m) \in Outcome
           /\ Perform(s, m).bad = "ok" => s.bad = "ok" /\ Holds(m.condition, s.docs[m.key])
           /\ \A k \in Keys : k # m.key => Perform(s, m).docs[k] = s.docs[k]
  <1>1. PICK y : y = Perform(s, m)
    OBVIOUS
  <1>2. s.docs \in [Keys -> 0..(clock + 1)] /\ s.bad \in Statuses /\ m.key \in Keys
        /\ m.op \in {"set", "delete", "verify"}
    BY DEF Outcome, Mut
  <1>3. CASE s.bad # "ok"
    <2>1. y = s
      BY <1>1, <1>3 DEF Perform
    <2> QED
      BY <1>1, <1>3, <2>1
  <1>4. CASE s.bad = "ok" /\ ~Holds(m.condition, s.docs[m.key])
    <2>1. PICK e \in {"not_found", "failed_precondition"} :
             e = IF m.condition.type = "exists" THEN "not_found" ELSE "failed_precondition"
      OBVIOUS
    <2>2. y = [s EXCEPT !.bad = e]
      BY <1>1, <1>4, <2>1, Zenon DEF Perform
    <2>3. y \in Outcome /\ y.bad # "ok" /\ y.docs = s.docs
      BY <2>1, <2>2 DEF Outcome, Statuses
    <2> QED
      BY <1>1, <2>3
  <1>5. CASE s.bad = "ok" /\ Holds(m.condition, s.docs[m.key])
    <2>1. PICK v : v = CASE m.op = "set" -> clock + 1
                         [] m.op = "delete" -> 0
                         [] m.op = "verify" -> s.docs[m.key]
      OBVIOUS
    <2>2. v \in 0..(clock + 1)
      BY <1>2, <2>1
    <2>3. y = [s EXCEPT !.docs[m.key] = v]
      BY <1>1, <1>5, <2>1, Zenon DEF Perform
    <2>4. PICK d : d = [s.docs EXCEPT ![m.key] = v]
      OBVIOUS
    <2>5. /\ d \in [Keys -> 0..(clock + 1)] /\ \A k \in Keys : k # m.key => d[k] = s.docs[k]
      BY <1>2, <2>2, <2>4
    <2>6. y = [s EXCEPT !.docs = d]
      BY <2>3, <2>4
    <2>7. y \in Outcome /\ y.docs = d /\ y.bad = "ok"
      BY <1>5, <2>5, <2>6 DEF Outcome
    <2> QED
      BY <1>1, <1>5, <2>5, <2>7
  <1> QED
    BY <1>3, <1>4, <1>5

\* The backend after each mutation of a commit: Performed() is well defined.
LEMMA PerformedFacts ==
    ASSUME clock \in Nat, docs \in [Keys -> 0..clock], NEW muts \in Seq(Mut)
    PROVE  \E f \in [0..Len(muts) -> Outcome] :
              /\ f[0] = [docs |-> docs, bad |-> "ok"] /\ Performed(muts) = f[Len(muts)]
              /\ \A i \in 1..Len(muts) : f[i] = Perform(f[i - 1], muts[i])
  <1>1. PICK n \in Nat : n = Len(muts)
    OBVIOUS
  <1>2. PICK s : s = [docs |-> docs, bad |-> "ok"]
    OBVIOUS
  <1>3. s \in Outcome
    <2>1. 0..clock \subseteq 0..(clock + 1)
      OBVIOUS
    <2>2. docs \in [Keys -> 0..(clock + 1)]
      BY <2>1
    <2> QED
      BY <1>2, <2>2 DEF Outcome, Statuses
  <1>4. \A i \in 1..n : muts[i] \in Mut
    BY <1>1
  <1>5. PICK F : F = [p \in (1..n) \X Outcome |-> Perform(p[2], muts[p[1]])]
    OBVIOUS
  <1>6. F \in [(1..n) \X Outcome -> Outcome]
    <2>1. ASSUME NEW p \in (1..n) \X Outcome PROVE Perform(p[2], muts[p[1]]) \in Outcome
      <3>1. p[1] \in 1..n /\ p[2] \in Outcome
        OBVIOUS
      <3> QED
        BY <1>4, <3>1, PerformFacts
    <2> QED
      BY <1>5, <2>1
  <1>7. PICK g : Iterates(g, n, Outcome, s, F)
    BY <1>3, <1>6, IterationExists
  <1>8. g \in [0..n -> Outcome] /\ g[0] = s
    BY <1>7 DEF Iterates
  <1>9. ASSUME NEW i \in 1..n PROVE g[i] = Perform(g[i - 1], muts[i])
    <2>1. g[i] = F[<<i, g[i - 1]>>] /\ i - 1 \in 0..n
      BY <1>7 DEF Iterates
    <2>2. <<i, g[i - 1]>> \in (1..n) \X Outcome
      BY <1>8, <2>1
    <2> QED
      BY <1>5, <2>1, <2>2
  <1>10. g = [i \in 0..n |-> IF i = 0 THEN s ELSE Perform(g[i - 1], muts[i])]
    <2>1. ASSUME NEW i \in 0..n PROVE g[i] = IF i = 0 THEN s ELSE Perform(g[i - 1], muts[i])
      <3>1. i = 0 \/ i \in 1..n
        OBVIOUS
      <3> QED
        BY <1>8, <1>9, <3>1
    <2> QED
      BY <1>8, <2>1
  <1>11. PICK f : f = CHOOSE h : h = [i \in 0..n |-> IF i = 0 THEN s ELSE Perform(h[i - 1], muts[i])]
    OBVIOUS
  <1>12. Performed(muts) = f[n]
    BY <1>1, <1>2, <1>11 DEF Performed
  <1>13. f = [i \in 0..n |-> IF i = 0 THEN s ELSE Perform(f[i - 1], muts[i])]
    BY <1>10, <1>11
  <1>14. f[0] = s /\ DOMAIN f = 0..n /\ \A i \in 1..n : f[i] = Perform(f[i - 1], muts[i])
    <2>1. 0 \in 0..n /\ \A i \in 1..n : i \in 0..n /\ i # 0
      OBVIOUS
    <2> QED
      BY <1>13, <2>1
  <1>15. PICK T : T = {i \in 0..n : f[i] \in Outcome}
    OBVIOUS
  <1>16. 0 \in T
    BY <1>3, <1>14, <1>15
  <1>17. ASSUME NEW i \in 1..n, i - 1 \in T PROVE i \in T
    <2>1. f[i - 1] \in Outcome /\ f[i] = Perform(f[i - 1], muts[i])
      BY <1>14, <1>15, <1>17
    <2>2. f[i] \in Outcome
      BY <1>4, <2>1, PerformFacts
    <2> QED
      BY <1>15, <2>2
  <1>18. 0..n \subseteq T
    BY <1>16, <1>17, SetInduction
  <1>19. f \in [0..n -> Outcome]
    BY <1>13, <1>15, <1>18
  <1> QED
    BY <1>1, <1>2, <1>12, <1>14, <1>19

\* A commit that is applied found the version its first mutation of k requires.
LEMMA CommitChecksVersions ==
    ASSUME clock \in Nat, docs \in [Keys -> 0..clock], NEW muts \in Seq(Mut), NEW k \in Keys, NEW v,
           First(muts, k, v), Performed(muts).bad = "ok"
    PROVE  docs[k] = v
  <1>1. PICK n \in Nat : n = Len(muts)
    OBVIOUS
  <1>2. PICK f \in [0..n -> Outcome] :
           /\ f[0] = [docs |-> docs, bad |-> "ok"] /\ Performed(muts) = f[n]
           /\ \A i \in 1..n : f[i] = Perform(f[i - 1], muts[i])
    BY <1>1, PerformedFacts
  <1>3. \A i \in 1..n : muts[i] \in Mut
    BY <1>1
  <1>4. PICK a \in 1..n : /\ muts[a].key = k /\ muts[a].condition = UpdateTime(v)
                          /\ \A j \in 1..n : j < a => muts[j].key # k
    BY <1>1 DEF First
  <1>5. ASSUME NEW i \in 1..n
        PROVE  /\ f[i].bad = "ok" => /\ f[i - 1].bad = "ok"
                                     /\ Holds(muts[i].condition, f[i - 1].docs[muts[i].key])
               /\ \A j \in Keys : j # muts[i].key => f[i].docs[j] = f[i - 1].docs[j]
    <2>1. i - 1 \in 0..n
      OBVIOUS
    <2>2. f[i - 1] \in Outcome /\ f[i] = Perform(f[i - 1], muts[i]) /\ muts[i] \in Mut
      BY <1>2, <1>3, <2>1
    <2>3. PICK s : s = f[i - 1]
      OBVIOUS
    <2>4. PICK m : m = muts[i]
      OBVIOUS
    <2>5. s \in Outcome /\ m \in Mut /\ f[i] = Perform(s, m)
      BY <2>2, <2>3, <2>4
    <2>6. /\ Perform(s, m).bad = "ok" => s.bad = "ok" /\ Holds(m.condition, s.docs[m.key])
          /\ \A j \in Keys : j # m.key => Perform(s, m).docs[j] = s.docs[j]
      BY <2>5, PerformFacts
    <2> QED
      BY <2>3, <2>4, <2>5, <2>6, Zenon
  <1>6. f[a].bad = "ok"
    <2>1. PICK T : T = {i \in 0..n : f[n - i].bad = "ok"}
      OBVIOUS
    <2>2. 0 \in T
      BY <1>2, <2>1
    <2>3. ASSUME NEW i \in 1..n, i - 1 \in T PROVE i \in T
      <3>1. f[n - (i - 1)].bad = "ok"
        BY <2>1, <2>3
      <3>2. PICK j \in 1..n : j = n - (i - 1)
        OBVIOUS
      <3>3. j - 1 = n - i
        BY <3>2
      <3> QED
        BY <1>5, <2>1, <3>1, <3>2, <3>3
    <2>4. 0..n \subseteq T
      BY <2>2, <2>3, SetInduction
    <2>5. n - a \in 0..n /\ n - (n - a) = a
      OBVIOUS
    <2> QED
      BY <2>1, <2>4, <2>5
  <1>7. PICK b \in Nat : b = a - 1 /\ b \in 0..n
    OBVIOUS
  <1>8. f[b].docs[k] = docs[k]
    <2>1. PICK T : T = {i \in 0..b : f[i].docs[k] = docs[k]}
      OBVIOUS
    <2>2. 0 \in T
      BY <1>2, <2>1
    <2>3. ASSUME NEW i \in 1..b, i - 1 \in T PROVE i \in T
      <3>1. i \in 1..n /\ i < a
        BY <1>7
      <3>2. muts[i].key # k
        BY <1>4, <3>1
      <3>3. f[i].docs[k] = f[i - 1].docs[k]
        BY <1>5, <3>1, <3>2
      <3> QED
        BY <2>1, <2>3, <3>3
    <2>4. 0..b \subseteq T
      BY <2>2, <2>3, SetInduction
    <2> QED
      BY <2>1, <2>4
  <1>9. Holds(UpdateTime(v), f[b].docs[k])
    BY <1>4, <1>5, <1>6, <1>7
  <1>10. f[b].docs[k] = v
    BY <1>9 DEF Holds, UpdateTime
  <1> QED
    BY <1>8, <1>10

\* The backend answers a commit.
LEMMA ServerCommitInv ==
    ASSUME TransactionInv, NEW t \in Transactions, ServerCommit(t)
    PROVE  TransactionInv'
  <1>1. PICK x : x = tx[t]
    OBVIOUS
  <1>2. /\ IsTx(x) /\ ReadsInv(x) /\ x.state = "commit" /\ x.muts \in Seq(Mut)
        /\ applied[t] = lost[t] + One(Succeeded(x)) /\ applied[t] \in Nat /\ lost[t] \in Nat
    BY <1>1 DEF TransactionInv, TxInv, IsTx, ServerCommit
  <1>3. One(Succeeded(x)) = 0
    BY <1>2 DEF One, Succeeded
  <1>4. PICK result : result = Performed(x.muts)
    OBVIOUS
  <1>5. result \in Outcome
    <2>1. PICK n \in Nat : n = Len(x.muts)
      BY <1>2
    <2>2. PICK f \in [0..n -> Outcome] : Performed(x.muts) = f[n]
      BY <1>2, <2>1, PerformedFacts DEF TransactionInv
    <2> QED
      BY <1>4, <2>2
  <1>6. result.bad \in Statuses /\ result.docs \in [Keys -> 0..(clock + 1)] /\ clock \in Nat
    BY <1>5 DEF Outcome, TransactionInv
  <1>7. PICK status \in Statuses : status = result.bad
    BY <1>6
  <1>8. PICK y : y = [x EXCEPT !.state = "response", !.status = status]
    OBVIOUS
  <1>9. IsTx(y) /\ y.state = "response" /\ y.status = status /\ Same(y, x)
    BY <1>2, <1>8 DEF IsTx, Same, States
  <1>10. ReadsInv(y)
    BY <1>2, <1>9, SameFacts
  <1>11. tx' = [tx EXCEPT ![t] = y]
    BY <1>1, <1>4, <1>7, <1>8 DEF ServerCommit, TransactionInv
  <1>12. terminated' \in BOOLEAN /\ lost' = lost /\ lost' \in [Transactions -> Nat]
    BY DEF ServerCommit, TransactionInv
  <1>13. CASE status = "ok"
    <2>1. docs' = result.docs /\ clock' = clock + 1 /\ applied' = [applied EXCEPT ![t] = @ + 1]
      BY <1>1, <1>4, <1>7, <1>13 DEF ServerCommit
    <2>2. docs' \in [Keys -> 0..clock'] /\ clock' \in Nat
      BY <1>6, <2>1
    <2>3. /\ applied' \in [Transactions -> Nat] /\ applied'[t] = applied[t] + 1
          /\ \A u \in Transactions : u # t => applied'[u] = applied[u] /\ lost'[u] = lost[u]
      BY <1>2, <1>12, <2>1 DEF TransactionInv
    <2>4. One(Succeeded(y)) = 1
      BY <1>9, <1>13 DEF One, Succeeded
    <2>5. TxInv(y, applied'[t], lost'[t])
      BY <1>2, <1>3, <1>9, <1>10, <1>12, <2>3, <2>4 DEF TxInv
    <2> QED
      BY <1>11, <1>12, <2>2, <2>3, <2>5, TxStep
  <1>14. CASE status # "ok"
    <2>1. docs' = docs /\ clock' = clock /\ applied' = applied
      BY <1>1, <1>4, <1>7, <1>14 DEF ServerCommit
    <2>2. docs' \in [Keys -> 0..clock'] /\ clock' \in Nat /\ applied' \in [Transactions -> Nat]
      BY <2>1 DEF TransactionInv
    <2>3. \A u \in Transactions : u # t => applied'[u] = applied[u] /\ lost'[u] = lost[u]
      BY <1>12, <2>1
    <2>4. One(Succeeded(y)) = 0
      BY <1>9, <1>14 DEF One, Succeeded
    <2>5. TxInv(y, applied'[t], lost'[t])
      BY <1>2, <1>3, <1>9, <1>10, <1>12, <2>1, <2>4 DEF TxInv
    <2> QED
      BY <1>11, <1>12, <2>2, <2>3, <2>5, TxStep
  <1> QED
    BY <1>13, <1>14

-----------------------------------------------------------------------------
(* The theorems                                                            *)

\* No transaction has begun.
LEMMA TransactionInit ==
    ASSUME Init
    PROVE  TransactionInv
  <1>1. kRetryCount \in Nat
    BY TransactionAssumption
  <1>2. PICK r \in 0..kRetryCount : r = 0
    BY <1>1
  <1>3. PICK a : a = Attempt(r)
    OBVIOUS
  <1>4. IsTx(a) /\ ReadsInv(a)
    BY <1>3, AttemptFacts
  <1>5. PICK y : y = [a EXCEPT !.state = "idle"]
    OBVIOUS
  <1>6. IsTx(y) /\ y.state = "idle" /\ Same(y, a)
    BY <1>4, <1>5 DEF IsTx, Same, States
  <1>7. ReadsInv(y) /\ One(Succeeded(y)) = 0
    BY <1>4, <1>6, SameFacts DEF One, Succeeded
  <1>8. TxInv(y, 0, 0)
    BY <1>6, <1>7 DEF TxInv
  <1>9. tx = [t \in Transactions |-> y]
    BY <1>2, <1>3, <1>5 DEF Init
  <1>10. /\ docs = [k \in Keys |-> 0] /\ clock = 0 /\ terminated = FALSE
         /\ applied = [t \in Transactions |-> 0] /\ lost = [t \in Transactions |-> 0]
    BY DEF Init
  <1>11. docs \in [Keys -> 0..clock]
    BY <1>10
  <1> QED
    BY <1>8, <1>9, <1>10, <1>11 DEF TransactionInv

\* Every step preserves the invariant.
LEMMA TransactionNext ==
    ASSUME TransactionInv, [Next]_vars
    PROVE  TransactionInv'
  <1>1. CASE UNCHANGED vars
    BY <1>1 DEF vars, TransactionInv
  <1>2. ASSUME NEW t \in Transactions, Progress(t) PROVE TransactionInv'
    BY <1>2, BackoffElapsedInv, LookupResponseInv, LookupFailsInv, BlockSucceedsInv, BlockFailsInv,
       BlockGivesUpInv, ServerCommitInv, CommitFailsInv, DispatchResultInv DEF Progress
  <1>3. CASE Next
    BY <1>2, <1>3, RunTransactionInv, WriteInv, UpdateInv, LookupInv, ResponseLostInv,
       OtherClientWritesInv, TerminateInv DEF Next
  <1> QED
    BY <1>1, <1>3

\* The invariant of transactions.
LEMMA TransactionInvariant == Spec => []TransactionInv
  <1>1. Init => TransactionInv
    BY TransactionInit
  <1>2. TransactionInv /\ [Next]_vars => TransactionInv'
    BY TransactionNext
  <1> QED
    BY <1>1, <1>2, PTL DEF Spec

\* The variables keep their types.
THEOREM TransactionTypes == Spec => []TransactionTypeOK
  <1>1. TransactionInv => TransactionTypeOK
    BY TransactionConsequences
  <1> QED
    BY <1>1, TransactionInvariant, PTL

\* The result that is reported tells what the backend did (DispatchResult()): a
\* success was applied, and a failure was applied only if a response was lost.
THEOREM ResultsAreTrue == Spec => []ResultMatchesBackend
  <1>1. TransactionInv => ResultMatchesBackend
    BY TransactionConsequences
  <1> QED
    BY <1>1, TransactionInvariant, PTL

\* A transaction is applied once only by ServerCommit, and then what its block
\* was given is current.
LEMMA AppliedReadsAreCurrent ==
    ASSUME TransactionInv, [Next]_vars, NEW t \in Transactions, applied'[t] > applied[t],
           NEW r \in tx[t].seen
    PROVE  docs[r[1]] = r[2]
  <1>1. applied[t] \in Nat
    BY DEF TransactionInv
  <1>2. applied' # applied
    BY <1>1
  <1>3. PICK u \in Transactions : ServerCommit(u)
    <2>1. Next
      BY <1>2 DEF vars
    <2> QED
      BY <1>2, <2>1 DEF Next, Progress, RunTransaction, Write, Update, Lookup, BackoffElapsed,
         LookupResponse, LookupFails, BlockSucceeds, BlockFails, BlockGivesUp, CommitFails,
         DispatchResult, ResponseLost, OtherClientWrites, Terminate
  <1>4. PICK x : x = tx[u]
    OBVIOUS
  <1>5. /\ x.state = "commit" /\ Performed(x.muts).bad = "ok"
        /\ applied' = [applied EXCEPT ![u] = @ + 1]
    BY <1>2, <1>3, <1>4 DEF ServerCommit
  <1>6. u = t
    BY <1>1, <1>5 DEF TransactionInv
  <1>7. IsTx(x) /\ ReadsInv(x) /\ r \in x.seen
    BY <1>4, <1>6 DEF TransactionInv, TxInv
  <1>8. PICK k \in Keys : k = r[1] /\ k \in DOMAIN x.reads /\ x.reads[k] = r[2]
    BY <1>7 DEF ReadsInv, IsTx
  <1>9. First(x.muts, k, r[2]) /\ x.muts \in Seq(Mut)
    BY <1>5, <1>7, <1>8 DEF ReadsInv, IsTx
  <1>10. clock \in Nat /\ docs \in [Keys -> 0..clock]
    BY DEF TransactionInv
  <1> QED
    BY <1>5, <1>8, <1>9, <1>10, CommitChecksVersions

\* Transactions are serializable, for any number of clients, documents, reads and
\* retries: when the backend applies a commit, every document that the update
\* block was given (RecordVersion()) is still at the version it was given.
THEOREM Serializability == Spec => CommittedReadsAreCurrent
  <1>1. ASSUME TransactionInv, [Next]_vars
        PROVE  \A t \in Transactions : applied'[t] > applied[t] =>
                  \A r \in tx[t].seen : docs[r[1]] = r[2]
    BY <1>1, AppliedReadsAreCurrent
  <1>2. TransactionInv /\ [Next]_vars =>
           [\A t \in Transactions : applied'[t] > applied[t] =>
              \A r \in tx[t].seen : docs[r[1]] = r[2]]_vars
    BY <1>1
  <1> QED
    BY <1>2, TransactionInvariant, PTL DEF Spec, CommittedReadsAreCurrent
=============================================================================
