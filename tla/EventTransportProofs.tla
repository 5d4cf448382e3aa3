------------------------ MODULE EventTransportProofs ------------------------
(***************************************************************************)
(* Proofs about EventTransport, for every set of events and targets and    *)
(* every bound: no event that was reported as written is lost, no file is  *)
(* in two places and no batch is stranded, however many uploads interleave.*)
(*                                                                         *)
(* The argument is about batch ids.  An id that nextBatchID: has given out *)
(* names at most one batch, and the jobs and requests that carry it know   *)
(* all the files of that batch; so a batch is deleted only after the       *)
(* backend has answered for each of its files.                             *)
(***************************************************************************)
EXTENDS EventTransport, SequenceFacts, FiniteSetTheorems

Target == {"cct", "fll", "csh", "none"}
Attempt == [target : Target, conditions : Conditions \cup {"none"}]
StorageJob == [op : StorageOps, attempt : Attempt, id : Nat, events : SUBSET Events,
               flag : BOOLEAN]
UploaderJob == [op : UploaderOps, attempt : Attempt, id : Nat, events : SUBSET Events,
                flag : BOOLEAN]
Batch == [id : Nat, target : Target, events : SUBSET Events]
Upload == [id : Nat, target : Target, events : SUBSET Events,
           state : {"sent", "ok", "refused", "retry"}]

\* The jobs x and y cannot both be in the storage queue: each would make a batch
\* with the same id, or store the same event.
Minted(x) == x.op \in {"paths", "move"}
Clash(x, y) ==
    \/ Minted(x) /\ Minted(y) /\ x.id = y.id
    \/ x.op = "store" /\ y.op = "store" /\ x.events \cap y.events # {}

Distinct(s) == \A i, j \in DOMAIN s : i # j => ~Clash(s[i], s[j])

\* There is a file of the event e.
Filed(e) == e \in main \/ \E b \in batches : e \in b.events

\* The batch id n is in use.
Used(n) ==
    \/ \E b \in batches : b.id = n
    \/ \E r \in requests : r.id = n
    \/ \E y \in UploaderJob : /\ InSeq(y, uploaderQueue) /\ y.id = n
                              /\ y.op \in {"send", "response"}
    \/ \E x \in StorageJob : InSeq(x, storageQueue) /\ x.id = n /\ x.op = "remove" /\ x.flag

\* Batches with the id n have no other files than fs.
HoldsOnly(n, fs) == \A b \in batches : b.id = n => b.events \subseteq fs

\* Something takes care of batches with the id n.
Owned(n) ==
    \/ n \in orphans
    \/ \E r \in requests : r.id = n
    \/ \E y \in UploaderJob : /\ InSeq(y, uploaderQueue) /\ y.id = n
                              /\ y.op \in {"send", "response"}
    \/ \E x \in StorageJob : InSeq(x, storageQueue) /\ x.id = n /\ x.op = "remove"

\* Every variable has the type its declaration says.
TransportTypes ==
    /\ main \in SUBSET Events /\ batches \in SUBSET Batch /\ counter \in Nat
    /\ storageQueue \in Seq(StorageJob) /\ uploaderQueue \in Seq(UploaderJob)
    /\ uploading \in BOOLEAN
    /\ requests \in SUBSET Upload
    /\ unsent \in SUBSET Events

\* A file is in one place, and an event is stored once.
Placed ==
    /\ \A b \in batches : b.events \cap main = {}
    /\ \A b, c \in batches : b # c => b.events \cap c.events = {}

FileInv ==
    /\ Placed
    /\ \A e \in unsent : ~Filed(e)
    /\ \A x \in StorageJob : InSeq(x, storageQueue) /\ x.op = "store" =>
           x.events # {} /\ \A e \in x.events : e \notin unsent /\ ~Filed(e)

\* A batch id that was given out is used once.
IdInv ==
    /\ Distinct(storageQueue)
    /\ \A x \in StorageJob : InSeq(x, storageQueue) /\ Minted(x) =>
           x.id < counter /\ ~Used(x.id)
    /\ \A n \in Nat : Used(n) => n < counter

\* What is to be deleted has been delivered, refused or has expired.
DeliveryInv ==
    /\ \A r \in requests : /\ HoldsOnly(r.id, r.events)
                           /\ r.state \in {"ok", "refused"} => r.events \subseteq gone
    /\ \A y \in UploaderJob : InSeq(y, uploaderQueue) =>
           /\ y.op = "send" => HoldsOnly(y.id, y.events)
           /\ y.op = "response" /\ y.flag => HoldsOnly(y.id, gone)
    /\ \A x \in StorageJob : InSeq(x, storageQueue) =>
           (x.op = "remove" /\ x.flag => HoldsOnly(x.id, gone))

OwnersInv == \A b \in batches : Owned(b.id)

KeptInv == \A e \in told \ gone : Filed(e)

TransportInv ==
    TransportTypes /\ FileInv /\ IdInv /\ DeliveryInv /\ OwnersInv /\ KeptInv

\* TransportInv has the properties of the component as consequences.
LEMMA TransportConsequences ==
    TransportInv => TransportTypeOK /\ NoEventLost /\ BatchesHaveOwners
  <1> SUFFICES ASSUME TransportInv PROVE TransportTypeOK /\ NoEventLost /\ BatchesHaveOwners
    OBVIOUS
  <1>0. TransportTypes
    BY DEF TransportInv
  <1>1. \A i \in DOMAIN storageQueue : storageQueue[i].op \in StorageOps
    <2>1. \A i \in DOMAIN storageQueue : storageQueue[i] \in StorageJob
      BY <1>0 DEF TransportTypes
    <2> QED
      BY <2>1 DEF StorageJob
  <1>2. \A i \in DOMAIN uploaderQueue : uploaderQueue[i].op \in UploaderOps
    <2>1. \A i \in DOMAIN uploaderQueue : uploaderQueue[i] \in UploaderJob
      BY <1>0 DEF TransportTypes
    <2> QED
      BY <2>1 DEF UploaderJob
  <1>3. ASSUME NEW b \in batches PROVE b.id \in 0..counter - 1 /\ b.events \subseteq Events \ main
    <2>1. b.id \in Nat /\ b.events \subseteq Events /\ counter \in Nat
      BY <1>0 DEF TransportTypes, Batch
    <2>2. Used(b.id)
      BY DEF Used
    <2>3. b.id < counter
      BY <2>1, <2>2 DEF TransportInv, IdInv
    <2> QED
      BY <2>1, <2>3 DEF TransportInv, FileInv, Placed
  <1>4. \A r \in requests : r.state \in {"sent", "ok", "refused", "retry"}
    BY <1>0 DEF TransportTypes, Upload
  <1>5. TransportTypeOK
    BY <1>0, <1>1, <1>2, <1>3, <1>4
       DEF TransportInv, FileInv, Placed, TransportTypes, TransportTypeOK
  <1>6. NoEventLost
    BY DEF TransportInv, KeptInv, Filed, NoEventLost
  <1>7. ASSUME NEW b \in batches
        PROVE  \/ b.id \in orphans
               \/ \E r \in requests : r.id = b.id
               \/ \E i \in DOMAIN uploaderQueue :
                     uploaderQueue[i].op \in {"send", "response"} /\ uploaderQueue[i].id = b.id
               \/ \E i \in DOMAIN storageQueue :
                     storageQueue[i].op = "remove" /\ storageQueue[i].id = b.id
    BY Zenon DEF TransportInv, OwnersInv, Owned, InSeq
  <1> QED
    BY <1>5, <1>6, <1>7, Zenon DEF BatchesHaveOwners

-----------------------------------------------------------------------------
(* The queues                                                              *)

\* The rest of a storage queue is distinct, and from its first job.
LEMMA DistinctTail ==
    ASSUME NEW S, NEW s \in Seq(S), s # <<>>, Distinct(s)
    PROVE  Distinct(Tail(s)) /\ \A x : InSeq(x, Tail(s)) => ~Clash(Head(s), x)
  <1>1. PICK n \in Nat : n = Len(s)
    OBVIOUS
  <1>2. PICK t : t = Tail(s)
    OBVIOUS
  <1>3. n > 0 /\ t \in Seq(S) /\ Head(s) = s[1]
    BY <1>1, <1>2, EmptySeq
  <1>4. DOMAIN s = 1..n /\ DOMAIN t = 1..(n - 1) /\ \A i \in 1..(n - 1) : t[i] = s[i + 1]
    BY <1>1, <1>2, <1>3, HeadTailProperties
  <1>5. \A i \in 1..(n - 1) : i + 1 \in 1..n /\ i + 1 # 1 /\ \A j \in 1..(n - 1) : i # j => i + 1 # j + 1
    BY <1>3
  <1>6. Distinct(t)
    BY <1>4, <1>5 DEF Distinct
  <1>7. 1 \in 1..n
    BY <1>3
  <1>8. \A x : InSeq(x, t) => ~Clash(Head(s), x)
    BY <1>3, <1>4, <1>5, <1>7 DEF Distinct, InSeq
  <1> QED
    BY <1>2, <1>6, <1>8

\* A queue stays distinct behind which come jobs that clash with nothing.
LEMMA DistinctConcat ==
    ASSUME NEW S, NEW s \in Seq(S), NEW t \in Seq(S), Distinct(s), Distinct(t),
           \A x, y : InSeq(x, s) /\ InSeq(y, t) => ~Clash(x, y)
    PROVE  Distinct(s \o t)
  <1>1. PICK m \in Nat, n \in Nat : m = Len(s) /\ n = Len(t)
    OBVIOUS
  <1>2. PICK u : u = s \o t
    OBVIOUS
  <1>3. u \in Seq(S) /\ Len(u) = m + n
    BY <1>1, <1>2
  <1>4. /\ DOMAIN s = 1..m /\ DOMAIN t = 1..n /\ DOMAIN u = 1..(m + n)
        /\ \A i \in 1..m : u[i] = s[i]
        /\ \A i \in 1..n : u[m + i] = t[i]
    BY <1>1, <1>2, <1>3
  <1>5. ASSUME NEW i \in 1..(m + n), NEW j \in 1..(m + n), i # j PROVE ~Clash(u[i], u[j])
    <2>1. \A k \in 1..(m + n) : \/ k \in 1..m /\ u[k] = s[k]
                                \/ k - m \in 1..n /\ u[k] = t[k - m]
      <3> TAKE k \in 1..(m + n)
      <3>1. k \in 1..m \/ (k - m \in 1..n /\ m + (k - m) = k)
        OBVIOUS
      <3> QED
        BY <1>4, <3>1
    <2>2. \A x, y : Clash(x, y) => Clash(y, x)
      BY DEF Clash
    <2>3. CASE i \in 1..m /\ u[i] = s[i] /\ j \in 1..m /\ u[j] = s[j]
      BY <1>4, <1>5, <2>3 DEF Distinct
    <2>4. CASE i \in 1..m /\ u[i] = s[i] /\ j - m \in 1..n /\ u[j] = t[j - m]
      BY <1>4, <2>4 DEF InSeq
    <2>5. CASE i - m \in 1..n /\ u[i] = t[i - m] /\ j \in 1..m /\ u[j] = s[j]
      BY <1>4, <2>2, <2>5 DEF InSeq
    <2>6. CASE i - m \in 1..n /\ u[i] = t[i - m] /\ j - m \in 1..n /\ u[j] = t[j - m]
      <3>1. i - m # j - m
        BY <1>5
      <3> QED
        BY <1>4, <2>6, <3>1 DEF Distinct
    <2> QED
      BY <2>1, <2>3, <2>4, <2>5, <2>6
  <1> QED
    BY <1>2, <1>4, <1>5 DEF Distinct

\* Nothing that clashes is in a queue of one job or none, or of other jobs.
LEMMA DistinctFew ==
    /\ Distinct(<<>>)
    /\ \A e : Distinct(<<e>>)
    /\ \A s : (\A x : InSeq(x, s) => ~Minted(x) /\ x.op # "store") => Distinct(s)
  <1>1. Distinct(<<>>)
    BY DEF Distinct
  <1>2. \A e : Distinct(<<e>>)
    BY DEF Distinct
  <1>3. \A s : (\A x : InSeq(x, s) => ~Minted(x) /\ x.op # "store") => Distinct(s)
    BY DEF Distinct, Clash, InSeq
  <1> QED
    BY <1>1, <1>2, <1>3

\* The jobs of the storage queue after its first one has made the jobs f and g.
LEMMA StorageDoneFacts ==
    ASSUME TransportTypes, Distinct(storageQueue), storageQueue # <<>>,
           NEW f \in Seq(StorageJob), NEW g \in Seq(UploaderJob), Distinct(f),
           \A x, y : InSeq(x, Tail(storageQueue)) /\ InSeq(y, f) => ~Clash(x, y),
           StorageDone(f, g)
    PROVE  /\ Head(storageQueue) \in StorageJob /\ InSeq(Head(storageQueue), storageQueue)
           /\ storageQueue' \in Seq(StorageJob) /\ uploaderQueue' \in Seq(UploaderJob)
           /\ Distinct(storageQueue')
           /\ \A x : InSeq(x, storageQueue') => InSeq(x, storageQueue) \/ InSeq(x, f)
           /\ \A x : InSeq(x, f) => InSeq(x, storageQueue')
           /\ \A x : InSeq(x, storageQueue) => x = Head(storageQueue) \/ InSeq(x, storageQueue')
           /\ \A x : InSeq(x, uploaderQueue') <=> (InSeq(x, uploaderQueue) \/ InSeq(x, g))
  <1>1. storageQueue \in Seq(StorageJob) /\ uploaderQueue \in Seq(UploaderJob)
    BY DEF TransportTypes
  <1>2. PICK t : t = Tail(storageQueue)
    OBVIOUS
  <1>3. /\ Head(storageQueue) \in StorageJob /\ t \in Seq(StorageJob)
        /\ \A x : InSeq(x, storageQueue) <=> (x = Head(storageQueue) \/ InSeq(x, t))
    BY <1>1, <1>2, TailFacts
  <1>4. Distinct(t)
    BY <1>1, <1>2, DistinctTail
  <1>5. storageQueue' = t \o f /\ uploaderQueue' = uploaderQueue \o g
    BY <1>2 DEF StorageDone
  <1>6. /\ storageQueue' \in Seq(StorageJob)
        /\ \A x : InSeq(x, storageQueue') <=> (InSeq(x, t) \/ InSeq(x, f))
    BY <1>3, <1>5, ConcatFacts
  <1>7. /\ uploaderQueue' \in Seq(UploaderJob)
        /\ \A x : InSeq(x, uploaderQueue') <=> (InSeq(x, uploaderQueue) \/ InSeq(x, g))
    BY <1>1, <1>5, ConcatFacts
  <1>8. Distinct(storageQueue')
    BY <1>2, <1>3, <1>4, <1>5, DistinctConcat
  <1> QED
    BY <1>3, <1>6, <1>7, <1>8

\* The jobs of the uploader queue after its first one has made the jobs f and g.
LEMMA UploaderDoneFacts ==
    ASSUME TransportTypes, Distinct(storageQueue), uploaderQueue # <<>>,
           NEW f \in Seq(StorageJob), NEW g \in Seq(UploaderJob),
           \A x : InSeq(x, f) => ~Minted(x) /\ x.op # "store",
           UploaderDone(f, g)
    PROVE  /\ Head(uploaderQueue) \in UploaderJob /\ InSeq(Head(uploaderQueue), uploaderQueue)
           /\ storageQueue' \in Seq(StorageJob) /\ uploaderQueue' \in Seq(UploaderJob)
           /\ Distinct(storageQueue')
           /\ \A x : InSeq(x, uploaderQueue') => InSeq(x, uploaderQueue) \/ InSeq(x, g)
           /\ \A x : InSeq(x, g) => InSeq(x, uploaderQueue')
           /\ \A x : InSeq(x, uploaderQueue) => x = Head(uploaderQueue) \/ InSeq(x, uploaderQueue')
           /\ \A x : InSeq(x, storageQueue') <=> (InSeq(x, storageQueue) \/ InSeq(x, f))
  <1>1. storageQueue \in Seq(StorageJob) /\ uploaderQueue \in Seq(UploaderJob)
    BY DEF TransportTypes
  <1>2. PICK t : t = Tail(uploaderQueue)
    OBVIOUS
  <1>3. /\ Head(uploaderQueue) \in UploaderJob /\ t \in Seq(UploaderJob)
        /\ \A x : InSeq(x, uploaderQueue) <=> (x = Head(uploaderQueue) \/ InSeq(x, t))
    BY <1>1, <1>2, TailFacts
  <1>4. uploaderQueue' = t \o g /\ storageQueue' = storageQueue \o f
    BY <1>2 DEF UploaderDone
  <1>5. /\ uploaderQueue' \in Seq(UploaderJob)
        /\ \A x : InSeq(x, uploaderQueue') <=> (InSeq(x, t) \/ InSeq(x, g))
    BY <1>3, <1>4, ConcatFacts
  <1>6. /\ storageQueue' \in Seq(StorageJob)
        /\ \A x : InSeq(x, storageQueue') <=> (InSeq(x, storageQueue) \/ InSeq(x, f))
    BY <1>1, <1>4, ConcatFacts
  <1>7. Distinct(f) /\ \A x, y : InSeq(x, storageQueue) /\ InSeq(y, f) => ~Clash(x, y)
    BY DistinctFew DEF Clash
  <1>8. Distinct(storageQueue')
    BY <1>1, <1>4, <1>7, DistinctConcat
  <1> QED
    BY <1>3, <1>5, <1>6, <1>8

-----------------------------------------------------------------------------
(* Steps that touch no file                                                *)

\* New jobs that neither use nor give out a batch id, and store nothing.
Harmless == {"batchIDs", "hasEvents", "nextBatchID", "expire", "upload", "cleared", "final",
             "nothing"}

\* Steps that leave the files and what is under way alone.
LEMMA QuietStep ==
    ASSUME TransportInv, TransportTypes', Distinct(storageQueue'),
           \A x : InSeq(x, storageQueue') =>
               InSeq(x, storageQueue) \/ x.op \in Harmless \/ (x.op = "remove" /\ ~x.flag),
           \A x : InSeq(x, storageQueue) /\ x.op = "remove" => InSeq(x, storageQueue'),
           \A y : InSeq(y, uploaderQueue') => InSeq(y, uploaderQueue) \/ y.op \in Harmless,
           \A y : InSeq(y, uploaderQueue) /\ y.op \in {"send", "response"} =>
               InSeq(y, uploaderQueue'),
           UNCHANGED <<files, requests, unsent, history>>
    PROVE  TransportInv'
  <1>0. \A op \in Harmless : op \notin {"paths", "move", "store", "remove", "send", "response"}
    BY DEF Harmless
  <1>1. UNCHANGED <<main, batches, counter, requests, unsent, told, gone, orphans>>
    BY DEF files, history
  <1>2. \A e : Filed(e)' <=> Filed(e)
    BY <1>1, Zenon DEF Filed
  <1>3. \A n : Used(n)' => Used(n)
    BY <1>0, <1>1, Zenon DEF Used
  <1>4. \A n : Owned(n) => Owned(n)'
    BY <1>1, Zenon DEF Owned
  <1>5. FileInv'
    BY <1>0, <1>1, <1>2 DEF TransportInv, FileInv, Placed
  <1>6. IdInv'
    BY <1>0, <1>1, <1>3 DEF TransportInv, IdInv, Minted
  <1>7. \A n, fs : HoldsOnly(n, fs)' <=> HoldsOnly(n, fs)
    BY <1>1, Zenon DEF HoldsOnly
  <1>8. DeliveryInv'
    BY <1>0, <1>1, <1>7 DEF TransportInv, DeliveryInv
  <1>9. OwnersInv' /\ KeptInv'
    BY <1>1, <1>2, <1>4 DEF TransportInv, OwnersInv, KeptInv
  <1> QED
    BY <1>5, <1>6, <1>8, <1>9 DEF TransportInv

\* A job for either queue.
LEMMA JobFacts ==
    ASSUME NEW attempt \in Attempt
    PROVE  /\ \A op \in StorageOps : Job(op, attempt) \in StorageJob
           /\ \A op \in UploaderOps : Job(op, attempt) \in UploaderJob
           /\ \A op : /\ Job(op, attempt).op = op /\ Job(op, attempt).id = 0
                      /\ Job(op, attempt).attempt = attempt
                      /\ Job(op, attempt).events = {} /\ Job(op, attempt).flag = FALSE
  BY DEF Job, StorageJob, UploaderJob

\* A job that belongs to no attempt.
LEMMA NoAttemptType == NoAttempt \in Attempt
  BY DEF NoAttempt, Attempt, Target

\* A job that removes a batch.
LEMMA RemoveJobFacts ==
    ASSUME NEW id \in Nat, NEW flag \in BOOLEAN
    PROVE  /\ RemoveJob(id, flag) \in StorageJob /\ RemoveJob(id, flag).op = "remove"
           /\ RemoveJob(id, flag).id = id /\ RemoveJob(id, flag).flag = flag
  <1>1. PICK a : a = Job("remove", NoAttempt)
    OBVIOUS
  <1>2. a \in StorageJob /\ a.op = "remove"
    BY <1>1, NoAttemptType, JobFacts DEF StorageOps
  <1>3. PICK b : b = [a EXCEPT !.id = id]
    OBVIOUS
  <1>4. b \in StorageJob /\ b.op = "remove" /\ b.id = id
    BY <1>2, <1>3 DEF StorageJob
  <1>5. PICK c : c = [b EXCEPT !.flag = flag]
    OBVIOUS
  <1>6. c \in StorageJob /\ c.op = "remove" /\ c.id = id /\ c.flag = flag
    BY <1>4, <1>5 DEF StorageJob
  <1>7. RemoveJob(id, flag) = c
    BY <1>1, <1>3, <1>5, Zenon DEF RemoveJob
  <1> QED
    BY <1>6, <1>7

\* A finite set in some order.
LEMMA SetToSeqType ==
    ASSUME NEW S, IsFiniteSet(S)
    PROVE  SetToSeq(S) \in Seq(S)
  <1>1. PICK n \in Nat : n = Cardinality(S) /\ ExistsBijection(1..n, S)
    BY FS_CardinalityType
  <1>2. \E f \in [1..n -> S] : IsInjective(f)
    BY <1>1 DEF ExistsBijection, Bijection, Injection
  <1>3. SetToSeq(S) \in [1..n -> S]
    BY <1>1, <1>2 DEF SetToSeq
  <1> QED
    BY <1>3

\* An order of the targets is a sequence.
LEMMA OrderType ==
    ASSUME NEW order \in SetToSeqs(Targets)
    PROVE  Len(order) \in Nat /\ order \in Seq(Target)
  <1>1. {"cct"} \cup {"fll"} \cup {"csh"} = {"cct", "fll", "csh"} /\ IsFiniteSet({"cct"})
        /\ IsFiniteSet({"cct"} \cup {"fll"} \cup {"csh"})
    BY FS_EmptySet, FS_Singleton, FS_AddElement
  <1>2. Targets \in SUBSET {"cct", "fll", "csh"}
    BY TransportAssumption
  <1>3. IsFiniteSet(Targets)
    BY <1>1, <1>2, FS_Subset
  <1>4. PICK n \in Nat : n = Cardinality(Targets)
    BY <1>3, FS_CardinalityType
  <1>5. order \in [1..n -> Targets]
    BY <1>4 DEF SetToSeqs
  <1>6. order \in Seq(Targets) /\ Len(order) = n
    BY <1>5
  <1>7. Targets \subseteq Target
    BY <1>2 DEF Target
  <1> QED
    BY <1>5, <1>6, <1>7

\* The timer adds uploads.
LEMMA TimerFiresInv ==
    ASSUME TransportInv, NEW conditions \in {"wifi", "mobile"},
           NEW order \in SetToSeqs(Targets), TimerFires(conditions, order)
    PROVE  TransportInv'
  <1>1. PICK n \in Nat : n = Len(order)
    BY OrderType
  <1>2. PICK g : g = [i \in 1..Len(order) |->
                        Job("upload", [target |-> order[i], conditions |-> conditions])]
    OBVIOUS
  <1>3. ASSUME NEW i \in 1..n
        PROVE  g[i] \in UploaderJob /\ g[i].op = "upload"
    <2>1. order[i] \in Target
      BY <1>1, OrderType
    <2>2. [target |-> order[i], conditions |-> conditions] \in Attempt
      BY <2>1 DEF Attempt, Conditions
    <2> QED
      BY <1>1, <1>2, <2>2, JobFacts DEF UploaderOps
  <1>4. g \in Seq(UploaderJob) /\ DOMAIN g = 1..n
    BY <1>1, <1>2, <1>3
  <1>5. \A x : InSeq(x, g) => x.op \in Harmless
    BY <1>3, <1>4 DEF InSeq, Harmless
  <1>6. /\ uploaderQueue' = uploaderQueue \o g /\ uploaderQueue \in Seq(UploaderJob)
        /\ UNCHANGED <<files, storageQueue, uploading, requests, unsent, history>>
    BY <1>2 DEF TimerFires, TransportInv, TransportTypes
  <1>7. /\ uploaderQueue' \in Seq(UploaderJob)
        /\ \A x : InSeq(x, uploaderQueue') <=> (InSeq(x, uploaderQueue) \/ InSeq(x, g))
    BY <1>4, <1>6, ConcatFacts
  <1>8. TransportTypes' /\ Distinct(storageQueue')
    BY <1>6, <1>7 DEF TransportInv, TransportTypes, IdInv, files
  <1> QED
    BY <1>5, <1>6, <1>7, <1>8, QuietStep

\* appWillForeground: adds a job.
LEMMA ForegroundInv ==
    ASSUME TransportInv, Foreground
    PROVE  TransportInv'
  <1>1. PICK j : j = Job("expire", NoAttempt)
    OBVIOUS
  <1>2. j \in StorageJob /\ j.op = "expire"
    BY <1>1, NoAttemptType, JobFacts DEF StorageOps
  <1>3. /\ storageQueue \in Seq(StorageJob) /\ storageQueue' = storageQueue \o <<j>>
        /\ UNCHANGED <<files, uploaderQueue, uploading, requests, unsent, history>>
    BY <1>1, <1>2, AppendFacts DEF Foreground, TransportInv, TransportTypes, inputs
  <1>4. <<j>> \in Seq(StorageJob) /\ \A x : InSeq(x, <<j>>) <=> x = j
    BY <1>2, OneFacts
  <1>5. /\ storageQueue' \in Seq(StorageJob)
        /\ \A x : InSeq(x, storageQueue') <=> (InSeq(x, storageQueue) \/ x = j)
    BY <1>3, <1>4, ConcatFacts
  <1>6. Distinct(storageQueue')
    <2>1. Distinct(<<j>>) /\ Distinct(storageQueue)
      BY DistinctFew DEF TransportInv, IdInv
    <2>2. \A x : ~Clash(x, j)
      BY <1>2 DEF Clash, Minted
    <2> QED
      BY <1>3, <1>4, <2>1, <2>2, DistinctConcat
  <1>7. TransportTypes'
    BY <1>3, <1>5 DEF TransportInv, TransportTypes, files
  <1> QED
    BY <1>2, <1>3, <1>5, <1>6, <1>7, QuietStep DEF Harmless

\* A storage job that touches no file and removes nothing.
LEMMA QuietStorage ==
    ASSUME TransportInv, storageQueue # <<>>, Head(storageQueue).op # "remove",
           NEW f \in Seq(StorageJob), NEW g \in Seq(UploaderJob),
           \A x : InSeq(x, f) => x.op \in Harmless \/ (x.op = "remove" /\ ~x.flag),
           \A y : InSeq(y, g) => y.op \in Harmless,
           StorageDone(f, g), UNCHANGED <<files, uploading, requests, unsent, history>>
    PROVE  TransportInv'
  <1>1. TransportTypes /\ Distinct(storageQueue)
    BY DEF TransportInv, IdInv
  <1>2. \A x : InSeq(x, f) => ~Minted(x) /\ x.op # "store"
    BY DEF Minted, Harmless
  <1>3. Distinct(f) /\ \A x, y : InSeq(x, Tail(storageQueue)) /\ InSeq(y, f) => ~Clash(x, y)
    BY <1>2, DistinctFew DEF Clash
  <1>4. /\ storageQueue' \in Seq(StorageJob) /\ uploaderQueue' \in Seq(UploaderJob)
        /\ Distinct(storageQueue')
        /\ \A x : InSeq(x, storageQueue') => InSeq(x, storageQueue) \/ InSeq(x, f)
        /\ \A x : InSeq(x, storageQueue) => x = Head(storageQueue) \/ InSeq(x, storageQueue')
        /\ \A x : InSeq(x, uploaderQueue') <=> (InSeq(x, uploaderQueue) \/ InSeq(x, g))
    BY <1>1, <1>3, StorageDoneFacts
  <1>5. TransportTypes'
    BY <1>1, <1>4 DEF TransportTypes, files
  <1>6. /\ \A x : InSeq(x, storageQueue') =>
               InSeq(x, storageQueue) \/ x.op \in Harmless \/ (x.op = "remove" /\ ~x.flag)
        /\ \A x : InSeq(x, storageQueue) /\ x.op = "remove" => InSeq(x, storageQueue')
        /\ \A y : InSeq(y, uploaderQueue') => InSeq(y, uploaderQueue) \/ y.op \in Harmless
        /\ \A y : InSeq(y, uploaderQueue) /\ y.op \in {"send", "response"} =>
               InSeq(y, uploaderQueue')
    BY <1>4, Zenon
  <1> QED
    BY <1>4, <1>5, <1>6, QuietStep

\* An uploader job that is not about a batch.
LEMMA QuietUploader ==
    ASSUME TransportInv, uploaderQueue # <<>>,
           Head(uploaderQueue).op \notin {"send", "response"},
           NEW f \in Seq(StorageJob), NEW g \in Seq(UploaderJob),
           \A x : InSeq(x, f) => x.op \in Harmless,
           \A y : InSeq(y, g) => y.op \in Harmless,
           UploaderDone(f, g), uploading' \in BOOLEAN,
           UNCHANGED <<files, requests, unsent, history>>
    PROVE  TransportInv'
  <1>1. TransportTypes /\ Distinct(storageQueue)
    BY DEF TransportInv, IdInv
  <1>2. \A x : InSeq(x, f) => ~Minted(x) /\ x.op # "store"
    BY DEF Minted, Harmless
  <1>3. /\ storageQueue' \in Seq(StorageJob) /\ uploaderQueue' \in Seq(UploaderJob)
        /\ Distinct(storageQueue')
        /\ \A x : InSeq(x, uploaderQueue') => InSeq(x, uploaderQueue) \/ InSeq(x, g)
        /\ \A x : InSeq(x, uploaderQueue) => x = Head(uploaderQueue) \/ InSeq(x, uploaderQueue')
        /\ \A x : InSeq(x, storageQueue') <=> (InSeq(x, storageQueue) \/ InSeq(x, f))
    BY <1>1, <1>2, UploaderDoneFacts
  <1>4. TransportTypes'
    BY <1>1, <1>3 DEF TransportTypes, files
  <1>5. /\ \A x : InSeq(x, storageQueue') =>
               InSeq(x, storageQueue) \/ x.op \in Harmless \/ (x.op = "remove" /\ ~x.flag)
        /\ \A x : InSeq(x, storageQueue) /\ x.op = "remove" => InSeq(x, storageQueue')
        /\ \A y : InSeq(y, uploaderQueue') => InSeq(y, uploaderQueue) \/ y.op \in Harmless
        /\ \A y : InSeq(y, uploaderQueue) /\ y.op \in {"send", "response"} =>
               InSeq(y, uploaderQueue')
    BY <1>3, Zenon
  <1> QED
    BY <1>3, <1>4, <1>5, QuietStep

\* The first jobs of the queues have attempts.
LEMMA HeadJobs ==
    ASSUME TransportTypes
    PROVE  /\ storageQueue # <<>> => Head(storageQueue) \in StorageJob
                                     /\ Head(storageQueue).attempt \in Attempt
                                     /\ InSeq(Head(storageQueue), storageQueue)
           /\ uploaderQueue # <<>> => Head(uploaderQueue) \in UploaderJob
                                      /\ Head(uploaderQueue).attempt \in Attempt
                                      /\ InSeq(Head(uploaderQueue), uploaderQueue)
  <1>1. storageQueue \in Seq(StorageJob) /\ uploaderQueue \in Seq(UploaderJob)
    BY DEF TransportTypes
  <1>2. storageQueue # <<>> => Head(storageQueue) \in StorageJob
                               /\ InSeq(Head(storageQueue), storageQueue)
    BY <1>1, TailFacts
  <1>3. uploaderQueue # <<>> => Head(uploaderQueue) \in UploaderJob
                                /\ InSeq(Head(uploaderQueue), uploaderQueue)
    BY <1>1, TailFacts
  <1> QED
    BY <1>2, <1>3 DEF StorageJob, UploaderJob

\* removeBatchesForTarget: is to give the files back, not to delete them.
LEMMA BatchIDsInv ==
    ASSUME TransportInv, BatchIDs
    PROVE  TransportInv'
  <1>1. /\ TransportTypes /\ storageQueue # <<>> /\ Head(storageQueue).op = "batchIDs"
        /\ UNCHANGED <<files, uploading, requests, unsent, history>>
    BY DEF BatchIDs, Storage, TransportInv, inputs
  <1>2. PICK attempt \in Attempt : attempt = Head(storageQueue).attempt
    BY <1>1, HeadJobs
  <1>3. PICK S : S = {b.id : b \in {c \in batches : c.target = attempt.target}}
    OBVIOUS
  <1>4. S \subseteq Nat /\ IsFiniteSet(S)
    <2>1. \A n \in S : n \in Nat /\ n < counter
      <3>1. SUFFICES ASSUME NEW b \in batches PROVE b.id \in Nat /\ b.id < counter
        BY <1>3
      <3>2. b.id \in Nat /\ Used(b.id)
        BY <1>1 DEF TransportTypes, Batch, Used
      <3> QED
        BY <3>2 DEF TransportInv, IdInv
    <2>2. counter \in Nat /\ IsFiniteSet(0..counter)
      BY <1>1, FS_Interval DEF TransportTypes
    <2>3. S \in SUBSET (0..counter)
      BY <2>1, <2>2
    <2> QED
      BY <2>1, <2>2, <2>3, FS_Subset
  <1>5. PICK ids \in Seq(Nat) : ids = SetToSeq(S)
    <2>1. PICK q : q = SetToSeq(S)
      OBVIOUS
    <2>2. q \in Seq(S)
      BY <1>4, <2>1, SetToSeqType
    <2>3. PICK n \in Nat : n = Len(q)
      BY <2>2
    <2>4. q \in [1..n -> S]
      BY <2>2, <2>3
    <2>5. q \in [1..n -> Nat]
      BY <1>4, <2>4
    <2>6. q \in Seq(Nat)
      BY <2>5
    <2> QED
      BY <2>1, <2>6
  <1>6. PICK last \in Nat : last = Len(ids)
    OBVIOUS
  <1>7. PICK f : f = IF ids = <<>> THEN <<Job("hasEvents", attempt)>>
                     ELSE [i \in 1..last |->
                             IF i = last
                             THEN [RemoveJob(ids[i], FALSE) EXCEPT !.attempt = attempt]
                             ELSE RemoveJob(ids[i], FALSE)]
    OBVIOUS
  <1>8. StorageDone(f, <<>>)
    BY <1>2, <1>3, <1>5, <1>6, <1>7, Zenon DEF BatchIDs
  <1>9. f \in Seq(StorageJob) /\ \A x : InSeq(x, f) => x.op \in Harmless \/ (x.op = "remove" /\ ~x.flag)
    <2>1. CASE ids = <<>>
      <3>1. PICK j : j = Job("hasEvents", attempt)
        OBVIOUS
      <3>2. j \in StorageJob /\ j.op \in Harmless /\ f = <<j>>
        BY <1>7, <2>1, <3>1, JobFacts DEF StorageOps, Harmless
      <3> QED
        BY <3>2, OneFacts
    <2>2. CASE ids # <<>>
      <3>1. ASSUME NEW i \in 1..last
            PROVE  f[i] \in StorageJob /\ f[i].op = "remove" /\ ~f[i].flag
        <4>1. PICK r : r = RemoveJob(ids[i], FALSE)
          OBVIOUS
        <4>2. ids[i] \in Nat
          BY <1>6
        <4>3. r \in StorageJob /\ r.op = "remove" /\ r.flag = FALSE
          BY <4>1, <4>2, RemoveJobFacts
        <4>4. PICK q : q = [r EXCEPT !.attempt = attempt]
          OBVIOUS
        <4>5. q \in StorageJob /\ q.op = "remove" /\ q.flag = FALSE
          BY <4>3, <4>4 DEF StorageJob
        <4>6. f[i] = IF i = last THEN q ELSE r
          BY <1>7, <2>2, <4>1, <4>4
        <4> QED
          BY <4>3, <4>5, <4>6
      <3>2. DOMAIN f = 1..last /\ f \in Seq(StorageJob)
        <4>1. DOMAIN f = 1..last /\ f = [i \in 1..last |-> f[i]]
          BY <1>7, <2>2
        <4> QED
          BY <3>1, <4>1
      <3> QED
        BY <3>1, <3>2 DEF InSeq
    <2> QED
      BY <2>1, <2>2
  <1> QED
    BY <1>1, <1>8, <1>9, EmptyFacts, QuietStorage

\* hasEventsForTarget:.
LEMMA HasEventsInv ==
    ASSUME TransportInv, HasEvents
    PROVE  TransportInv'
  <1>1. /\ TransportTypes /\ storageQueue # <<>> /\ Head(storageQueue).op = "hasEvents"
        /\ UNCHANGED <<files, uploading, requests, unsent, history>>
    BY DEF HasEvents, Storage, TransportInv, inputs
  <1>2. PICK attempt \in Attempt : attempt = Head(storageQueue).attempt
    BY <1>1, HeadJobs
  <1>3. PICK has \in BOOLEAN : has = (\E e \in main : e.target = attempt.target)
    OBVIOUS
  <1>4. PICK j : j = Job("final", attempt)
    OBVIOUS
  <1>5. j \in UploaderJob /\ j.op = "final"
    BY <1>4, JobFacts DEF UploaderOps
  <1>6. PICK q : q = [j EXCEPT !.flag = has]
    OBVIOUS
  <1>7. q \in UploaderJob /\ q.op \in Harmless
    BY <1>5, <1>6 DEF UploaderJob, Harmless
  <1>8. StorageDone(<<>>, <<q>>)
    BY <1>2, <1>3, <1>4, <1>6, Zenon DEF HasEvents
  <1>9. <<q>> \in Seq(UploaderJob) /\ \A y : InSeq(y, <<q>>) => y.op \in Harmless
    BY <1>7, OneFacts
  <1> QED
    BY <1>1, <1>8, <1>9, EmptyFacts, QuietStorage

\* The job that ends an attempt without events.
LEMMA NothingFacts ==
    <<Nothing>> \in Seq(UploaderJob) /\ \A y : InSeq(y, <<Nothing>>) => y.op \in Harmless
  <1>1. Nothing \in UploaderJob /\ Nothing.op \in Harmless
    BY NoAttemptType, JobFacts DEF Nothing, UploaderOps, Harmless
  <1> QED
    BY <1>1, OneFacts

\* A job of an attempt for the storage.
LEMMA AskStorage ==
    ASSUME NEW attempt \in Attempt, NEW op \in {"batchIDs", "hasEvents", "nextBatchID"}
    PROVE  /\ <<Job(op, attempt)>> \in Seq(StorageJob)
           /\ \A x : InSeq(x, <<Job(op, attempt)>>) => x.op \in Harmless
  <1>1. Job(op, attempt) \in StorageJob /\ Job(op, attempt).op \in Harmless
    BY JobFacts DEF StorageOps, Harmless
  <1> QED
    BY <1>1, OneFacts

\* uploadTarget:withConditions:.
LEMMA UploadTargetInv ==
    ASSUME TransportInv, UploadTarget
    PROVE  TransportInv'
  <1>1. /\ TransportTypes /\ uploaderQueue # <<>> /\ Head(uploaderQueue).op = "upload"
        /\ UNCHANGED <<files, uploading, requests, unsent, history>> /\ uploading' \in BOOLEAN
    BY DEF UploadTarget, Uploader, TransportInv, TransportTypes, inputs
  <1>2. PICK attempt \in Attempt : attempt = Head(uploaderQueue).attempt
    BY <1>1, HeadJobs
  <1>3. UploaderDone(<<Job("batchIDs", attempt)>>, <<>>) \/ UploaderDone(<<>>, <<Nothing>>)
    BY <1>2 DEF UploadTarget
  <1>4. CASE UploaderDone(<<Job("batchIDs", attempt)>>, <<>>)
    BY <1>1, <1>4, AskStorage, EmptyFacts, QuietUploader
  <1>5. CASE UploaderDone(<<>>, <<Nothing>>)
    BY <1>1, <1>5, NothingFacts, EmptyFacts, QuietUploader
  <1> QED
    BY <1>3, <1>4, <1>5

\* All batches of the target are removed.
LEMMA BatchesRemovedInv ==
    ASSUME TransportInv, BatchesRemoved
    PROVE  TransportInv'
  <1>1. /\ TransportTypes /\ uploaderQueue # <<>> /\ Head(uploaderQueue).op = "cleared"
        /\ UNCHANGED <<files, uploading, requests, unsent, history>> /\ uploading' \in BOOLEAN
    BY DEF BatchesRemoved, Uploader, TransportInv, TransportTypes, inputs
  <1>2. PICK attempt \in Attempt : attempt = Head(uploaderQueue).attempt
    BY <1>1, HeadJobs
  <1>3. UploaderDone(<<Job("hasEvents", attempt)>>, <<>>)
    BY <1>2 DEF BatchesRemoved
  <1> QED
    BY <1>1, <1>3, AskStorage, EmptyFacts, QuietUploader

\* batchToUploadForTarget:.
LEMMA BatchToUploadInv ==
    ASSUME TransportInv, BatchToUpload
    PROVE  TransportInv'
  <1>1. /\ TransportTypes /\ uploaderQueue # <<>> /\ Head(uploaderQueue).op = "final"
        /\ UNCHANGED <<files, requests, unsent, history>>
    BY DEF BatchToUpload, Uploader, TransportInv, inputs
  <1>2. PICK attempt \in Attempt : attempt = Head(uploaderQueue).attempt
    BY <1>1, HeadJobs
  <1>3. UploaderDone(<<Job("nextBatchID", attempt)>>, <<>>) \/ UploaderDone(<<>>, <<Nothing>>)
    BY <1>2 DEF BatchToUpload
  <1>4. uploading' \in BOOLEAN
    BY Zenon DEF BatchToUpload
  <1>5. CASE UploaderDone(<<Job("nextBatchID", attempt)>>, <<>>)
    BY <1>1, <1>4, <1>5, AskStorage, EmptyFacts, QuietUploader
  <1>6. CASE UploaderDone(<<>>, <<Nothing>>)
    BY <1>1, <1>4, <1>6, NothingFacts, EmptyFacts, QuietUploader
  <1> QED
    BY <1>3, <1>5, <1>6

\* The completion without events.
LEMMA NoEventsSelectedInv ==
    ASSUME TransportInv, NoEventsSelected
    PROVE  TransportInv'
  <1>1. /\ TransportTypes /\ uploaderQueue # <<>> /\ Head(uploaderQueue).op = "nothing"
        /\ UNCHANGED <<files, requests, unsent, history>> /\ uploading' \in BOOLEAN
        /\ UploaderDone(<<>>, <<>>)
    BY DEF NoEventsSelected, Uploader, TransportInv, inputs
  <1> QED
    BY <1>1, EmptyFacts, QuietUploader

\* Nothing but the clock.
LEMMA ClockInv ==
    ASSUME TransportInv,
           UNCHANGED <<files, storageQueue, uploaderQueue, uploading, requests, inputs, history>>
    PROVE  TransportInv'
  <1>1. TransportTypes' /\ Distinct(storageQueue')
    BY DEF TransportInv, TransportTypes, IdInv, files, inputs
  <1> QED
    BY <1>1, QuietStep DEF inputs

-----------------------------------------------------------------------------
(* Steps that touch files                                                  *)

\* What is left of the batches when the files fs of those with an id in ids go.
LEMMA WithoutFacts ==
    ASSUME batches \in SUBSET Batch, Placed, NEW ids, NEW fs, NEW W, W = Without(ids, fs)
    PROVE  /\ \A b \in W : \E c \in batches :
                  /\ b \in Batch /\ b.id = c.id /\ b.events \subseteq c.events
                  /\ b.id \in ids => b.events = c.events \ fs
                  /\ b.events # {}
           /\ \A b1, b2 \in W : b1 # b2 => b1.events \cap b2.events = {}
           /\ \A c \in batches : \A e \in c.events : c.id \notin ids \/ e \notin fs =>
                  \E b \in W : e \in b.events
  <1> DEFINE F(c) == IF c.id \in ids THEN [c EXCEPT !.events = @ \ fs] ELSE c
  <1>1. ASSUME NEW c \in batches
        PROVE  /\ F(c) \in Batch /\ F(c).id = c.id
               /\ F(c).events = IF c.id \in ids THEN c.events \ fs ELSE c.events
    BY DEF Batch
  <1>2. \A b : b \in W <=> b.events # {} /\ \E c \in batches : b = F(c)
    BY DEF Without
  <1> HIDE DEF F
  <1>3. ASSUME NEW b \in W
        PROVE  \E c \in batches :
                  /\ b \in Batch /\ b.id = c.id /\ b.events \subseteq c.events
                  /\ b.id \in ids => b.events = c.events \ fs
                  /\ b.events # {}
    BY <1>1, <1>2
  <1>4. ASSUME NEW b1 \in W, NEW b2 \in W, b1 # b2 PROVE b1.events \cap b2.events = {}
    <2>1. PICK c1 \in batches, c2 \in batches : b1 = F(c1) /\ b2 = F(c2)
      BY <1>2
    <2>2. c1 # c2
      BY <1>4, <2>1
    <2>3. c1.events \cap c2.events = {}
      BY <2>2 DEF Placed
    <2> QED
      BY <1>1, <2>1, <2>3
  <1>5. ASSUME NEW c \in batches, NEW e, e \in c.events, c.id \notin ids \/ e \notin fs
        PROVE  \E b \in W : e \in b.events
    <2>1. e \in F(c).events
      BY <1>1, <1>5
    <2>2. F(c) \in W
      BY <1>2, <2>1
    <2> QED
      BY <2>1, <2>2
  <1> QED
    BY <1>3, <1>4, <1>5

\* Where files are after some of those of batches with an id in ids have gone to
\* the main directory or away.
LEMMA BatchesShrink ==
    ASSUME TransportTypes, Placed, NEW ids, NEW fs,
           \A e \in fs : \E b \in batches : b.id \in ids /\ e \in b.events,
           main' \subseteq main \cup fs, batches' = Without(ids, fs)
    PROVE  /\ main' \in SUBSET Events /\ batches' \in SUBSET Batch /\ Placed'
           /\ \A b \in batches' : \E c \in batches :
                  /\ b.id = c.id /\ b.events \subseteq c.events
                  /\ b.id \in ids => b.events = c.events \ fs
                  /\ b.events # {}
           /\ \A e : Filed(e)' => Filed(e)
           /\ \A e : Filed(e) => Filed(e)' \/ e \in (main \cup fs) \ main'
  <1>1. batches \in SUBSET Batch /\ main \subseteq Events
    BY DEF TransportTypes
  <1>2. PICK W : W = Without(ids, fs)
    OBVIOUS
  <1>3. /\ \A b \in W : \E c \in batches :
                  /\ b \in Batch /\ b.id = c.id /\ b.events \subseteq c.events
                  /\ b.id \in ids => b.events = c.events \ fs
                  /\ b.events # {}
        /\ \A b1, b2 \in W : b1 # b2 => b1.events \cap b2.events = {}
        /\ \A c \in batches : \A e \in c.events : c.id \notin ids \/ e \notin fs =>
                  \E b \in W : e \in b.events
    BY <1>1, <1>2, WithoutFacts
  <1>4. batches' = W
    BY <1>2
  <1>5. fs \subseteq Events
    BY <1>1 DEF Batch
  <1>6. ASSUME NEW b \in W PROVE b.events \cap main' = {}
    <2>1. PICK c \in batches : /\ b.id = c.id /\ b.events \subseteq c.events
                               /\ b.id \in ids => b.events = c.events \ fs
      BY <1>3
    <2>2. c.events \cap main = {}
      BY DEF Placed
    <2>3. ASSUME NEW e \in b.events, e \in fs PROVE FALSE
      <3>1. PICK d \in batches : d.id \in ids /\ e \in d.events
        BY <2>3
      <3>2. d = c
        BY <2>1, <2>3, <3>1 DEF Placed
      <3> QED
        BY <2>1, <2>3, <3>1, <3>2
    <2> QED
      BY <2>1, <2>2, <2>3
  <1>7. Placed'
    BY <1>3, <1>4, <1>6 DEF Placed
  <1>8. ASSUME NEW e, Filed(e)' PROVE Filed(e)
    BY <1>3, <1>4, <1>8 DEF Filed
  <1>9. ASSUME NEW e, Filed(e), e \notin (main \cup fs) \ main' PROVE Filed(e)'
    <2>1. CASE e \in main
      BY <1>9, <2>1 DEF Filed
    <2>2. CASE \E c \in batches : e \in c.events
      <3>1. PICK c \in batches : e \in c.events
        BY <2>2
      <3>2. CASE e \in fs
        BY <1>9, <3>2 DEF Filed
      <3>3. CASE e \notin fs
        BY <1>3, <1>4, <3>1, <3>3 DEF Filed
      <3> QED
        BY <3>2, <3>3
    <2> QED
      BY <1>9, <2>1, <2>2 DEF Filed
  <1> QED
    BY <1>1, <1>3, <1>4, <1>5, <1>7, <1>8, <1>9

\* syncThreadUnsafeRemoveBatchWithID: deletes only what has been answered for.
LEMMA RemoveFilesFacts ==
    ASSUME TransportInv, NEW job \in StorageJob, InSeq(job, storageQueue), job.op = "remove",
           NEW fs, fs \subseteq FilesOf(job.id), RemoveFiles(job, fs)
    PROVE  /\ main' \in SUBSET Events /\ batches' \in SUBSET Batch /\ Placed'
           /\ \A b \in batches' : \E c \in batches :
                  /\ b.id = c.id /\ b.events \subseteq c.events
                  /\ b.id = job.id => b.events = c.events \ fs
                  /\ b.events # {}
           /\ \A e : Filed(e)' => Filed(e)
           /\ \A e : Filed(e) => Filed(e)' \/ e \in gone
  <1>1. TransportTypes /\ Placed
    BY DEF TransportInv, FileInv
  <1>2. \A e \in fs : \E b \in batches : b.id \in {job.id} /\ e \in b.events
    BY DEF FilesOf
  <1>3. job.flag \in BOOLEAN
    BY DEF StorageJob
  <1>4. PICK ids : ids = {job.id}
    OBVIOUS
  <1>5. /\ \A e \in fs : \E b \in batches : b.id \in ids /\ e \in b.events
        /\ main \subseteq main' /\ main' \subseteq main \cup fs /\ batches' = Without(ids, fs)
        /\ ~job.flag => fs \subseteq main'
    BY <1>2, <1>3, <1>4 DEF RemoveFiles
  <1>6. /\ main' \in SUBSET Events /\ batches' \in SUBSET Batch /\ Placed'
        /\ \A b \in batches' : \E c \in batches :
                  /\ b.id = c.id /\ b.events \subseteq c.events
                  /\ b.id \in ids => b.events = c.events \ fs
                  /\ b.events # {}
        /\ \A e : Filed(e)' => Filed(e)
        /\ \A e : Filed(e) => Filed(e)' \/ e \in (main \cup fs) \ main'
    BY <1>1, <1>5, BatchesShrink
  <1>7. \A e \in fs \ main' : e \in gone
    <2>1. job.flag => HoldsOnly(job.id, gone)
      BY DEF TransportInv, DeliveryInv
    <2> QED
      BY <1>2, <1>5, <2>1 DEF HoldsOnly
  <1> QED
    BY <1>4, <1>5, <1>6, <1>7

\* Files move to a new batch.
LEMMA MoveFilesFacts ==
    ASSUME TransportInv, NEW job \in StorageJob, InSeq(job, storageQueue), job.op = "move",
           NEW fs, fs \subseteq main, MoveFiles(job, fs)
    PROVE  /\ main' \in SUBSET Events /\ batches' \in SUBSET Batch /\ Placed'
           /\ \A b \in batches' : \/ b \in batches
                                  \/ b.id = job.id /\ b.events = fs /\ fs # {}
           /\ \A e : Filed(e)' <=> Filed(e)
           /\ job.id < counter /\ ~Used(job.id)
  <1>1. main \subseteq Events /\ batches \subseteq Batch /\ Placed
    BY DEF TransportInv, TransportTypes, FileInv
  <1>2. job.id < counter /\ ~Used(job.id)
    BY DEF TransportInv, IdInv, Minted
  <1>3. PICK new : new = [id |-> job.id, target |-> job.attempt.target, events |-> fs]
    OBVIOUS
  <1>4. job.id \in Nat /\ job.attempt \in Attempt
    BY DEF StorageJob
  <1>5. job.attempt.target \in Target
    BY <1>4 DEF Attempt
  <1>6. new \in Batch /\ new.id = job.id /\ new.events = fs
    BY <1>1, <1>3, <1>4, <1>5 DEF Batch
  <1>7. CASE fs = {}
    <2>1. main' = main /\ batches' = batches
      BY <1>7 DEF MoveFiles
    <2> QED
      BY <1>1, <1>2, <2>1, Zenon DEF Placed, Filed
  <1>8. CASE fs # {}
    <2>1. main' = main \ fs /\ batches' = batches \cup {new}
      BY <1>3, <1>8 DEF MoveFiles
    <2>2. \A b \in batches : b.events \cap fs = {}
      BY DEF TransportInv, FileInv, Placed
    <2>3. Placed'
      BY <1>1, <1>6, <2>1, <2>2 DEF Placed
    <2>4. \A e : Filed(e)' <=> Filed(e)
      BY <1>6, <2>1 DEF Filed
    <2> QED
      BY <1>1, <1>2, <1>6, <1>8, <2>1, <2>3, <2>4
  <1> QED
    BY <1>7, <1>8

-----------------------------------------------------------------------------
(* Steps that move events and batch ids on                                 *)

\* sendEvent:.
LEMMA SendEventInv ==
    ASSUME TransportInv, NEW e \in Events, SendEvent(e)
    PROVE  TransportInv'
  <1>1. PICK i : i = Job("store", NoAttempt)
    OBVIOUS
  <1>2. i \in StorageJob /\ i.op = "store"
    BY <1>1, NoAttemptType, JobFacts DEF StorageOps
  <1>3. PICK j : j = [i EXCEPT !.events = {e}]
    OBVIOUS
  <1>4. j \in StorageJob /\ j.op = "store" /\ j.events = {e}
    BY <1>2, <1>3 DEF StorageJob
  <1>5. /\ storageQueue \in Seq(StorageJob) /\ storageQueue' = storageQueue \o <<j>>
        /\ e \in unsent /\ unsent' = unsent \ {e}
        /\ UNCHANGED <<main, batches, counter, uploaderQueue, uploading, requests, told, gone,
                       orphans>>
    <2>1. storageQueue' = Append(storageQueue, j)
      BY <1>1, <1>3, Zenon DEF SendEvent
    <2>2. storageQueue \in Seq(StorageJob)
      BY DEF TransportInv, TransportTypes
    <2>3. storageQueue' = storageQueue \o <<j>>
      BY <1>4, <2>1, <2>2
    <2> QED
      BY <2>2, <2>3 DEF SendEvent, files, history
  <1>6. <<j>> \in Seq(StorageJob) /\ \A x : InSeq(x, <<j>>) <=> x = j
    BY <1>4, OneFacts
  <1>7. /\ storageQueue' \in Seq(StorageJob)
        /\ \A x : InSeq(x, storageQueue') <=> (InSeq(x, storageQueue) \/ x = j)
    BY <1>5, <1>6, ConcatFacts
  <1>8. ASSUME NEW x, InSeq(x, storageQueue) PROVE ~Clash(x, j)
    <2>1. x \in StorageJob
      BY <1>5, <1>8 DEF InSeq
    <2>2. x.op = "store" => e \notin x.events
      BY <1>5, <1>8, <2>1 DEF TransportInv, FileInv
    <2> QED
      BY <1>4, <2>2 DEF Clash, Minted
  <1>9. Distinct(storageQueue')
    <2>1. Distinct(<<j>>) /\ Distinct(storageQueue)
      BY DistinctFew DEF TransportInv, IdInv
    <2> QED
      BY <1>5, <1>6, <1>8, <2>1, DistinctConcat
  <1>10. TransportTypes'
    BY <1>5, <1>7 DEF TransportInv, TransportTypes
  <1>11. /\ \A z : Filed(z)' <=> Filed(z)
         /\ \A n : Used(n)' <=> Used(n)
         /\ \A n : Owned(n) => Owned(n)'
         /\ \A n, fs : HoldsOnly(n, fs)' <=> HoldsOnly(n, fs)
    <2>1. \A z : Filed(z)' <=> Filed(z)
      BY <1>5, Zenon DEF Filed
    <2>2. \A n : Used(n)' <=> Used(n)
      BY <1>4, <1>5, <1>7, Zenon DEF Used
    <2>3. \A n : Owned(n) => Owned(n)'
      BY <1>5, <1>7, Zenon DEF Owned
    <2>4. \A n, fs : HoldsOnly(n, fs)' <=> HoldsOnly(n, fs)
      BY <1>5, Zenon DEF HoldsOnly
    <2> QED
      BY <2>1, <2>2, <2>3, <2>4
  <1>12. FileInv'
    BY <1>4, <1>5, <1>7, <1>11 DEF TransportInv, FileInv, Placed
  <1>13. IdInv'
    BY <1>4, <1>5, <1>7, <1>9, <1>11 DEF TransportInv, IdInv, Minted
  <1>14. DeliveryInv'
    BY <1>4, <1>5, <1>7, <1>11 DEF TransportInv, DeliveryInv
  <1>15. OwnersInv' /\ KeptInv'
    BY <1>5, <1>11 DEF TransportInv, OwnersInv, KeptInv
  <1> QED
    BY <1>10, <1>12, <1>13, <1>14, <1>15 DEF TransportInv

\* A storage job after which there are fewer files: those that are missing have
\* been answered for or have expired, and a batch that was to be removed is.
LEMMA ShrinkStep ==
    ASSUME TransportInv, storageQueue # <<>>, NEW g \in Seq(UploaderJob),
           \A y : InSeq(y, g) => y.op \in Harmless,
           StorageDone(<<>>, g),
           main' \in SUBSET Events, batches' \in SUBSET Batch, Placed',
           \A b \in batches' : \E c \in batches : b.id = c.id /\ b.events \subseteq c.events,
           \A e : Filed(e)' => Filed(e),
           \A e : Filed(e) => Filed(e)' \/ e \in gone',
           gone \subseteq gone',
           Head(storageQueue).op = "remove" => \A b \in batches' : b.id # Head(storageQueue).id,
           UNCHANGED <<counter, uploading, requests, unsent, told, orphans>>
    PROVE  TransportInv'
  <1>1. TransportTypes /\ Distinct(storageQueue)
    BY DEF TransportInv, IdInv
  <1>2. PICK h : h = Head(storageQueue)
    OBVIOUS
  <1>3. /\ storageQueue' \in Seq(StorageJob) /\ uploaderQueue' \in Seq(UploaderJob)
        /\ Distinct(storageQueue')
        /\ \A x : InSeq(x, storageQueue') => InSeq(x, storageQueue)
        /\ \A x : InSeq(x, storageQueue) => x = h \/ InSeq(x, storageQueue')
        /\ \A x : InSeq(x, uploaderQueue') <=> (InSeq(x, uploaderQueue) \/ InSeq(x, g))
    <2>1. PICK f : f = <<>>
      OBVIOUS
    <2>2. f \in Seq(StorageJob) /\ Distinct(f) /\ \A x : ~InSeq(x, f)
      BY <2>1, EmptyFacts, DistinctFew
    <2>3. StorageDone(f, g)
      BY <2>1
    <2> QED
      BY <1>1, <1>2, <2>2, <2>3, StorageDoneFacts
  <1>4. \A op \in Harmless : op \notin {"paths", "move", "store", "remove", "send", "response"}
    BY DEF Harmless
  <1>5. TransportTypes'
    BY <1>1, <1>3 DEF TransportTypes
  <1>6. ASSUME NEW n, Used(n)' PROVE Used(n)
    BY <1>3, <1>4, <1>6, Zenon DEF Used
  <1>7. \A y : InSeq(y, uploaderQueue') /\ y.op \in {"send", "response"} => InSeq(y, uploaderQueue)
    BY <1>3, <1>4
  <1>8. FileInv'
    BY <1>3 DEF TransportInv, FileInv
  <1>9. IdInv'
    BY <1>3, <1>6 DEF TransportInv, IdInv
  <1>10. ASSUME NEW n, NEW S, NEW T, HoldsOnly(n, S), S \subseteq T, NEW b \in batches', b.id = n
         PROVE  b.events \subseteq T
    BY <1>10 DEF HoldsOnly
  <1>11. DeliveryInv'
    <2>1. \A r \in requests : /\ HoldsOnly(r.id, r.events)
                              /\ r.state \in {"ok", "refused"} => r.events \subseteq gone
      BY DEF TransportInv, DeliveryInv
    <2>2. \A y \in UploaderJob : InSeq(y, uploaderQueue') =>
              /\ y.op = "send" => HoldsOnly(y.id, y.events)
              /\ y.op = "response" /\ y.flag => HoldsOnly(y.id, gone)
      BY <1>7 DEF TransportInv, DeliveryInv
    <2>3. \A x \in StorageJob : InSeq(x, storageQueue') =>
              (x.op = "remove" /\ x.flag => HoldsOnly(x.id, gone))
      BY <1>3 DEF TransportInv, DeliveryInv
    <2>4. \A r \in requests' : /\ HoldsOnly(r.id, r.events)'
                               /\ r.state \in {"ok", "refused"} => r.events \subseteq gone'
      BY <1>10, <2>1 DEF HoldsOnly
    <2>5. \A y \in UploaderJob : InSeq(y, uploaderQueue') =>
              /\ y.op = "send" => HoldsOnly(y.id, y.events)'
              /\ y.op = "response" /\ y.flag => HoldsOnly(y.id, gone)'
      BY <1>10, <2>2 DEF HoldsOnly
    <2>6. \A x \in StorageJob : InSeq(x, storageQueue') =>
              (x.op = "remove" /\ x.flag => HoldsOnly(x.id, gone)')
      BY <1>10, <2>3 DEF HoldsOnly
    <2> QED
      BY <2>4, <2>5, <2>6 DEF DeliveryInv
  <1>12. OwnersInv'
    <2> SUFFICES ASSUME NEW b \in batches' PROVE Owned(b.id)'
      BY DEF OwnersInv
    <2>1. Owned(b.id)
      BY DEF TransportInv, OwnersInv
    <2>2. h.op = "remove" => b.id # h.id
      BY <1>2
    <2> QED
      BY <1>3, <2>1, <2>2, Zenon DEF Owned
  <1>13. KeptInv'
    BY DEF TransportInv, KeptInv
  <1> QED
    BY <1>5, <1>8, <1>9, <1>11, <1>12, <1>13 DEF TransportInv

\* removeBatchWithID:.
LEMMA RemoveBatchInv ==
    ASSUME TransportInv, RemoveBatch
    PROVE  TransportInv'
  <1>1. /\ TransportTypes /\ storageQueue # <<>> /\ Head(storageQueue).op = "remove"
        /\ UNCHANGED <<counter, uploading, requests, unsent, told, gone, orphans>>
    BY DEF RemoveBatch, Storage, TransportInv, inputs, history
  <1>2. PICK job \in StorageJob : job = Head(storageQueue)
    BY <1>1, HeadJobs
  <1>3. InSeq(job, storageQueue) /\ job.op = "remove" /\ job.attempt \in Attempt
    BY <1>1, <1>2, HeadJobs
  <1>4. PICK fs : fs = FilesOf(job.id)
    OBVIOUS
  <1>5. RemoveFiles(job, fs)
    BY <1>2, <1>4, Zenon DEF RemoveBatch
  <1>6. /\ main' \in SUBSET Events /\ batches' \in SUBSET Batch /\ Placed'
        /\ \A b \in batches' : \E c \in batches :
               /\ b.id = c.id /\ b.events \subseteq c.events
               /\ b.id = job.id => b.events = c.events \ fs
               /\ b.events # {}
        /\ \A e : Filed(e)' => Filed(e)
        /\ \A e : Filed(e) => Filed(e)' \/ e \in gone
    BY <1>3, <1>4, <1>5, RemoveFilesFacts
  <1>7. \A b \in batches' : b.id # job.id
    <2> SUFFICES ASSUME NEW b \in batches', b.id = job.id PROVE FALSE
      OBVIOUS
    <2>1. PICK c \in batches : c.id = job.id /\ b.events = c.events \ fs /\ b.events # {}
      BY <1>6
    <2>2. c.events \subseteq fs
      BY <1>4, <2>1 DEF FilesOf
    <2> QED
      BY <2>1, <2>2
  <1>8. PICK g : g = IF job.attempt = NoAttempt THEN <<>> ELSE <<Job("cleared", job.attempt)>>
    OBVIOUS
  <1>9. StorageDone(<<>>, g)
    BY <1>2, <1>8, Zenon DEF RemoveBatch
  <1>10. g \in Seq(UploaderJob) /\ \A y : InSeq(y, g) => y.op \in Harmless
    <2>1. CASE job.attempt = NoAttempt
      BY <1>8, <2>1, EmptyFacts
    <2>2. CASE job.attempt # NoAttempt
      <3>1. PICK j : j = Job("cleared", job.attempt)
        OBVIOUS
      <3>2. j \in UploaderJob /\ j.op \in Harmless
        BY <1>3, <3>1, JobFacts DEF UploaderOps, Harmless
      <3>3. g = <<j>>
        BY <1>8, <2>2, <3>1
      <3> QED
        BY <3>2, <3>3, OneFacts
    <2> QED
      BY <2>1, <2>2
  <1>11. gone \subseteq gone' /\ \A e : Filed(e) => Filed(e)' \/ e \in gone'
    BY <1>1, <1>6
  <1>12. \A b \in batches' : \E c \in batches : b.id = c.id /\ b.events \subseteq c.events
    BY <1>6
  <1>13. UNCHANGED <<counter, uploading, requests, unsent, told, orphans>>
    BY <1>1
  <1> QED
    BY <1>1, <1>2, <1>6, <1>7, <1>9, <1>10, <1>11, <1>12, <1>13, ShrinkStep

\* checkForExpirations.
LEMMA CheckForExpirationsInv ==
    ASSUME TransportInv, NEW ids, NEW expired, CheckForExpirations(ids, expired)
    PROVE  TransportInv'
  <1>1. /\ TransportTypes /\ Placed /\ storageQueue # <<>> /\ Head(storageQueue).op = "expire"
        /\ UNCHANGED <<counter, uploading, requests, unsent, told, orphans>>
        /\ StorageDone(<<>>, <<>>)
    BY DEF CheckForExpirations, Storage, TransportInv, FileInv, inputs
  <1>2. PICK fs : fs = UNION {FilesOf(id) : id \in ids}
    OBVIOUS
  <1>3. /\ main' = (main \cup fs) \ expired /\ batches' = Without(ids, fs)
        /\ gone' = gone \cup expired
    BY <1>2, Zenon DEF CheckForExpirations
  <1>4. \A e \in fs : \E b \in batches : b.id \in ids /\ e \in b.events
    BY <1>2 DEF FilesOf
  <1>5. main' \subseteq main \cup fs
    BY <1>3
  <1>6. /\ main' \in SUBSET Events /\ batches' \in SUBSET Batch /\ Placed'
        /\ \A b \in batches' : \E c \in batches :
                  /\ b.id = c.id /\ b.events \subseteq c.events
                  /\ b.id \in ids => b.events = c.events \ fs
                  /\ b.events # {}
        /\ \A e : Filed(e)' => Filed(e)
        /\ \A e : Filed(e) => Filed(e)' \/ e \in (main \cup fs) \ main'
    BY <1>1, <1>3, <1>4, <1>5, BatchesShrink
  <1>7. gone \subseteq gone' /\ \A e : Filed(e) => Filed(e)' \/ e \in gone'
    BY <1>3, <1>6
  <1>8. \A b \in batches' : \E c \in batches : b.id = c.id /\ b.events \subseteq c.events
    BY <1>6
  <1>9. PICK g : g = <<>>
    OBVIOUS
  <1>10. g \in Seq(UploaderJob) /\ (\A y : InSeq(y, g) => y.op \in Harmless) /\ StorageDone(<<>>, g)
    BY <1>1, <1>9, EmptyFacts
  <1> QED
    BY <1>1, <1>6, <1>7, <1>8, <1>10, ShrinkStep

\* storeEvent:.
LEMMA StoreEventInv ==
    ASSUME TransportInv, NEW connected, StoreEvent(connected)
    PROVE  TransportInv'
  <1>1. /\ TransportTypes /\ Distinct(storageQueue) /\ storageQueue # <<>>
        /\ Head(storageQueue).op = "store"
        /\ UNCHANGED <<batches, counter, uploading, requests, unsent, gone, orphans>>
    BY DEF StoreEvent, Storage, TransportInv, IdInv, inputs
  <1>2. PICK h \in StorageJob : h = Head(storageQueue)
    BY <1>1, HeadJobs
  <1>3. InSeq(h, storageQueue) /\ h.op = "store"
    BY <1>1, <1>2, HeadJobs
  <1>4. PICK e : e = CHOOSE x \in h.events : TRUE
    OBVIOUS
  <1>5. h.events # {} /\ h.events \subseteq Events /\ \A z \in h.events : z \notin unsent /\ ~Filed(z)
    BY <1>3 DEF TransportInv, FileInv, StorageJob
  <1>6. e \in h.events /\ e \in Events
    BY <1>4, <1>5
  <1>7. PICK force : force = Job("upload", [target |-> e.target, conditions |-> "high"])
    OBVIOUS
  <1>8. force \in UploaderJob /\ force.op \in Harmless
    <2>1. e.target \in Target
      BY <1>6, TransportAssumption DEF Target
    <2>2. [target |-> e.target, conditions |-> "high"] \in Attempt
      BY <2>1 DEF Attempt, Conditions
    <2> QED
      BY <1>7, <2>2, JobFacts DEF UploaderOps, Harmless
  <1>9. PICK g : g = IF e.qos = "fast" /\ connected THEN <<force>> ELSE <<>>
    OBVIOUS
  <1>10. g \in Seq(UploaderJob) /\ \A y : InSeq(y, g) => y.op \in Harmless
    BY <1>8, <1>9, OneFacts, EmptyFacts
  <1>11. main' = main \cup {e} /\ told' = told \cup {e} /\ StorageDone(<<>>, g)
    BY <1>2, <1>4, <1>7, <1>9, Zenon DEF StoreEvent
  <1>12. PICK t : t = Tail(storageQueue)
    OBVIOUS
  <1>13. /\ storageQueue' \in Seq(StorageJob) /\ uploaderQueue' \in Seq(UploaderJob)
         /\ Distinct(storageQueue')
         /\ \A x : InSeq(x, storageQueue') => InSeq(x, storageQueue) /\ ~Clash(h, x)
         /\ \A x : InSeq(x, storageQueue) => x = h \/ InSeq(x, storageQueue')
         /\ \A x : InSeq(x, uploaderQueue') <=> (InSeq(x, uploaderQueue) \/ InSeq(x, g))
    <2>1. PICK f : f = <<>>
      OBVIOUS
    <2>2. f \in Seq(StorageJob) /\ Distinct(f) /\ \A x : ~InSeq(x, f)
      BY <2>1, EmptyFacts, DistinctFew
    <2>3. StorageDone(f, g)
      BY <1>11, <2>1
    <2>4. /\ storageQueue' \in Seq(StorageJob) /\ uploaderQueue' \in Seq(UploaderJob)
          /\ Distinct(storageQueue')
          /\ \A x : InSeq(x, storageQueue') => InSeq(x, storageQueue)
          /\ \A x : InSeq(x, storageQueue) => x = h \/ InSeq(x, storageQueue')
          /\ \A x : InSeq(x, uploaderQueue') <=> (InSeq(x, uploaderQueue) \/ InSeq(x, g))
      BY <1>1, <1>2, <1>10, <2>2, <2>3, StorageDoneFacts
    <2>5. \A x : InSeq(x, t) => ~Clash(h, x)
      BY <1>1, <1>2, <1>12, DistinctTail DEF TransportTypes
    <2>6. t \in Seq(StorageJob)
      BY <1>1, <1>12, TailFacts DEF TransportTypes
    <2>7. storageQueue' = t \o f
      BY <1>12, <2>3 DEF StorageDone
    <2>8. \A x : InSeq(x, storageQueue') => InSeq(x, t)
      BY <2>2, <2>6, <2>7, ConcatFacts
    <2> QED
      BY <2>4, <2>5, <2>8
  <1>14. \A op \in Harmless : op \notin {"paths", "move", "store", "remove", "send", "response"}
    BY DEF Harmless
  <1>15. TransportTypes'
    BY <1>1, <1>6, <1>11, <1>13 DEF TransportTypes
  <1>16. \A z : Filed(z)' <=> (Filed(z) \/ z = e)
    BY <1>1, <1>11 DEF Filed
  <1>17. \A n : Used(n)' => Used(n)
    BY <1>1, <1>10, <1>13, <1>14, Zenon DEF Used
  <1>18. \A n : Owned(n) => Owned(n)'
    BY <1>1, <1>3, <1>13, Zenon DEF Owned
  <1>19. \A n, fs : HoldsOnly(n, fs)' <=> HoldsOnly(n, fs)
    BY <1>1, Zenon DEF HoldsOnly
  <1>20. FileInv'
    <2>1. Placed'
      <3>1. ~Filed(e)
        BY <1>5, <1>6
      <3> QED
        BY <1>1, <1>11, <3>1 DEF TransportInv, FileInv, Placed, Filed
    <2>2. \A z \in unsent' : ~Filed(z)'
      BY <1>1, <1>5, <1>6, <1>16 DEF TransportInv, FileInv
    <2>3. ASSUME NEW x \in StorageJob, InSeq(x, storageQueue'), x.op = "store"
          PROVE  x.events # {} /\ \A z \in x.events : z \notin unsent' /\ ~Filed(z)'
      <3>1. x.events # {} /\ \A z \in x.events : z \notin unsent /\ ~Filed(z)
        BY <1>13, <2>3 DEF TransportInv, FileInv
      <3>2. e \notin x.events
        BY <1>3, <1>6, <1>13, <2>3 DEF Clash
      <3> QED
        BY <1>1, <1>16, <3>1, <3>2
    <2> QED
      BY <2>1, <2>2, <2>3 DEF FileInv
  <1>21. IdInv'
    BY <1>1, <1>13, <1>17 DEF TransportInv, IdInv
  <1>22. DeliveryInv'
    BY <1>1, <1>10, <1>13, <1>14, <1>19 DEF TransportInv, DeliveryInv
  <1>23. OwnersInv' /\ KeptInv'
    BY <1>1, <1>11, <1>16, <1>18 DEF TransportInv, OwnersInv, KeptInv
  <1> QED
    BY <1>15, <1>20, <1>21, <1>22, <1>23 DEF TransportInv

\* A job that carries a batch id of its own from one step of an upload to the
\* next, in which no file is touched.
LEMMA MintStep ==
    ASSUME TransportInv, storageQueue # <<>>, NEW j \in StorageJob, Minted(j),
           StorageDone(<<j>>, <<>>), Head(storageQueue).op # "remove",
           counter' \in Nat, counter <= counter', j.id < counter', ~Used(j.id),
           \A x : InSeq(x, Tail(storageQueue)) => ~Clash(x, j),
           UNCHANGED <<main, batches, uploading, requests, unsent, told, gone, orphans>>
    PROVE  TransportInv'
  <1>1. TransportTypes /\ Distinct(storageQueue)
    BY DEF TransportInv, IdInv
  <1>2. PICK f, g, h : f = <<j>> /\ g = <<>> /\ h = Head(storageQueue)
    OBVIOUS
  <1>3. /\ f \in Seq(StorageJob) /\ Distinct(f) /\ \A x : InSeq(x, f) <=> x = j
        /\ g \in Seq(UploaderJob) /\ \A x : ~InSeq(x, g)
    BY <1>2, OneFacts, EmptyFacts, DistinctFew
  <1>4. /\ storageQueue' \in Seq(StorageJob) /\ uploaderQueue' \in Seq(UploaderJob)
        /\ Distinct(storageQueue')
        /\ \A x : InSeq(x, storageQueue') => InSeq(x, storageQueue) \/ x = j
        /\ \A x : InSeq(x, storageQueue) => x = h \/ InSeq(x, storageQueue')
        /\ \A x : InSeq(x, uploaderQueue') <=> InSeq(x, uploaderQueue)
    <2>1. StorageDone(f, g)
      BY <1>2
    <2>2. \A x, y : InSeq(x, Tail(storageQueue)) /\ InSeq(y, f) => ~Clash(x, y)
      BY <1>3
    <2> QED
      BY <1>1, <1>2, <1>3, <2>1, <2>2, StorageDoneFacts
  <1>5. j.op \notin {"store", "remove"}
    BY DEF Minted
  <1>6. TransportTypes'
    BY <1>1, <1>4 DEF TransportTypes
  <1>7. \A z : Filed(z)' <=> Filed(z)
    BY Zenon DEF Filed
  <1>8. \A n : Used(n)' => Used(n)
    BY <1>4, <1>5, Zenon DEF Used
  <1>9. \A n : Owned(n) => Owned(n)'
    BY <1>2, <1>4, Zenon DEF Owned
  <1>10. \A n, fs : HoldsOnly(n, fs)' <=> HoldsOnly(n, fs)
    BY Zenon DEF HoldsOnly
  <1>11. FileInv'
    BY <1>4, <1>5, <1>7 DEF TransportInv, FileInv, Placed
  <1>12. IdInv'
    <2>1. counter \in Nat /\ \A x \in StorageJob : x.id \in Nat
      BY <1>1 DEF TransportTypes, StorageJob
    <2>2. ASSUME NEW x \in StorageJob, InSeq(x, storageQueue'), Minted(x)
          PROVE  x.id < counter' /\ ~Used(x.id)'
      <3>1. x = j \/ (x.id < counter /\ ~Used(x.id))
        BY <1>4, <2>2 DEF TransportInv, IdInv
      <3> QED
        BY <1>8, <2>1, <3>1
    <2>3. \A n \in Nat : Used(n)' => n < counter'
      BY <1>8, <2>1 DEF TransportInv, IdInv
    <2> QED
      BY <1>4, <2>2, <2>3 DEF IdInv
  <1>13. DeliveryInv'
    BY <1>4, <1>5, <1>10 DEF TransportInv, DeliveryInv
  <1>14. OwnersInv' /\ KeptInv'
    BY <1>7, <1>9 DEF TransportInv, OwnersInv, KeptInv
  <1> QED
    BY <1>6, <1>11, <1>12, <1>13, <1>14 DEF TransportInv

\* nextBatchID: gives out an id that nothing else has.
LEMMA NextBatchIDInv ==
    ASSUME TransportInv, NextBatchID
    PROVE  TransportInv'
  <1>1. /\ TransportTypes /\ storageQueue # <<>> /\ Head(storageQueue).op = "nextBatchID"
        /\ UNCHANGED <<main, batches, uploading, requests, unsent, told, gone, orphans>>
        /\ counter \in Nat /\ counter' = counter + 1
    BY DEF NextBatchID, Storage, TransportInv, TransportTypes, inputs, history
  <1>2. PICK attempt \in Attempt : attempt = Head(storageQueue).attempt
    BY <1>1, HeadJobs
  <1>3. PICK i : i = Job("paths", attempt)
    OBVIOUS
  <1>4. i \in StorageJob /\ i.op = "paths"
    BY <1>3, JobFacts DEF StorageOps
  <1>5. PICK j : j = [i EXCEPT !.id = counter]
    OBVIOUS
  <1>6. j \in StorageJob /\ j.op = "paths" /\ j.id = counter
    BY <1>1, <1>4, <1>5 DEF StorageJob
  <1>7. StorageDone(<<j>>, <<>>)
    BY <1>2, <1>3, <1>5, Zenon DEF NextBatchID
  <1>8. ~Used(j.id)
    BY <1>1, <1>6 DEF TransportInv, IdInv
  <1>9. ASSUME NEW x, InSeq(x, Tail(storageQueue)) PROVE ~Clash(x, j)
    <2>1. x \in StorageJob /\ InSeq(x, storageQueue)
      <3>1. InSeq(x, storageQueue)
        BY <1>1, <1>9, TailFacts DEF TransportTypes
      <3> QED
        BY <1>1, <3>1 DEF TransportTypes, InSeq
    <2>2. Minted(x) => x.id < counter
      BY <2>1 DEF TransportInv, IdInv
    <2> QED
      BY <1>1, <1>6, <2>2 DEF Clash
  <1>10. counter' \in Nat /\ counter <= counter' /\ j.id < counter' /\ Minted(j)
    BY <1>1, <1>6 DEF Minted
  <1> QED
    BY <1>1, <1>6, <1>7, <1>8, <1>9, <1>10, MintStep

\* pathsForTarget: keeps the id.
LEMMA PathsForTargetInv ==
    ASSUME TransportInv, PathsForTarget
    PROVE  TransportInv'
  <1>1. /\ TransportTypes /\ Distinct(storageQueue) /\ storageQueue # <<>>
        /\ Head(storageQueue).op = "paths"
        /\ UNCHANGED <<main, batches, counter, uploading, requests, unsent, told, gone, orphans>>
        /\ counter \in Nat
    BY DEF PathsForTarget, Storage, TransportInv, IdInv, TransportTypes, files, inputs, history
  <1>2. PICK job \in StorageJob : job = Head(storageQueue)
    BY <1>1, HeadJobs
  <1>3. InSeq(job, storageQueue) /\ job.op = "paths"
    BY <1>1, <1>2, HeadJobs
  <1>4. PICK paths : paths = {e \in main : /\ e.target = job.attempt.target
                                           /\ e.qos \in QosTiers(job.attempt.conditions)}
    OBVIOUS
  <1>5. paths \subseteq Events
    BY <1>1, <1>4 DEF TransportTypes
  <1>6. PICK i : i = [job EXCEPT !.op = "move"]
    OBVIOUS
  <1>7. i \in StorageJob /\ i.op = "move" /\ i.id = job.id
    BY <1>6 DEF StorageJob, StorageOps
  <1>8. PICK j : j = [i EXCEPT !.events = paths]
    OBVIOUS
  <1>9. j \in StorageJob /\ j.op = "move" /\ j.id = job.id
    BY <1>5, <1>7, <1>8 DEF StorageJob
  <1>10. StorageDone(<<j>>, <<>>)
    BY <1>2, <1>4, <1>6, <1>8, Zenon DEF PathsForTarget
  <1>11. Minted(j) /\ Minted(job)
    BY <1>3, <1>9 DEF Minted
  <1>12. j.id < counter /\ ~Used(j.id)
    BY <1>3, <1>9, <1>11 DEF TransportInv, IdInv
  <1>13. \A x : InSeq(x, Tail(storageQueue)) => ~Clash(x, j)
    <2>1. \A x : InSeq(x, Tail(storageQueue)) => ~Clash(job, x)
      BY <1>1, <1>2, DistinctTail DEF TransportTypes
    <2> QED
      BY <1>9, <1>11, <2>1 DEF Clash
  <1>14. counter' \in Nat /\ counter <= counter' /\ j.id < counter'
    BY <1>1, <1>12
  <1> QED
    BY <1>1, <1>9, <1>10, <1>11, <1>12, <1>13, <1>14, MintStep

\* onPathsForTargetComplete: makes the batch of the id, and the upload knows its
\* files.
LEMMA MoveIntoBatchInv ==
    ASSUME TransportInv, MoveIntoBatch
    PROVE  TransportInv'
  <1>1. /\ TransportTypes /\ Distinct(storageQueue) /\ storageQueue # <<>>
        /\ Head(storageQueue).op = "move"
        /\ UNCHANGED <<counter, uploading, requests, unsent, told, gone, orphans>>
    BY DEF MoveIntoBatch, Storage, TransportInv, IdInv, inputs, history
  <1>2. PICK job \in StorageJob : job = Head(storageQueue)
    BY <1>1, HeadJobs
  <1>3. InSeq(job, storageQueue) /\ job.op = "move"
    BY <1>1, <1>2, HeadJobs
  <1>4. PICK fs : fs = job.events \cap main
    OBVIOUS
  <1>5. fs \subseteq main /\ fs \subseteq Events /\ MoveFiles(job, fs)
    <2>1. MoveFiles(job, fs)
      BY <1>2, <1>4, Zenon DEF MoveIntoBatch
    <2> QED
      BY <1>1, <1>4, <2>1 DEF TransportTypes
  <1>6. /\ main' \in SUBSET Events /\ batches' \in SUBSET Batch /\ Placed'
        /\ \A b \in batches' : \/ b \in batches
                               \/ b.id = job.id /\ b.events = fs /\ fs # {}
        /\ \A e : Filed(e)' <=> Filed(e)
        /\ job.id < counter /\ ~Used(job.id)
    BY <1>3, <1>5, MoveFilesFacts
  <1>7. PICK i : i = [job EXCEPT !.op = "send"]
    OBVIOUS
  <1>8. i \in UploaderJob /\ i.op = "send" /\ i.id = job.id
    BY <1>7 DEF StorageJob, UploaderJob, UploaderOps
  <1>9. PICK j : j = [i EXCEPT !.events = fs]
    OBVIOUS
  <1>10. j \in UploaderJob /\ j.op = "send" /\ j.id = job.id /\ j.events = fs
    BY <1>5, <1>8, <1>9 DEF UploaderJob
  <1>11. PICK g : g = IF fs = {} THEN <<Nothing>> ELSE <<j>>
    OBVIOUS
  <1>12. /\ g \in Seq(UploaderJob)
         /\ \A y : InSeq(y, g) => y.op \in Harmless \/ y = j
         /\ fs # {} => InSeq(j, g)
    BY <1>10, <1>11, NothingFacts, OneFacts
  <1>13. StorageDone(<<>>, g)
    BY <1>2, <1>4, <1>7, <1>9, <1>11, Zenon DEF MoveIntoBatch
  <1>14. PICK t : t = Tail(storageQueue)
    OBVIOUS
  <1>15. /\ storageQueue' \in Seq(StorageJob) /\ uploaderQueue' \in Seq(UploaderJob)
         /\ Distinct(storageQueue')
         /\ \A x : InSeq(x, storageQueue') => InSeq(x, storageQueue) /\ ~Clash(job, x)
         /\ \A x : InSeq(x, storageQueue) => x = job \/ InSeq(x, storageQueue')
         /\ \A x : InSeq(x, uploaderQueue') <=> (InSeq(x, uploaderQueue) \/ InSeq(x, g))
    <2>1. PICK f : f = <<>>
      OBVIOUS
    <2>2. f \in Seq(StorageJob) /\ Distinct(f) /\ \A x : ~InSeq(x, f)
      BY <2>1, EmptyFacts, DistinctFew
    <2>3. StorageDone(f, g)
      BY <1>13, <2>1
    <2>4. /\ storageQueue' \in Seq(StorageJob) /\ uploaderQueue' \in Seq(UploaderJob)
          /\ Distinct(storageQueue')
          /\ \A x : InSeq(x, storageQueue') => InSeq(x, storageQueue)
          /\ \A x : InSeq(x, storageQueue) => x = job \/ InSeq(x, storageQueue')
          /\ \A x : InSeq(x, uploaderQueue') <=> (InSeq(x, uploaderQueue) \/ InSeq(x, g))
      BY <1>1, <1>2, <1>12, <2>2, <2>3, StorageDoneFacts
    <2>5. \A x : InSeq(x, t) => ~Clash(job, x)
      BY <1>1, <1>2, <1>14, DistinctTail DEF TransportTypes
    <2>6. t \in Seq(StorageJob)
      BY <1>1, <1>14, TailFacts DEF TransportTypes
    <2>7. storageQueue' = t \o f
      BY <1>14, <2>3 DEF StorageDone
    <2>8. \A x : InSeq(x, storageQueue') => InSeq(x, t)
      BY <2>2, <2>6, <2>7, ConcatFacts
    <2> QED
      BY <2>4, <2>5, <2>8
  <1>16. \A op \in Harmless : op \notin {"paths", "move", "store", "remove", "send", "response"}
    BY DEF Harmless
  <1>17. TransportTypes'
    BY <1>1, <1>6, <1>15 DEF TransportTypes
  <1>18. \A y : InSeq(y, uploaderQueue') /\ y.op \in {"send", "response"} =>
             InSeq(y, uploaderQueue) \/ y = j
    BY <1>12, <1>15, <1>16
  <1>19. \A n : Used(n)' => Used(n) \/ n = job.id
    BY <1>1, <1>6, <1>10, <1>15, <1>18, Zenon DEF Used
  <1>20. \A b \in batches : b.id # job.id
    BY <1>6 DEF Used
  <1>21. \A n, S : HoldsOnly(n, S) /\ n # job.id => HoldsOnly(n, S)'
    BY <1>6 DEF HoldsOnly
  <1>22. FileInv'
    BY <1>1, <1>6, <1>15 DEF TransportInv, FileInv
  <1>23. IdInv'
    <2>1. ASSUME NEW x \in StorageJob, InSeq(x, storageQueue'), Minted(x)
          PROVE  x.id < counter' /\ ~Used(x.id)'
      <3>1. x.id # job.id
        BY <1>3, <1>15, <2>1 DEF Clash, Minted
      <3>2. x.id < counter /\ ~Used(x.id)
        BY <1>15, <2>1 DEF TransportInv, IdInv
      <3> QED
        BY <1>1, <1>19, <3>1, <3>2
    <2>2. \A n \in Nat : Used(n)' => n < counter'
      BY <1>1, <1>6, <1>19 DEF TransportInv, IdInv
    <2> QED
      BY <1>15, <2>1, <2>2 DEF IdInv
  <1>24. DeliveryInv'
    <2>1. ASSUME NEW r \in requests'
          PROVE  /\ HoldsOnly(r.id, r.events)'
                 /\ r.state \in {"ok", "refused"} => r.events \subseteq gone'
      <3>1. r \in requests
        BY <1>1
      <3>2. r.id # job.id
        BY <1>6, <3>1 DEF Used
      <3> QED
        BY <1>1, <1>21, <3>1, <3>2 DEF TransportInv, DeliveryInv
    <2>2. ASSUME NEW y \in UploaderJob, InSeq(y, uploaderQueue')
          PROVE  /\ y.op = "send" => HoldsOnly(y.id, y.events)'
                 /\ y.op = "response" /\ y.flag => HoldsOnly(y.id, gone)'
      <3>1. CASE y = j
        <4>1. HoldsOnly(j.id, fs)'
          BY <1>6, <1>10, <1>20 DEF HoldsOnly
        <4> QED
          BY <1>10, <3>1, <4>1
      <3>2. CASE y # j /\ y.op \in {"send", "response"}
        <4>1. InSeq(y, uploaderQueue)
          BY <1>18, <2>2, <3>2
        <4>2. y.id # job.id
          BY <1>6, <3>2, <4>1 DEF Used
        <4> QED
          BY <1>1, <1>21, <4>1, <4>2 DEF TransportInv, DeliveryInv
      <3> QED
        BY <3>1, <3>2
    <2>3. ASSUME NEW x \in StorageJob, InSeq(x, storageQueue'), x.op = "remove", x.flag
          PROVE  HoldsOnly(x.id, gone)'
      <3>1. InSeq(x, storageQueue)
        BY <1>15, <2>3
      <3>2. x.id # job.id
        BY <1>6, <2>3, <3>1 DEF Used
      <3> QED
        BY <1>1, <1>21, <2>3, <3>1, <3>2 DEF TransportInv, DeliveryInv
    <2> QED
      BY <2>1, <2>2, <2>3 DEF DeliveryInv
  <1>25. OwnersInv'
    <2> SUFFICES ASSUME NEW b \in batches' PROVE Owned(b.id)'
      BY DEF OwnersInv
    <2>1. CASE b \in batches
      <3>1. Owned(b.id)
        BY <2>1 DEF TransportInv, OwnersInv
      <3> QED
        BY <1>1, <1>3, <1>15, <3>1, Zenon DEF Owned
    <2>2. CASE b.id = job.id /\ fs # {}
      <3>1. InSeq(j, uploaderQueue') /\ j.id = b.id
        BY <1>10, <1>12, <1>15, <2>2
      <3> QED
        BY <1>10, <3>1, Zenon DEF Owned
    <2> QED
      BY <1>6, <2>1, <2>2
  <1>26. KeptInv'
    BY <1>1, <1>6 DEF TransportInv, KeptInv
  <1> QED
    BY <1>17, <1>22, <1>23, <1>24, <1>25, <1>26 DEF TransportInv

-----------------------------------------------------------------------------
(* Requests and their answers                                              *)

\* Steps that pass a batch id on.
LEMMA PassStep ==
    ASSUME TransportInv, TransportTypes', Distinct(storageQueue'), DeliveryInv',
           \A x : InSeq(x, storageQueue') => InSeq(x, storageQueue) \/ x.op = "remove",
           \A n : Used(n)' => Used(n), \A n : Owned(n) => Owned(n)', gone \subseteq gone',
           UNCHANGED <<main, batches, counter, unsent, told>>
    PROVE  TransportInv'
  <1>1. \A z : Filed(z)' <=> Filed(z)
    BY Zenon DEF Filed
  <1>2. FileInv'
    BY <1>1 DEF TransportInv, FileInv, Placed
  <1>3. IdInv'
    BY DEF TransportInv, IdInv, Minted
  <1>4. OwnersInv' /\ KeptInv'
    BY <1>1 DEF TransportInv, OwnersInv, KeptInv
  <1> QED
    BY <1>2, <1>3, <1>4 DEF TransportInv

\* sendURLRequestForBatchWithID:.
LEMMA SendRequestInv ==
    ASSUME TransportInv, SendRequest
    PROVE  TransportInv'
  <1>1. /\ TransportTypes /\ Distinct(storageQueue) /\ uploaderQueue # <<>>
        /\ Head(uploaderQueue).op = "send" /\ UploaderDone(<<>>, <<>>)
        /\ UNCHANGED <<main, batches, counter, uploading, unsent, told, gone, orphans>>
    BY DEF SendRequest, Uploader, TransportInv, IdInv, files, inputs, history
  <1>2. PICK job \in UploaderJob : job = Head(uploaderQueue)
    BY <1>1, HeadJobs
  <1>3. InSeq(job, uploaderQueue) /\ job.op = "send" /\ job.attempt \in Attempt
    BY <1>1, <1>2, HeadJobs
  <1>4. PICK q : q = [id |-> job.id, target |-> job.attempt.target, events |-> job.events,
                      state |-> "sent"]
    OBVIOUS
  <1>5. q \in Upload /\ q.id = job.id /\ q.events = job.events /\ q.state = "sent"
    <2>1. job.attempt.target \in Target /\ job.id \in Nat /\ job.events \subseteq Events
      BY <1>3 DEF Attempt, UploaderJob
    <2> QED
      BY <1>4, <2>1 DEF Upload
  <1>6. requests' = requests \cup {q}
    BY <1>2, <1>4, Zenon DEF SendRequest
  <1>7. /\ storageQueue' \in Seq(StorageJob) /\ uploaderQueue' \in Seq(UploaderJob)
        /\ Distinct(storageQueue')
        /\ \A x : InSeq(x, uploaderQueue') => InSeq(x, uploaderQueue)
        /\ \A x : InSeq(x, uploaderQueue) => x = job \/ InSeq(x, uploaderQueue')
        /\ \A x : InSeq(x, storageQueue') <=> InSeq(x, storageQueue)
    <2>1. PICK f : f = <<>>
      OBVIOUS
    <2>2. f \in Seq(StorageJob) /\ f \in Seq(UploaderJob) /\ \A x : ~InSeq(x, f)
      BY <2>1, EmptyFacts
    <2>3. UploaderDone(f, f)
      BY <1>1, <2>1
    <2> QED
      BY <1>1, <1>2, <2>2, <2>3, UploaderDoneFacts
  <1>8. TransportTypes'
    BY <1>1, <1>5, <1>6, <1>7 DEF TransportTypes
  <1>9. \A n : Used(n)' => Used(n)
    BY <1>1, <1>3, <1>5, <1>6, <1>7 DEF Used
  <1>10. \A n : Owned(n) => Owned(n)'
    BY <1>1, <1>5, <1>6, <1>7 DEF Owned
  <1>11. \A n, fs : HoldsOnly(n, fs)' <=> HoldsOnly(n, fs)
    BY <1>1, Zenon DEF HoldsOnly
  <1>12. HoldsOnly(q.id, q.events)
    BY <1>3, <1>5 DEF TransportInv, DeliveryInv
  <1>13. DeliveryInv'
    BY <1>1, <1>5, <1>6, <1>7, <1>11, <1>12 DEF TransportInv, DeliveryInv
  <1> QED
    BY <1>1, <1>7, <1>8, <1>9, <1>10, <1>13, PassStep

\* handleURLResponse: deletes the batch only if the backend has answered for it.
LEMMA HandleResponseInv ==
    ASSUME TransportInv, HandleResponse
    PROVE  TransportInv'
  <1>1. /\ TransportTypes /\ Distinct(storageQueue) /\ uploaderQueue # <<>>
        /\ Head(uploaderQueue).op = "response"
        /\ UNCHANGED <<main, batches, counter, requests, unsent, told, gone, orphans>>
        /\ uploading' \in BOOLEAN
    BY DEF HandleResponse, Uploader, TransportInv, IdInv, files, inputs, history
  <1>2. PICK job \in UploaderJob : job = Head(uploaderQueue)
    BY <1>1, HeadJobs
  <1>3. InSeq(job, uploaderQueue) /\ job.op = "response" /\ job.id \in Nat /\ job.flag \in BOOLEAN
    BY <1>1, <1>2, HeadJobs DEF UploaderJob
  <1>4. PICK k : k = RemoveJob(job.id, job.flag)
    OBVIOUS
  <1>5. k \in StorageJob /\ k.op = "remove" /\ k.id = job.id /\ k.flag = job.flag
    BY <1>3, <1>4, RemoveJobFacts
  <1>6. UploaderDone(<<k>>, <<>>)
    BY <1>2, <1>4, Zenon DEF HandleResponse
  <1>7. /\ storageQueue' \in Seq(StorageJob) /\ uploaderQueue' \in Seq(UploaderJob)
        /\ Distinct(storageQueue')
        /\ \A x : InSeq(x, uploaderQueue') => InSeq(x, uploaderQueue)
        /\ \A x : InSeq(x, uploaderQueue) => x = job \/ InSeq(x, uploaderQueue')
        /\ \A x : InSeq(x, storageQueue') <=> (InSeq(x, storageQueue) \/ x = k)
    <2>1. PICK f, g : f = <<k>> /\ g = <<>>
      OBVIOUS
    <2>2. /\ f \in Seq(StorageJob) /\ \A x : InSeq(x, f) <=> x = k
          /\ g \in Seq(UploaderJob) /\ \A x : ~InSeq(x, g)
      BY <1>5, <2>1, OneFacts, EmptyFacts
    <2>3. \A x : InSeq(x, f) => ~Minted(x) /\ x.op # "store"
      BY <1>5, <2>2 DEF Minted
    <2>4. UploaderDone(f, g)
      BY <1>6, <2>1
    <2> QED
      BY <1>1, <1>2, <2>2, <2>3, <2>4, UploaderDoneFacts
  <1>8. TransportTypes'
    BY <1>1, <1>7 DEF TransportTypes
  <1>9. \A n : Used(n)' => Used(n)
    BY <1>1, <1>3, <1>5, <1>7 DEF Used
  <1>10. \A n : Owned(n) => Owned(n)'
    BY <1>1, <1>5, <1>7 DEF Owned
  <1>11. \A n, fs : HoldsOnly(n, fs)' <=> HoldsOnly(n, fs)
    BY <1>1, Zenon DEF HoldsOnly
  <1>12. k.flag => HoldsOnly(k.id, gone)
    BY <1>3, <1>5 DEF TransportInv, DeliveryInv
  <1>13. DeliveryInv'
    BY <1>1, <1>5, <1>7, <1>11, <1>12 DEF TransportInv, DeliveryInv
  <1>14. gone \subseteq gone' /\ UNCHANGED <<main, batches, counter, unsent, told>>
    BY <1>1
  <1>15. \A x : InSeq(x, storageQueue') => InSeq(x, storageQueue) \/ x.op = "remove"
    BY <1>5, <1>7
  <1> QED
    BY <1>7, <1>8, <1>9, <1>10, <1>13, <1>14, <1>15, PassStep

\* The backend takes or refuses the events of a request.
LEMMA ReceiveInv ==
    ASSUME TransportInv, NEW r \in requests, NEW verdict \in {"ok", "refused", "retry"},
           Receive(r, verdict)
    PROVE  TransportInv'
  <1>1. TransportTypes /\ Distinct(storageQueue)
    BY DEF TransportInv, IdInv
  <1>2. PICK q : q = [r EXCEPT !.state = verdict]
    OBVIOUS
  <1>3. r \in Upload
    BY <1>1 DEF TransportTypes
  <1>4. q \in Upload /\ q.id = r.id /\ q.events = r.events /\ q.state = verdict
    BY <1>2, <1>3 DEF Upload
  <1>5. /\ requests' = (requests \ {r}) \cup {q}
        /\ UNCHANGED <<main, batches, counter, storageQueue, uploaderQueue, uploading, unsent,
                       told, orphans>>
    BY <1>2, Zenon DEF Receive, files, inputs
  <1>6. gone \subseteq gone' /\ (verdict \in {"ok", "refused"} => r.events \subseteq gone')
    BY DEF Receive
  <1>7. TransportTypes'
    BY <1>1, <1>4, <1>5 DEF TransportTypes
  <1>8. \A n : Used(n)' => Used(n)
    BY <1>4, <1>5 DEF Used
  <1>9. \A n : Owned(n) => Owned(n)'
    BY <1>4, <1>5 DEF Owned
  <1>10. \A n, S, T : HoldsOnly(n, S) /\ S \subseteq T => HoldsOnly(n, T)'
    BY <1>5 DEF HoldsOnly
  <1>11. DeliveryInv'
    <2>1. \A z \in requests : /\ HoldsOnly(z.id, z.events)
                              /\ z.state \in {"ok", "refused"} => z.events \subseteq gone
      BY DEF TransportInv, DeliveryInv
    <2>2. ASSUME NEW z \in requests'
          PROVE  /\ HoldsOnly(z.id, z.events)'
                 /\ z.state \in {"ok", "refused"} => z.events \subseteq gone'
      <3>1. CASE z = q
        BY <1>4, <1>6, <1>10, <2>1, <3>1
      <3>2. CASE z \in requests
        BY <1>6, <1>10, <2>1, <3>2
      <3> QED
        BY <1>5, <3>1, <3>2
    <2>3. \A y \in UploaderJob : InSeq(y, uploaderQueue') =>
              /\ y.op = "send" => HoldsOnly(y.id, y.events)'
              /\ y.op = "response" /\ y.flag => HoldsOnly(y.id, gone)'
      BY <1>5, <1>6, <1>10 DEF TransportInv, DeliveryInv
    <2>4. \A x \in StorageJob : InSeq(x, storageQueue') =>
              (x.op = "remove" /\ x.flag => HoldsOnly(x.id, gone)')
      BY <1>5, <1>6, <1>10 DEF TransportInv, DeliveryInv
    <2> QED
      BY <2>2, <2>3, <2>4 DEF DeliveryInv
  <1>12. /\ Distinct(storageQueue') /\ UNCHANGED <<main, batches, counter, unsent, told>>
         /\ \A x : InSeq(x, storageQueue') => InSeq(x, storageQueue) \/ x.op = "remove"
    BY <1>1, <1>5
  <1> QED
    BY <1>6, <1>7, <1>8, <1>9, <1>11, <1>12, PassStep

\* A request ends with success only if the backend has answered for its events.
LEMMA CompleteInv ==
    ASSUME TransportInv, NEW r \in requests, NEW flag \in BOOLEAN, Complete(r, flag),
           flag => r.state \in {"ok", "refused"}
    PROVE  TransportInv'
  <1>1. TransportTypes /\ Distinct(storageQueue)
    BY DEF TransportInv, IdInv
  <1>2. r \in Upload
    BY <1>1 DEF TransportTypes
  <1>3. PICK i : i = Job("response", [target |-> r.target, conditions |-> "wifi"])
    OBVIOUS
  <1>4. i \in UploaderJob /\ i.op = "response"
    <2>1. [target |-> r.target, conditions |-> "wifi"] \in Attempt
      BY <1>2 DEF Upload, Attempt, Conditions
    <2> QED
      BY <1>3, <2>1, JobFacts DEF UploaderOps
  <1>5. PICK k : k = [i EXCEPT !.id = r.id]
    OBVIOUS
  <1>6. k \in UploaderJob /\ k.op = "response" /\ k.id = r.id
    BY <1>2, <1>4, <1>5 DEF Upload, UploaderJob
  <1>7. PICK j : j = [k EXCEPT !.flag = flag]
    OBVIOUS
  <1>8. j \in UploaderJob /\ j.op = "response" /\ j.id = r.id /\ j.flag = flag
    BY <1>6, <1>7 DEF UploaderJob
  <1>9. /\ requests' = requests \ {r} /\ uploaderQueue' = Append(uploaderQueue, j)
        /\ UNCHANGED <<main, batches, counter, storageQueue, uploading, unsent, told, gone,
                       orphans>>
    BY <1>3, <1>5, <1>7, Zenon DEF Complete, files, inputs, history
  <1>10. /\ uploaderQueue' \in Seq(UploaderJob)
         /\ \A y : InSeq(y, uploaderQueue') <=> (InSeq(y, uploaderQueue) \/ y = j)
    BY <1>1, <1>8, <1>9, AppendFacts DEF TransportTypes
  <1>11. TransportTypes'
    BY <1>1, <1>9, <1>10 DEF TransportTypes
  <1>12. \A n : Used(n)' => Used(n)
    BY <1>8, <1>9, <1>10 DEF Used
  <1>13. \A n : Owned(n) => Owned(n)'
    BY <1>8, <1>9, <1>10 DEF Owned
  <1>14. \A n, fs : HoldsOnly(n, fs)' <=> HoldsOnly(n, fs)
    BY <1>9, Zenon DEF HoldsOnly
  <1>15. flag => HoldsOnly(r.id, gone)
    BY DEF TransportInv, DeliveryInv, HoldsOnly
  <1>16. DeliveryInv'
    BY <1>8, <1>9, <1>10, <1>14, <1>15 DEF TransportInv, DeliveryInv
  <1>17. /\ Distinct(storageQueue') /\ gone \subseteq gone'
         /\ UNCHANGED <<main, batches, counter, unsent, told>>
         /\ \A x : InSeq(x, storageQueue') => InSeq(x, storageQueue) \/ x.op = "remove"
    BY <1>1, <1>9
  <1> QED
    BY <1>11, <1>12, <1>13, <1>16, <1>17, PassStep

\* A request is answered or fails.
LEMMA RequestEndsInv ==
    ASSUME TransportInv, NEW r \in requests, Respond(r) \/ Break(r)
    PROVE  TransportInv'
  <1>1. r.state \in {"sent", "ok", "refused", "retry"}
    BY DEF TransportInv, TransportTypes, Upload
  <1>2. CASE Respond(r)
    <2>1. PICK flag \in BOOLEAN : flag = (r.state # "retry")
      OBVIOUS
    <2>2. Complete(r, flag) /\ r.state # "sent"
      BY <1>2, <2>1, Zenon DEF Respond
    <2>3. flag => r.state \in {"ok", "refused"}
      BY <1>1, <2>1, <2>2
    <2> QED
      BY <2>2, <2>3, CompleteInv
  <1>3. CASE Break(r)
    <2>1. PICK flag \in BOOLEAN : flag = FALSE
      OBVIOUS
    <2>2. Complete(r, flag)
      BY <1>3, <2>1 DEF Break
    <2>3. flag => r.state \in {"ok", "refused"}
      BY <2>1
    <2> QED
      BY <2>2, <2>3, CompleteInv
  <1> QED
    BY <1>2, <1>3

\* The process ends, maybe with some of the files of a storage job moved.
LEMMA CrashInv ==
    ASSUME TransportInv, NEW fs \in SUBSET Events, Crash(fs)
    PROVE  TransportInv'
  <1>1. TransportTypes /\ Placed /\ counter \in Nat
    BY DEF TransportInv, TransportTypes, FileInv
  <1>2. /\ UNCHANGED <<counter, unsent, told, gone>> /\ uploading' = FALSE /\ requests' = {}
        /\ storageQueue' = <<>> /\ uploaderQueue' = <<>> /\ orphans' = {b.id : b \in batches'}
    BY DEF Crash, inputs
  <1>3. /\ \A x : ~InSeq(x, storageQueue') /\ ~InSeq(x, uploaderQueue')
        /\ storageQueue' \in Seq(StorageJob) /\ uploaderQueue' \in Seq(UploaderJob)
        /\ Distinct(storageQueue')
    BY <1>2, EmptyFacts, DistinctFew
  <1>4. \A b \in batches : b.id < counter
    BY <1>1 DEF TransportInv, IdInv, Used, TransportTypes, Batch
  <1>5. /\ main' \in SUBSET Events /\ batches' \in SUBSET Batch /\ Placed'
        /\ \A b \in batches' : b.id < counter
        /\ \A e : Filed(e)' => Filed(e)
        /\ \A e : Filed(e) => Filed(e)' \/ e \in gone
    <2>1. CASE Storage("remove") /\ fs \subseteq FilesOf(Head(storageQueue).id)
               /\ RemoveFiles(Head(storageQueue), fs)
      <3>1. PICK job \in StorageJob : job = Head(storageQueue)
        BY <1>1, <2>1, HeadJobs DEF Storage
      <3>2. InSeq(job, storageQueue) /\ job.op = "remove"
        BY <1>1, <2>1, <3>1, HeadJobs DEF Storage
      <3>3. fs \subseteq FilesOf(job.id) /\ RemoveFiles(job, fs)
        BY <2>1, <3>1
      <3>4. /\ main' \in SUBSET Events /\ batches' \in SUBSET Batch /\ Placed'
            /\ \A b \in batches' : \E c \in batches :
                   /\ b.id = c.id /\ b.events \subseteq c.events
                   /\ b.id = job.id => b.events = c.events \ fs
                   /\ b.events # {}
            /\ \A e : Filed(e)' => Filed(e)
            /\ \A e : Filed(e) => Filed(e)' \/ e \in gone
        BY <3>2, <3>3, RemoveFilesFacts
      <3> QED
        BY <1>4, <3>4
    <2>2. CASE Storage("move") /\ fs \subseteq Head(storageQueue).events \cap main
               /\ MoveFiles(Head(storageQueue), fs)
      <3>1. PICK job \in StorageJob : job = Head(storageQueue)
        BY <1>1, <2>2, HeadJobs DEF Storage
      <3>2. InSeq(job, storageQueue) /\ job.op = "move"
        BY <1>1, <2>2, <3>1, HeadJobs DEF Storage
      <3>3. fs \subseteq main /\ MoveFiles(job, fs)
        BY <2>2, <3>1
      <3>4. /\ main' \in SUBSET Events /\ batches' \in SUBSET Batch /\ Placed'
            /\ \A b \in batches' : \/ b \in batches
                                   \/ b.id = job.id /\ b.events = fs /\ fs # {}
            /\ \A e : Filed(e)' <=> Filed(e)
            /\ job.id < counter /\ ~Used(job.id)
        BY <3>2, <3>3, MoveFilesFacts
      <3> QED
        BY <1>4, <3>4
    <2>3. CASE UNCHANGED <<main, batches>>
      <3>1. \A e : Filed(e)' <=> Filed(e)
        BY <2>3, Zenon DEF Filed
      <3>2. main' \in SUBSET Events /\ batches' \in SUBSET Batch /\ Placed'
        BY <1>1, <2>3 DEF TransportTypes, Placed
      <3> QED
        BY <1>4, <2>3, <3>1, <3>2
    <2> QED
      BY <2>1, <2>2, <2>3 DEF Crash
  <1>6. TransportTypes'
    BY <1>1, <1>2, <1>3, <1>5 DEF TransportTypes
  <1>7. FileInv'
    BY <1>2, <1>3, <1>5 DEF TransportInv, FileInv
  <1>8. IdInv'
    <2>1. \A n : Used(n)' => n < counter'
      BY <1>2, <1>3, <1>5 DEF Used
    <2> QED
      BY <1>3, <2>1 DEF IdInv
  <1>9. DeliveryInv'
    BY <1>2, <1>3 DEF DeliveryInv
  <1>10. OwnersInv'
    BY <1>2 DEF OwnersInv, Owned
  <1>11. KeptInv'
    BY <1>2, <1>5 DEF TransportInv, KeptInv
  <1> QED
    BY <1>6, <1>7, <1>8, <1>9, <1>10, <1>11 DEF TransportInv

-----------------------------------------------------------------------------
(* The component                                                           *)

\* Nothing is stored at first.
LEMMA InitInv == Init => TransportInv
  <1> SUFFICES ASSUME Init PROVE TransportInv
    OBVIOUS
  <1>1. /\ main = {} /\ batches = {} /\ counter = 0 /\ uploading = FALSE /\ requests = {}
        /\ unsent = Events /\ told = {} /\ storageQueue = <<>> /\ uploaderQueue = <<>>
    BY DEF Init
  <1>2. /\ \A x : ~InSeq(x, storageQueue) /\ ~InSeq(x, uploaderQueue)
        /\ storageQueue \in Seq(StorageJob) /\ uploaderQueue \in Seq(UploaderJob)
        /\ Distinct(storageQueue)
    BY <1>1, EmptyFacts, DistinctFew
  <1>3. TransportTypes
    BY <1>1, <1>2 DEF TransportTypes
  <1>4. FileInv
    BY <1>1, <1>2 DEF FileInv, Placed, Filed
  <1>5. IdInv
    BY <1>1, <1>2 DEF IdInv, Used
  <1>6. DeliveryInv /\ OwnersInv /\ KeptInv
    BY <1>1, <1>2 DEF DeliveryInv, OwnersInv, KeptInv
  <1> QED
    BY <1>3, <1>4, <1>5, <1>6 DEF TransportInv

\* Every step keeps TransportInv.
LEMMA NextInv == TransportInv /\ [Next]_vars => TransportInv'
  <1> SUFFICES ASSUME TransportInv, [Next]_vars PROVE TransportInv'
    OBVIOUS
  <1>1. CASE \E e \in Events : SendEvent(e)
    BY <1>1, SendEventInv
  <1>2. CASE \E conditions \in {"wifi", "mobile"}, order \in SetToSeqs(Targets) :
                TimerFires(conditions, order)
    BY <1>2, TimerFiresInv
  <1>3. CASE Foreground
    BY <1>3, ForegroundInv
  <1>4. CASE StorageStep
    <2>1. CASE \E connected \in BOOLEAN : StoreEvent(connected)
      BY <2>1, StoreEventInv
    <2>2. CASE RemoveBatch
      BY <2>2, RemoveBatchInv
    <2>3. CASE BatchIDs
      BY <2>3, BatchIDsInv
    <2>4. CASE HasEvents
      BY <2>4, HasEventsInv
    <2>5. CASE NextBatchID
      BY <2>5, NextBatchIDInv
    <2>6. CASE PathsForTarget
      BY <2>6, PathsForTargetInv
    <2>7. CASE MoveIntoBatch
      BY <2>7, MoveIntoBatchInv
    <2>8. CASE \E ids \in SUBSET {b.id : b \in batches}, expired \in SUBSET Events :
                  CheckForExpirations(ids, expired)
      BY <2>8, CheckForExpirationsInv
    <2> QED
      BY <1>4, <2>1, <2>2, <2>3, <2>4, <2>5, <2>6, <2>7, <2>8 DEF StorageStep
  <1>5. CASE UploaderStep
    BY <1>5, UploadTargetInv, BatchesRemovedInv, BatchToUploadInv, NoEventsSelectedInv,
       SendRequestInv, HandleResponseInv DEF UploaderStep
  <1>6. CASE NetworkStep
    BY <1>6, ReceiveInv, RequestEndsInv DEF NetworkStep
  <1>7. CASE \E w \in {"cct", "fll"} : TimePasses(w)
    BY <1>7, ClockInv DEF TimePasses
  <1>8. CASE \E fs \in SUBSET Events : Crash(fs)
    BY <1>8, CrashInv
  <1>9. CASE UNCHANGED vars
    BY <1>9, ClockInv DEF vars
  <1> QED
    BY <1>1, <1>2, <1>3, <1>4, <1>5, <1>6, <1>7, <1>8, <1>9 DEF Next

\* TransportInv is an invariant of the component.
LEMMA TransportInvariant == Spec => []TransportInv
  BY InitInv, NextInv, PTL DEF Spec

\* The files, queues and requests have their types, and no file is in two places,
\* through every interleaving of uploads, expirations and crashes.
THEOREM FilesInOnePlace == Spec => []TransportTypeOK
  <1>1. TransportInv => TransportTypeOK
    BY TransportConsequences
  <1> QED
    BY <1>1, TransportInvariant, PTL

\* An event that storeEvent: has reported as written stays in a file until the
\* backend has answered for it or it has expired, also if the process ends
\* halfway through the files of a batch.
THEOREM EventsAreKept == Spec => []NoEventLost
  <1>1. TransportInv => NoEventLost
    BY TransportConsequences
  <1> QED
    BY <1>1, TransportInvariant, PTL

\* Unless the process has ended, an upload or a due removal takes care of every
\* batch that onPathsForTargetComplete has made.
THEOREM BatchesAreOwned == Spec => []BatchesHaveOwners
  <1>1. TransportInv => BatchesHaveOwners
    BY TransportConsequences
  <1> QED
    BY <1>1, TransportInvariant, PTL
=============================================================================
