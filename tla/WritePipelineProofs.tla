------------------------ MODULE WritePipelineProofs ------------------------
(***************************************************************************)
(* Proofs about WritePipeline, for every set of users, every pipeline      *)
(* capacity and every bound on writes and faults.                          *)
(***************************************************************************)
EXTENDS WritePipeline, SequenceTheorems, WellFoundedInduction, TLAPS

-----------------------------------------------------------------------------
(* Mutation queues                                                         *)

\* What it means to be a sequence of batches.
LEMMA BatchSeq ==
    ASSUME NEW q \in Seq(Batch)
    PROVE  /\ Len(q) \in Nat
           /\ \A i \in 1..Len(q) : q[i] \in Batch
           /\ \A i \in 1..Len(q) : q[i].id \in Nat /\ q[i].w \in Nat
<1>1. Len(q) \in Nat /\ \A i \in 1..Len(q) : q[i] \in Batch
  OBVIOUS
<1> QED
  BY <1>1 DEF Batch

\* Concatenation of sequences of batches.
LEMMA ConcatBatches ==
    ASSUME NEW s \in Seq(Batch), NEW t \in Seq(Batch)
    PROVE  /\ s \o t \in Seq(Batch)
           /\ Len(s \o t) = Len(s) + Len(t)
           /\ \A i \in 1..Len(s) : (s \o t)[i] = s[i]
           /\ \A i \in 1..Len(t) : (s \o t)[Len(s) + i] = t[i]
           /\ t = <<>> => s \o t = s
           /\ t # <<>> => s \o t # <<>>
  OBVIOUS

\* Batches are queued in the order of their ids.
OrderedQueue(q) ==
    \A i, j \in 1..Len(q) : i < j => q[i].id < q[j].id

\* After the k-th batch of a queue comes the one at position k + 1.
LEMMA NextAfterPrefix ==
    ASSUME NEW q \in Seq(Batch), OrderedQueue(q), NEW k \in 0..Len(q)
    PROVE  NextMutationBatchAfterBatchId(
               q, IF k = 0 THEN kBatchIdUnknown ELSE q[k].id) = k + 1
<1> DEFINE last == IF k = 0 THEN kBatchIdUnknown ELSE q[k].id
           P(i) == /\ \A j \in 1..(i - 1) : q[j].id <= last
                   /\ i <= Len(q) => q[i].id > last
<1>0. /\ Len(q) \in Nat
      /\ k \in Nat
      /\ \A i \in 1..Len(q) : q[i].id \in Nat
  BY BatchSeq
<1>1. k + 1 \in 1..(Len(q) + 1)
  BY <1>0
<1>2. P(k + 1)
  BY <1>0 DEF OrderedQueue, kBatchIdUnknown
<1>3. ASSUME NEW i \in 1..(Len(q) + 1), P(i)
      PROVE  i = k + 1
  <2>1. CASE i <= k
    BY <1>0, <1>3, <2>1 DEF OrderedQueue
  <2>2. CASE i > k + 1
    <3>1. k + 1 \in 1..Len(q) /\ k + 1 \in 1..(i - 1)
      BY <1>0, <2>2
    <3>2. q[k + 1].id <= last /\ q[k + 1].id \in Nat
      BY <1>0, <1>3, <3>1
    <3>3. k # 0 => q[k].id < q[k + 1].id /\ q[k].id \in Nat
      BY <1>0, <3>1 DEF OrderedQueue
    <3> QED
      BY <3>2, <3>3 DEF kBatchIdUnknown
  <2> QED
    BY <2>1, <2>2, <1>0
<1> HIDE DEF P
<1>4. (CHOOSE i \in 1..(Len(q) + 1) : P(i)) = k + 1
  BY <1>1, <1>2, <1>3
<1> QED
  BY <1>4 DEF P, NextMutationBatchAfterBatchId

\* Removing the first batch shifts the others down.
LEMMA RemoveFirst ==
    ASSUME NEW q \in Seq(Batch), OrderedQueue(q), q # <<>>
    PROVE  LET rest == RemoveMutationBatch(q, q[1])
           IN  /\ rest \in Seq(Batch)
               /\ Len(rest) = Len(q) - 1
               /\ \A i \in 1..Len(rest) : rest[i] = q[i + 1]
               /\ OrderedQueue(rest)
<1> DEFINE gap == CHOOSE i \in 1..Len(q) : q[i].id = q[1].id
<1>0. /\ Len(q) \in Nat \ {0}
      /\ \A i \in 1..Len(q) : q[i] \in Batch /\ q[i].id \in Nat
  BY BatchSeq, EmptySeq
<1>1. \A i \in 1..Len(q) : q[i].id = q[1].id => i = 1
  BY <1>0 DEF OrderedQueue
<1>2. gap = 1
  BY <1>0, <1>1
<1> HIDE DEF gap
<1>3. RemoveMutationBatch(q, q[1]) = [i \in 1..(Len(q) - 1) |-> q[i + 1]]
  <2>1. RemoveMutationBatch(q, q[1]) =
          [i \in 1..(Len(q) - 1) |-> IF i < gap THEN q[i] ELSE q[i + 1]]
    BY DEF gap, RemoveMutationBatch
  <2> QED
    BY <1>0, <1>2, <2>1
<1> SUFFICES ASSUME NEW rest, rest = [i \in 1..(Len(q) - 1) |-> q[i + 1]]
             PROVE  /\ rest \in Seq(Batch)
                    /\ Len(rest) = Len(q) - 1
                    /\ \A i \in 1..Len(rest) : rest[i] = q[i + 1]
                    /\ OrderedQueue(rest)
  BY <1>3
<1>4. \A i \in 1..(Len(q) - 1) : q[i + 1] \in Batch
  BY <1>0
<1>5. rest \in Seq(Batch) /\ Len(rest) = Len(q) - 1
  BY <1>0, <1>4
<1>6. \A i \in 1..Len(rest) : rest[i] = q[i + 1] /\ i + 1 \in 1..Len(q)
  BY <1>0, <1>5
<1>7. OrderedQueue(rest)
  BY <1>0, <1>5, <1>6 DEF OrderedQueue
<1> QED
  BY <1>5, <1>6, <1>7

-----------------------------------------------------------------------------
(* The inductive invariant of RemoteStore and its WriteStream, relative to *)
(* the current user's queue q.                                             *)

\* The pipeline is a prefix of q.
PrefixInv(r, q) ==
    /\ Len(r.pipe) <= Len(q)
    /\ \A i \in 1..Len(r.pipe) : r.pipe[i] = q[i]
    /\ Len(r.pipe) <= kMaxPendingWrites
    /\ ~r.net => r.pipe = <<>>

\* The sequence p ends with u, which begins after Len(d) elements of it.
Aligned(d, u, p) ==
    /\ Len(p) = Len(d) + Len(u)
    /\ \A i \in 1..Len(u) : u[i] = p[Len(d) + i]

\* What is on the wire is the handshake, or the pipeline.
WireInv(r) ==
    /\ ~IsOpen(r) => r.up = <<>> /\ r.down = <<>> /\ r.fin = "none"
    /\ IsOpen(r) /\ ~r.hs => Len(r.down) + Len(r.up) <= 1
    /\ IsOpen(r) /\ r.hs =>
         /\ Len(r.down) <= Len(r.pipe)
         /\ \A i \in 1..Len(r.down) : r.down[i] = r.pipe[i]
         /\ r.fin = "none" => Aligned(r.down, r.up, r.pipe)

\* Timers run only in the state they belong to, and a started stream that has
\* not completed the handshake has something to send.
TimerInv(r) ==
    /\ r.idle => IsOpen(r) /\ r.hs /\ r.pipe = <<>>
    /\ r.backoff <=> r.state = "Backoff"
    /\ IsStarted(r) => r.net
    /\ IsStarted(r) /\ ~(IsOpen(r) /\ r.hs) => r.pipe # <<>>

\* A token is on its way for the present incarnation of the stream exactly
\* while it is Starting.
AuthInv(r) ==
    /\ \A c \in r.auth : c <= r.closes
    /\ r.closes \in r.auth <=> r.state = "Starting"

\* What every operator on r preserves; hs may still be set while a closed
\* stream is being reported to RemoteStore.
CoreInv(r, q) ==
    /\ r \in RemoteStoreType
    /\ r.ok
    /\ PrefixInv(r, q)
    /\ WireInv(r)
    /\ TimerInv(r)
    /\ AuthInv(r)

\* Between two handlers.
StoreInv(r, q) ==
    /\ CoreInv(r, q)
    /\ r.hs => IsOpen(r)
    /\ r.net /\ r.pipe # <<>> => IsStarted(r)

\* s carries on the connection of r: the pipeline may have grown, and with it
\* the requests once the handshake is complete.
Carried(r, s) ==
    /\ s.hs = r.hs /\ s.down = r.down /\ s.fin = r.fin
    /\ Len(r.pipe) <= Len(s.pipe)
    /\ \A i \in 1..Len(r.pipe) : s.pipe[i] = r.pipe[i]
    /\ ~r.hs => s.up = r.up

\* The fields of a record of RemoteStoreType.
LEMMA RecordFields ==
    ASSUME NEW r \in RemoteStoreType
    PROVE  /\ r.net \in BOOLEAN /\ r.pipe \in Seq(Batch)
           /\ r.state \in StreamStates /\ r.hs \in BOOLEAN
           /\ r.idle \in BOOLEAN /\ r.backoff \in BOOLEAN /\ r.closes \in Nat
           /\ r.token \in Tokens \cup {NoToken} /\ r.auth \in SUBSET Nat
           /\ r.up \in Seq(Batch) /\ r.down \in Seq(Batch)
           /\ r.fin \in Errors \cup {"none"} /\ r.ok \in BOOLEAN
  BY DEF RemoteStoreType

\* A HARD_ASSERT whose condition holds changes nothing.
LEMMA HardAssertHolds ==
    ASSUME NEW r \in RemoteStoreType, r.ok, NEW c \in BOOLEAN, c
    PROVE  HardAssert(r, c) = r
  BY DEF HardAssert, RemoteStoreType

\* Start() on a stopped stream that is needed.
LEMMA StartInv ==
    ASSUME NEW r, NEW q, CoreInv(r, q), ~IsStarted(r), r.net, r.pipe # <<>>
    PROVE  /\ CoreInv(Start(r), q)
           /\ IsStarted(Start(r))
           /\ ~IsOpen(Start(r))
           /\ Start(r).hs = r.hs
           /\ Start(r).token = r.token
           /\ Start(r).net = r.net
           /\ Start(r).pipe = r.pipe /\ Start(r).up = r.up
           /\ Start(r).down = r.down /\ Start(r).fin = r.fin
<1>0. r \in RemoteStoreType /\ r.ok
  BY DEF CoreInv
<1>1. CASE r.state = "Error"
  <2>1. Start(r) = [r EXCEPT !.state = "Backoff", !.backoff = TRUE]
    <3>1. HardAssert(r, r.state = "Error") = r
      BY <1>0, <1>1, HardAssertHolds
    <3> QED
      BY <1>1, <3>1 DEF Start, BackoffAndTryRestarting
  <2>2. SUFFICES ASSUME NEW s,
                        s = [r EXCEPT !.state = "Backoff", !.backoff = TRUE]
                 PROVE  /\ CoreInv(s, q)
                        /\ IsStarted(s) /\ ~IsOpen(s)
                        /\ s.hs = r.hs /\ s.token = r.token /\ s.net = r.net
                        /\ s.pipe = r.pipe /\ s.up = r.up
                        /\ s.down = r.down /\ s.fin = r.fin
    BY <2>1
  <2>3. /\ s.net = r.net /\ s.pipe = r.pipe /\ s.state = "Backoff"
        /\ s.hs = r.hs /\ s.idle = r.idle /\ s.backoff = TRUE
        /\ s.closes = r.closes /\ s.token = r.token /\ s.auth = r.auth
        /\ s.up = r.up /\ s.down = r.down /\ s.fin = r.fin /\ s.ok = r.ok
        /\ s \in RemoteStoreType
    BY <2>2, <1>0 DEF RemoteStoreType, StreamStates
  <2> QED
    BY <2>3, <1>0, <1>1 DEF CoreInv, PrefixInv, WireInv, TimerInv, AuthInv,
        IsStarted, IsOpen
<1>2. CASE r.state = "Initial"
  <2>1. Start(r) = [r EXCEPT !.ok = TRUE, !.state = "Starting", 
                             !.auth = r.auth \cup {r.closes}]
    BY <1>0, <1>2 DEF Start, RequestCredentials, HardAssert, RemoteStoreType
  <2>2. SUFFICES ASSUME NEW s,
                        s = [r EXCEPT !.ok = TRUE, !.state = "Starting", 
                                      !.auth = r.auth \cup {r.closes}]
                 PROVE  /\ CoreInv(s, q)
                        /\ IsStarted(s) /\ ~IsOpen(s)
                        /\ s.hs = r.hs /\ s.token = r.token /\ s.net = r.net
                        /\ s.pipe = r.pipe /\ s.up = r.up
                        /\ s.down = r.down /\ s.fin = r.fin
    BY <2>1
  <2>3. /\ s.net = r.net /\ s.pipe = r.pipe /\ s.state = "Starting"
        /\ s.hs = r.hs /\ s.idle = r.idle /\ s.backoff = r.backoff
        /\ s.closes = r.closes /\ s.token = r.token
        /\ s.auth = r.auth \cup {r.closes}
        /\ s.up = r.up /\ s.down = r.down /\ s.fin = r.fin /\ s.ok = TRUE
        /\ s \in RemoteStoreType
    BY <2>2, <1>0 DEF RemoteStoreType, StreamStates
  <2> QED
    BY <2>3, <1>0, <1>2, RecordFields DEF CoreInv, PrefixInv, WireInv, TimerInv, AuthInv,
        IsStarted, IsOpen
<1> QED
  BY <1>0, <1>1, <1>2 DEF IsStarted, RemoteStoreType, StreamStates

\* Extending u and p by the same batches keeps them aligned.
LEMMA ConcatAligned ==
    ASSUME NEW d \in Seq(Batch), NEW u \in Seq(Batch), NEW p \in Seq(Batch),
           NEW b \in Seq(Batch), Aligned(d, u, p)
    PROVE  Aligned(d, u \o b, p \o b)
<1>0. Len(p) = Len(d) + Len(u) /\ \A i \in 1..Len(u) : u[i] = p[Len(d) + i]
  BY DEF Aligned
<1>1. /\ Len(d) \in Nat /\ Len(u) \in Nat /\ Len(p) \in Nat /\ Len(b) \in Nat
  OBVIOUS
<1>2. /\ Len(u \o b) = Len(u) + Len(b)
      /\ Len(p \o b) = Len(p) + Len(b)
  BY ConcatBatches
<1>3. ASSUME NEW i \in 1..Len(u \o b)
      PROVE  (u \o b)[i] = (p \o b)[Len(d) + i]
  <2>1. CASE i <= Len(u)
    <3>1. (u \o b)[i] = u[i]
      BY <2>1, <1>1, <1>2
    <3>2. Len(d) + i \in 1..Len(p) /\ i \in 1..Len(u)
      BY <2>1, <1>0, <1>1, <1>2
    <3>3. (p \o b)[Len(d) + i] = p[Len(d) + i]
      BY <3>2, <1>1, <1>2
    <3> QED
      BY <3>1, <3>2, <3>3, <1>0
  <2>2. CASE i > Len(u)
    <3>1. PICK k \in 1..Len(b) : i = Len(u) + k
      <4>1. i - Len(u) \in 1..Len(b) /\ i = Len(u) + (i - Len(u))
        BY <2>2, <1>1, <1>2
      <4> QED
        BY <4>1
    <3>2. (u \o b)[i] = b[k]
      BY <3>1, ConcatBatches
    <3>3. (p \o b)[Len(p) + k] = b[k]
      BY <3>1, ConcatBatches
    <3>4. Len(d) + i = Len(p) + k
      BY <3>1, <1>0, <1>1
    <3>5. (p \o b)[Len(d) + i] = (p \o b)[Len(p) + k]
      BY <3>4, Zenon
    <3> QED
      BY <3>2, <3>3, <3>5, Zenon
  <2>3. i <= Len(u) \/ i > Len(u)
    BY <1>1
  <2> QED
    BY <2>1, <2>2, <2>3, Zenon
<1>4. Len(p \o b) = Len(d) + Len(u \o b)
  BY <1>0, <1>1, <1>2
<1> QED
  BY <1>3, <1>4 DEF Aligned

\* WireInv depends on six fields only.
LEMMA SameWire ==
    ASSUME NEW r, NEW s, WireInv(r),
           s.state = r.state, s.hs = r.hs, s.pipe = r.pipe,
           s.up = r.up, s.down = r.down, s.fin = r.fin
    PROVE  WireInv(s)
  BY DEF WireInv, IsOpen

\* AddToWritePipeline() for the batches that follow the pipeline in q.
LEMMA AddInv ==
    ASSUME NEW r, NEW q \in Seq(Batch), CoreInv(r, q),
           NEW b \in Seq(Batch), b # <<>> => r.net,
           Len(r.pipe) + Len(b) <= Len(q),
           Len(r.pipe) + Len(b) <= kMaxPendingWrites,
           \A i \in 1..Len(b) : b[i] = q[Len(r.pipe) + i]
    PROVE  LET a == AddToWritePipeline(r, b)
           IN  /\ CoreInv(a, q)
               /\ a.pipe = r.pipe \o b
               /\ a.hs = r.hs /\ a.state = r.state /\ a.net = r.net
               /\ a.token = r.token /\ Carried(r, a)
<1>0. /\ r \in RemoteStoreType /\ r.ok
      /\ r.pipe \in Seq(Batch) /\ r.up \in Seq(Batch) /\ r.down \in Seq(Batch)
  BY RecordFields DEF CoreInv
<1>1. SUFFICES ASSUME NEW p, p = r.pipe \o b
               PROVE LET a == AddToWritePipeline(r, b)
                     IN  /\ CoreInv(a, q)
                         /\ a.pipe = p
                         /\ a.hs = r.hs /\ a.state = r.state /\ a.net = r.net
                         /\ a.token = r.token /\ Carried(r, a)
  OBVIOUS
<1>2. /\ p \in Seq(Batch) /\ Len(p) = Len(r.pipe) + Len(b)
      /\ \A i \in 1..Len(r.pipe) : p[i] = r.pipe[i]
      /\ \A i \in 1..Len(b) : p[Len(r.pipe) + i] = b[i]
      /\ b = <<>> => p = r.pipe
      /\ b # <<>> => p # <<>>
  BY <1>0, <1>1, ConcatBatches
<1>3. /\ Len(r.pipe) \in Nat /\ Len(b) \in Nat /\ Len(q) \in Nat
      /\ Len(r.up) \in Nat /\ Len(r.down) \in Nat
  BY <1>0
<1>4. \A i \in 1..Len(p) : p[i] = q[i]
  <2> SUFFICES ASSUME NEW i \in 1..Len(p) PROVE p[i] = q[i]
    OBVIOUS
  <2>1. CASE i \in 1..Len(r.pipe)
    BY <2>1, <1>2 DEF CoreInv, PrefixInv
  <2>2. CASE i - Len(r.pipe) \in 1..Len(b)
    <3>1. p[Len(r.pipe) + (i - Len(r.pipe))] = q[Len(r.pipe) + (i - Len(r.pipe))]
      BY <2>2, <1>2
    <3> QED
      BY <3>1, <1>3
  <2> QED
    BY <2>1, <2>2, <1>2, <1>3
<1>5. CASE IsOpen(r) /\ r.hs /\ b # <<>>
  <2>1. PICK u : u = r.up \o b
    OBVIOUS
  <2>2. /\ u \in Seq(Batch) /\ Len(u) = Len(r.up) + Len(b)
        /\ \A i \in 1..Len(r.up) : u[i] = r.up[i]
        /\ \A i \in 1..Len(b) : u[Len(r.up) + i] = b[i]
    BY <1>0, <2>1, ConcatBatches
  <2>3. PICK a : a = [r EXCEPT !.pipe = p, !.idle = FALSE, !.up = u]
    OBVIOUS
  <2>4. AddToWritePipeline(r, b) = a
    <3>1. PICK m : m = [r EXCEPT !.pipe = p]
      OBVIOUS
    <3>2. /\ m \in RemoteStoreType /\ m.ok /\ m.hs /\ IsOpen(m) /\ m.up = r.up
      BY <3>1, <1>0, <1>2, <1>5 DEF RemoteStoreType, IsOpen
    <3>3. AddToWritePipeline(r, b) = WriteMutations(m, b)
      BY <3>1, <1>1, <1>5 DEF AddToWritePipeline
    <3>4. HardAssert(m, b # <<>> => m.hs) = m
      BY <3>2, HardAssertHolds
    <3>5. HardAssert(m, IsOpen(m)) = m
      BY <3>2, HardAssertHolds DEF IsOpen
    <3>6. WriteMutations(m, b) = [m EXCEPT !.idle = FALSE, !.up = m.up \o b]
      BY <1>5, <3>4, <3>5 DEF WriteMutations, Write
    <3> QED
      BY <3>1, <3>2, <3>3, <3>6, <2>1, <2>3
  <2>5. /\ a.net = r.net /\ a.pipe = p /\ a.state = r.state
        /\ a.hs = r.hs /\ a.idle = FALSE /\ a.backoff = r.backoff
        /\ a.closes = r.closes /\ a.token = r.token /\ a.auth = r.auth
        /\ a.up = u /\ a.down = r.down /\ a.fin = r.fin /\ a.ok = r.ok
        /\ a \in RemoteStoreType
    BY <2>3, <1>0, <1>2, <2>2 DEF RemoteStoreType
  <2>6. PrefixInv(a, q) /\ TimerInv(a) /\ AuthInv(a)
    BY <2>5, <1>2, <1>3, <1>4, <1>5
       DEF CoreInv, PrefixInv, TimerInv, AuthInv, IsOpen, IsStarted
  <2>7. WireInv(a)
    <3>1. /\ Len(a.down) <= Len(a.pipe)
          /\ \A i \in 1..Len(a.down) : a.down[i] = a.pipe[i]
      BY <2>5, <1>2, <1>3, <1>5 DEF CoreInv, WireInv
    <3>2. ASSUME a.fin = "none"
          PROVE  Aligned(a.down, a.up, a.pipe)
      <4>1. Aligned(r.down, r.up, r.pipe)
        BY <2>5, <3>2, <1>5 DEF CoreInv, WireInv
      <4> QED
        BY <4>1, <1>0, ConcatAligned, <2>1, <1>1, <2>5
    <3> QED
      BY <3>1, <3>2, <2>5, <1>5 DEF WireInv, IsOpen
  <2>8. Carried(r, a)
    BY <2>5, <1>2, <1>3, <1>5 DEF Carried
  <2> QED
    BY <2>4, <2>5, <2>6, <2>7, <2>8, <1>0 DEF CoreInv
<1>6. CASE ~(IsOpen(r) /\ r.hs /\ b # <<>>)
  <2>1. PICK a : a = [r EXCEPT !.pipe = p]
    OBVIOUS
  <2>2. /\ a.net = r.net /\ a.pipe = p /\ a.state = r.state
        /\ a.hs = r.hs /\ a.idle = r.idle /\ a.backoff = r.backoff
        /\ a.closes = r.closes /\ a.token = r.token /\ a.auth = r.auth
        /\ a.up = r.up /\ a.down = r.down /\ a.fin = r.fin /\ a.ok = r.ok
        /\ a \in RemoteStoreType
    BY <2>1, <1>0, <1>2 DEF RemoteStoreType
  <2>3. AddToWritePipeline(r, b) = a
    <3>1. CASE b = <<>>
      <4>1. HardAssert(a, b # <<>> => a.hs) = a
        BY <2>2, <3>1, <1>0, HardAssertHolds
      <4> QED
        BY <2>1, <1>1, <4>1, <3>1
           DEF AddToWritePipeline, WriteMutations, Write
    <3>2. CASE ~(IsOpen(r) /\ r.hs)
      BY <2>1, <1>1, <3>2 DEF AddToWritePipeline
    <3> QED
      BY <3>1, <3>2, <1>6
  <2>4. PrefixInv(a, q) /\ TimerInv(a) /\ AuthInv(a) /\ WireInv(a)
    <3>1. CASE b = <<>>
      <4>0. a.pipe = r.pipe
        BY <3>1, <2>2, <1>2
      <4>1. PrefixInv(a, q)
        BY <4>0, <2>2 DEF CoreInv, PrefixInv
      <4>2. TimerInv(a)
        BY <4>0, <2>2 DEF CoreInv, TimerInv, IsOpen, IsStarted
      <4>3. AuthInv(a)
        BY <2>2 DEF CoreInv, AuthInv
      <4>4. WireInv(a)
        BY <4>0, <2>2, SameWire DEF CoreInv
      <4> QED
        BY <4>1, <4>2, <4>3, <4>4
    <3>2. CASE ~(IsOpen(r) /\ r.hs) /\ b # <<>>
      <4>1. PrefixInv(a, q)
        BY <3>2, <2>2, <1>2, <1>4 DEF PrefixInv
      <4>2. TimerInv(a) /\ AuthInv(a)
        BY <3>2, <2>2, <1>2 DEF CoreInv, TimerInv, AuthInv, IsOpen, IsStarted
      <4>3. WireInv(a)
        BY <3>2, <2>2 DEF CoreInv, WireInv, IsOpen
      <4> QED
        BY <4>1, <4>2, <4>3
    <3> QED
      BY <3>1, <3>2, <1>6
  <2>5. Carried(r, a)
    BY <2>2, <1>2, <1>3 DEF Carried
  <2> QED
    BY <2>2, <2>3, <2>4, <2>5, <1>0 DEF CoreInv
<1> QED
  BY <1>5, <1>6

\* The loop of FillWritePipeline() fetches what follows the pipeline in q.
LEMMA NextBatchesFollow ==
    ASSUME NEW r, NEW q \in Seq(Batch), CoreInv(r, q), OrderedQueue(q)
    PROVE  LET b == NextBatches(r, q)
           IN  /\ b \in Seq(Batch)
               /\ b # <<>> => r.net
               /\ Len(r.pipe) + Len(b) <= Len(q)
               /\ Len(r.pipe) + Len(b) <= kMaxPendingWrites
               /\ \A i \in 1..Len(b) : b[i] = q[Len(r.pipe) + i]
<1> DEFINE last  == IF r.pipe = <<>> THEN kBatchIdUnknown
                                     ELSE r.pipe[Len(r.pipe)].id
           first == NextMutationBatchAfterBatchId(q, last)
           room  == kMaxPendingWrites - Len(r.pipe)
           avail == Len(q) - first + 1
           n     == IF ~r.net \/ room <= 0 THEN 0
                    ELSE IF avail < room THEN avail ELSE room
           B     == [i \in 1..n |-> q[first + i - 1]]
<1>0. Len(r.pipe) \in Nat
  <2>1. r.pipe \in Seq(Batch)
    BY RecordFields DEF CoreInv
  <2> QED
    BY <2>1
<1>1. PICK k \in Nat : k = Len(r.pipe)
  BY <1>0
<1>2. PICK m \in Nat : m = Len(q)
  OBVIOUS
<1>3. /\ r.pipe \in Seq(Batch) /\ r.net \in BOOLEAN
      /\ k <= m /\ k <= kMaxPendingWrites
      /\ \A i \in 1..k : r.pipe[i] = q[i]
      /\ kMaxPendingWrites \in Nat
      /\ \A i \in 1..m : q[i] \in Batch
  BY <1>1, <1>2, RecordFields, PipelineAssumption, BatchSeq DEF CoreInv, PrefixInv
<1>4. last = IF k = 0 THEN kBatchIdUnknown ELSE q[k].id
  BY <1>1, <1>3, EmptySeq
<1>5. first = k + 1
  BY <1>1, <1>2, <1>3, <1>4, NextAfterPrefix
<1>6. /\ n \in Nat /\ k + n <= m /\ k + n <= kMaxPendingWrites
      /\ n # 0 => r.net
  BY <1>1, <1>2, <1>3, <1>5
<1> HIDE DEF first, n
<1>7. ASSUME NEW i \in 1..n
      PROVE  q[first + i - 1] = q[k + i] /\ q[k + i] \in Batch
  <2>1. first + i - 1 = k + i /\ k + i \in 1..m
    BY <1>5, <1>6
  <2> QED
    BY <2>1, <1>3
<1>8. B = [i \in 1..n |-> q[k + i]]
  BY <1>7
<1>9. NextBatches(r, q) = B
  BY DEF n, first, NextBatches
<1> HIDE DEF B
<1> SUFFICES ASSUME NEW b, b = [i \in 1..n |-> q[k + i]]
             PROVE  /\ b \in Seq(Batch)
                    /\ b # <<>> => r.net
                    /\ k + Len(b) <= m
                    /\ k + Len(b) <= kMaxPendingWrites
                    /\ \A i \in 1..Len(b) : b[i] = q[k + i]
  BY <1>1, <1>2, <1>8, <1>9, Zenon
<1>10. b \in Seq(Batch) /\ Len(b) = n
  BY <1>6, <1>7
<1>11. b # <<>> => n # 0
  BY <1>10, EmptySeq
<1> QED
  BY <1>6, <1>10, <1>11

\* FillWritePipeline(): afterwards the stream is started if it is needed.
LEMMA FillInv ==
    ASSUME NEW r, NEW q \in Seq(Batch), CoreInv(r, q), OrderedQueue(q)
    PROVE  LET f == FillWritePipeline(r, q)
           IN  /\ CoreInv(f, q)
               /\ f.net = r.net /\ f.hs = r.hs /\ f.token = r.token
               /\ Carried(r, f)
               /\ IsOpen(f) <=> IsOpen(r)
               /\ f.net /\ f.pipe # <<>> => IsStarted(f)
<1>1. PICK a : a = AddToWritePipeline(r, NextBatches(r, q))
  OBVIOUS
<1>2. /\ CoreInv(a, q)
      /\ a.hs = r.hs /\ a.state = r.state /\ a.net = r.net
      /\ a.token = r.token /\ Carried(r, a)
  BY <1>1, NextBatchesFollow, AddInv
<1>3. PICK f : f = IF r.net /\ a.pipe = <<>> THEN MarkIdle(a) ELSE a
  OBVIOUS
<1>4. /\ CoreInv(f, q)
      /\ f.hs = r.hs /\ f.state = r.state /\ f.net = r.net
      /\ f.token = r.token /\ Carried(r, f)
  <2>1. CASE f = a
    BY <1>2, <2>1
  <2>2. CASE f # a
    <3>1. a.pipe = <<>> /\ IsOpen(a) /\ f = [a EXCEPT !.idle = TRUE]
      BY <1>3, <2>2 DEF MarkIdle
    <3>2. a \in RemoteStoreType
      BY <1>2 DEF CoreInv
    <3>3. /\ f.net = a.net /\ f.pipe = a.pipe /\ f.state = a.state
          /\ f.hs = a.hs /\ f.idle = TRUE /\ f.backoff = a.backoff
          /\ f.closes = a.closes /\ f.token = a.token /\ f.auth = a.auth
          /\ f.up = a.up /\ f.down = a.down /\ f.fin = a.fin /\ f.ok = a.ok
          /\ f \in RemoteStoreType
      BY <3>1, <3>2 DEF RemoteStoreType
    <3>4. WireInv(f)
      BY <3>3, <1>2, SameWire DEF CoreInv
    <3>5. PrefixInv(f, q) /\ AuthInv(f) /\ f.ok
      BY <3>3, <1>2 DEF CoreInv, PrefixInv, AuthInv
    <3>6. TimerInv(f)
      BY <3>1, <3>3, <1>2 DEF CoreInv, TimerInv, IsOpen, IsStarted
    <3>7. Carried(r, f)
      BY <3>3, <1>2 DEF Carried
    <3> QED
      BY <3>3, <3>4, <3>5, <3>6, <3>7, <1>2 DEF CoreInv
  <2> QED
    BY <2>1, <2>2
<1>5. FillWritePipeline(r, q) = StartWriteStreamIfNeeded(f)
  BY <1>1, <1>3 DEF FillWritePipeline
<1>6. CASE ShouldStartWriteStream(f)
  <2>1. FillWritePipeline(r, q) = Start(f)
    BY <1>5, <1>6 DEF StartWriteStreamIfNeeded
  <2>2. ~IsStarted(f) /\ f.net /\ f.pipe # <<>>
    BY <1>6 DEF ShouldStartWriteStream
  <2>3. PICK s : s = Start(f)
    OBVIOUS
  <2>4. /\ CoreInv(s, q) /\ IsStarted(s) /\ ~IsOpen(s)
        /\ s.hs = f.hs /\ s.token = f.token /\ s.net = f.net
        /\ s.pipe = f.pipe /\ s.up = f.up /\ s.down = f.down /\ s.fin = f.fin
    BY <2>2, <2>3, <1>4, StartInv
  <2>5. Carried(r, s)
    BY <2>4, <1>4 DEF Carried
  <2> QED
    BY <2>1, <2>2, <2>3, <2>4, <2>5, <1>4 DEF IsOpen, IsStarted
<1>7. CASE ~ShouldStartWriteStream(f)
  <2>1. FillWritePipeline(r, q) = f
    BY <1>5, <1>7 DEF StartWriteStreamIfNeeded
  <2>2. f.net /\ f.pipe # <<>> => IsStarted(f)
    BY <1>7 DEF ShouldStartWriteStream
  <2> QED
    BY <2>1, <2>2, <1>4 DEF IsOpen
<1> QED
  BY <1>6, <1>7

-----------------------------------------------------------------------------
(* Opening and closing the stream.                                         *)

\* The part of Close() before RemoteStore is told.
Closed(r, state) ==
    [r EXCEPT !.idle = FALSE, !.backoff = FALSE, !.closes = r.closes + 1,
              !.up = <<>>, !.down = <<>>, !.fin = "none", !.state = state]

\* What Close() does to a started stream.
LEMMA CloseStarted ==
    ASSUME NEW r \in RemoteStoreType, r.ok, IsStarted(r), NEW q, NEW status
    PROVE  Close(r, status, q) =
             [OnWriteStreamClose(
                Closed(r, IF status = "ok" THEN "Initial" ELSE "Error"),
                status, q) EXCEPT !.hs = FALSE]
<1>1. HardAssert(r, IsStarted(r)) = r
  BY HardAssertHolds DEF IsStarted
<1> QED
  BY <1>1 DEF Close, Closed

\* The fields of a closed stream.
LEMMA ClosedFields ==
    ASSUME NEW r \in RemoteStoreType, NEW state \in StreamStates
    PROVE  LET s == Closed(r, state)
           IN  /\ s.net = r.net /\ s.pipe = r.pipe /\ s.state = state
               /\ s.hs = r.hs /\ s.idle = FALSE /\ s.backoff = FALSE
               /\ s.closes = r.closes + 1 /\ s.token = r.token
               /\ s.auth = r.auth /\ s.up = <<>> /\ s.down = <<>>
               /\ s.fin = "none" /\ s.ok = r.ok
               /\ s \in RemoteStoreType
<1>1. r.closes + 1 \in Nat /\ <<>> \in Seq(Batch)
  BY RecordFields
<1> QED
  BY <1>1 DEF Closed, RemoteStoreType

\* A closed stream is in order whatever was on the wire.
LEMMA ClosedInv ==
    ASSUME NEW r \in RemoteStoreType, r.ok, NEW q, PrefixInv(r, q),
           \A c \in r.auth : c <= r.closes,
           NEW state \in {"Initial", "Error"}
    PROVE  CoreInv(Closed(r, state), q)
<1>1. SUFFICES ASSUME NEW s, s = Closed(r, state)
               PROVE  CoreInv(s, q)
  OBVIOUS
<1>2. /\ s.net = r.net /\ s.pipe = r.pipe /\ s.state = state
      /\ s.hs = r.hs /\ s.idle = FALSE /\ s.backoff = FALSE
      /\ s.closes = r.closes + 1 /\ s.token = r.token /\ s.auth = r.auth
      /\ s.up = <<>> /\ s.down = <<>> /\ s.fin = "none" /\ s.ok = r.ok
      /\ s \in RemoteStoreType
  <2>1. state \in StreamStates
    BY DEF StreamStates
  <2> QED
    BY <1>1, <2>1, ClosedFields
<1>3. PrefixInv(s, q)
  BY <1>2 DEF PrefixInv
<1>4. WireInv(s) /\ TimerInv(s)
  BY <1>2 DEF WireInv, TimerInv, IsOpen, IsStarted
<1>5. AuthInv(s)
  <2>1. r.closes \in Nat /\ \A c \in r.auth : c \in Nat
    BY RecordFields
  <2> QED
    BY <1>2, <2>1 DEF AuthInv
<1> QED
  BY <1>2, <1>3, <1>4, <1>5 DEF CoreInv

\* A stream that is stopped or that is not open need not remember the
\* handshake: NotifyStreamClose() resets handshake_complete_.
LEMMA ForgetHandshake ==
    ASSUME NEW r, NEW q, CoreInv(r, q), ~IsOpen(r),
           r.net /\ r.pipe # <<>> => IsStarted(r)
    PROVE  /\ StoreInv([r EXCEPT !.hs = FALSE], q)
           /\ [r EXCEPT !.hs = FALSE].state = r.state
           /\ [r EXCEPT !.hs = FALSE].net = r.net
<1>0. r \in RemoteStoreType
  BY DEF CoreInv
<1>1. SUFFICES ASSUME NEW s, s = [r EXCEPT !.hs = FALSE]
               PROVE  StoreInv(s, q) /\ s.state = r.state /\ s.net = r.net
  OBVIOUS
<1>2. /\ s.net = r.net /\ s.pipe = r.pipe /\ s.state = r.state
      /\ s.hs = FALSE /\ s.idle = r.idle /\ s.backoff = r.backoff
      /\ s.closes = r.closes /\ s.token = r.token /\ s.auth = r.auth
      /\ s.up = r.up /\ s.down = r.down /\ s.fin = r.fin /\ s.ok = r.ok
      /\ s \in RemoteStoreType
  BY <1>0, <1>1 DEF RemoteStoreType
<1>3. PrefixInv(s, q) /\ AuthInv(s)
  BY <1>2 DEF CoreInv, PrefixInv, AuthInv
<1>4. WireInv(s)
  BY <1>2 DEF CoreInv, WireInv, IsOpen
<1>5. TimerInv(s)
  BY <1>2 DEF CoreInv, TimerInv, IsOpen, IsStarted
<1> QED
  BY <1>2, <1>3, <1>4, <1>5 DEF CoreInv, StoreInv, IsStarted

\* StartWriteStreamIfNeeded() on a stream that is closed.
LEMMA StartIfNeededInv ==
    ASSUME NEW r, NEW q, CoreInv(r, q), ~IsOpen(r)
    PROVE  LET s == StartWriteStreamIfNeeded(r)
           IN  /\ CoreInv(s, q) /\ ~IsOpen(s)
               /\ s.net /\ s.pipe # <<>> => IsStarted(s)
<1>1. CASE ShouldStartWriteStream(r)
  <2>1. StartWriteStreamIfNeeded(r) = Start(r)
    BY <1>1 DEF StartWriteStreamIfNeeded
  <2> QED
    BY <1>1, <2>1, StartInv DEF ShouldStartWriteStream
<1>2. CASE ~ShouldStartWriteStream(r)
  BY <1>2 DEF StartWriteStreamIfNeeded, ShouldStartWriteStream
<1> QED
  BY <1>1, <1>2

\* Stop() on a stream that nobody needs any more.
LEMMA StopInv ==
    ASSUME NEW r \in RemoteStoreType, r.ok, NEW q, PrefixInv(r, q),
           \A c \in r.auth : c <= r.closes, IsStarted(r),
           ~(r.net /\ r.pipe # <<>>)
    PROVE  StoreInv(Stop(r), q) /\ Stop(r).state = "Initial" /\ Stop(r).net = r.net
<1>1. PICK c : c = Closed(r, "Initial")
  OBVIOUS
<1>2. CoreInv(c, q) /\ c.state = "Initial" /\ c.net = r.net /\ c.pipe = r.pipe
  <2>1. "Initial" \in StreamStates /\ "Initial" \in {"Initial", "Error"}
    BY DEF StreamStates
  <2>2. CoreInv(c, q)
    BY <1>1, <2>1, ClosedInv
  <2> QED
    BY <1>1, <2>1, <2>2, ClosedFields
<1>3. ~ShouldStartWriteStream(c) /\ ShouldStartWriteStream(c) \in BOOLEAN
  BY <1>2 DEF ShouldStartWriteStream
<1>4. HardAssert(c, ~ShouldStartWriteStream(c)) = c
  BY <1>2, <1>3, HardAssertHolds DEF CoreInv
<1>5. OnWriteStreamClose(c, "ok", <<>>) = c
  BY <1>3, <1>4 DEF OnWriteStreamClose, StartWriteStreamIfNeeded
<1>6. Stop(r) = [c EXCEPT !.hs = FALSE]
  BY <1>1, <1>5, CloseStarted DEF Stop
<1> QED
  BY <1>2, <1>6, ForgetHandshake DEF IsOpen, ShouldStartWriteStream

\* DisableNetwork() leaves a stopped stream and an empty pipeline, which
\* suits any queue.
LEMMA DisableInv ==
    ASSUME NEW r, NEW p, StoreInv(r, p), NEW q \in Seq(Batch)
    PROVE  LET d == DisableNetworkOp(r)
           IN  StoreInv(d, q) /\ ~IsStarted(d) /\ ~d.net
<1>0. r \in RemoteStoreType /\ r.ok /\ \A c \in r.auth : c <= r.closes
  BY DEF StoreInv, CoreInv, AuthInv
<1>1. PICK a : a = [r EXCEPT !.net = FALSE]
  OBVIOUS
<1>2. /\ a.net = FALSE /\ a.pipe = r.pipe /\ a.state = r.state
      /\ a.hs = r.hs /\ a.idle = r.idle /\ a.backoff = r.backoff
      /\ a.closes = r.closes /\ a.token = r.token /\ a.auth = r.auth
      /\ a.up = r.up /\ a.down = r.down /\ a.fin = r.fin /\ a.ok = r.ok
      /\ a \in RemoteStoreType
  BY <1>0, <1>1 DEF RemoteStoreType
<1>3. PICK s : s = Stop(a)
  OBVIOUS
<1>4. /\ s \in RemoteStoreType /\ s.ok /\ WireInv(s) /\ AuthInv(s)
      /\ ~IsStarted(s) /\ ~s.net /\ ~s.hs /\ ~s.idle /\ ~s.backoff
  <2>1. CASE IsStarted(a)
    <3>1. PICK e : e = Closed(a, "Initial")
      OBVIOUS
    <3>2. "Initial" \in StreamStates
      BY DEF StreamStates
    <3>3. /\ e.net = FALSE /\ e.state = "Initial"
          /\ e.hs = r.hs /\ e.idle = FALSE /\ e.backoff = FALSE
          /\ e.closes = r.closes + 1 /\ e.auth = r.auth /\ e.up = <<>>
          /\ e.down = <<>> /\ e.fin = "none" /\ e.ok = r.ok
          /\ e \in RemoteStoreType
      <4>1. /\ e.net = a.net /\ e.state = "Initial"
            /\ e.hs = a.hs /\ e.idle = FALSE /\ e.backoff = FALSE
            /\ e.closes = a.closes + 1 /\ e.auth = a.auth /\ e.up = <<>>
            /\ e.down = <<>> /\ e.fin = "none" /\ e.ok = a.ok
            /\ e \in RemoteStoreType
        <5>1. a \in RemoteStoreType
          BY <1>2
        <5> QED
          BY <5>1, <3>1, <3>2, ClosedFields
      <4> QED
        BY <4>1, <1>2
    <3>4. ~ShouldStartWriteStream(e) /\ ShouldStartWriteStream(e) \in BOOLEAN
      BY <3>3 DEF ShouldStartWriteStream
    <3>5. HardAssert(e, ~ShouldStartWriteStream(e)) = e
      BY <1>0, <3>3, <3>4, HardAssertHolds
    <3>6. OnWriteStreamClose(e, "ok", <<>>) = e
      BY <3>4, <3>5 DEF OnWriteStreamClose, StartWriteStreamIfNeeded
    <3>7. s = [e EXCEPT !.hs = FALSE]
      <4>1. a \in RemoteStoreType /\ a.ok
        BY <1>0, <1>2
      <4>2. Close(a, "ok", <<>>) =
              [OnWriteStreamClose(Closed(a, "Initial"), "ok", <<>>)
                 EXCEPT !.hs = FALSE]
        BY <4>1, <2>1, CloseStarted
      <4> QED
        BY <4>2, <1>3, <3>1, <3>6 DEF Stop
    <3>8. /\ s.net = FALSE /\ s.state = "Initial" /\ s.hs = FALSE
          /\ s.idle = FALSE /\ s.backoff = FALSE
          /\ s.closes = e.closes /\ s.auth = e.auth /\ s.up = <<>>
          /\ s.down = <<>> /\ s.fin = "none" /\ s.ok = e.ok
          /\ s \in RemoteStoreType
      BY <3>3, <3>7 DEF RemoteStoreType
    <3>9. AuthInv(s)
      <4>1. r.closes \in Nat /\ \A c \in r.auth : c \in Nat
        BY <1>0, RecordFields
      <4>2. s.closes = r.closes + 1 /\ s.auth = r.auth
        BY <3>3, <3>8
      <4> QED
        BY <4>1, <4>2, <1>0, <3>8 DEF AuthInv
    <3> QED
      BY <1>0, <3>3, <3>8, <3>9 DEF WireInv, IsOpen, IsStarted
  <2>2. CASE ~IsStarted(a)
    <3>1. s = a
      BY <1>3, <2>2 DEF Stop, Close
    <3> QED
      BY <3>1, <2>2, <1>2, <1>0 DEF StoreInv, CoreInv, WireInv, AuthInv,
         TimerInv, IsOpen, IsStarted
  <2> QED
    BY <2>1, <2>2
<1>5. PICK d : d = [s EXCEPT !.pipe = <<>>]
  OBVIOUS
<1>6. /\ d.net = s.net /\ d.pipe = <<>> /\ d.state = s.state
      /\ d.hs = s.hs /\ d.idle = s.idle /\ d.backoff = s.backoff
      /\ d.closes = s.closes /\ d.token = s.token /\ d.auth = s.auth
      /\ d.up = s.up /\ d.down = s.down /\ d.fin = s.fin /\ d.ok = s.ok
      /\ d \in RemoteStoreType
  <2>1. <<>> \in Seq(Batch)
    OBVIOUS
  <2> QED
    BY <2>1, <1>4, <1>5 DEF RemoteStoreType
<1>7. PrefixInv(d, q)
  <2>1. Len(d.pipe) = 0 /\ Len(q) \in Nat
    BY <1>6
  <2> QED
    BY <1>6, <2>1, PipelineAssumption DEF PrefixInv
<1>8. WireInv(d) /\ AuthInv(d) /\ TimerInv(d)
  BY <1>4, <1>6 DEF WireInv, AuthInv, TimerInv, IsOpen, IsStarted
<1>9. DisableNetworkOp(r) = d
  BY <1>1, <1>3, <1>5 DEF DisableNetworkOp, DisableNetworkInternal
<1> QED
  BY <1>4, <1>6, <1>7, <1>8, <1>9 DEF StoreInv, CoreInv, IsOpen, IsStarted

\* EnableNetwork(), also when the network is enabled already.
LEMMA EnableInv ==
    ASSUME NEW r, NEW q \in Seq(Batch), StoreInv(r, q), OrderedQueue(q),
           NEW token \in Tokens \cup {NoToken}
    PROVE  LET e == EnableNetworkOp(r, q, token)
           IN  /\ StoreInv(e, q) /\ (IsOpen(e) <=> IsOpen(r))
               /\ e.token = token /\ Carried(r, e)
<1>0. r \in RemoteStoreType
  BY DEF StoreInv, CoreInv
<1>1. PICK s : s = [r EXCEPT !.net = TRUE, !.token = token]
  OBVIOUS
<1>2. /\ s.net = TRUE /\ s.pipe = r.pipe /\ s.state = r.state
      /\ s.hs = r.hs /\ s.idle = r.idle /\ s.backoff = r.backoff
      /\ s.closes = r.closes /\ s.token = token /\ s.auth = r.auth
      /\ s.up = r.up /\ s.down = r.down /\ s.fin = r.fin /\ s.ok = r.ok
      /\ s \in RemoteStoreType
  BY <1>0, <1>1 DEF RemoteStoreType
<1>3. WireInv(s)
  BY <1>2, SameWire DEF StoreInv, CoreInv
<1>4. PrefixInv(s, q) /\ AuthInv(s) /\ TimerInv(s)
  BY <1>2 DEF StoreInv, CoreInv, PrefixInv, AuthInv, TimerInv, IsOpen, IsStarted
<1>5. CoreInv(s, q)
  BY <1>2, <1>3, <1>4 DEF StoreInv, CoreInv
<1>6. PICK f : f = FillWritePipeline(s, q)
  OBVIOUS
<1>7. /\ CoreInv(f, q) /\ f.hs = s.hs /\ (IsOpen(f) <=> IsOpen(s))
      /\ f.token = s.token /\ Carried(s, f)
      /\ f.net /\ f.pipe # <<>> => IsStarted(f)
  BY <1>5, <1>6, FillInv
<1>8. StoreInv(f, q)
  BY <1>2, <1>7 DEF StoreInv, IsOpen
<1>9. Carried(r, f) /\ f.token = token /\ (IsOpen(f) <=> IsOpen(r))
  BY <1>2, <1>7 DEF Carried, IsOpen
<1> QED
  BY <1>1, <1>6, <1>8, <1>9 DEF EnableNetworkOp

\* InhibitBackoff() on a stopped stream.
LEMMA InhibitInv ==
    ASSUME NEW r, NEW q, CoreInv(r, q), ~IsStarted(r)
    PROVE  LET s == InhibitBackoff(r)
           IN  /\ CoreInv(s, q) /\ ~IsStarted(s)
               /\ s.hs = r.hs /\ s.net = r.net /\ s.pipe = r.pipe
<1>0. r \in RemoteStoreType /\ r.ok
  BY DEF CoreInv
<1>1. HardAssert(r, ~IsStarted(r)) = r
  BY <1>0, HardAssertHolds DEF IsStarted
<1>2. PICK s : s = [r EXCEPT !.state = "Initial"]
  OBVIOUS
<1>3. /\ s.net = r.net /\ s.pipe = r.pipe /\ s.state = "Initial"
      /\ s.hs = r.hs /\ s.idle = r.idle /\ s.backoff = r.backoff
      /\ s.closes = r.closes /\ s.token = r.token /\ s.auth = r.auth
      /\ s.up = r.up /\ s.down = r.down /\ s.fin = r.fin /\ s.ok = r.ok
      /\ s \in RemoteStoreType
  BY <1>0, <1>2 DEF RemoteStoreType, StreamStates
<1>4. PrefixInv(s, q) /\ WireInv(s) /\ TimerInv(s) /\ AuthInv(s)
  BY <1>3 DEF CoreInv, PrefixInv, WireInv, TimerInv, AuthInv, IsOpen, IsStarted
<1>5. InhibitBackoff(r) = s
  BY <1>1, <1>2 DEF InhibitBackoff
<1> QED
  BY <1>0, <1>3, <1>4, <1>5 DEF CoreInv, IsStarted

\* RestartNetwork() moves the RemoteStore to any other queue.
LEMMA RestartInv ==
    ASSUME NEW r, NEW p, StoreInv(r, p),
           NEW q \in Seq(Batch), OrderedQueue(q),
           NEW token \in Tokens \cup {NoToken}
    PROVE  /\ StoreInv(RestartNetwork(r, q, token), q)
           /\ ~IsOpen(RestartNetwork(r, q, token))
<1>1. PICK d : d = DisableNetworkOp(r)
  OBVIOUS
<1>2. StoreInv(d, q) /\ ~IsStarted(d) /\ ~d.net
  BY <1>1, DisableInv
<1>3. PICK s : s = InhibitBackoff(d)
  OBVIOUS
<1>4. /\ CoreInv(s, q) /\ ~IsStarted(s)
      /\ s.hs = d.hs /\ s.net = d.net /\ s.pipe = d.pipe
  BY <1>2, <1>3, InhibitInv DEF StoreInv
<1>5. StoreInv(s, q)
  BY <1>2, <1>4 DEF StoreInv, IsOpen, IsStarted
<1>6. /\ StoreInv(EnableNetworkOp(s, q, token), q)
      /\ ~IsOpen(EnableNetworkOp(s, q, token))
  BY <1>4, <1>5, EnableInv DEF IsOpen, IsStarted
<1> QED
  BY <1>1, <1>3, <1>6 DEF RestartNetwork

-----------------------------------------------------------------------------
(* Settling the first batch of the pipeline.                               *)

\* The tail of a sequence of batches.
LEMMA TailBatches ==
    ASSUME NEW s \in Seq(Batch), s # <<>>
    PROVE  /\ Tail(s) \in Seq(Batch)
           /\ Len(s) \in Nat /\ Len(s) >= 1
           /\ Len(Tail(s)) = Len(s) - 1
           /\ \A i \in 1..(Len(s) - 1) : Tail(s)[i] = s[i + 1]
  BY EmptySeq

\* The first batch of the pipeline is the first one of the queue, so it can
\* be removed and the rest of the pipeline is a prefix of the rest.
LEMMA SettleFirst ==
    ASSUME NEW r \in RemoteStoreType, NEW q \in Seq(Batch), PrefixInv(r, q),
           OrderedQueue(q), r.pipe # <<>>
    PROVE  LET rest == RemoveMutationBatch(q, r.pipe[1])
               tail == Tail(r.pipe)
           IN  /\ CanRemoveMutationBatch(q, r.pipe[1])
               /\ rest \in Seq(Batch) /\ OrderedQueue(rest)
               /\ Len(rest) = Len(q) - 1
               /\ \A i \in 1..Len(rest) : rest[i] = q[i + 1]
               /\ tail \in Seq(Batch)
               /\ Len(tail) <= Len(rest)
               /\ \A i \in 1..Len(tail) : tail[i] = rest[i]
               /\ Len(tail) <= kMaxPendingWrites
<1>1. /\ r.pipe \in Seq(Batch)
      /\ Len(r.pipe) \in Nat /\ Len(r.pipe) >= 1
      /\ Len(q) \in Nat
  BY RecordFields, TailBatches
<1>2. /\ Len(r.pipe) <= Len(q)
      /\ \A i \in 1..Len(r.pipe) : r.pipe[i] = q[i]
      /\ Len(r.pipe) <= kMaxPendingWrites
      /\ kMaxPendingWrites \in Nat
  BY PipelineAssumption DEF PrefixInv
<1>3. r.pipe[1] = q[1] /\ q # <<>>
  BY <1>1, <1>2, EmptySeq
<1>4. PICK rest : rest = RemoveMutationBatch(q, q[1])
  OBVIOUS
<1>5. /\ rest \in Seq(Batch) /\ OrderedQueue(rest)
      /\ Len(rest) = Len(q) - 1
      /\ \A i \in 1..Len(rest) : rest[i] = q[i + 1]
  BY <1>3, <1>4, RemoveFirst
<1>6. PICK tail : tail = Tail(r.pipe)
  OBVIOUS
<1>7. /\ tail \in Seq(Batch)
      /\ Len(tail) = Len(r.pipe) - 1
      /\ \A i \in 1..(Len(r.pipe) - 1) : tail[i] = r.pipe[i + 1]
  BY <1>1, <1>6, TailBatches
<1>8. Len(tail) <= Len(rest) /\ Len(tail) <= kMaxPendingWrites
  BY <1>1, <1>2, <1>5, <1>7
<1>9. ASSUME NEW i \in 1..Len(tail)
      PROVE  tail[i] = rest[i]
  <2>1. i + 1 \in 1..Len(r.pipe) /\ i \in 1..(Len(r.pipe) - 1)
    BY <1>1, <1>7
  <2>2. i \in 1..Len(rest)
    BY <1>1, <1>2, <1>5, <1>7
  <2>3. tail[i] = q[i + 1]
    BY <2>1, <1>2, <1>7
  <2> QED
    BY <2>2, <2>3, <1>5
<1>10. CanRemoveMutationBatch(q, q[1])
  <2>1. Len(q) >= 1
    BY <1>1, <1>2
  <2>2. 1 \in 1..Len(q)
    BY <1>1, <2>1
  <2> QED
    BY <2>2, <1>3 DEF CanRemoveMutationBatch
<1> QED
  BY <1>3, <1>4, <1>5, <1>6, <1>7, <1>8, <1>9, <1>10

\* A call that ends with an error before the handshake, without pending
\* writes, or with an error that may be retried.
LEMMA CloseErrorInv ==
    ASSUME NEW r \in RemoteStoreType, r.ok, NEW q \in Seq(Batch),
           PrefixInv(r, q), \A c \in r.auth : c <= r.closes,
           IsStarted(r), NEW status \in Errors,
           ~(r.pipe # <<>> /\ r.hs /\ IsPermanentWriteError(status))
    PROVE  StoreInv(Close(r, status, q), q) /\ ~IsOpen(Close(r, status, q))
<1>1. PICK c : c = Closed(r, "Error")
  OBVIOUS
<1>2. "Error" \in StreamStates /\ "Error" \in {"Initial", "Error"}
  BY DEF StreamStates
<1>3. /\ CoreInv(c, q)
      /\ c.state = "Error" /\ c.net = r.net /\ c.pipe = r.pipe /\ c.hs = r.hs
  <2>1. CoreInv(c, q)
    BY <1>1, <1>2, ClosedInv
  <2> QED
    BY <1>1, <1>2, <2>1, ClosedFields
<1>4. status # "ok"
  BY DEF Errors
<1>5. PICK h : h = IF r.pipe # <<>> /\ ~r.hs THEN HandleHandshakeError(c, status)
                                             ELSE c
  OBVIOUS
<1>6. OnWriteStreamClose(c, status, q) = StartWriteStreamIfNeeded(h)
  BY <1>3, <1>4, <1>5 DEF OnWriteStreamClose, HandleWriteError
<1>7. CoreInv(h, q) /\ ~IsOpen(h)
  <2>1. CASE h = c
    BY <2>1, <1>3 DEF IsOpen
  <2>2. CASE h # c
    <3>1. h = [c EXCEPT !.token = NoToken]
      BY <2>2, <1>5 DEF HandleHandshakeError
    <3>2. c \in RemoteStoreType
      BY <1>3 DEF CoreInv
    <3>3. /\ h.net = c.net /\ h.pipe = c.pipe /\ h.state = c.state
          /\ h.hs = c.hs /\ h.idle = c.idle /\ h.backoff = c.backoff
          /\ h.closes = c.closes /\ h.token = NoToken /\ h.auth = c.auth
          /\ h.up = c.up /\ h.down = c.down /\ h.fin = c.fin /\ h.ok = c.ok
          /\ h \in RemoteStoreType
      BY <3>1, <3>2 DEF RemoteStoreType
    <3>4. WireInv(h)
      BY <3>3, <1>3, SameWire DEF CoreInv
    <3>5. PrefixInv(h, q) /\ AuthInv(h) /\ TimerInv(h)
      BY <3>3, <1>3 DEF CoreInv, PrefixInv, AuthInv, TimerInv, IsOpen, IsStarted
    <3> QED
      BY <3>3, <3>4, <3>5, <1>3 DEF CoreInv, IsOpen
  <2> QED
    BY <2>1, <2>2
<1>8. PICK s : s = StartWriteStreamIfNeeded(h)
  OBVIOUS
<1>9. /\ CoreInv(s, q) /\ ~IsOpen(s)
      /\ s.net /\ s.pipe # <<>> => IsStarted(s)
  BY <1>7, <1>8, StartIfNeededInv
<1>10. Close(r, status, q) = [s EXCEPT !.hs = FALSE]
  BY <1>1, <1>4, <1>6, <1>8, CloseStarted
<1> QED
  BY <1>9, <1>10, ForgetHandshake DEF IsOpen

\* A call that ends with a permanent error after the handshake: the first
\* batch is rejected and removed.
LEMMA CloseRejectInv ==
    ASSUME NEW r \in RemoteStoreType, r.ok, NEW q \in Seq(Batch),
           PrefixInv(r, q), \A c \in r.auth : c <= r.closes, OrderedQueue(q),
           IsStarted(r), NEW status \in Errors,
           r.pipe # <<>>, r.hs, r.net, IsPermanentWriteError(status)
    PROVE  LET rest == RemoveMutationBatch(q, r.pipe[1])
           IN  /\ StoreInv(Close(r, status, rest), rest)
               /\ ~IsOpen(Close(r, status, rest))
<1>1. PICK c : c = Closed(r, "Error")
  OBVIOUS
<1>2. "Error" \in StreamStates /\ "Error" \in {"Initial", "Error"}
  BY DEF StreamStates
<1>3. /\ CoreInv(c, q)
      /\ c.state = "Error" /\ c.net = r.net /\ c.pipe = r.pipe /\ c.hs = r.hs
  <2>1. CoreInv(c, q)
    BY <1>1, <1>2, ClosedInv
  <2> QED
    BY <1>1, <1>2, <2>1, ClosedFields
<1>4. PICK rest : rest = RemoveMutationBatch(q, r.pipe[1])
  OBVIOUS
<1>5. PICK tail : tail = Tail(r.pipe)
  OBVIOUS
<1>6. /\ rest \in Seq(Batch) /\ OrderedQueue(rest)
      /\ tail \in Seq(Batch)
      /\ Len(tail) <= Len(rest)
      /\ \A i \in 1..Len(tail) : tail[i] = rest[i]
      /\ Len(tail) <= kMaxPendingWrites
  BY <1>4, <1>5, SettleFirst
<1>7. PICK m : m = [c EXCEPT !.pipe = tail]
  OBVIOUS
<1>8. /\ CoreInv(m, rest) /\ m.state = "Error" /\ m.hs = r.hs
  <2>1. c \in RemoteStoreType
    BY <1>3 DEF CoreInv
  <2>2. /\ m.net = c.net /\ m.pipe = tail /\ m.state = c.state
        /\ m.hs = c.hs /\ m.idle = c.idle /\ m.backoff = c.backoff
        /\ m.closes = c.closes /\ m.token = c.token /\ m.auth = c.auth
        /\ m.up = c.up /\ m.down = c.down /\ m.fin = c.fin /\ m.ok = c.ok
        /\ m \in RemoteStoreType
    BY <2>1, <1>6, <1>7 DEF RemoteStoreType
  <2>3. PrefixInv(m, rest)
    BY <2>2, <1>3, <1>6 DEF PrefixInv
  <2>4. WireInv(m) /\ AuthInv(m) /\ TimerInv(m)
    BY <2>2, <1>3 DEF CoreInv, WireInv, AuthInv, TimerInv, IsOpen, IsStarted
  <2> QED
    BY <2>2, <2>3, <2>4, <1>3 DEF CoreInv
<1>9. PICK i : i = InhibitBackoff(m)
  OBVIOUS
<1>10. CoreInv(i, rest) /\ ~IsStarted(i) /\ i.hs = m.hs
  BY <1>8, <1>9, InhibitInv DEF IsStarted
<1>11. PICK f : f = FillWritePipeline(i, rest)
  OBVIOUS
<1>12. /\ CoreInv(f, rest) /\ ~IsOpen(f)
       /\ f.net /\ f.pipe # <<>> => IsStarted(f)
  BY <1>6, <1>10, <1>11, FillInv DEF IsOpen, IsStarted
<1>13. HandleWriteError(c, status, rest) = f
  BY <1>3, <1>5, <1>7, <1>9, <1>11 DEF HandleWriteError
<1>14. OnWriteStreamClose(c, status, rest) = f
  <2>1. status # "ok"
    BY DEF Errors
  <2>2. StartWriteStreamIfNeeded(f) = f
    BY <1>12 DEF StartWriteStreamIfNeeded, ShouldStartWriteStream
  <2> QED
    BY <2>1, <2>2, <1>3, <1>13 DEF OnWriteStreamClose
<1>15. Close(r, status, rest) = [f EXCEPT !.hs = FALSE]
  <2>1. status # "ok"
    BY DEF Errors
  <2> QED
    BY <2>1, <1>1, <1>14, CloseStarted
<1> QED
  BY <1>4, <1>12, <1>15, ForgetHandshake DEF IsOpen

-----------------------------------------------------------------------------
(* The other steps of a connection.                                        *)

\* A write at the end of the queue disturbs nothing.
LEMMA LongerQueue ==
    ASSUME NEW r, NEW q \in Seq(Batch), NEW b \in Batch, StoreInv(r, q)
    PROVE  StoreInv(r, Append(q, b))
<1>1. /\ Len(Append(q, b)) = Len(q) + 1
      /\ \A i \in 1..Len(q) : Append(q, b)[i] = q[i]
      /\ Len(q) \in Nat
  OBVIOUS
<1>2. Len(r.pipe) \in Nat
  BY RecordFields DEF StoreInv, CoreInv
<1>3. PrefixInv(r, q)
  BY DEF StoreInv, CoreInv
<1>4. PrefixInv(r, Append(q, b))
  BY <1>1, <1>2, <1>3 DEF PrefixInv
<1> QED
  BY <1>4 DEF StoreInv, CoreInv

\* The backoff timer fires.
LEMMA BackoffInv ==
    ASSUME NEW r, NEW q, StoreInv(r, q), r.backoff
    PROVE  LET s == [HardAssert(r, r.state = "Backoff") EXCEPT
                       !.backoff = FALSE, !.state = "Initial"]
               n == HardAssert(Start(s), IsStarted(Start(s)))
           IN  StoreInv(n, q) /\ ~IsOpen(n)
<1>0. /\ r \in RemoteStoreType /\ r.ok /\ r.state = "Backoff" /\ r.net
      /\ r.pipe # <<>> /\ ~r.hs
  BY DEF StoreInv, CoreInv, TimerInv, IsStarted, IsOpen, RemoteStoreType
<1>1. HardAssert(r, r.state = "Backoff") = r
  BY <1>0, HardAssertHolds
<1>2. PICK s : s = [r EXCEPT !.backoff = FALSE, !.state = "Initial"]
  OBVIOUS
<1>3. /\ s.net = r.net /\ s.pipe = r.pipe /\ s.state = "Initial"
      /\ s.hs = r.hs /\ s.idle = r.idle /\ s.backoff = FALSE
      /\ s.closes = r.closes /\ s.token = r.token /\ s.auth = r.auth
      /\ s.up = r.up /\ s.down = r.down /\ s.fin = r.fin /\ s.ok = r.ok
      /\ s \in RemoteStoreType
  BY <1>0, <1>2 DEF RemoteStoreType, StreamStates
<1>4. CoreInv(s, q)
  BY <1>0, <1>3 DEF StoreInv, CoreInv, PrefixInv, WireInv, TimerInv, AuthInv,
     IsStarted, IsOpen
<1>5. PICK n : n = Start(s)
  OBVIOUS
<1>6. CoreInv(n, q) /\ IsStarted(n) /\ ~IsOpen(n) /\ n.hs = s.hs
  <2>1. ~IsStarted(s) /\ s.net /\ s.pipe # <<>>
    BY <1>0, <1>3 DEF IsStarted
  <2> QED
    BY <1>4, <1>5, <2>1, StartInv
<1>7. HardAssert(n, IsStarted(n)) = n
  BY <1>6, HardAssertHolds DEF CoreInv, IsStarted
<1>8. StoreInv(n, q)
  BY <1>0, <1>3, <1>6 DEF StoreInv
<1> QED
  BY <1>1, <1>2, <1>5, <1>6, <1>7, <1>8

\* The idleness timer fires.
LEMMA IdleInv ==
    ASSUME NEW r, NEW q, StoreInv(r, q), r.idle
    PROVE  /\ StoreInv(Stop([r EXCEPT !.idle = FALSE]), q)
           /\ ~IsOpen(Stop([r EXCEPT !.idle = FALSE]))
<1>0. /\ r \in RemoteStoreType /\ r.ok /\ IsStarted(r) /\ r.pipe = <<>>
      /\ PrefixInv(r, q) /\ \A c \in r.auth : c <= r.closes
  BY DEF StoreInv, CoreInv, TimerInv, AuthInv, IsStarted, IsOpen
<1>1. PICK s : s = [r EXCEPT !.idle = FALSE]
  OBVIOUS
<1>2. /\ s.net = r.net /\ s.pipe = r.pipe /\ s.state = r.state
      /\ s.closes = r.closes /\ s.auth = r.auth /\ s.ok = r.ok
      /\ s \in RemoteStoreType
  BY <1>0, <1>1 DEF RemoteStoreType
<1>3. /\ PrefixInv(s, q) /\ s.ok /\ IsStarted(s)
      /\ \A c \in s.auth : c <= s.closes
      /\ ~(s.net /\ s.pipe # <<>>)
  BY <1>0, <1>2 DEF PrefixInv, IsStarted
<1>4. StoreInv(Stop(s), q) /\ ~IsOpen(Stop(s))
  BY <1>2, <1>3, StopInv DEF IsOpen
<1> QED
  BY <1>1, <1>4

\* A token for an earlier incarnation of the stream is dropped.
LEMMA StaleInv ==
    ASSUME NEW r, NEW q, StoreInv(r, q), NEW c, c # r.closes
    PROVE  StoreInv([r EXCEPT !.auth = r.auth \ {c}], q)
<1>0. r \in RemoteStoreType
  BY DEF StoreInv, CoreInv
<1>1. SUFFICES ASSUME NEW s, s = [r EXCEPT !.auth = r.auth \ {c}]
               PROVE  StoreInv(s, q)
  OBVIOUS
<1>2. /\ s.net = r.net /\ s.pipe = r.pipe /\ s.state = r.state
      /\ s.hs = r.hs /\ s.idle = r.idle /\ s.backoff = r.backoff
      /\ s.closes = r.closes /\ s.token = r.token /\ s.auth = r.auth \ {c}
      /\ s.up = r.up /\ s.down = r.down /\ s.fin = r.fin /\ s.ok = r.ok
      /\ s \in RemoteStoreType
  BY <1>0, <1>1 DEF RemoteStoreType
<1>3. WireInv(s)
  BY <1>2, SameWire DEF StoreInv, CoreInv
<1>4. PrefixInv(s, q) /\ TimerInv(s)
  BY <1>2 DEF StoreInv, CoreInv, PrefixInv, TimerInv, IsOpen, IsStarted
<1>5. AuthInv(s)
  BY <1>2 DEF StoreInv, CoreInv, AuthInv
<1> QED
  BY <1>2, <1>3, <1>4, <1>5 DEF StoreInv, CoreInv, IsOpen, IsStarted

\* The token arrives: the stream opens and the handshake is sent.
LEMMA OpenInv ==
    ASSUME NEW r, NEW q, StoreInv(r, q), r.closes \in r.auth
    PROVE  LET o == WriteHandshake(
                      [HardAssert(r, r.state = "Starting") EXCEPT
                         !.auth = @ \ {r.closes}, !.state = "Open"])
           IN  /\ StoreInv(o, q) /\ ~o.hs /\ o.fin = "none"
               /\ o.up = <<Handshake>> /\ o.down = <<>>
<1>0. /\ r \in RemoteStoreType /\ r.ok /\ r.state = "Starting"
      /\ ~r.hs /\ r.up = <<>> /\ r.down = <<>> /\ r.fin = "none"
      /\ r.net /\ r.pipe # <<>> /\ ~r.idle /\ ~r.backoff
  BY DEF StoreInv, CoreInv, WireInv, TimerInv, AuthInv, IsStarted, IsOpen,
     RemoteStoreType
<1>1. HardAssert(r, r.state = "Starting") = r
  BY <1>0, HardAssertHolds
<1>2. PICK s : s = [r EXCEPT !.auth = r.auth \ {r.closes}, !.state = "Open"]
  OBVIOUS
<1>3. /\ s.state = "Open" /\ s.hs = r.hs /\ s.up = r.up /\ s.ok = r.ok
      /\ s \in RemoteStoreType
  BY <1>0, <1>2 DEF RemoteStoreType, StreamStates
<1>4. HardAssert(s, ~s.hs) = s /\ HardAssert(s, IsOpen(s)) = s
  BY <1>0, <1>3, HardAssertHolds DEF IsOpen
<1>5. PICK u : u = <<Handshake>>
  OBVIOUS
<1>6. u \in Seq(Batch) /\ Len(u) = 1 /\ u # <<>>
  BY <1>5 DEF Handshake, Batch
<1>7. s.up \o u = u
  BY <1>0, <1>3, <1>6
<1>8. PICK o : o = [s EXCEPT !.idle = FALSE, !.up = u]
  OBVIOUS
<1>9. WriteHandshake(s) = o
  BY <1>4, <1>5, <1>6, <1>7, <1>8 DEF WriteHandshake, Write
<1>10. o = [r EXCEPT !.auth = r.auth \ {r.closes}, !.state = "Open",
                     !.idle = FALSE, !.up = u]
  BY <1>0, <1>2, <1>8 DEF RemoteStoreType
<1>11. /\ o.net = r.net /\ o.pipe = r.pipe /\ o.state = "Open"
       /\ o.hs = r.hs /\ o.idle = FALSE /\ o.backoff = r.backoff
       /\ o.closes = r.closes /\ o.token = r.token
       /\ o.auth = r.auth \ {r.closes}
       /\ o.up = u /\ o.down = r.down /\ o.fin = r.fin /\ o.ok = r.ok
       /\ o \in RemoteStoreType
  BY <1>0, <1>6, <1>10 DEF RemoteStoreType, StreamStates
<1>12. PrefixInv(o, q)
  BY <1>11 DEF StoreInv, CoreInv, PrefixInv
<1>13. WireInv(o)
  <2>1. Len(o.down) = 0 /\ Len(o.up) = 1
    BY <1>0, <1>6, <1>11
  <2> QED
    BY <2>1, <1>0, <1>11 DEF WireInv, IsOpen
<1>14. TimerInv(o)
  BY <1>0, <1>11 DEF TimerInv, IsOpen, IsStarted
<1>15. AuthInv(o)
  BY <1>11 DEF StoreInv, CoreInv, AuthInv
<1>16. StoreInv(o, q)
  BY <1>0, <1>11, <1>12, <1>13, <1>14, <1>15 DEF StoreInv, CoreInv, IsOpen, IsStarted
<1>17. ~o.hs /\ o.fin = "none" /\ o.up = <<Handshake>> /\ o.down = <<>>
  BY <1>0, <1>5, <1>11
<1> QED
  BY <1>1, <1>2, <1>9, <1>16, <1>17

\* The call ends: what was not handled is lost.
LEMMA EndCallInv ==
    ASSUME NEW r, NEW q, StoreInv(r, q), IsOpen(r), NEW status \in Errors
    PROVE  StoreInv([r EXCEPT !.up = <<>>, !.fin = status], q)
<1>0. r \in RemoteStoreType /\ <<>> \in Seq(Batch)
  BY DEF StoreInv, CoreInv
<1>1. SUFFICES ASSUME NEW s, s = [r EXCEPT !.up = <<>>, !.fin = status]
               PROVE  StoreInv(s, q)
  OBVIOUS
<1>2. /\ s.net = r.net /\ s.pipe = r.pipe /\ s.state = r.state
      /\ s.hs = r.hs /\ s.idle = r.idle /\ s.backoff = r.backoff
      /\ s.closes = r.closes /\ s.token = r.token /\ s.auth = r.auth
      /\ s.up = <<>> /\ s.down = r.down /\ s.fin = status /\ s.ok = r.ok
      /\ s \in RemoteStoreType
  BY <1>0, <1>1 DEF RemoteStoreType
<1>3. WireInv(s)
  <2>1. WireInv(r) /\ status # "none"
    BY DEF StoreInv, CoreInv, Errors
  <2>2. Len(s.up) = 0 /\ Len(r.up) \in Nat /\ Len(r.down) \in Nat
    BY <1>0, <1>2, RecordFields
  <2>3. IsOpen(s) /\ ~s.hs => Len(s.down) + Len(s.up) <= 1
    <3>1. ASSUME NEW x \in Nat, NEW y \in Nat, x + y <= 1
          PROVE  x + 0 <= 1
      BY <3>1
    <3> QED
      BY <2>1, <2>2, <3>1, <1>2 DEF WireInv, IsOpen
  <2>4. IsOpen(s) /\ s.hs =>
          /\ Len(s.down) <= Len(s.pipe)
          /\ \A i \in 1..Len(s.down) : s.down[i] = s.pipe[i]
    BY <2>1, <1>2 DEF WireInv, IsOpen
  <2> QED
    BY <2>1, <2>3, <2>4, <1>2 DEF WireInv, IsOpen
<1>4. PrefixInv(s, q) /\ TimerInv(s) /\ AuthInv(s)
  BY <1>2 DEF StoreInv, CoreInv, PrefixInv, TimerInv, AuthInv, IsOpen, IsStarted
<1> QED
  BY <1>2, <1>3, <1>4 DEF StoreInv, CoreInv, IsOpen, IsStarted

\* The backend takes a request and answers it.
LEMMA AcceptInv ==
    ASSUME NEW r, NEW q, StoreInv(r, q), r.fin = "none", r.up # <<>>
    PROVE  StoreInv([r EXCEPT !.up = Tail(r.up),
                              !.down = Append(r.down, r.up[1])], q)
<1>0. /\ r \in RemoteStoreType /\ r.up \in Seq(Batch) /\ r.down \in Seq(Batch)
      /\ r.pipe \in Seq(Batch) /\ IsOpen(r)
  BY RecordFields DEF StoreInv, CoreInv, WireInv
<1>1. PICK u, d : u = Tail(r.up) /\ d = Append(r.down, r.up[1])
  OBVIOUS
<1>2. PICK k \in Nat : k = Len(r.up)
  BY <1>0
<1>3. PICK n \in Nat : n = Len(r.down)
  BY <1>0
<1>4. PICK m \in Nat : m = Len(r.pipe)
  BY <1>0
<1>5. /\ u \in Seq(Batch) /\ Len(u) = k - 1 /\ k >= 1
      /\ \A i \in 1..(k - 1) : u[i] = r.up[i + 1]
  BY <1>0, <1>1, <1>2, TailBatches
<1>6. r.up[1] \in Batch
  BY <1>0, <1>2, <1>5
<1>7. /\ d \in Seq(Batch) /\ Len(d) = n + 1
      /\ \A i \in 1..n : d[i] = r.down[i]
      /\ d[n + 1] = r.up[1]
  BY <1>0, <1>1, <1>3, <1>6
<1>8. SUFFICES ASSUME NEW s, s = [r EXCEPT !.up = u, !.down = d]
               PROVE  StoreInv(s, q)
  BY <1>1
<1>9. /\ s.net = r.net /\ s.pipe = r.pipe /\ s.state = r.state
      /\ s.hs = r.hs /\ s.idle = r.idle /\ s.backoff = r.backoff
      /\ s.closes = r.closes /\ s.token = r.token /\ s.auth = r.auth
      /\ s.up = u /\ s.down = d /\ s.fin = r.fin /\ s.ok = r.ok
      /\ s \in RemoteStoreType
  BY <1>0, <1>5, <1>7, <1>8 DEF RemoteStoreType
<1>10. CASE ~r.hs
  <2>1. n + k <= 1
    BY <1>0, <1>2, <1>3, <1>10 DEF StoreInv, CoreInv, WireInv
  <2>2. Len(d) + Len(u) <= 1
    BY <2>1, <1>5, <1>7
  <2>3. WireInv(s)
    BY <2>2, <1>0, <1>9, <1>10 DEF WireInv, IsOpen
  <2>4. PrefixInv(s, q) /\ TimerInv(s) /\ AuthInv(s)
    BY <1>9 DEF StoreInv, CoreInv, PrefixInv, TimerInv, AuthInv, IsOpen, IsStarted
  <2> QED
    BY <1>9, <2>3, <2>4 DEF StoreInv, CoreInv, IsOpen, IsStarted
<1>11. CASE r.hs
  <2>1. /\ m = n + k
        /\ \A i \in 1..k : r.up[i] = r.pipe[n + i]
        /\ \A i \in 1..n : r.down[i] = r.pipe[i]
    BY <1>0, <1>2, <1>3, <1>4, <1>11 DEF StoreInv, CoreInv, WireInv, Aligned
  <2>2. r.up[1] = r.pipe[n + 1]
    BY <2>1, <1>5
  <2>3. Len(d) <= m /\ m = Len(d) + Len(u)
    BY <2>1, <1>5, <1>7
  <2>4. ASSUME NEW i \in 1..Len(d)
        PROVE  d[i] = r.pipe[i]
    <3>1. i \in 1..n \/ i = n + 1
      BY <1>7
    <3> QED
      BY <3>1, <2>1, <2>2, <1>7
  <2>5. ASSUME NEW i \in 1..Len(u)
        PROVE  u[i] = r.pipe[Len(d) + i]
    <3>1. i \in 1..(k - 1) /\ i + 1 \in 1..k
      BY <1>5
    <3>2. u[i] = r.pipe[n + (i + 1)]
      BY <3>1, <1>5, <2>1
    <3>3. n + (i + 1) = Len(d) + i
      BY <3>1, <1>7
    <3> QED
      BY <3>2, <3>3
  <2>6. Aligned(d, u, r.pipe)
    BY <2>3, <2>5, <1>4 DEF Aligned
  <2>7. WireInv(s)
    BY <2>3, <2>4, <2>6, <1>0, <1>4, <1>9, <1>11 DEF WireInv, IsOpen
  <2>8. PrefixInv(s, q) /\ TimerInv(s) /\ AuthInv(s)
    BY <1>9 DEF StoreInv, CoreInv, PrefixInv, TimerInv, AuthInv, IsOpen, IsStarted
  <2> QED
    BY <1>9, <2>7, <2>8 DEF StoreInv, CoreInv, IsOpen, IsStarted
<1> QED
  BY <1>10, <1>11

\* The handshake response: the pipeline is written to the stream.
LEMMA HandshakeInv ==
    ASSUME NEW r, NEW q, StoreInv(r, q), r.down # <<>>, ~r.hs,
           NEW token \in Tokens
    PROVE  LET o == WriteMutations([r EXCEPT !.down = Tail(r.down),
                                             !.token = token, !.hs = TRUE],
                                   r.pipe)
           IN  /\ StoreInv(o, q) /\ o.token = token /\ o.hs
               /\ o.down = <<>> /\ o.fin = r.fin
<1>0. /\ r \in RemoteStoreType /\ r.ok /\ IsOpen(r) /\ r.net
      /\ r.up \in Seq(Batch) /\ r.down \in Seq(Batch) /\ r.pipe \in Seq(Batch)
      /\ r.pipe # <<>>
  BY RecordFields DEF StoreInv, CoreInv, WireInv, TimerInv, IsOpen, IsStarted
<1>1. PICK k \in Nat, n \in Nat : k = Len(r.up) /\ n = Len(r.down)
  BY <1>0
<1>2. n + k <= 1 /\ n >= 1
  BY <1>0, <1>1, TailBatches DEF StoreInv, CoreInv, WireInv
<1>3. n = 1 /\ k = 0
  BY <1>2
<1>4. r.up = <<>> /\ Tail(r.down) = <<>>
  <2>1. r.up = <<>>
    BY <1>0, <1>1, <1>3, EmptySeq
  <2>2. Tail(r.down) \in Seq(Batch) /\ Len(Tail(r.down)) = n - 1
    BY <1>0, <1>1, TailBatches
  <2>3. ASSUME NEW x \in Seq(Batch), Len(x) = n - 1
        PROVE  x = <<>>
    BY <2>3, <1>3, EmptySeq
  <2> QED
    BY <2>1, <2>2, <2>3
<1>5. PICK h : h = [r EXCEPT !.down = <<>>, !.token = token, !.hs = TRUE]
  OBVIOUS
<1>6. /\ h.state = r.state /\ h.hs = TRUE /\ h.up = <<>> /\ h.ok = r.ok
      /\ h \in RemoteStoreType
  <2>1. <<>> \in Seq(Batch)
    OBVIOUS
  <2> QED
    BY <2>1, <1>0, <1>4, <1>5 DEF RemoteStoreType
<1>7. HardAssert(h, r.pipe # <<>> => h.hs) = h /\ HardAssert(h, IsOpen(h)) = h
  BY <1>0, <1>6, HardAssertHolds DEF IsOpen
<1>8. h.up \o r.pipe = r.pipe
  BY <1>0, <1>6
<1>9. PICK o : o = [h EXCEPT !.idle = FALSE, !.up = r.pipe]
  OBVIOUS
<1>10. WriteMutations(h, r.pipe) = o
  BY <1>0, <1>7, <1>8, <1>9 DEF WriteMutations, Write
<1>11. o = [r EXCEPT !.down = <<>>, !.token = token, !.hs = TRUE,
                     !.idle = FALSE, !.up = r.pipe]
  BY <1>0, <1>5, <1>9 DEF RemoteStoreType
<1>12. /\ o.net = r.net /\ o.pipe = r.pipe /\ o.state = r.state
       /\ o.hs = TRUE /\ o.idle = FALSE /\ o.backoff = r.backoff
       /\ o.closes = r.closes /\ o.token = token /\ o.auth = r.auth
       /\ o.up = r.pipe /\ o.down = <<>> /\ o.fin = r.fin /\ o.ok = r.ok
       /\ o \in RemoteStoreType
  <2>1. <<>> \in Seq(Batch)
    OBVIOUS
  <2> QED
    BY <2>1, <1>0, <1>11 DEF RemoteStoreType
<1>13. WireInv(o)
  <2>1. PICK p : p = r.pipe
    OBVIOUS
  <2>2. p \in Seq(Batch)
    BY <1>0, <2>1
  <2>3. Aligned(<<>>, p, p) /\ Len(<<>>) = 0 /\ Len(p) \in Nat
    BY <2>2 DEF Aligned
  <2> QED
    BY <2>1, <2>3, <1>0, <1>12 DEF WireInv, IsOpen
<1>14. PrefixInv(o, q) /\ TimerInv(o) /\ AuthInv(o)
  BY <1>0, <1>12 DEF StoreInv, CoreInv, PrefixInv, TimerInv, AuthInv, IsOpen, IsStarted
<1>15. StoreInv(o, q)
  BY <1>0, <1>12, <1>13, <1>14 DEF StoreInv, CoreInv, IsOpen, IsStarted
<1>16. o.token = token /\ o.hs /\ o.down = <<>> /\ o.fin = r.fin
  BY <1>12
<1> QED
  BY <1>4, <1>5, <1>10, <1>15, <1>16

\* f is the stream r after the response to the first batch was read.
Answered(r, f, token) ==
    /\ r.pipe[1] = r.down[1]
    /\ f.token = token /\ f.hs
    /\ f.down = Tail(r.down) /\ f.fin = r.fin
    /\ Len(r.pipe) - 1 <= Len(f.pipe)
    /\ \A i \in 1..(Len(r.pipe) - 1) : f.pipe[i] = r.pipe[i + 1]

\* A write result: the first batch of the pipeline is acknowledged.
LEMMA ResultInv ==
    ASSUME NEW r, NEW q \in Seq(Batch), StoreInv(r, q), OrderedQueue(q),
           r.down # <<>>, r.hs, NEW token \in Tokens,
           NEW rest, rest = RemoveMutationBatch(q, r.pipe[1]),
           NEW f, f = FillWritePipeline(
                        [HardAssert(r, CanRemoveMutationBatch(q, r.pipe[1]))
                           EXCEPT !.down = Tail(@), !.token = token,
                                  !.pipe = Tail(@)], rest)
    PROVE  r.pipe # <<>> /\ StoreInv(f, rest) /\ Answered(r, f, token)
<1>0. /\ r \in RemoteStoreType /\ r.ok /\ IsOpen(r) /\ PrefixInv(r, q)
      /\ r.up \in Seq(Batch) /\ r.down \in Seq(Batch) /\ r.pipe \in Seq(Batch)
  BY RecordFields DEF StoreInv, CoreInv
<1>1. /\ Len(r.down) \in Nat /\ Len(r.down) >= 1 /\ Len(r.pipe) \in Nat
      /\ Len(r.down) <= Len(r.pipe)
      /\ \A i \in 1..Len(r.down) : r.down[i] = r.pipe[i]
  BY <1>0, TailBatches DEF StoreInv, CoreInv, WireInv
<1>2. r.pipe # <<>>
  <2>1. Len(r.pipe) # 0
    BY <1>1
  <2> QED
    BY <2>1, <1>0, EmptySeq
<1>3. PICK d : d = Tail(r.down)
  OBVIOUS
<1>4. PICK p : p = Tail(r.pipe)
  OBVIOUS
<1>6. /\ CanRemoveMutationBatch(q, r.pipe[1])
      /\ rest \in Seq(Batch) /\ OrderedQueue(rest)
      /\ p \in Seq(Batch)
      /\ Len(p) <= Len(rest)
      /\ \A i \in 1..Len(p) : p[i] = rest[i]
      /\ Len(p) <= kMaxPendingWrites
  BY <1>0, <1>2, <1>4, SettleFirst
<1>7. /\ d \in Seq(Batch) /\ Len(d) = Len(r.down) - 1
      /\ \A i \in 1..(Len(r.down) - 1) : d[i] = r.down[i + 1]
  BY <1>0, <1>3, TailBatches
<1>8. /\ Len(p) = Len(r.pipe) - 1
      /\ \A i \in 1..(Len(r.pipe) - 1) : p[i] = r.pipe[i + 1]
  BY <1>0, <1>2, <1>4, TailBatches
<1>9. HardAssert(r, CanRemoveMutationBatch(q, r.pipe[1])) = r
  <2>1. CanRemoveMutationBatch(q, r.pipe[1]) \in BOOLEAN
    BY DEF CanRemoveMutationBatch
  <2> QED
    BY <2>1, <1>0, <1>6, HardAssertHolds
<1>10. PICK s : s = [r EXCEPT !.down = d, !.token = token, !.pipe = p]
  OBVIOUS
<1>11. /\ s.net = r.net /\ s.pipe = p /\ s.state = r.state
       /\ s.hs = r.hs /\ s.idle = r.idle /\ s.backoff = r.backoff
       /\ s.closes = r.closes /\ s.token = token /\ s.auth = r.auth
       /\ s.up = r.up /\ s.down = d /\ s.fin = r.fin /\ s.ok = r.ok
       /\ s \in RemoteStoreType
  BY <1>0, <1>6, <1>7, <1>10 DEF RemoteStoreType
<1>12. /\ Len(d) <= Len(p)
       /\ \A i \in 1..Len(d) : d[i] = p[i]
  <2>1. Len(d) <= Len(p)
    BY <1>1, <1>7, <1>8
  <2>2. ASSUME NEW i \in 1..Len(d)
        PROVE  d[i] = p[i]
    <3>1. /\ i \in 1..(Len(r.down) - 1) /\ i \in 1..(Len(r.pipe) - 1)
          /\ i + 1 \in 1..Len(r.down)
      BY <1>1, <1>7
    <3> QED
      BY <3>1, <1>1, <1>7, <1>8
  <2> QED
    BY <2>1, <2>2
<1>13. r.fin = "none" => Aligned(d, r.up, p)
  <2> SUFFICES ASSUME r.fin = "none"
               PROVE  Aligned(d, r.up, p)
    OBVIOUS
  <2>1. PICK n \in Nat, k \in Nat, m \in Nat :
          n = Len(r.down) /\ k = Len(r.up) /\ m = Len(r.pipe)
    <3>1. Len(r.down) \in Nat /\ Len(r.up) \in Nat /\ Len(r.pipe) \in Nat
      BY <1>0, BatchSeq
    <3> QED
      BY <3>1, Zenon
  <2>2. m = n + k /\ \A i \in 1..k : r.up[i] = r.pipe[n + i]
    BY <2>1, <1>0 DEF StoreInv, CoreInv, WireInv, Aligned
  <2>3. n >= 1 /\ Len(d) = n - 1 /\ Len(p) = m - 1
    BY <2>1, <1>1, <1>7, <1>8
  <2>4. ASSUME NEW i \in 1..k
        PROVE  r.up[i] = p[Len(d) + i]
    <3>1. (n - 1) + i \in 1..(m - 1) /\ ((n - 1) + i) + 1 = n + i
      BY <2>2, <2>3
    <3>2. p[(n - 1) + i] = r.pipe[((n - 1) + i) + 1]
      BY <3>1, <2>1, <1>8
    <3> QED
      BY <3>1, <3>2, <2>2, <2>3
  <2>5. Len(p) = Len(d) + Len(r.up)
    BY <2>1, <2>2, <2>3
  <2> QED
    BY <2>1, <2>4, <2>5 DEF Aligned
<1>14. CoreInv(s, rest)
  <2>1. PrefixInv(s, rest)
    BY <1>0, <1>2, <1>6, <1>11 DEF PrefixInv
  <2>2. WireInv(s)
    BY <1>0, <1>11, <1>12, <1>13 DEF WireInv, IsOpen
  <2>3. TimerInv(s) /\ AuthInv(s)
    BY <1>0, <1>2, <1>11 DEF StoreInv, CoreInv, TimerInv, AuthInv, IsOpen, IsStarted
  <2> QED
    BY <2>1, <2>2, <2>3, <1>0, <1>11 DEF CoreInv
<1>15. f = FillWritePipeline(s, rest)
  BY <1>3, <1>4, <1>9, <1>10
<1>16. /\ CoreInv(f, rest) /\ f.hs = s.hs /\ (IsOpen(f) <=> IsOpen(s))
       /\ Carried(s, f) /\ f.token = s.token
       /\ f.net /\ f.pipe # <<>> => IsStarted(f)
  BY <1>6, <1>14, <1>15, FillInv
<1>17. StoreInv(f, rest)
  BY <1>0, <1>11, <1>16 DEF StoreInv, IsOpen
<1>18. /\ f.token = token /\ f.hs /\ f.down = d /\ f.fin = r.fin
       /\ Len(r.pipe) - 1 <= Len(f.pipe)
       /\ \A i \in 1..(Len(r.pipe) - 1) : f.pipe[i] = r.pipe[i + 1]
  BY <1>1, <1>8, <1>11, <1>16 DEF Carried
<1>19. r.pipe[1] = r.down[1]
  BY <1>1
<1> QED
  BY <1>2, <1>3, <1>17, <1>18, <1>19 DEF Answered

-----------------------------------------------------------------------------
(* The inductive invariant.                                                *)

\* Queues are ordered, the batch id assigned next is larger than those of the
\* current user's queue (with memory persistence: of every user's own queue),
\* and no id exceeds the number of writes.
QueueInv ==
    /\ \A v \in Users : OrderedQueue(queue[v])
    /\ \A v \in Users : \A i \in 1..Len(queue[v]) : queue[v][i].id <= Len(author)
    /\ \A v \in Users : next[v] <= Len(author) + 1
    /\ \A v \in Users : v = user \/ Persistence = "memory" =>
          \A i \in 1..Len(queue[v]) : queue[v][i].id < next[v]

IInv == TypeOK /\ QueueInv /\ StoreInv(rs, queue[user])

\* The variables that the inductive step says nothing more about.
OtherTypes ==
    /\ stored \in [Users -> Tokens \cup {NoToken}]
    /\ callbacks \in [Users -> SUBSET Batch]
    /\ waiters \in SUBSET [id : Int, pending : SUBSET Nat]
    /\ session \in SUBSET Nat
    /\ told \in [ok : SUBSET Nat, error : SUBSET Nat]
    /\ server \in [applied : SUBSET Nat, refused : SUBSET Nat]
    /\ faults \in Nat

\* A step that leaves the queues alone.
LEMMA SameQueues ==
    ASSUME IInv, UNCHANGED <<queue, next, user, author>>, OtherTypes',
           StoreInv(rs', queue[user])
    PROVE  IInv'
<1>1. TypeOK'
  BY DEF IInv, TypeOK, OtherTypes, StoreInv, CoreInv
<1>2. QueueInv'
  BY DEF IInv, QueueInv, OrderedQueue
<1>3. StoreInv(rs', queue'[user'])
  OBVIOUS
<1> QED
  BY <1>1, <1>2, <1>3 DEF IInv

\* What the steps below use of IInv.
LEMMA InvFacts ==
    ASSUME IInv
    PROVE  /\ queue[user] \in Seq(Batch) /\ OrderedQueue(queue[user])
           /\ \A v \in Users : queue[v] \in Seq(Batch) /\ OrderedQueue(queue[v])
           /\ \A v \in Users : stored[v] \in Tokens \cup {NoToken}
           /\ StoreInv(rs, queue[user]) /\ CoreInv(rs, queue[user])
           /\ rs \in RemoteStoreType /\ OtherTypes
           /\ user \in Users /\ Len(author) \in Nat
           /\ next[user] \in Nat
  BY DEF IInv, TypeOK, QueueInv, OtherTypes, StoreInv, CoreInv

\* A bounded set of natural numbers has a largest element.
LEMMA MaxExists ==
    ASSUME NEW N \in Nat, NEW S \in SUBSET (0..N), 0 \in S
    PROVE  \E m \in S : \A i \in S : i <= m
<1> DEFINE T == {x \in Nat : N - x \in S}
<1>1. T \in SUBSET Nat /\ N \in T
  OBVIOUS
<1>2. PICK x \in T : \A y \in T : <<y, x>> \notin OpToRel(<, Nat)
  BY <1>1, NatLessThanWellFounded, WFMin
<1>3. \A y \in T : ~(y < x)
  BY <1>1, <1>2 DEF OpToRel
<1>4. ASSUME NEW i \in S
      PROVE  i <= N - x
  <2>1. N - i \in Nat /\ N - (N - i) = i
    OBVIOUS
  <2>2. N - i \in T
    BY <2>1
  <2>3. ~(N - i < x) /\ x \in Nat
    BY <2>2, <1>1, <1>2, <1>3
  <2> QED
    BY <2>1, <2>3
<1> QED
  BY <1>2, <1>4

\* LevelDB's scan for the largest batch id.
LEMMA MaxBatchIdBounds ==
    ASSUME NEW queues \in [Users -> Seq(Batch)], NEW N \in Nat,
           \A v \in Users : \A i \in 1..Len(queues[v]) : queues[v][i].id <= N
    PROVE  /\ MaxBatchId(queues) \in 0..N
           /\ \A v \in Users : \A i \in 1..Len(queues[v]) :
                 queues[v][i].id <= MaxBatchId(queues)
<1> DEFINE ids == UNION {{b.id : b \in Batches(queues[v])} : v \in Users}
<1>1. ASSUME NEW v \in Users, NEW i \in 1..Len(queues[v])
      PROVE  queues[v][i].id \in 0..N
  <2>1. queues[v] \in Seq(Batch)
    OBVIOUS
  <2>2. queues[v][i].id \in Nat
    BY <2>1, BatchSeq
  <2> QED
    BY <2>2
<1>2. \A v \in Users : \A i \in 1..Len(queues[v]) : queues[v][i].id \in ids
  BY DEF Batches
<1>3. ids \cup {0} \in SUBSET (0..N)
  BY <1>1 DEF Batches
<1>4. \E m \in ids \cup {0} : \A i \in ids \cup {0} : i <= m
  BY <1>3, MaxExists
<1> HIDE DEF ids
<1>5. PICK m : m = CHOOSE x \in ids \cup {0} : \A i \in ids : i <= x
  OBVIOUS
<1>6. m \in ids \cup {0} /\ \A i \in ids : i <= m
  BY <1>4, <1>5
<1>7. MaxBatchId(queues) = m
  BY <1>5 DEF MaxBatchId, ids
<1> QED
  BY <1>2, <1>3, <1>6, <1>7

\* Opening the queue of user u.
LEMMA StartQueueInv ==
    ASSUME NEW queues \in [Users -> Seq(Batch)], NEW N \in Nat,
           NEW counters \in [Users -> Nat], NEW u \in Users,
           \A v \in Users : \A i \in 1..Len(queues[v]) : queues[v][i].id <= N,
           \A v \in Users : counters[v] <= N + 1,
           Persistence = "memory" =>
             \A v \in Users : \A i \in 1..Len(queues[v]) :
               queues[v][i].id < counters[v]
    PROVE  LET n == StartMutationQueue(queues, counters, u)
           IN  /\ n \in [Users -> Nat]
               /\ \A v \in Users : n[v] <= N + 1
               /\ \A v \in Users : v = u \/ Persistence = "memory" =>
                     \A i \in 1..Len(queues[v]) : queues[v][i].id < n[v]
<1>1. SUFFICES ASSUME NEW n, n = StartMutationQueue(queues, counters, u)
               PROVE  /\ n \in [Users -> Nat]
                      /\ \A v \in Users : n[v] <= N + 1
                      /\ \A v \in Users : v = u \/ Persistence = "memory" =>
                            \A i \in 1..Len(queues[v]) : queues[v][i].id < n[v]
  OBVIOUS
<1>2. \A v \in Users : \A i \in 1..Len(queues[v]) : queues[v][i].id \in Nat
  <2> SUFFICES ASSUME NEW v \in Users
               PROVE  \A i \in 1..Len(queues[v]) : queues[v][i].id \in Nat
    OBVIOUS
  <2>1. queues[v] \in Seq(Batch)
    OBVIOUS
  <2> QED
    BY <2>1, BatchSeq
<1>3. CASE Persistence = "leveldb"
  <2>1. PICK m : m = MaxBatchId(queues)
    OBVIOUS
  <2>2. /\ m \in 0..N
        /\ \A v \in Users : \A i \in 1..Len(queues[v]) : queues[v][i].id <= m
    BY <2>1, MaxBatchIdBounds
  <2>3. n = [counters EXCEPT ![u] = m + 1]
    BY <1>1, <1>3, <2>1 DEF StartMutationQueue
  <2> QED
    BY <1>2, <1>3, <2>2, <2>3
<1>4. CASE Persistence = "memory"
  <2>1. n = [counters EXCEPT ![u] = IF queues[u] = <<>> THEN 1 ELSE counters[u]]
    BY <1>1, <1>4 DEF StartMutationQueue
  <2>2. n \in [Users -> Nat] /\ \A v \in Users : n[v] <= N + 1
    BY <2>1
  <2>3. ASSUME NEW v \in Users, NEW i \in 1..Len(queues[v])
        PROVE  queues[v][i].id < n[v]
    <3>1. CASE v = u /\ queues[u] = <<>>
      <4>1. Len(queues[v]) = 0
        BY <3>1
      <4> QED
        BY <4>1
    <3>2. CASE ~(v = u /\ queues[u] = <<>>)
      BY <3>2, <2>1, <1>4
    <3> QED
      BY <3>1, <3>2
  <2> QED
    BY <2>2, <2>3
<1> QED
  BY <1>3, <1>4, PersistenceAssumption

\* A disabled network has an empty pipeline, which suits any queue.
LEMMA DisabledInv ==
    ASSUME NEW r, NEW p, StoreInv(r, p), ~r.net, NEW q \in Seq(Batch)
    PROVE  StoreInv(r, q)
<1>1. r.pipe = <<>>
  BY DEF StoreInv, CoreInv, PrefixInv
<1>2. Len(r.pipe) = 0 /\ Len(q) \in Nat
  BY <1>1
<1>3. PrefixInv(r, q)
  BY <1>1, <1>2, PipelineAssumption DEF PrefixInv
<1> QED
  BY <1>3 DEF StoreInv, CoreInv

\* The remote store of a client that was just constructed.
LEMMA NewStoreInv ==
    ASSUME NEW q \in Seq(Batch)
    PROVE  StoreInv(NewRemoteStore, q)
<1>1. PICK r : r = NewRemoteStore
  OBVIOUS
<1>2. /\ r.net = FALSE /\ r.pipe = <<>> /\ r.state = "Initial"
      /\ r.hs = FALSE /\ r.idle = FALSE /\ r.backoff = FALSE
      /\ r.closes = 0 /\ r.token = NoToken /\ r.auth = {}
      /\ r.up = <<>> /\ r.down = <<>> /\ r.fin = "none" /\ r.ok = TRUE
  BY <1>1 DEF NewRemoteStore
<1>3. r \in RemoteStoreType
  <2>1. <<>> \in Seq(Batch)
    OBVIOUS
  <2> QED
    BY <1>1, <2>1 DEF NewRemoteStore, RemoteStoreType, StreamStates
<1>4. Len(r.pipe) = 0 /\ Len(q) \in Nat
  BY <1>2
<1>5. PrefixInv(r, q)
  BY <1>2, <1>4, PipelineAssumption DEF PrefixInv
<1>6. WireInv(r) /\ TimerInv(r) /\ AuthInv(r)
  BY <1>2 DEF WireInv, TimerInv, AuthInv, IsOpen, IsStarted
<1>7. StoreInv(r, q)
  BY <1>2, <1>3, <1>5, <1>6 DEF StoreInv, CoreInv, IsOpen
<1> QED
  BY <1>1, <1>7

\* Settling the first batch of the current user's queue.
LEMMA SettleInv ==
    ASSUME IInv, NEW b, b = rs.pipe[1], rs.pipe # <<>>,
           NEW outcome \in {"ok", "error"}, Settle(b, outcome),
           UNCHANGED <<next, user, author, session, server>>,
           stored' \in [Users -> Tokens \cup {NoToken}], faults' \in Nat,
           StoreInv(rs', RemoveMutationBatch(queue[user], b))
    PROVE  IInv'
<1>0. /\ queue[user] \in Seq(Batch) /\ OrderedQueue(queue[user])
      /\ rs \in RemoteStoreType /\ PrefixInv(rs, queue[user])
      /\ user \in Users /\ queue \in [Users -> Seq(Batch)]
  BY InvFacts DEF CoreInv, IInv, TypeOK
<1>1. PICK rest : rest = RemoveMutationBatch(queue[user], b)
  OBVIOUS
<1>2. /\ rest \in Seq(Batch) /\ OrderedQueue(rest)
      /\ Len(rest) = Len(queue[user]) - 1
      /\ \A i \in 1..Len(rest) : rest[i] = queue[user][i + 1]
  BY <1>0, <1>1, SettleFirst
<1>3. queue' = [queue EXCEPT ![user] = rest]
  BY <1>1 DEF Settle
<1>4. /\ queue' \in [Users -> Seq(Batch)]
      /\ queue'[user] = rest
      /\ \A v \in Users : v # user => queue'[v] = queue[v]
  BY <1>0, <1>2, <1>3
<1>5. QueueInv'
  <2>1. QueueInv
    BY DEF IInv
  <2>2. \A v \in Users : OrderedQueue(queue'[v])
    BY <2>1, <1>2, <1>4 DEF QueueInv
  <2>3. \A i \in 1..Len(rest) : i + 1 \in 1..Len(queue[user])
    BY <1>0, <1>2
  <2>4. \A i \in 1..Len(rest) : /\ rest[i].id <= Len(author)
                                /\ rest[i].id < next[user]
    BY <2>1, <2>3, <1>0, <1>2 DEF QueueInv
  <2>5. ASSUME NEW v \in Users
        PROVE  /\ \A i \in 1..Len(queue'[v]) : queue'[v][i].id <= Len(author)
               /\ v = user \/ Persistence = "memory" =>
                    \A i \in 1..Len(queue'[v]) : queue'[v][i].id < next[v]
    <3>1. CASE v = user
      BY <3>1, <2>4, <1>4
    <3>2. CASE v # user
      BY <3>2, <2>1, <1>4 DEF QueueInv
    <3> QED
      BY <3>1, <3>2
  <2>6. \A v \in Users : next'[v] <= Len(author') + 1
    BY <2>1 DEF QueueInv
  <2> QED
    BY <2>2, <2>5, <2>6 DEF QueueInv
<1>6. TypeOK'
  <2>1. CallbacksFor(b) \subseteq Batch
    BY <1>0 DEF CallbacksFor, IInv, TypeOK
  <2>2. {c.w : c \in CallbacksFor(b)} \subseteq Nat
    BY <2>1 DEF Batch
  <2>3. told' \in [ok : SUBSET Nat, error : SUBSET Nat]
    BY <2>2 DEF Settle, IInv, TypeOK
  <2>4. callbacks' \in [Users -> SUBSET Batch]
    BY <1>0 DEF Settle, IInv, TypeOK
  <2>5. waiters' \in SUBSET [id : Int, pending : SUBSET Nat]
    BY DEF Settle, IInv, TypeOK
  <2>6. rs' \in RemoteStoreType
    BY DEF StoreInv, CoreInv
  <2> QED
    BY <2>3, <2>4, <2>5, <2>6, <1>4 DEF IInv, TypeOK
<1> QED
  BY <1>1, <1>4, <1>5, <1>6 DEF IInv

\* Every way in which the stream closes with an error.
LEMMA CloseWithErrorInv ==
    ASSUME IInv, NEW r \in RemoteStoreType, r.ok, PrefixInv(r, queue[user]),
           \A c \in r.auth : c <= r.closes, IsStarted(r), r.net,
           r.pipe = rs.pipe, NEW status \in Errors, CloseWithError(r, status),
           UNCHANGED <<next, user, author, session, server>>, faults' \in Nat
    PROVE  IInv' /\ ~IsOpen(rs')
<1>0. /\ queue[user] \in Seq(Batch) /\ OrderedQueue(queue[user])
      /\ OtherTypes
  BY InvFacts
<1>1. CASE r.pipe # <<>> /\ r.hs /\ IsPermanentWriteError(status)
  <2>1. PICK b : b = r.pipe[1]
    OBVIOUS
  <2>2. PICK rest : rest = RemoveMutationBatch(queue[user], b)
    OBVIOUS
  <2>3. CanRemoveMutationBatch(queue[user], b)
    BY <1>0, <1>1, <2>1, SettleFirst
  <2>4. HardAssert(r, CanRemoveMutationBatch(queue[user], b)) = r
    <3>1. CanRemoveMutationBatch(queue[user], b) \in BOOLEAN
      BY DEF CanRemoveMutationBatch
    <3> QED
      BY <3>1, <2>3, HardAssertHolds
  <2>5. /\ Settle(b, "error") /\ UNCHANGED stored
        /\ rs' = Close(r, status, rest)
    BY <1>1, <2>1, <2>2, <2>4 DEF CloseWithError
  <2>6. StoreInv(rs', rest) /\ ~IsOpen(rs')
    BY <1>0, <1>1, <2>1, <2>2, <2>5, CloseRejectInv
  <2>7. "error" \in {"ok", "error"}
    OBVIOUS
  <2>8. stored' \in [Users -> Tokens \cup {NoToken}]
    BY <1>0, <2>5 DEF OtherTypes
  <2>9. b = rs.pipe[1] /\ rs.pipe # <<>>
    BY <1>1, <2>1
  <2>10. StoreInv(rs', RemoveMutationBatch(queue[user], b))
    BY <2>2, <2>6
  <2> QED
    BY <2>5, <2>6, <2>7, <2>8, <2>9, <2>10, SettleInv
<1>2. CASE ~(r.pipe # <<>> /\ r.hs /\ IsPermanentWriteError(status))
  <2>1. /\ rs' = Close(r, status, queue[user])
        /\ stored' = IF r.pipe # <<>> /\ ~r.hs /\ IsPermanentError(status)
                     THEN [stored EXCEPT ![user] = NoToken]
                     ELSE stored
        /\ UNCHANGED <<queue, callbacks, waiters, told>>
    BY <1>2 DEF CloseWithError
  <2>2. StoreInv(rs', queue[user]) /\ ~IsOpen(rs')
    BY <1>0, <1>2, <2>1, CloseErrorInv
  <2>3. OtherTypes'
    BY <1>0, <2>1 DEF OtherTypes
  <2> QED
    BY <2>1, <2>2, <2>3, SameQueues
<1> QED
  BY <1>1, <1>2

\* WriteMutations(): the new batch goes to the end of the queue.
LEMMA WriteMutationsCallInv ==
    ASSUME IInv, WriteMutationsCall
    PROVE  IInv'
<1>0. /\ queue[user] \in Seq(Batch) /\ OrderedQueue(queue[user])
      /\ queue \in [Users -> Seq(Batch)]
      /\ StoreInv(rs, queue[user]) /\ CoreInv(rs, queue[user])
      /\ rs \in RemoteStoreType /\ rs.ok
      /\ OtherTypes /\ user \in Users /\ Len(author) \in Nat
      /\ next \in [Users -> Nat] /\ author \in Seq(Users) /\ QueueInv
  BY InvFacts DEF IInv, TypeOK, CoreInv
<1>1. PICK q : q = queue[user]
  OBVIOUS
<1>2. PICK b : b = [id |-> next[user], w |-> Len(author) + 1]
  OBVIOUS
<1>3. /\ b \in Batch /\ b.id = next[user] /\ b.id \in Nat /\ b.w \in Nat
      /\ b.id <= Len(author) + 1
      /\ q \in Seq(Batch) /\ Len(q) \in Nat
      /\ \A i \in 1..Len(q) : q[i].id < b.id /\ q[i].id <= Len(author) /\ q[i].id \in Nat
  <2>1. b \in Batch /\ b.id = next[user] /\ b.id \in Nat /\ b.w \in Nat
    BY <1>0, <1>2 DEF Batch
  <2>2. b.id <= Len(author) + 1
    BY <1>0, <2>1 DEF QueueInv
  <2>3. q \in Seq(Batch) /\ Len(q) \in Nat /\ \A i \in 1..Len(q) : q[i].id \in Nat
    BY <1>0, <1>1, BatchSeq
  <2>4. \A i \in 1..Len(q) : q[i].id < b.id /\ q[i].id <= Len(author)
    BY <1>0, <1>1, <2>1 DEF QueueInv
  <2> QED
    BY <2>1, <2>2, <2>3, <2>4
<1>4. PICK a : a = Append(q, b)
  OBVIOUS
<1>5. /\ a \in Seq(Batch) /\ Len(a) = Len(q) + 1
      /\ \A i \in 1..Len(q) : a[i] = q[i]
      /\ a[Len(q) + 1] = b
  BY <1>3, <1>4
<1>6. OrderedQueue(a)
  <2> SUFFICES ASSUME NEW i \in 1..Len(a), NEW j \in 1..Len(a), i < j
               PROVE  a[i].id < a[j].id
    BY DEF OrderedQueue
  <2>1. i \in 1..Len(q) /\ (j \in 1..Len(q) \/ j = Len(q) + 1)
    <3>1. PICK n \in Nat : n = Len(q)
      BY <1>3
    <3>2. i \in 1..(n + 1) /\ j \in 1..(n + 1)
      BY <3>1, <1>5
    <3>3. i \in 1..n /\ (j \in 1..n \/ j = n + 1)
      BY <3>2
    <3> QED
      BY <3>1, <3>3
  <2> QED
    BY <2>1, <1>0, <1>1, <1>3, <1>5 DEF OrderedQueue
<1>7. HardAssert(rs, q # <<>> => q[Len(q)].id < b.id) = rs
  <2>1. q # <<>> => q[Len(q)].id < b.id
    BY <1>3, EmptySeq
  <2>2. (q # <<>> => q[Len(q)].id < b.id) \in BOOLEAN
    BY <2>1
  <2> QED
    BY <2>1, <2>2, <1>0, HardAssertHolds
<1>8. /\ queue' = [queue EXCEPT ![user] = a]
      /\ rs' = FillWritePipeline(rs, a)
      /\ next' = [next EXCEPT ![user] = next[user] + 1]
      /\ author' = Append(author, user)
      /\ session' = session \cup {b.w}
      /\ callbacks' = [callbacks EXCEPT ![user] =
                          IF CallbacksFor(b) = {} THEN callbacks[user] \cup {b}
                                                  ELSE callbacks[user]]
      /\ UNCHANGED <<stored, user, waiters, told, server, faults>>
  BY <1>1, <1>2, <1>4, <1>7 DEF WriteMutationsCall
<1>9. StoreInv(rs', a)
  <2>1. StoreInv(rs, a)
    BY <1>0, <1>1, <1>3, <1>4, LongerQueue
  <2>2. /\ CoreInv(rs', a) /\ rs'.hs = rs.hs /\ (IsOpen(rs') <=> IsOpen(rs))
        /\ rs'.net /\ rs'.pipe # <<>> => IsStarted(rs')
    BY <2>1, <1>5, <1>6, <1>8, FillInv DEF StoreInv
  <2> QED
    BY <2>1, <2>2 DEF StoreInv
<1>10. /\ queue' \in [Users -> Seq(Batch)] /\ queue'[user] = a
       /\ \A v \in Users : v # user => queue'[v] = queue[v]
       /\ next' \in [Users -> Nat] /\ next'[user] = b.id + 1
       /\ \A v \in Users : v # user => next'[v] = next[v]
       /\ Len(author') = Len(author) + 1 /\ author' \in Seq(Users)
  BY <1>0, <1>3, <1>5, <1>8
<1>11. TypeOK'
  BY <1>0, <1>3, <1>8, <1>9, <1>10 DEF TypeOK, OtherTypes, StoreInv, CoreInv
<1>12. QueueInv'
  <2>1. \A i \in 1..Len(a) : a[i].id <= Len(author) + 1 /\ a[i].id < b.id + 1
    <3> SUFFICES ASSUME NEW i \in 1..Len(a)
                 PROVE  a[i].id <= Len(author) + 1 /\ a[i].id < b.id + 1
      OBVIOUS
    <3>1. i \in 1..Len(q) \/ i = Len(q) + 1
      BY <1>3, <1>5
    <3>2. CASE i \in 1..Len(q)
      <4>1. a[i] = q[i] /\ q[i].id < b.id /\ q[i].id <= Len(author) /\ q[i].id \in Nat
        BY <3>2, <1>3, <1>5
      <4> QED
        BY <4>1, <1>0, <1>3
    <3>3. CASE i = Len(q) + 1
      <4>1. a[i] = b
        BY <3>3, <1>5
      <4> QED
        BY <4>1, <1>0, <1>3
    <3> QED
      BY <3>1, <3>2, <3>3
  <2>2. ASSUME NEW v \in Users, v # user
        PROVE  /\ \A i \in 1..Len(queue[v]) : queue[v][i].id <= Len(author) + 1
               /\ next[v] <= Len(author) + 1 + 1
    <3>1. \A i \in 1..Len(queue[v]) : queue[v][i].id \in Nat
      BY <1>0, BatchSeq
    <3> QED
      BY <3>1, <1>0 DEF QueueInv
  <2>3. ASSUME NEW v \in Users
        PROVE  /\ OrderedQueue(queue'[v])
               /\ \A i \in 1..Len(queue'[v]) : queue'[v][i].id <= Len(author')
               /\ next'[v] <= Len(author') + 1
               /\ v = user' \/ Persistence = "memory" =>
                    \A i \in 1..Len(queue'[v]) : queue'[v][i].id < next'[v]
    <3>1. CASE v = user
      BY <3>1, <2>1, <1>0, <1>3, <1>6, <1>10
    <3>2. CASE v # user
      BY <3>2, <2>2, <1>0, <1>8, <1>10 DEF QueueInv
    <3> QED
      BY <3>1, <3>2
  <2> QED
    BY <2>3 DEF QueueInv
<1> QED
  BY <1>8, <1>9, <1>10, <1>11, <1>12 DEF IInv

\* StartClient(): what is left in the queues still makes sense.
LEMMA StartClientInv ==
    ASSUME IInv, NEW u \in Users, StartClient(u), UNCHANGED <<author, server>>,
           told' \in [ok : SUBSET Nat, error : SUBSET Nat], faults' \in Nat
    PROVE  IInv'
<1>0. /\ queue \in [Users -> Seq(Batch)] /\ QueueInv /\ Len(author) \in Nat
      /\ OtherTypes /\ author \in Seq(Users)
  BY InvFacts DEF IInv, TypeOK
<1>1. PICK kept : kept = IF Persistence = "leveldb" THEN queue
                                                    ELSE [v \in Users |-> <<>>]
  OBVIOUS
<1>2. PICK tokens : tokens = IF Persistence = "leveldb"
                             THEN stored ELSE [v \in Users |-> NoToken]
  OBVIOUS
<1>3. PICK ones : ones = [v \in Users |-> 1]
  OBVIOUS
<1>4. /\ queue' = kept /\ stored' = tokens
      /\ next' = StartMutationQueue(kept, ones, u)
      /\ rs' = EnableNetworkOp(NewRemoteStore, kept[u], tokens[u])
      /\ user' = u /\ callbacks' = [v \in Users |-> {}] /\ waiters' = {}
      /\ session' = {}
  BY <1>1, <1>2, <1>3 DEF StartClient
<1>5. /\ kept \in [Users -> Seq(Batch)]
      /\ tokens \in [Users -> Tokens \cup {NoToken}]
  <2>1. <<>> \in Seq(Batch)
    OBVIOUS
  <2> QED
    BY <2>1, <1>0, <1>1, <1>2 DEF OtherTypes
<1>6. ASSUME NEW v \in Users
      PROVE  /\ OrderedQueue(kept[v])
             /\ \A i \in 1..Len(kept[v]) : kept[v][i].id <= Len(author)
             /\ Persistence = "memory" =>
                  \A i \in 1..Len(kept[v]) : kept[v][i].id < ones[v]
  <2>1. CASE Persistence = "leveldb"
    BY <2>1, <1>0, <1>1 DEF QueueInv
  <2>2. CASE Persistence # "leveldb"
    <3>1. kept[v] = <<>>
      BY <2>2, <1>1
    <3>2. Len(kept[v]) = 0
      BY <3>1
    <3> QED
      BY <3>2 DEF OrderedQueue
  <2> QED
    BY <2>1, <2>2
<1>7. /\ next' \in [Users -> Nat]
      /\ \A v \in Users : next'[v] <= Len(author) + 1
      /\ \A v \in Users : v = u \/ Persistence = "memory" =>
            \A i \in 1..Len(kept[v]) : kept[v][i].id < next'[v]
  <2>1. ones \in [Users -> Nat] /\ \A v \in Users : ones[v] <= Len(author) + 1
    BY <1>0, <1>3
  <2> QED
    BY <2>1, <1>0, <1>4, <1>5, <1>6, StartQueueInv
<1>8. StoreInv(rs', kept[u])
  <2>1. kept[u] \in Seq(Batch) /\ tokens[u] \in Tokens \cup {NoToken}
    BY <1>5
  <2> QED
    BY <2>1, <1>4, <1>6, NewStoreInv, EnableInv
<1>9. TypeOK'
  BY <1>0, <1>4, <1>5, <1>7, <1>8 DEF TypeOK, OtherTypes, StoreInv, CoreInv
<1>10. QueueInv'
  BY <1>4, <1>6, <1>7 DEF QueueInv
<1> QED
  BY <1>4, <1>8, <1>9, <1>10 DEF IInv

\* A change of the user.
LEMMA CredentialChangeInv ==
    ASSUME IInv, NEW u \in Users, HandleCredentialChange(u)
    PROVE  IInv'
<1>0. /\ queue \in [Users -> Seq(Batch)] /\ QueueInv /\ Len(author) \in Nat
      /\ OtherTypes /\ next \in [Users -> Nat] /\ author \in Seq(Users)
      /\ StoreInv(rs, queue[user]) /\ user \in Users
  BY InvFacts DEF IInv, TypeOK
<1>1. /\ user' = u /\ UNCHANGED <<queue, stored, callbacks, author, session, told, server>>
      /\ next' = IF u = user THEN next ELSE StartMutationQueue(queue, next, u)
      /\ waiters' = IF u = user THEN waiters ELSE {}
      /\ rs' = IF rs.net THEN RestartNetwork(rs, queue[u], stored[u]) ELSE rs
      /\ faults' = faults + 1
  BY DEF HandleCredentialChange, Disrupt
<1>2. /\ next' \in [Users -> Nat]
      /\ \A v \in Users : next'[v] <= Len(author) + 1
      /\ \A v \in Users : v = u \/ Persistence = "memory" =>
            \A i \in 1..Len(queue[v]) : queue[v][i].id < next'[v]
  <2>1. CASE u = user
    BY <2>1, <1>0, <1>1 DEF QueueInv
  <2>2. CASE u # user
    <3>1. /\ \A v \in Users : \A i \in 1..Len(queue[v]) : queue[v][i].id <= Len(author)
          /\ \A v \in Users : next[v] <= Len(author) + 1
          /\ Persistence = "memory" =>
               \A v \in Users : \A i \in 1..Len(queue[v]) :
                 queue[v][i].id < next[v]
      BY <1>0 DEF QueueInv
    <3>2. next' = StartMutationQueue(queue, next, u)
      BY <1>1, <2>2
    <3> QED
      BY <3>1, <3>2, <1>0, StartQueueInv
  <2> QED
    BY <2>1, <2>2
<1>3. StoreInv(rs', queue[u])
  <2>1. queue[u] \in Seq(Batch) /\ OrderedQueue(queue[u])
        /\ stored[u] \in Tokens \cup {NoToken}
    BY <1>0 DEF QueueInv, OtherTypes
  <2>2. CASE rs.net
    BY <2>1, <2>2, <1>0, <1>1, RestartInv
  <2>3. CASE ~rs.net
    BY <2>1, <2>3, <1>0, <1>1, DisabledInv
  <2> QED
    BY <2>2, <2>3
<1>4. TypeOK'
  BY <1>0, <1>1, <1>2, <1>3 DEF TypeOK, OtherTypes, StoreInv, CoreInv
<1>5. QueueInv'
  BY <1>0, <1>1, <1>2 DEF QueueInv, OrderedQueue
<1> QED
  BY <1>1, <1>3, <1>4, <1>5 DEF IInv

\* GetToken() fails for a stream that is Starting.
LEMMA CredentialsErrorInv ==
    ASSUME IInv, NEW status \in Errors, CredentialsError(status)
    PROVE  /\ IInv' /\ ~IsOpen(rs')
           /\ UNCHANGED <<queue, callbacks, waiters, told>>
<1> USE InvFacts
<1>0. /\ rs.closes \in rs.auth /\ faults' = faults + 1
      /\ UNCHANGED <<next, user, author, session, server>>
      /\ CloseWithError([HardAssert(rs, rs.state = "Starting") EXCEPT
                           !.auth = @ \ {rs.closes}], status)
  BY DEF CredentialsError, Disrupt
<1>1. /\ rs.state = "Starting" /\ rs.ok /\ rs.net
      /\ \A c \in rs.auth : c <= rs.closes
      /\ PrefixInv(rs, queue[user])
  BY <1>0 DEF CoreInv, AuthInv, TimerInv, IsStarted
<1>2. HardAssert(rs, rs.state = "Starting") = rs
  BY <1>1, HardAssertHolds
<1>3. PICK r : r = [rs EXCEPT !.auth = rs.auth \ {rs.closes}]
  OBVIOUS
<1>4. /\ r.net = rs.net /\ r.pipe = rs.pipe /\ r.state = rs.state
      /\ r.closes = rs.closes /\ r.auth = rs.auth \ {rs.closes}
      /\ r.hs = rs.hs /\ r.ok = rs.ok /\ r \in RemoteStoreType
  BY <1>3 DEF RemoteStoreType
<1>5. /\ PrefixInv(r, queue[user]) /\ IsStarted(r)
      /\ \A c \in r.auth : c <= r.closes
  BY <1>1, <1>4 DEF PrefixInv, IsStarted
<1>6. CloseWithError(r, status) /\ faults' \in Nat
  <2>1. [HardAssert(rs, rs.state = "Starting") EXCEPT !.auth = @ \ {rs.closes}] = r
    BY <1>2, <1>3
  <2>2. CloseWithError(r, status)
    BY <1>0, <2>1, Zenon
  <2> QED
    BY <1>0, <2>2 DEF OtherTypes
<1>7. UNCHANGED <<queue, callbacks, waiters, told>>
  <2>1. ~r.hs
    BY <1>1, <1>4 DEF StoreInv, IsOpen
  <2> QED
    BY <2>1, <1>6 DEF CloseWithError
<1> QED
  BY <1>0, <1>1, <1>4, <1>5, <1>6, <1>7, CloseWithErrorInv

\* A response cannot be decoded.
LEMMA MalformedInv ==
    ASSUME IInv, NEW token \in Tokens \cup {rs.token}, MalformedResponse(token)
    PROVE  IInv' /\ ~IsOpen(rs')
<1> USE InvFacts
<1>0. /\ rs.down # <<>> /\ faults' = faults + 1
      /\ UNCHANGED <<next, user, author, session, server>>
      /\ CloseWithError([rs EXCEPT !.token = token], "data_loss")
  BY DEF MalformedResponse, Disrupt
<1>1. /\ IsOpen(rs) /\ IsStarted(rs) /\ rs.ok /\ rs.net
      /\ \A c \in rs.auth : c <= rs.closes
      /\ PrefixInv(rs, queue[user])
  BY <1>0 DEF CoreInv, AuthInv, TimerInv, WireInv, IsStarted, IsOpen
<1>2. PICK r : r = [rs EXCEPT !.token = token]
  OBVIOUS
<1>3. token \in Tokens \cup {NoToken}
  BY RecordFields
<1>4. /\ r.net = rs.net /\ r.pipe = rs.pipe /\ r.state = rs.state
      /\ r.closes = rs.closes /\ r.auth = rs.auth
      /\ r.ok = rs.ok /\ r \in RemoteStoreType
  BY <1>2, <1>3 DEF RemoteStoreType
<1>5. /\ PrefixInv(r, queue[user]) /\ IsStarted(r)
      /\ \A c \in r.auth : c <= r.closes
  BY <1>1, <1>4 DEF PrefixInv, IsStarted
<1>6. CloseWithError(r, "data_loss") /\ faults' \in Nat /\ "data_loss" \in Errors
  BY <1>0, <1>2 DEF OtherTypes, Errors
<1> QED
  BY <1>0, <1>1, <1>4, <1>5, <1>6, CloseWithErrorInv

\* The call ends with an error.
LEMMA FinishInv ==
    ASSUME IInv, StreamFinish
    PROVE  IInv' /\ ~IsOpen(rs')
<1> USE InvFacts
<1>1. /\ IsOpen(rs) /\ IsStarted(rs) /\ rs.ok /\ rs.net /\ rs.fin \in Errors
      /\ \A c \in rs.auth : c <= rs.closes
      /\ PrefixInv(rs, queue[user])
  BY RecordFields DEF StreamFinish, CoreInv, AuthInv, TimerInv, WireInv,
     IsStarted, IsOpen
<1>2. /\ CloseWithError(rs, rs.fin) /\ faults' \in Nat
      /\ UNCHANGED <<next, user, author, session, server>>
  BY DEF StreamFinish, OtherTypes
<1> QED
  BY <1>1, <1>2, CloseWithErrorInv

-----------------------------------------------------------------------------
(* The theorems.                                                           *)

LEMMA InitInv == Init => IInv
<1> SUFFICES ASSUME Init
             PROVE  IInv
  OBVIOUS
<1>1. /\ queue = [v \in Users |-> <<>>] /\ user \in Users /\ author = <<>>
      /\ next = [v \in Users |-> 1]
      /\ rs = EnableNetworkOp(NewRemoteStore, <<>>, NoToken)
  BY DEF Init
<1>2. /\ queue \in [Users -> Seq(Batch)] /\ next \in [Users -> Nat]
      /\ author \in Seq(Users) /\ Len(author) = 0
      /\ \A v \in Users : queue[v] = <<>> /\ Len(queue[v]) = 0 /\ next[v] = 1
      /\ <<>> \in Seq(Batch)
  BY <1>1
<1>3. QueueInv
  BY <1>2 DEF QueueInv, OrderedQueue
<1>4. StoreInv(rs, queue[user])
  <2>1. queue[user] = <<>> /\ OrderedQueue(<<>>)
    BY <1>1, <1>2 DEF OrderedQueue
  <2>2. StoreInv(NewRemoteStore, <<>>) /\ NoToken \in Tokens \cup {NoToken}
    BY <1>2, NewStoreInv
  <2> QED
    BY <2>1, <2>2, <1>1, <1>2, EnableInv
<1>5. TypeOK
  BY <1>1, <1>2, <1>4 DEF Init, TypeOK, StoreInv, CoreInv
<1> QED
  BY <1>3, <1>4, <1>5 DEF IInv

\* Every step preserves IInv.
LEMMA NextInv == IInv /\ [Next]_vars => IInv'
<1> SUFFICES ASSUME IInv, [Next]_vars
             PROVE  IInv'
  OBVIOUS
<1> USE InvFacts
<1>1. CASE WriteMutationsCall
  BY <1>1, WriteMutationsCallInv
<1>2. CASE WaitForPendingWrites
  <2>1. PICK highest : highest = GetHighestUnacknowledgedBatchId(queue[user], next[user])
    OBVIOUS
  <2>2. highest \in Int
    <3>1. queue[user] # <<>> => queue[user][Len(queue[user])].id \in Nat
      BY BatchSeq, EmptySeq
    <3> QED
      BY <2>1, <3>1 DEF GetHighestUnacknowledgedBatchId, kBatchIdUnknown
  <2>3. {b.w : b \in Batches(queue[user])} \subseteq Nat
    BY BatchSeq DEF Batches
  <2>4. OtherTypes'
    BY <1>2, <2>1, <2>2, <2>3 DEF WaitForPendingWrites, OtherTypes
  <2> QED
    BY <1>2, <2>4, SameQueues DEF WaitForPendingWrites
<1>3. CASE EnableNetwork
  <2>1. StoreInv(rs', queue[user])
    BY <1>3, EnableInv DEF EnableNetwork
  <2>2. OtherTypes'
    BY <1>3 DEF EnableNetwork, OtherTypes
  <2> QED
    BY <1>3, <2>1, <2>2, SameQueues DEF EnableNetwork
<1>4. CASE DisableNetwork
  <2>1. StoreInv(rs', queue[user])
    BY <1>4, DisableInv DEF DisableNetwork
  <2>2. OtherTypes'
    BY <1>4 DEF DisableNetwork, Disrupt, OtherTypes
  <2> QED
    BY <1>4, <2>1, <2>2, SameQueues DEF DisableNetwork
<1>5. ASSUME NEW u \in Users, HandleCredentialChange(u)
      PROVE  IInv'
  BY <1>5, CredentialChangeInv
<1>6. CASE ConnectivityChange
  <2>1. StoreInv(rs', queue[user])
    BY <1>6, RestartInv DEF ConnectivityChange
  <2>2. OtherTypes'
    BY <1>6 DEF ConnectivityChange, Disrupt, OtherTypes
  <2> QED
    BY <1>6, <2>1, <2>2, SameQueues DEF ConnectivityChange
<1>7. ASSUME NEW u \in Users, Restart(u)
      PROVE  IInv'
  <2>1. told' \in [ok : SUBSET Nat, error : SUBSET Nat] /\ faults' \in Nat
    BY <1>7 DEF Restart, Disrupt, OtherTypes
  <2> QED
    BY <1>7, <2>1, StartClientInv DEF Restart
<1>8. ASSUME NEW u \in Users, DieBeforeAcknowledge(u)
      PROVE  IInv'
  <2>1. {c.w : c \in CallbacksFor(rs.pipe[1])} \subseteq Nat
    BY DEF CallbacksFor, OtherTypes, Batch
  <2>2. told' \in [ok : SUBSET Nat, error : SUBSET Nat] /\ faults' \in Nat
    BY <1>8, <2>1 DEF DieBeforeAcknowledge, Disrupt, OtherTypes
  <2> QED
    BY <1>8, <2>2, StartClientInv DEF DieBeforeAcknowledge
<1>9. CASE BackoffElapsed
  <2>1. StoreInv(rs', queue[user])
    BY <1>9, BackoffInv DEF BackoffElapsed, RestartAfterBackoff
  <2>2. OtherTypes'
    BY <1>9 DEF BackoffElapsed, OtherTypes
  <2> QED
    BY <1>9, <2>1, <2>2, SameQueues DEF BackoffElapsed
<1>10. CASE IdleTimeout
  <2>1. StoreInv(rs', queue[user])
    BY <1>10, IdleInv DEF IdleTimeout
  <2>2. OtherTypes'
    BY <1>10 DEF IdleTimeout, OtherTypes
  <2> QED
    BY <1>10, <2>1, <2>2, SameQueues DEF IdleTimeout
<1>11. ASSUME NEW c, StaleCredentials(c)
       PROVE  IInv'
  <2>1. StoreInv(rs', queue[user])
    BY <1>11, StaleInv DEF StaleCredentials
  <2>2. OtherTypes'
    BY <1>11 DEF StaleCredentials, OtherTypes
  <2> QED
    BY <1>11, <2>1, <2>2, SameQueues DEF StaleCredentials
<1>12. CASE ResumeStartWithCredentials
  <2>1. StoreInv(rs', queue[user])
    BY <1>12, OpenInv DEF ResumeStartWithCredentials
  <2>2. OtherTypes'
    BY <1>12 DEF ResumeStartWithCredentials, OtherTypes
  <2> QED
    BY <1>12, <2>1, <2>2, SameQueues DEF ResumeStartWithCredentials
<1>13. ASSUME NEW status \in Errors, CredentialsError(status)
       PROVE  IInv'
  BY <1>13, CredentialsErrorInv
<1>14. ASSUME NEW token \in Tokens, HandshakeResponse(token)
       PROVE  IInv'
  <2>1. StoreInv(rs', queue[user])
    BY <1>14, HandshakeInv DEF HandshakeResponse
  <2>2. OtherTypes'
    BY <1>14 DEF HandshakeResponse, OtherTypes
  <2> QED
    BY <1>14, <2>1, <2>2, SameQueues DEF HandshakeResponse
<1>15. ASSUME NEW token \in Tokens, MutationResult(token)
       PROVE  IInv'
  <2>1. PICK b : b = rs.pipe[1]
    OBVIOUS
  <2>2. PICK rest : rest = RemoveMutationBatch(queue[user], b)
    OBVIOUS
  <2>3. PICK f : f = FillWritePipeline(
                       [HardAssert(rs, CanRemoveMutationBatch(queue[user], b))
                          EXCEPT !.down = Tail(@), !.token = token,
                                 !.pipe = Tail(@)], rest)
    OBVIOUS
  <2>a. rs.pipe # <<>> /\ StoreInv(f, rest)
    BY <1>15, <2>1, <2>2, <2>3, ResultInv DEF MutationResult
  <2>4. /\ Settle(b, "ok") /\ StoreInv(rs', rest)
        /\ stored' = [stored EXCEPT ![user] = token]
        /\ UNCHANGED <<next, user, author, session, server, faults>>
    BY <1>15, <2>1, <2>2, <2>3, <2>a DEF MutationResult
  <2>5. /\ stored' \in [Users -> Tokens \cup {NoToken}] /\ faults' \in Nat
        /\ "ok" \in {"ok", "error"}
    BY <2>4 DEF OtherTypes
  <2>6. StoreInv(rs', RemoveMutationBatch(queue[user], b))
    BY <2>2, <2>4
  <2> QED
    BY <2>1, <2>a, <2>4, <2>5, <2>6, SettleInv
<1>16. ASSUME NEW token \in Tokens \cup {rs.token}, MalformedResponse(token)
       PROVE  IInv'
  BY <1>16, MalformedInv
<1>17. CASE StreamFinish
  BY <1>17, FinishInv
<1>18. CASE ServerAccept
  <2>1. StoreInv(rs', queue[user])
    BY <1>18, AcceptInv DEF ServerAccept
  <2>2. rs.up[1] \in Batch
    BY <1>18, RecordFields, TailBatches DEF ServerAccept
  <2>3. OtherTypes'
    BY <1>18, <2>2 DEF ServerAccept, OtherTypes, Batch
  <2> QED
    BY <1>18, <2>1, <2>3, SameQueues DEF ServerAccept
<1>19. CASE ServerRefuse
  <2>1. IsOpen(rs) /\ "invalid_argument" \in Errors
    BY <1>19 DEF ServerRefuse, CoreInv, WireInv, Errors
  <2>2. StoreInv(rs', queue[user])
    BY <1>19, <2>1, EndCallInv DEF ServerRefuse
  <2>3. rs.up[1] \in Batch
    BY <1>19, RecordFields, TailBatches DEF ServerRefuse
  <2>4. OtherTypes'
    BY <1>19, <2>3 DEF ServerRefuse, OtherTypes, Batch
  <2> QED
    BY <1>19, <2>2, <2>4, SameQueues DEF ServerRefuse
<1>20. ASSUME NEW status \in Errors, ServerFail(status)
       PROVE  IInv'
  <2>1. StoreInv(rs', queue[user])
    BY <1>20, EndCallInv DEF ServerFail
  <2>2. OtherTypes'
    BY <1>20 DEF ServerFail, Disrupt, OtherTypes
  <2> QED
    BY <1>20, <2>1, <2>2, SameQueues DEF ServerFail
<1>21. CASE UNCHANGED vars
  <2>1. UNCHANGED <<queue, next, user, author>> /\ StoreInv(rs', queue[user])
    BY <1>21 DEF vars
  <2>2. OtherTypes'
    BY <1>21 DEF vars, OtherTypes
  <2> QED
    BY <2>1, <2>2, SameQueues
<1> QED
  BY <1>1, <1>2, <1>3, <1>4, <1>5, <1>6, <1>7, <1>8, <1>9, <1>10, <1>11,
     <1>12, <1>13, <1>14, <1>15, <1>16, <1>17, <1>18, <1>19, <1>20, <1>21
     DEF Next

LEMMA InvImplies ==
    IInv => /\ TypeOK
            /\ PipelineIsQueuePrefix
            /\ ResponsesMatchPipeline
            /\ NoHardAssertFails
<1> SUFFICES ASSUME IInv
             PROVE  /\ TypeOK
                    /\ PipelineIsQueuePrefix
                    /\ ResponsesMatchPipeline
                    /\ NoHardAssertFails
  OBVIOUS
<1>1. TypeOK /\ NoHardAssertFails
  BY DEF IInv, StoreInv, CoreInv, NoHardAssertFails
<1>2. PipelineIsQueuePrefix
  BY DEF IInv, StoreInv, CoreInv, PrefixInv, PipelineIsQueuePrefix
<1>3. ResponsesMatchPipeline
  BY DEF IInv, StoreInv, CoreInv, WireInv, Aligned, ResponsesMatchPipeline
<1> QED
  BY <1>1, <1>2, <1>3

\* Type correctness of the write pipeline.
THEOREM TypeCorrect == Spec => []TypeOK
  BY InitInv, NextInv, InvImplies, PTL DEF Spec

\* The write pipeline of RemoteStore is always the beginning of the current
\* user's mutation queue, and never longer than kMaxPendingWrites.
THEOREM PipelinePrefix == Spec => []PipelineIsQueuePrefix
  BY InitInv, NextInv, InvImplies, PTL DEF Spec

\* After the handshake the responses still to come answer the batches of the
\* pipeline one by one, so OnWriteStreamMutationResult() acknowledges the
\* batch that the backend answered.
THEOREM ResponsesMatch == Spec => []ResponsesMatchPipeline
  BY InitInv, NextInv, InvImplies, PTL DEF Spec

\* No HARD_ASSERT on the write path fails.
THEOREM HardAssertsHold == Spec => []NoHardAssertFails
  BY InitInv, NextInv, InvImplies, PTL DEF Spec

-----------------------------------------------------------------------------
(***************************************************************************)
(* WritePipeline keeps its promises to the user: it implements WriteQueue, *)
(* keeps its callbacks and waiters, and blames the batch that the backend  *)
(* refused.  IInv relates the stream to the queue; HistoryInv below adds   *)
(* what the backend, the callbacks and the waiters have to do with both.   *)
(***************************************************************************)

-----------------------------------------------------------------------------
(* The inductive invariant                                                 *)

\* Every queued write was issued.
WritesInv ==
    \A v \in Users : \A i \in 1..Len(queue[v]) :
        queue[v][i].w \in 1..Len(author)

\* What the backend has told the stream r is what it did: an unread response
\* stands for a write that it applied, and when it ended the call because of
\* a write, then that is the first one without a response.
SeenInv(r, s) ==
    /\ r.fin # "data_loss"
    /\ ~r.hs => /\ \A i \in 1..Len(r.up) : r.up[i] = Handshake
                /\ r.fin = "invalid_argument" => r.down = <<>>
    /\ r.hs => /\ \A i \in 1..Len(r.down) : r.down[i].w \in s.applied
               /\ r.fin = "invalid_argument" =>
                    /\ Len(r.down) < Len(r.pipe)
                    /\ r.pipe[Len(r.down) + 1].w \in s.refused

\* The counter of a memory queue tells the id of its last batch.
LastIdInv ==
    Persistence = "memory" =>
        \A v \in Users : queue[v] # <<>> =>
            queue[v][Len(queue[v])].id = next[v] - 1

\* A waiter asked about writes that had been issued.
PendingInv == \A x \in waiters : x.pending \subseteq 1..Len(author)

HistoryInv ==
    /\ WritesInv
    /\ CallbacksMatchQueue
    /\ SeenInv(rs, server)
    /\ StreamTokenIsPersisted
    /\ LastIdInv
    /\ PendingInv
    /\ WaitersCanBeAnswered

HInv == IInv /\ HistoryInv

-----------------------------------------------------------------------------
(* The stream                                                              *)

\* A stream that is not open says nothing about the backend.
LEMMA NotOpenSeen ==
    ASSUME NEW r, NEW q, NEW s, StoreInv(r, q), ~IsOpen(r)
    PROVE  SeenInv(r, s) /\ ~r.hs
<1>1. ~r.hs /\ r.up = <<>> /\ r.fin = "none"
  BY DEF StoreInv, CoreInv, WireInv
<1>2. Len(r.up) = 0
  BY <1>1
<1> QED
  BY <1>1, <1>2 DEF SeenInv

\* What holds of a connection goes on to hold when its pipeline grows.
LEMMA CarriedSeen ==
    ASSUME NEW r, NEW q, NEW s, NEW p, NEW b, StoreInv(r, q), StoreInv(s, p),
           Carried(r, s), SeenInv(r, b)
    PROVE  SeenInv(s, b)
<1>1. /\ Len(r.pipe) \in Nat /\ Len(s.pipe) \in Nat /\ Len(r.down) \in Nat
      /\ s.hs = r.hs /\ s.down = r.down /\ s.fin = r.fin
      /\ Len(r.pipe) <= Len(s.pipe)
      /\ \A i \in 1..Len(r.pipe) : s.pipe[i] = r.pipe[i]
      /\ ~r.hs => s.up = r.up
  BY RecordFields, BatchSeq DEF StoreInv, CoreInv, Carried
<1>2. CASE ~r.hs
  BY <1>1, <1>2 DEF SeenInv
<1>3. CASE r.hs
  BY <1>1, <1>3 DEF SeenInv
<1> QED
  BY <1>2, <1>3

\* The first request that the backend has not handled is a queued write that
\* comes after the ones with unread responses, and no handshake.
LEMMA UpIsQueued ==
    ASSUME HInv, rs.hs, rs.fin = "none", rs.up # <<>>
    PROVE  /\ Len(rs.down) + 1 \in 1..Len(queue[user])
           /\ Len(rs.down) + 1 <= Len(rs.pipe)
           /\ rs.up[1] = rs.pipe[Len(rs.down) + 1]
           /\ rs.up[1] = queue[user][Len(rs.down) + 1]
           /\ rs.up[1] # Handshake
<1>1. IInv /\ WritesInv
  BY DEF HInv, HistoryInv
<1>2. /\ Len(rs.down) \in Nat /\ Len(rs.up) \in Nat /\ Len(rs.up) >= 1
      /\ Len(rs.pipe) \in Nat /\ Len(queue[user]) \in Nat /\ user \in Users
      /\ Len(rs.pipe) <= Len(queue[user]) /\ Len(author) \in Nat
      /\ \A i \in 1..Len(rs.pipe) : rs.pipe[i] = queue[user][i]
  BY <1>1, InvFacts, RecordFields, BatchSeq, EmptySeq DEF CoreInv, PrefixInv
<1>3. Aligned(rs.down, rs.up, rs.pipe)
  BY <1>1, InvFacts DEF StoreInv, CoreInv, WireInv
<1>4. /\ Len(rs.down) + 1 \in 1..Len(rs.pipe)
      /\ rs.up[1] = rs.pipe[Len(rs.down) + 1]
  <2>1. PICK d \in Nat, u \in Nat, p \in Nat :
            d = Len(rs.down) /\ u = Len(rs.up) /\ p = Len(rs.pipe)
    BY <1>2
  <2>2. p = d + u /\ u >= 1 /\ \A i \in 1..u : rs.up[i] = rs.pipe[d + i]
    BY <1>2, <1>3, <2>1 DEF Aligned
  <2>3. 1 \in 1..u /\ d + 1 \in 1..p
    BY <2>2
  <2> QED
    BY <2>1, <2>2, <2>3
<1>5. /\ Len(rs.down) + 1 \in 1..Len(queue[user])
      /\ rs.up[1] = queue[user][Len(rs.down) + 1]
  BY <1>2, <1>4
<1>6. rs.up[1].w \in 1..Len(author)
  BY <1>1, <1>2, <1>5 DEF WritesInv
<1>7. rs.up[1] # Handshake
  BY <1>2, <1>6 DEF Handshake
<1> QED
  BY <1>2, <1>4, <1>5, <1>7

\* The steps that concern only the stream.
StreamStep ==
    \/ EnableNetwork
    \/ DisableNetwork
    \/ ConnectivityChange
    \/ BackoffElapsed
    \/ IdleTimeout
    \/ \E c \in rs.auth : StaleCredentials(c)
    \/ ResumeStartWithCredentials
    \/ \E t \in Tokens : HandshakeResponse(t)
    \/ \E status \in Errors : ServerFail(status)

\* They leave the queues and what depends on them alone.
LEMMA StreamStepFrame ==
    ASSUME StreamStep
    PROVE  UNCHANGED <<queue, next, user, callbacks, waiters, author, session,
                       told, server>>
  BY DEF StreamStep, EnableNetwork, DisableNetwork, ConnectivityChange,
     BackoffElapsed, IdleTimeout, StaleCredentials, ResumeStartWithCredentials,
     HandshakeResponse, ServerFail

\* They keep the stream in line with the backend and with the stored token.
LEMMA StreamStepSeen ==
    ASSUME HInv, StreamStep
    PROVE  SeenInv(rs', server') /\ StreamTokenIsPersisted'
<1> USE InvFacts
<1>0. IInv /\ SeenInv(rs, server) /\ StreamTokenIsPersisted
  BY DEF HInv, HistoryInv
<1>a. /\ UNCHANGED <<queue, user, server>>
      /\ IInv'
  <2>1. Next
    BY DEF StreamStep, Next
  <2> QED
    BY <1>0, <2>1, NextInv, StreamStepFrame
<1>b. StoreInv(rs', queue'[user'])
  BY <1>a DEF IInv
<1>1. CASE EnableNetwork
  <2>1. /\ rs'.token = stored[user] /\ Carried(rs, rs') /\ stored' = stored
    BY <1>0, <1>1, EnableInv DEF EnableNetwork
  <2>2. SeenInv(rs', server')
    BY <1>0, <1>a, <1>b, <2>1, CarriedSeen
  <2> QED
    BY <1>a, <2>1, <2>2 DEF StreamTokenIsPersisted
<1>2. ASSUME ~IsOpen(rs')
      PROVE  SeenInv(rs', server') /\ StreamTokenIsPersisted'
  BY <1>b, <1>2, NotOpenSeen DEF StreamTokenIsPersisted
<1>3. CASE DisableNetwork
  <2>1. ~IsOpen(rs')
    BY <1>0, <1>3, DisableInv DEF DisableNetwork, IsStarted, IsOpen
  <2> QED
    BY <1>2, <2>1
<1>4. CASE ConnectivityChange
  <2>1. ~IsOpen(rs')
    BY <1>0, <1>4, RestartInv DEF ConnectivityChange
  <2> QED
    BY <1>2, <2>1
<1>5. CASE BackoffElapsed
  <2>1. ~IsOpen(rs')
    BY <1>0, <1>5, BackoffInv DEF BackoffElapsed, RestartAfterBackoff
  <2> QED
    BY <1>2, <2>1
<1>6. CASE IdleTimeout
  <2>1. ~IsOpen(rs')
    BY <1>0, <1>6, IdleInv DEF IdleTimeout
  <2> QED
    BY <1>2, <2>1
<1>7. ASSUME NEW c \in rs.auth, StaleCredentials(c)
      PROVE  SeenInv(rs', server') /\ StreamTokenIsPersisted'
  <2>1. rs' = [rs EXCEPT !.auth = rs.auth \ {c}] /\ stored' = stored
    BY <1>7 DEF StaleCredentials
  <2>2. /\ rs'.fin = rs.fin /\ rs'.hs = rs.hs /\ rs'.up = rs.up
        /\ rs'.down = rs.down /\ rs'.pipe = rs.pipe /\ rs'.token = rs.token
    BY <1>0, <2>1 DEF RemoteStoreType
  <2> QED
    BY <1>0, <1>a, <2>1, <2>2 DEF SeenInv, StreamTokenIsPersisted
<1>8. CASE ResumeStartWithCredentials
  <2>1. /\ ~rs'.hs /\ rs'.fin = "none" /\ rs'.up = <<Handshake>>
    BY <1>0, <1>8, OpenInv DEF ResumeStartWithCredentials
  <2>2. \A i \in 1..Len(rs'.up) : rs'.up[i] = Handshake
    BY <2>1
  <2> QED
    BY <2>1, <2>2 DEF SeenInv, StreamTokenIsPersisted
<1>9. ASSUME NEW t \in Tokens, HandshakeResponse(t)
      PROVE  SeenInv(rs', server') /\ StreamTokenIsPersisted'
  <2>1. /\ rs'.token = t /\ rs'.hs /\ rs'.down = <<>> /\ rs'.fin = rs.fin
        /\ rs.down # <<>> /\ ~rs.hs
        /\ stored' = [stored EXCEPT ![user] = t]
    BY <1>0, <1>9, HandshakeInv DEF HandshakeResponse
  <2>2. stored'[user'] = t
    BY <1>0, <1>a, <2>1 DEF OtherTypes
  <2>3. Len(rs'.down) = 0 /\ rs'.fin # "data_loss" /\ rs'.fin # "invalid_argument"
    BY <1>0, <2>1 DEF SeenInv
  <2> QED
    BY <2>1, <2>2, <2>3 DEF SeenInv, StreamTokenIsPersisted
<1>10. ASSUME NEW status \in Errors, ServerFail(status)
       PROVE  SeenInv(rs', server') /\ StreamTokenIsPersisted'
  <2>1. /\ rs' = [rs EXCEPT !.up = <<>>, !.fin = status] /\ stored' = stored
        /\ rs.fin = "none" /\ IsOpen(rs)
        /\ \/ status \in {"unavailable", "aborted"}
           \/ status = "invalid_argument" /\ rs.up # <<>> /\ rs.up[1] = Handshake
    BY <1>10 DEF ServerFail
  <2>2. /\ rs'.fin = status /\ rs'.hs = rs.hs /\ rs'.up = <<>>
        /\ rs'.down = rs.down /\ rs'.pipe = rs.pipe /\ rs'.token = rs.token
    BY <1>0, <2>1 DEF RemoteStoreType
  <2>3. Len(rs'.up) = 0
    BY <2>2
  <2>4. CASE rs.hs
    <3>1. status # "data_loss" /\ status # "invalid_argument"
      BY <2>1, <2>4, UpIsQueued
    <3> QED
      BY <1>0, <1>a, <2>1, <2>2, <2>4, <3>1 DEF SeenInv, StreamTokenIsPersisted
  <2>5. CASE ~rs.hs
    <3>1. status # "data_loss"
      BY <2>1
    <3>2. status = "invalid_argument" => rs.down = <<>>
      <4>1. rs \in RemoteStoreType /\ IsOpen(rs)
            /\ Len(rs.down) + Len(rs.up) <= 1
        BY <1>0, <2>1, <2>5 DEF CoreInv, WireInv
      <4>2. Len(rs.down) \in Nat /\ Len(rs.up) \in Nat
            /\ (rs.up # <<>> => Len(rs.up) >= 1)
            /\ (Len(rs.down) = 0 => rs.down = <<>>)
        BY <4>1, RecordFields, BatchSeq, EmptySeq
      <4>3. PICK d \in Nat, u \in Nat : d = Len(rs.down) /\ u = Len(rs.up)
        BY <4>2
      <4>4. d + u <= 1
        BY <4>1, <4>3
      <4>5. u >= 1 => d = 0
        BY <4>4
      <4> QED
        BY <2>1, <4>2, <4>3, <4>5
    <3> QED
      BY <1>0, <1>a, <2>2, <2>3, <2>5, <3>1, <3>2
         DEF SeenInv, StreamTokenIsPersisted
  <2> QED
    BY <2>4, <2>5
<1> QED
  BY <1>1, <1>3, <1>4, <1>5, <1>6, <1>7, <1>8, <1>9, <1>10 DEF StreamStep

\* The backend answers, or ends the call because of a write.
LEMMA ServerStepSeen ==
    ASSUME HInv, ServerAccept \/ ServerRefuse
    PROVE  SeenInv(rs', server') /\ StreamTokenIsPersisted'
<1> USE InvFacts
<1>0. /\ IInv /\ SeenInv(rs, server) /\ StreamTokenIsPersisted
      /\ UNCHANGED <<user, stored>>
  BY DEF HInv, HistoryInv, ServerAccept, ServerRefuse
<1>1. /\ rs \in RemoteStoreType /\ rs.fin = "none" /\ rs.up # <<>>
      /\ rs.up \in Seq(Batch) /\ rs.down \in Seq(Batch)
      /\ Len(rs.down) \in Nat /\ Len(rs.pipe) \in Nat
      /\ server \in [applied : SUBSET Nat, refused : SUBSET Nat]
  BY <1>0, RecordFields, BatchSeq DEF ServerAccept, ServerRefuse, OtherTypes
<1>2. /\ 1 \in 1..Len(rs.up) /\ rs.up[1] \in Batch
      /\ Len(rs.up) \in Nat /\ Len(Tail(rs.up)) = Len(rs.up) - 1
      /\ \A i \in 1..(Len(rs.up) - 1) : Tail(rs.up)[i] = rs.up[i + 1]
  BY <1>1, TailBatches
<1>3. CASE ServerAccept
  <2>1. /\ rs' = [rs EXCEPT !.up = Tail(rs.up), !.down = Append(rs.down, rs.up[1])]
        /\ server' = IF rs.up[1] = Handshake THEN server
                     ELSE [server EXCEPT !.applied = @ \cup {rs.up[1].w}]
    BY <1>3 DEF ServerAccept
  <2>2. /\ rs'.fin = "none" /\ rs'.hs = rs.hs /\ rs'.up = Tail(rs.up)
        /\ rs'.down = Append(rs.down, rs.up[1]) /\ rs'.token = rs.token
    BY <1>1, <2>1 DEF RemoteStoreType
  <2>3. CASE ~rs.hs
    <3>1. \A i \in 1..Len(rs'.up) : rs'.up[i] = Handshake
      <4>1. \A i \in 1..Len(rs.up) : rs.up[i] = Handshake
        BY <1>0, <2>3 DEF SeenInv
      <4>2. ASSUME NEW i \in 1..Len(Tail(rs.up))
            PROVE  Tail(rs.up)[i] = Handshake
        <5>1. PICK n \in Nat : n = Len(rs.up)
          BY <1>2
        <5>2. i \in 1..(n - 1) /\ i + 1 \in 1..n
          BY <1>2, <5>1
        <5> QED
          BY <1>2, <4>1, <5>1, <5>2
      <4> QED
        BY <2>2, <4>2
    <3> QED
      BY <2>2, <2>3, <3>1 DEF SeenInv, StreamTokenIsPersisted
  <2>4. CASE rs.hs
    <3>1. server'.applied = server.applied \cup {rs.up[1].w}
      BY <1>1, <2>1, <2>4, UpIsQueued
    <3>2. ASSUME NEW i \in 1..Len(rs'.down)
          PROVE  rs'.down[i].w \in server'.applied
      <4>1. PICK n \in Nat : n = Len(rs.down)
        BY <1>1
      <4>2. i \in 1..n \/ i = n + 1
        BY <1>1, <2>2, <4>1
      <4>3. CASE i \in 1..n
        <5>1. rs'.down[i] = rs.down[i] /\ rs.down[i].w \in server.applied
          BY <1>0, <1>1, <1>2, <2>2, <2>4, <4>1, <4>3 DEF SeenInv
        <5> QED
          BY <3>1, <5>1
      <4>4. CASE i = n + 1
        <5>1. rs'.down[i] = rs.up[1]
          BY <1>1, <1>2, <2>2, <4>1, <4>4
        <5> QED
          BY <3>1, <5>1
      <4> QED
        BY <4>2, <4>3, <4>4
    <3> QED
      BY <1>0, <2>2, <2>4, <3>2 DEF SeenInv, StreamTokenIsPersisted
  <2> QED
    BY <2>3, <2>4
<1>4. CASE ServerRefuse
  <2>1. /\ rs' = [rs EXCEPT !.up = <<>>, !.fin = "invalid_argument"]
        /\ server' = [server EXCEPT !.refused = @ \cup {rs.up[1].w}]
        /\ rs.up[1] # Handshake
    BY <1>4 DEF ServerRefuse
  <2>2. /\ rs'.fin = "invalid_argument" /\ rs'.hs = rs.hs
        /\ rs'.down = rs.down /\ rs'.pipe = rs.pipe /\ rs'.token = rs.token
    BY <1>1, <2>1 DEF RemoteStoreType
  <2>3. rs.hs
    BY <1>0, <1>2, <2>1 DEF SeenInv
  <2>4. /\ Len(rs.down) < Len(rs.pipe)
        /\ rs.pipe[Len(rs.down) + 1] = rs.up[1]
    BY <1>1, <2>3, UpIsQueued
  <2>5. /\ server'.applied = server.applied
        /\ server'.refused = server.refused \cup {rs.up[1].w}
    BY <1>1, <2>1
  <2> QED
    BY <1>0, <2>2, <2>3, <2>4, <2>5 DEF SeenInv, StreamTokenIsPersisted
<1> QED
  BY <1>3, <1>4

\* A result is read: what remains on the wire is still what the backend did.
LEMMA ResultSeen ==
    ASSUME HInv, NEW t \in Tokens, MutationResult(t)
    PROVE  SeenInv(rs', server') /\ StreamTokenIsPersisted'
<1> USE InvFacts
<1>0. /\ IInv /\ SeenInv(rs, server) /\ StreamTokenIsPersisted
      /\ rs.down # <<>> /\ rs.hs /\ UNCHANGED <<user, server>>
  BY DEF HInv, HistoryInv, MutationResult
<1>1. PICK rest, f :
        /\ rest = RemoveMutationBatch(queue[user], rs.pipe[1])
        /\ f = FillWritePipeline(
                 [HardAssert(rs, CanRemoveMutationBatch(queue[user], rs.pipe[1]))
                    EXCEPT !.down = Tail(@), !.token = t, !.pipe = Tail(@)],
                 rest)
  OBVIOUS
<1>2. /\ rs.pipe # <<>> /\ f.token = t /\ f.hs
      /\ f.down = Tail(rs.down) /\ f.fin = rs.fin
      /\ Len(rs.pipe) - 1 <= Len(f.pipe)
      /\ \A i \in 1..(Len(rs.pipe) - 1) : f.pipe[i] = rs.pipe[i + 1]
      /\ StoreInv(f, rest)
  <2>1. /\ queue[user] \in Seq(Batch) /\ StoreInv(rs, queue[user])
        /\ OrderedQueue(queue[user]) /\ t \in Tokens
    BY <1>0
  <2>2. rs.pipe # <<>> /\ StoreInv(f, rest) /\ Answered(rs, f, t)
    BY <1>0, <1>1, <2>1, ResultInv
  <2> QED
    BY <2>2 DEF Answered
<1>3. rs' = f /\ stored' = [stored EXCEPT ![user] = t]
  BY <1>1, <1>2 DEF MutationResult
<1>4. StreamTokenIsPersisted'
  <2>1. stored'[user'] = t
    BY <1>0, <1>3 DEF OtherTypes
  <2> QED
    BY <2>1, <1>2, <1>3 DEF StreamTokenIsPersisted
<1>5. PICK d \in Nat, p \in Nat, m \in Nat :
          d = Len(rs.down) /\ p = Len(rs.pipe) /\ m = Len(f.pipe)
  BY <1>0, <1>2, RecordFields, BatchSeq DEF StoreInv, CoreInv
<1>6. /\ d >= 1 /\ Len(f.down) = d - 1
      /\ \A i \in 1..(d - 1) : f.down[i] = rs.down[i + 1]
  BY <1>0, <1>2, <1>5, RecordFields, TailBatches
<1>7. ASSUME NEW i \in 1..(d - 1)
      PROVE  f.down[i].w \in server.applied
  <2>1. i + 1 \in 1..d
    BY <1>6
  <2> QED
    BY <2>1, <1>0, <1>5, <1>6 DEF SeenInv
<1>8. ASSUME f.fin = "invalid_argument"
      PROVE  d - 1 < m /\ f.pipe[(d - 1) + 1].w \in server.refused
  <2>1. d < p /\ rs.pipe[d + 1].w \in server.refused
    BY <1>0, <1>2, <1>5, <1>8 DEF SeenInv
  <2>2. d \in 1..(p - 1) /\ (d - 1) + 1 = d /\ p - 1 <= m
    BY <2>1, <1>2, <1>5, <1>6
  <2>3. f.pipe[d] = rs.pipe[d + 1]
    BY <2>2, <1>2, <1>5
  <2>4. d - 1 < m
    BY <2>2
  <2> QED
    BY <2>1, <2>2, <2>3, <2>4
<1>9. SeenInv(f, server)
  BY <1>0, <1>2, <1>5, <1>6, <1>7, <1>8 DEF SeenInv
<1> QED
  BY <1>0, <1>3, <1>4, <1>9

-----------------------------------------------------------------------------
(* The queues                                                              *)

\* A step that leaves the queues and what depends on them alone.
LEMMA SameHistory ==
    ASSUME HistoryInv,
           UNCHANGED <<queue, next, user, callbacks, waiters, author, session>>,
           SeenInv(rs', server'), StreamTokenIsPersisted'
    PROVE  HistoryInv'
<1>1. WritesInv' /\ LastIdInv' /\ PendingInv'
  BY DEF HistoryInv, WritesInv, LastIdInv, PendingInv
<1>2. CallbacksMatchQueue' /\ WaitersCanBeAnswered'
  BY DEF HistoryInv, CallbacksMatchQueue, WaitersCanBeAnswered
<1> QED
  BY <1>1, <1>2 DEF HistoryInv

\* An ordered queue and what is left of it when its first batch is removed.
LEMMA RestBatches ==
    ASSUME NEW q \in Seq(Batch), OrderedQueue(q), q # <<>>, NEW rest,
           Len(rest) = Len(q) - 1,
           \A i \in 1..Len(rest) : rest[i] = q[i + 1]
    PROVE  /\ q[1] \in Batches(q)
           /\ \A c \in Batches(q) : c.id = q[1].id => c = q[1]
           /\ \A c \in Batches(rest) : c \in Batches(q) /\ c.id > q[1].id
           /\ \A c \in Batches(q) : c # q[1] => c \in Batches(rest)
<1>1. PICK n \in Nat : n = Len(q) /\ n >= 1
  BY BatchSeq, EmptySeq
<1>2. \A i \in 1..n : q[i].id \in Nat /\ (i # 1 => q[1].id < q[i].id)
  BY <1>1, BatchSeq DEF OrderedQueue
<1>3. q[1] \in Batches(q)
  BY <1>1 DEF Batches
<1>4. ASSUME NEW c \in Batches(q), c.id = q[1].id
      PROVE  c = q[1]
  <2>1. PICK i \in 1..n : c = q[i]
    BY <1>1 DEF Batches
  <2> QED
    BY <1>1, <1>2, <1>4, <2>1
<1>5. ASSUME NEW c \in Batches(rest)
      PROVE  c \in Batches(q) /\ c.id > q[1].id
  <2>1. PICK i \in 1..(n - 1) : c = q[i + 1]
    BY <1>1 DEF Batches
  <2>2. i + 1 \in 1..n /\ i + 1 # 1 /\ 1 \in 1..n
    BY <1>1
  <2> QED
    BY <1>1, <1>2, <2>1, <2>2 DEF Batches
<1>6. ASSUME NEW c \in Batches(q), c # q[1]
      PROVE  c \in Batches(rest)
  <2>1. PICK i \in 1..n : c = q[i] /\ i # 1
    BY <1>1, <1>6 DEF Batches
  <2>2. i - 1 \in 1..(n - 1) /\ (i - 1) + 1 = i
    BY <1>1, <2>1
  <2>3. rest[i - 1] = c
    BY <1>1, <2>1, <2>2
  <2> QED
    BY <1>1, <2>2, <2>3 DEF Batches
<1> QED
  BY <1>3, <1>4, <1>5, <1>6

\* The first batch of the pipeline is the first one of the queue, and the only
\* callback that NotifyUser() finds for it is its own, if it was written in
\* this session.
LEMMA FirstCallbacks ==
    ASSUME HInv, rs.pipe # <<>>, NEW b, b = rs.pipe[1]
    PROVE  /\ queue[user] # <<>> /\ b = queue[user][1]
           /\ CallbacksFor(b) = {c \in {b} : c.w \in session}
           /\ {c.w : c \in CallbacksFor(b)} = {b.w} \cap session
<1> USE InvFacts
<1>1. /\ IInv /\ CallbacksMatchQueue
      /\ rs \in RemoteStoreType /\ PrefixInv(rs, queue[user])
  BY DEF HInv, HistoryInv, CoreInv
<1>2. PICK q : q = queue[user]
  OBVIOUS
<1>3. PICK rest : rest = RemoveMutationBatch(q, b)
  OBVIOUS
<1>4. /\ q \in Seq(Batch) /\ OrderedQueue(q) /\ user \in Users
      /\ rest \in Seq(Batch) /\ Len(rest) = Len(q) - 1
      /\ \A i \in 1..Len(rest) : rest[i] = q[i + 1]
  BY <1>1, <1>2, <1>3, SettleFirst
<1>5. q # <<>> /\ b = q[1]
  <2>1. rs.pipe \in Seq(Batch)
    BY <1>1, RecordFields
  <2>2. Len(rs.pipe) \in Nat /\ Len(rs.pipe) >= 1 /\ Len(q) \in Nat
    BY <1>4, <2>1, TailBatches, BatchSeq
  <2>3. /\ Len(rs.pipe) <= Len(q)
        /\ \A i \in 1..Len(rs.pipe) : rs.pipe[i] = q[i]
    BY <1>1, <1>2, <2>2 DEF PrefixInv
  <2>4. Len(q) >= 1 /\ rs.pipe[1] = q[1]
    BY <2>2, <2>3
  <2> QED
    BY <1>4, <2>4, EmptySeq
<1>6. CallbacksFor(b) = {c \in {b} : c.w \in session}
  <2>1. callbacks[user] = {c \in Batches(q) : c.w \in session}
    BY <1>1, <1>2, <1>4 DEF CallbacksMatchQueue
  <2>2. b \in Batches(q) /\ \A c \in Batches(q) : c.id = b.id => c = b
    BY <1>4, <1>5, RestBatches
  <2> QED
    BY <2>1, <2>2 DEF CallbacksFor
<1>7. {c.w : c \in CallbacksFor(b)} = {b.w} \cap session
  BY <1>6
<1> QED
  BY <1>2, <1>5, <1>6, <1>7

\* An unread response means that the backend applied the first batch of the
\* pipeline.
LEMMA FirstResponse ==
    ASSUME HInv, rs.down # <<>>, rs.hs
    PROVE  rs.pipe # <<>> /\ rs.pipe[1].w \in server.applied
<1>1. /\ IInv /\ SeenInv(rs, server) /\ rs \in RemoteStoreType
      /\ StoreInv(rs, queue[user])
  BY InvFacts DEF HInv, HistoryInv
<1>2. /\ rs.down \in Seq(Batch) /\ rs.pipe \in Seq(Batch)
      /\ Len(rs.down) <= Len(rs.pipe)
      /\ \A i \in 1..Len(rs.down) : rs.down[i] = rs.pipe[i]
  BY <1>1, RecordFields DEF StoreInv, CoreInv, WireInv
<1>3. Len(rs.down) \in Nat /\ Len(rs.down) >= 1 /\ Len(rs.pipe) \in Nat
  BY <1>2, TailBatches, BatchSeq
<1>4. 1 \in 1..Len(rs.down) /\ Len(rs.pipe) # 0
  BY <1>2, <1>3
<1> QED
  BY <1>1, <1>2, <1>4, EmptySeq DEF SeenInv

\* Settling the first batch removes it from the current user's queue.
LEMMA SettleTells ==
    ASSUME HInv, rs.pipe # <<>>, NEW b, b = rs.pipe[1],
           NEW outcome \in {"ok", "error"}, Settle(b, outcome)
    PROVE  /\ queue' \in [Users -> Seq(Batch)]
           /\ \A v \in Users : v # user => queue'[v] = queue[v]
           /\ Len(queue'[user]) = Len(queue[user]) - 1
           /\ \A i \in 1..Len(queue'[user]) :
                 queue'[user][i] = queue[user][i + 1]
<1> USE InvFacts
<1>1. /\ IInv /\ queue \in [Users -> Seq(Batch)]
      /\ rs \in RemoteStoreType /\ PrefixInv(rs, queue[user])
  BY DEF HInv, IInv, TypeOK, CoreInv
<1>2. PICK q : q = queue[user]
  OBVIOUS
<1>3. PICK rest : rest = RemoveMutationBatch(q, b)
  OBVIOUS
<1>4. /\ q \in Seq(Batch) /\ OrderedQueue(q) /\ user \in Users
      /\ rest \in Seq(Batch) /\ Len(rest) = Len(q) - 1
      /\ \A i \in 1..Len(rest) : rest[i] = q[i + 1]
  BY <1>1, <1>2, <1>3, SettleFirst
<1>5. queue' = [queue EXCEPT ![user] = rest]
  BY <1>2, <1>3 DEF Settle
<1>6. /\ queue' \in [Users -> Seq(Batch)] /\ queue'[user] = rest
      /\ \A v \in Users : v # user => queue'[v] = queue[v]
  BY <1>1, <1>4, <1>5
<1> QED
  BY <1>2, <1>4, <1>6

\* Settling keeps the callbacks and the waiters in order, and a waiter that
\* it drops has none of its writes left in the queue.
LEMMA SettleHistory ==
    ASSUME HInv, rs.pipe # <<>>, NEW b, b = rs.pipe[1],
           NEW outcome \in {"ok", "error"}, Settle(b, outcome),
           UNCHANGED <<next, user, author, session>>,
           SeenInv(rs', server'), StreamTokenIsPersisted'
    PROVE  /\ HistoryInv'
           /\ \A x \in waiters \ waiters' :
                 \A c \in Batches(queue'[user]) : c.w \notin x.pending
<1> USE InvFacts
<1>1. /\ IInv /\ HistoryInv /\ queue \in [Users -> Seq(Batch)]
      /\ user \in Users /\ Len(author) \in Nat
      /\ callbacks \in [Users -> SUBSET Batch]
  BY DEF HInv, IInv, TypeOK
<1>2. PICK q, rest : q = queue[user] /\ rest = queue'[user]
  OBVIOUS
<1>3. /\ q \in Seq(Batch) /\ OrderedQueue(q) /\ q # <<>> /\ b = q[1]
      /\ rest \in Seq(Batch) /\ Len(rest) = Len(q) - 1
      /\ \A i \in 1..Len(rest) : rest[i] = q[i + 1]
      /\ \A v \in Users : v # user => queue'[v] = queue[v]
      /\ CallbacksFor(b) = {c \in {b} : c.w \in session}
  BY <1>1, <1>2, SettleTells, FirstCallbacks
<1>4. /\ b \in Batches(q)
      /\ \A c \in Batches(q) : c.id = b.id => c = b
      /\ \A c \in Batches(rest) : c \in Batches(q) /\ c.id > b.id
      /\ \A c \in Batches(q) : c # b => c \in Batches(rest)
  BY <1>3, RestBatches
<1>5. \A c \in Batches(q) : c \in Batch /\ c.id \in Nat
  BY <1>3, BatchSeq DEF Batches
<1>6. PICK n \in Nat : n = Len(q) /\ n >= 1
  BY <1>3, BatchSeq, EmptySeq
<1>7. WritesInv'
  <2>1. ASSUME NEW v \in Users, NEW i \in 1..Len(queue'[v])
        PROVE  queue'[v][i].w \in 1..Len(author)
    <3>1. CASE v = user
      <4>1. i \in 1..(n - 1) /\ i + 1 \in 1..n
        BY <1>2, <1>3, <1>6, <2>1, <3>1
      <4>2. rest[i] = q[i + 1] /\ q[i + 1].w \in 1..Len(author)
        BY <1>1, <1>2, <1>3, <1>6, <4>1 DEF HistoryInv, WritesInv
      <4> QED
        BY <1>2, <3>1, <4>2
    <3>2. CASE v # user
      BY <1>1, <1>3, <3>2 DEF HistoryInv, WritesInv
    <3> QED
      BY <3>1, <3>2
  <2> QED
    BY <2>1 DEF WritesInv
<1>8. CallbacksMatchQueue'
  <2>1. callbacks' = [callbacks EXCEPT ![user] = callbacks[user] \ CallbacksFor(b)]
    BY DEF Settle
  <2>2. /\ callbacks'[user] = callbacks[user] \ CallbacksFor(b)
        /\ \A v \in Users : v # user => callbacks'[v] = callbacks[v]
    BY <1>1, <2>1
  <2>3. callbacks[user] = {c \in Batches(q) : c.w \in session}
    BY <1>1, <1>2 DEF HistoryInv, CallbacksMatchQueue
  <2>4. b \notin Batches(rest)
    BY <1>4, <1>5
  <2>5. callbacks'[user] = {c \in Batches(rest) : c.w \in session}
    BY <1>3, <1>4, <2>2, <2>3, <2>4
  <2>6. ASSUME NEW v \in Users
        PROVE  callbacks'[v] = {c \in Batches(queue'[v]) : c.w \in session}
    <3>1. CASE v = user
      BY <1>2, <2>5, <3>1
    <3>2. CASE v # user
      BY <1>1, <1>3, <2>2, <3>2 DEF HistoryInv, CallbacksMatchQueue
    <3> QED
      BY <3>1, <3>2
  <2> QED
    BY <2>6 DEF CallbacksMatchQueue
<1>9. LastIdInv'
  <2>1. ASSUME Persistence = "memory", NEW v \in Users, queue'[v] # <<>>
        PROVE  queue'[v][Len(queue'[v])].id = next[v] - 1
    <3>1. CASE v = user
      <4>1. rest # <<>> /\ Len(rest) = n - 1 /\ n - 1 \in Nat
        BY <1>2, <1>3, <1>6, <2>1, <3>1
      <4>2. Len(rest) # 0
        BY <1>3, <4>1, EmptySeq
      <4>3. n - 1 \in 1..(n - 1) /\ (n - 1) + 1 = n
        BY <4>1, <4>2
      <4>4. rest[n - 1] = q[n]
        BY <1>3, <1>6, <4>1, <4>3
      <4>5. q[n].id = next[user] - 1
        BY <1>1, <1>2, <1>3, <1>6, <2>1 DEF HistoryInv, LastIdInv
      <4> QED
        BY <1>2, <3>1, <4>1, <4>4, <4>5
    <3>2. CASE v # user
      BY <1>1, <1>3, <2>1, <3>2 DEF HistoryInv, LastIdInv
    <3> QED
      BY <3>1, <3>2
  <2> QED
    BY <2>1 DEF LastIdInv
<1>10. waiters' = {x \in waiters : x.id # b.id}
  BY DEF Settle
<1>11. PendingInv'
  BY <1>1, <1>10 DEF HistoryInv, PendingInv
<1>12. ASSUME NEW x \in waiters
       PROVE  /\ \E c \in Batches(q) : c.id = x.id
              /\ \A c \in Batches(q) : c.w \in x.pending => c.id <= x.id
  BY <1>1, <1>2 DEF HistoryInv, WaitersCanBeAnswered
<1>13. WaitersCanBeAnswered'
  <2>1. ASSUME NEW x \in waiters, x.id # b.id
        PROVE  /\ \E c \in Batches(rest) : c.id = x.id
               /\ \A c \in Batches(rest) : c.w \in x.pending => c.id <= x.id
    BY <1>4, <1>12, <2>1
  <2> QED
    BY <1>2, <1>10, <2>1 DEF WaitersCanBeAnswered
<1>14. ASSUME NEW x \in waiters \ waiters', NEW c \in Batches(rest)
       PROVE  c.w \notin x.pending
  <2>1. x.id = b.id /\ x \in waiters
    BY <1>10
  <2>2. c \in Batches(q) /\ c.id > b.id /\ c.id \in Nat /\ b.id \in Nat
    BY <1>4, <1>5
  <2> QED
    BY <1>12, <2>1, <2>2
<1> QED
  BY <1>2, <1>7, <1>8, <1>9, <1>11, <1>13, <1>14 DEF HistoryInv

\* WriteMutations(): the new write gets its callback under an id that no
\* batch of the queue has.
LEMMA WriteMutationsHistory ==
    ASSUME HInv, WriteMutationsCall
    PROVE  /\ HistoryInv'
           /\ queue' = [queue EXCEPT ![user] = Append(queue[user],
                          [id |-> next[user], w |-> Len(author) + 1])]
<1> USE InvFacts
<1>1. /\ IInv /\ HistoryInv /\ queue \in [Users -> Seq(Batch)] /\ QueueInv
      /\ user \in Users /\ Len(author) \in Nat /\ author \in Seq(Users)
      /\ callbacks \in [Users -> SUBSET Batch] /\ next \in [Users -> Nat]
      /\ StoreInv(rs, queue[user]) /\ CoreInv(rs, queue[user])
      /\ rs \in RemoteStoreType /\ rs.ok
  BY DEF HInv, IInv, TypeOK, CoreInv
<1>2. PICK q, b : q = queue[user]
               /\ b = [id |-> next[user], w |-> Len(author) + 1]
  OBVIOUS
<1>3. PICK a : a = Append(q, b)
  OBVIOUS
<1>4. /\ b \in Batch /\ b.id = next[user] /\ b.id \in Nat
      /\ b.w = Len(author) + 1 /\ b.w \in Nat
      /\ q \in Seq(Batch) /\ Len(q) \in Nat
      /\ \A i \in 1..Len(q) : q[i].id < b.id /\ q[i].id \in Nat
      /\ \A i \in 1..Len(q) : q[i].w \in 1..Len(author)
  <2>1. b \in Batch /\ b.id = next[user] /\ b.w = Len(author) + 1
    BY <1>1, <1>2 DEF Batch
  <2>2. b.id \in Nat /\ b.w \in Nat
    BY <1>1, <2>1
  <2>3. q \in Seq(Batch) /\ Len(q) \in Nat
        /\ \A i \in 1..Len(q) : q[i].id \in Nat
    BY <1>1, <1>2, BatchSeq
  <2>4. \A i \in 1..Len(q) : q[i].id < b.id
    BY <1>1, <1>2, <2>1 DEF QueueInv
  <2>5. \A i \in 1..Len(q) : q[i].w \in 1..Len(author)
    BY <1>1, <1>2 DEF HistoryInv, WritesInv
  <2> QED
    BY <2>1, <2>2, <2>3, <2>4, <2>5
<1>5. /\ a \in Seq(Batch) /\ Len(a) = Len(q) + 1
      /\ \A i \in 1..Len(q) : a[i] = q[i]
      /\ a[Len(q) + 1] = b
  BY <1>3, <1>4
<1>6. Batches(a) = Batches(q) \cup {b}
  <2>1. PICK n \in Nat : n = Len(q)
    BY <1>4
  <2>2. 1..(n + 1) = (1..n) \cup {n + 1}
    OBVIOUS
  <2> QED
    BY <1>5, <2>1, <2>2 DEF Batches
<1>7. HardAssert(rs, q # <<>> => q[Len(q)].id < b.id) = rs
  <2>1. q # <<>> => q[Len(q)].id < b.id
    BY <1>4, EmptySeq
  <2>2. (q # <<>> => q[Len(q)].id < b.id) \in BOOLEAN
    BY <2>1
  <2> QED
    BY <2>1, <2>2, <1>1, HardAssertHolds
<1>8. CallbacksFor(b) = {}
  <2>1. callbacks[user] = {c \in Batches(q) : c.w \in session}
    BY <1>1, <1>2 DEF HistoryInv, CallbacksMatchQueue
  <2>2. \A c \in Batches(q) : c.id # b.id
    BY <1>4 DEF Batches
  <2> QED
    BY <2>1, <2>2 DEF CallbacksFor
<1>9. /\ queue' = [queue EXCEPT ![user] = a]
      /\ rs' = FillWritePipeline(rs, a)
      /\ next' = [next EXCEPT ![user] = next[user] + 1]
      /\ author' = Append(author, user)
      /\ session' = session \cup {b.w}
      /\ callbacks' = [callbacks EXCEPT ![user] = callbacks[user] \cup {b}]
      /\ UNCHANGED <<stored, user, waiters, told, server, faults>>
  BY <1>2, <1>3, <1>7, <1>8 DEF WriteMutationsCall
<1>10. /\ queue'[user] = a /\ next'[user] = b.id + 1
       /\ \A v \in Users : v # user => queue'[v] = queue[v] /\ next'[v] = next[v]
       /\ Len(author') = Len(author) + 1
  BY <1>1, <1>4, <1>9
<1>11. SeenInv(rs', server') /\ StreamTokenIsPersisted'
  <2>1. IInv'
    BY <1>1, WriteMutationsCallInv
  <2>2. StoreInv(rs', a) /\ OrderedQueue(a)
    <3>1. user' = user /\ queue'[user'] = a /\ user \in Users
      BY <1>1, <1>9, <1>10
    <3> QED
      BY <2>1, <3>1 DEF IInv, QueueInv
  <2>3. StoreInv(rs, a)
    BY <1>1, <1>2, <1>3, <1>4, LongerQueue
  <2>4. Carried(rs, rs') /\ rs'.token = rs.token
    BY <2>2, <2>3, <1>5, <1>9, FillInv DEF StoreInv
  <2>5. SeenInv(rs', server')
    BY <2>2, <2>3, <2>4, <1>1, <1>9, CarriedSeen DEF HistoryInv
  <2> QED
    BY <2>4, <2>5, <1>1, <1>9 DEF Carried, HistoryInv, StreamTokenIsPersisted
<1>12. WritesInv'
  <2>1. ASSUME NEW v \in Users, NEW i \in 1..Len(queue'[v])
        PROVE  queue'[v][i].w \in 1..(Len(author) + 1)
    <3>1. CASE v = user
      <4>1. i \in 1..Len(q) \/ i = Len(q) + 1
        BY <1>4, <1>5, <1>10, <2>1, <3>1
      <4>2. a[i].w \in 1..Len(author) \/ a[i].w = Len(author) + 1
        BY <1>4, <1>5, <4>1
      <4>3. a[i].w \in 1..(Len(author) + 1)
        BY <1>1, <4>2
      <4> QED
        BY <1>10, <3>1, <4>3
    <3>2. CASE v # user
      <4>1. queue[v][i].w \in 1..Len(author)
        BY <1>1, <1>10, <2>1, <3>2 DEF HistoryInv, WritesInv
      <4> QED
        BY <1>1, <1>10, <3>2, <4>1
    <3> QED
      BY <3>1, <3>2
  <2> QED
    BY <1>10, <2>1 DEF WritesInv
<1>13. ASSUME NEW v \in Users, NEW c \in Batches(queue[v])
       PROVE  c.w \in session' <=> c.w \in session
  <2>1. c.w \in 1..Len(author)
    BY <1>1 DEF HistoryInv, WritesInv, Batches
  <2> QED
    BY <2>1, <1>1, <1>4, <1>9
<1>14. CallbacksMatchQueue'
  <2>1. /\ callbacks'[user] = callbacks[user] \cup {b}
        /\ \A v \in Users : v # user => callbacks'[v] = callbacks[v]
    BY <1>1, <1>9
  <2>2. \A v \in Users : callbacks[v] = {c \in Batches(queue[v]) : c.w \in session}
    BY <1>1 DEF HistoryInv, CallbacksMatchQueue
  <2>3. ASSUME NEW v \in Users
        PROVE  callbacks'[v] = {c \in Batches(queue'[v]) : c.w \in session'}
    <3>1. CASE v = user
      BY <1>1, <1>2, <1>6, <1>9, <1>10, <1>13, <2>1, <2>2, <3>1
    <3>2. CASE v # user
      BY <1>10, <1>13, <2>1, <2>2, <3>2
    <3> QED
      BY <3>1, <3>2
  <2> QED
    BY <2>3 DEF CallbacksMatchQueue
<1>15. LastIdInv'
  <2>1. a[Len(a)].id = next'[user] - 1
    BY <1>4, <1>5, <1>10
  <2> QED
    BY <1>1, <1>10, <2>1 DEF LastIdInv, HistoryInv
<1>16. PendingInv'
  BY <1>1, <1>9, <1>10 DEF PendingInv, HistoryInv
<1>17. WaitersCanBeAnswered'
  <2>1. ASSUME NEW x \in waiters
        PROVE  /\ \E c \in Batches(a) : c.id = x.id
               /\ \A c \in Batches(a) : c.w \in x.pending => c.id <= x.id
    <3>1. b.w \notin x.pending
      BY <1>1, <1>4 DEF HistoryInv, PendingInv
    <3> QED
      BY <1>1, <1>2, <1>6, <3>1 DEF HistoryInv, WaitersCanBeAnswered
  <2> QED
    BY <1>9, <1>10, <2>1 DEF WaitersCanBeAnswered
<1> QED
  BY <1>2, <1>3, <1>9, <1>11, <1>12, <1>14, <1>15, <1>16, <1>17 DEF HistoryInv

\* RegisterPendingWritesCallback(): the highest batch id that the queue
\* reports is the id of its last batch, for both kinds of persistence.
LEMMA WaitHistory ==
    ASSUME HInv, WaitForPendingWrites
    PROVE  HistoryInv' /\ waiters \subseteq waiters'
<1> USE InvFacts
<1>1. /\ IInv /\ HistoryInv /\ user \in Users
      /\ UNCHANGED <<queue, stored, next, user, rs, callbacks, author,
                     session, told, server>>
  BY DEF HInv, WaitForPendingWrites
<1>2. PICK q, highest : q = queue[user]
         /\ highest = GetHighestUnacknowledgedBatchId(queue[user], next[user])
  OBVIOUS
<1>3. PICK x : x = [id |-> highest, pending |-> {b.w : b \in Batches(q)}]
  OBVIOUS
<1>4. waiters' = waiters \cup {x} /\ q # <<>>
  BY <1>2, <1>3 DEF WaitForPendingWrites, GetHighestUnacknowledgedBatchId
<1>5. x.id = highest /\ x.pending = {b.w : b \in Batches(q)}
  BY <1>3
<1>6. q \in Seq(Batch) /\ OrderedQueue(q) /\ Len(q) \in Nat /\ Len(q) >= 1
      /\ \A i \in 1..Len(q) : q[i].id \in Nat
  BY <1>1, <1>2, <1>4, BatchSeq, TailBatches
<1>7. highest = q[Len(q)].id
  <2>1. CASE Persistence = "leveldb"
    BY <1>2, <1>4, <2>1 DEF GetHighestUnacknowledgedBatchId
  <2>2. CASE Persistence = "memory"
    BY <1>1, <1>2, <1>4, <2>2
       DEF GetHighestUnacknowledgedBatchId, HistoryInv, LastIdInv
  <2> QED
    BY <2>1, <2>2, PersistenceAssumption
<1>8. PendingInv'
  <2>1. x.pending \subseteq 1..Len(author)
    BY <1>1, <1>2, <1>5 DEF HistoryInv, WritesInv, Batches
  <2> QED
    BY <1>1, <1>4, <2>1 DEF HistoryInv, PendingInv
<1>9. WaitersCanBeAnswered'
  <2>1. PICK n \in Nat : n = Len(q) /\ n >= 1
    BY <1>6
  <2>2. q[n] \in Batches(q) /\ q[n].id = x.id
    BY <1>5, <1>7, <2>1 DEF Batches
  <2>3. ASSUME NEW c \in Batches(q)
        PROVE  c.id <= x.id
    <3>1. PICK i \in 1..n : c = q[i]
      BY <2>1 DEF Batches
    <3>2. i = n \/ q[i].id < q[n].id
      BY <1>6, <2>1 DEF OrderedQueue
    <3>3. q[i].id \in Nat /\ q[n].id \in Nat
      BY <1>6, <2>1
    <3> QED
      BY <2>2, <3>1, <3>2, <3>3
  <2> QED
    BY <1>1, <1>2, <1>4, <2>2, <2>3 DEF HistoryInv, WaitersCanBeAnswered
<1>10. /\ WritesInv' /\ CallbacksMatchQueue' /\ SeenInv(rs', server')
       /\ StreamTokenIsPersisted' /\ LastIdInv'
  BY <1>1 DEF HistoryInv, WritesInv, CallbacksMatchQueue, LastIdInv,
     StreamTokenIsPersisted
<1> QED
  BY <1>4, <1>8, <1>9, <1>10 DEF HistoryInv

\* HandleCredentialChange(): the new user's stream starts afresh.
LEMMA CredentialHistory ==
    ASSUME HInv, NEW u \in Users, HandleCredentialChange(u)
    PROVE  HistoryInv' /\ (user' # user \/ waiters' = waiters)
<1> USE InvFacts
<1>1. /\ IInv /\ HistoryInv /\ user \in Users /\ next \in [Users -> Nat]
      /\ queue \in [Users -> Seq(Batch)] /\ OtherTypes
  BY DEF HInv, IInv, TypeOK
<1>2. /\ user' = u
      /\ UNCHANGED <<queue, stored, callbacks, author, session, told, server>>
      /\ next' = IF u = user THEN next ELSE StartMutationQueue(queue, next, u)
      /\ waiters' = IF u = user THEN waiters ELSE {}
      /\ rs' = IF rs.net THEN RestartNetwork(rs, queue[u], stored[u]) ELSE rs
  BY DEF HandleCredentialChange
<1>3. StoreInv(rs', queue[u])
  BY <1>1, <1>2, CredentialChangeInv DEF IInv
<1>4. ~IsOpen(rs')
  <2>1. CASE rs.net
    BY <1>1, <1>2, <2>1, RestartInv
  <2>2. CASE ~rs.net
    BY <1>1, <1>2, <2>2 DEF CoreInv, TimerInv, IsStarted, IsOpen
  <2> QED
    BY <2>1, <2>2
<1>5. SeenInv(rs', server') /\ StreamTokenIsPersisted'
  BY <1>3, <1>4, NotOpenSeen DEF StreamTokenIsPersisted
<1>6. LastIdInv'
  <2>1. ASSUME Persistence = "memory", NEW v \in Users, queue[v] # <<>>
        PROVE  next'[v] = next[v]
    BY <1>1, <1>2, <2>1 DEF StartMutationQueue
  <2> QED
    BY <1>1, <1>2, <2>1 DEF HistoryInv, LastIdInv
<1>7. /\ WritesInv' /\ CallbacksMatchQueue' /\ PendingInv'
      /\ WaitersCanBeAnswered'
  <2>1. CASE u = user
    BY <1>1, <1>2, <2>1 DEF HistoryInv, WritesInv, CallbacksMatchQueue,
       PendingInv, WaitersCanBeAnswered
  <2>2. CASE u # user
    BY <1>1, <1>2, <2>2 DEF HistoryInv, WritesInv, CallbacksMatchQueue,
       PendingInv, WaitersCanBeAnswered
  <2> QED
    BY <2>1, <2>2
<1> QED
  BY <1>2, <1>5, <1>6, <1>7 DEF HistoryInv

\* StartClient(): a new client has no callbacks and no waiters.
LEMMA StartClientHistory ==
    ASSUME HInv, NEW u \in Users, StartClient(u), IInv', UNCHANGED author
    PROVE  /\ HistoryInv' /\ session' = {}
           /\ queue' = IF Persistence = "leveldb" THEN queue
                                                  ELSE [v \in Users |-> <<>>]
<1> USE InvFacts
<1>1. /\ IInv /\ HistoryInv /\ queue \in [Users -> Seq(Batch)] /\ OtherTypes
      /\ Len(author) \in Nat
  BY DEF HInv, IInv, TypeOK
<1>2. PICK kept : kept = IF Persistence = "leveldb" THEN queue
                                                    ELSE [v \in Users |-> <<>>]
  OBVIOUS
<1>3. PICK tokens : tokens = IF Persistence = "leveldb"
                             THEN stored ELSE [v \in Users |-> NoToken]
  OBVIOUS
<1>4. /\ queue' = kept /\ stored' = tokens
      /\ rs' = EnableNetworkOp(NewRemoteStore, kept[u], tokens[u])
      /\ user' = u /\ callbacks' = [v \in Users |-> {}] /\ waiters' = {}
      /\ session' = {}
  BY <1>2, <1>3 DEF StartClient
<1>5. /\ kept \in [Users -> Seq(Batch)]
      /\ tokens \in [Users -> Tokens \cup {NoToken}]
  <2>1. <<>> \in Seq(Batch)
    OBVIOUS
  <2> QED
    BY <2>1, <1>1, <1>2, <1>3 DEF OtherTypes
<1>6. SeenInv(rs', server') /\ StreamTokenIsPersisted'
  <2>1. OrderedQueue(kept[u]) /\ kept[u] \in Seq(Batch)
        /\ tokens[u] \in Tokens \cup {NoToken} /\ StoreInv(rs', kept[u])
    BY <1>4, <1>5 DEF IInv, QueueInv
  <2>2. ~IsOpen(NewRemoteStore)
    BY DEF NewRemoteStore, IsOpen
  <2>3. ~IsOpen(rs')
    BY <2>1, <2>2, <1>4, EnableInv, NewStoreInv
  <2> QED
    BY <2>1, <2>3, NotOpenSeen DEF StreamTokenIsPersisted
<1>7. ASSUME NEW v \in Users
      PROVE  kept[v] = queue[v] \/ (Persistence # "leveldb" /\ kept[v] = <<>>
                                    /\ Len(kept[v]) = 0)
  <2>1. Len(<<>>) = 0
    OBVIOUS
  <2> QED
    BY <2>1, <1>2
<1>8. WritesInv' /\ CallbacksMatchQueue' /\ PendingInv' /\ WaitersCanBeAnswered'
  <2>1. WritesInv'
    BY <1>1, <1>4, <1>7 DEF HistoryInv, WritesInv
  <2> QED
    BY <2>1, <1>4 DEF CallbacksMatchQueue, PendingInv, WaitersCanBeAnswered
<1>9. LastIdInv'
  BY <1>2, <1>4 DEF LastIdInv
<1> QED
  BY <1>2, <1>4, <1>6, <1>8, <1>9 DEF HistoryInv

-----------------------------------------------------------------------------
(* The refinement                                                          *)

\* The writes of a queue, without the ids of their batches.
Writes(q) == [i \in 1..Len(q) |-> q[i].w]

\* They follow the queue when its first batch is removed and when a batch is
\* added to it.
LEMMA WritesFacts ==
    ASSUME NEW q \in Seq(Batch)
    PROVE  /\ Writes(q) \in Seq(Nat) /\ Len(Writes(q)) = Len(q)
           /\ q # <<>> => Writes(q) # <<>> /\ Head(Writes(q)) = q[1].w
           /\ \A rest \in Seq(Batch) :
                 /\ q # <<>>
                 /\ Len(rest) = Len(q) - 1
                 /\ \A i \in 1..Len(rest) : rest[i] = q[i + 1]
                 => Writes(rest) = Tail(Writes(q))
           /\ \A b \in Batch : Writes(Append(q, b)) = Append(Writes(q), b.w)
<1>1. PICK n \in Nat : n = Len(q)
  BY BatchSeq
<1>2. \A i \in 1..n : q[i].w \in Nat
  BY <1>1, BatchSeq
<1>3. PICK w : w = Writes(q)
  OBVIOUS
<1>4. w = [i \in 1..n |-> q[i].w]
  BY <1>1, <1>3 DEF Writes
<1>5. w \in Seq(Nat) /\ Len(w) = n
  BY <1>2, <1>4
<1>6. q # <<>> => w # <<>> /\ Head(w) = q[1].w
  BY <1>1, <1>4, <1>5, EmptySeq
<1>7. ASSUME NEW rest \in Seq(Batch), q # <<>>, Len(rest) = Len(q) - 1,
             \A i \in 1..Len(rest) : rest[i] = q[i + 1]
      PROVE  Writes(rest) = Tail(w)
  <2>1. PICK x : x = Writes(rest)
    OBVIOUS
  <2>2. n >= 1 /\ w # <<>>
    BY <1>1, <1>6, <1>7, EmptySeq
  <2>3. /\ Tail(w) \in Seq(Nat) /\ Len(Tail(w)) = n - 1
        /\ \A i \in 1..(n - 1) : Tail(w)[i] = w[i + 1]
    BY <1>5, <2>2, HeadTailProperties
  <2>4. \A i \in 1..(n - 1) : i + 1 \in 1..n /\ w[i + 1] = q[i + 1].w
    BY <1>4, <2>2
  <2>5. x = [i \in 1..(n - 1) |-> q[i + 1].w]
    BY <1>1, <1>7, <2>1 DEF Writes
  <2>6. x \in Seq(Nat) /\ Len(x) = n - 1
    BY <1>2, <2>2, <2>4, <2>5
  <2>7. \A i \in 1..(n - 1) : x[i] = Tail(w)[i]
    BY <2>3, <2>4, <2>5
  <2> QED
    BY <2>1, <2>3, <2>6, <2>7, SeqEqual
<1>8. ASSUME NEW b \in Batch
      PROVE  Writes(Append(q, b)) = Append(w, b.w)
  <2>1. PICK a : a = Append(q, b)
    OBVIOUS
  <2>2. /\ Len(a) = n + 1 /\ a[n + 1] = b
        /\ \A i \in 1..n : a[i] = q[i]
    BY <1>1, <2>1
  <2>3. Writes(a) = [i \in 1..(n + 1) |-> a[i].w]
    BY <2>2 DEF Writes
  <2>4. Append(w, b.w) = [i \in 1..(n + 1) |-> IF i = n + 1 THEN b.w ELSE w[i]]
    BY <1>5
  <2>5. \A i \in 1..(n + 1) : a[i].w = IF i = n + 1 THEN b.w ELSE w[i]
    BY <1>4, <2>2
  <2> QED
    BY <2>1, <2>3, <2>4, <2>5
<1> QED
  BY <1>1, <1>3, <1>5, <1>6, <1>7, <1>8

\* The queues as WriteQueue sees them.
LEMMA PendingFacts ==
    /\ Pending = [u \in Users |-> Writes(queue[u])]
    /\ Pending' = [u \in Users |-> Writes(queue'[u])]
  BY DEF Pending, Writes

\* One step of WriteQueue, or none.
QueueStep == [WQ!Next]_(WQ!vars)

\* Steps that the user and the backend do not notice.
LEMMA StutterStep ==
    ASSUME UNCHANGED <<queue, author, session, told, server>>
    PROVE  QueueStep
  BY DEF QueueStep, WQ!vars, Pending

\* A new write.
LEMMA IssueStep ==
    ASSUME HInv, WriteMutationsCall
    PROVE  QueueStep
<1>1. /\ IInv /\ queue \in [Users -> Seq(Batch)] /\ user \in Users
      /\ next[user] \in Nat /\ Len(author) \in Nat
  BY InvFacts DEF HInv, IInv, TypeOK
<1>2. PICK b : b = [id |-> next[user], w |-> Len(author) + 1]
  OBVIOUS
<1>3. b \in Batch /\ b.w = Len(author) + 1
  BY <1>1, <1>2 DEF Batch
<1>4. queue' = [queue EXCEPT ![user] = Append(queue[user], b)]
  BY <1>2, WriteMutationsHistory
<1>5. Pending' = [Pending EXCEPT ![user] = Append(@, Len(author) + 1)]
  <2>1. /\ queue'[user] = Append(queue[user], b)
        /\ \A v \in Users : v # user => queue'[v] = queue[v]
    BY <1>1, <1>4
  <2>2. Writes(queue'[user]) = Append(Writes(queue[user]), Len(author) + 1)
    BY <1>1, <1>3, <2>1, WritesFacts
  <2> QED
    BY <1>1, <2>1, <2>2, PendingFacts
<1>6. /\ author' = Append(author, user)
      /\ session' = session \cup {Len(author) + 1}
      /\ UNCHANGED <<told, server>>
  BY DEF WriteMutationsCall
<1>7. WQ!Issue(user)
  BY <1>5, <1>6 DEF WQ!Issue
<1> QED
  BY <1>1, <1>7 DEF QueueStep, WQ!Next

\* A batch of the current user is settled after the backend has dealt with it.
LEMMA SettleStep ==
    ASSUME HInv, rs.pipe # <<>>, NEW b, b = rs.pipe[1],
           NEW outcome \in {"ok", "error"}, Settle(b, outcome),
           UNCHANGED <<author, session, server>>,
           b.w \in IF outcome = "ok" THEN server.applied
                                     ELSE server.applied \cup server.refused
    PROVE  QueueStep
<1>1. /\ IInv /\ queue \in [Users -> Seq(Batch)] /\ user \in Users
      /\ told \in [ok : SUBSET Nat, error : SUBSET Nat]
  BY InvFacts DEF HInv, IInv, TypeOK
<1>2. /\ queue[user] # <<>> /\ b = queue[user][1]
      /\ {c.w : c \in CallbacksFor(b)} = {b.w} \cap session
      /\ queue' \in [Users -> Seq(Batch)]
      /\ \A v \in Users : v # user => queue'[v] = queue[v]
      /\ Len(queue'[user]) = Len(queue[user]) - 1
      /\ \A i \in 1..Len(queue'[user]) : queue'[user][i] = queue[user][i + 1]
  BY SettleTells, FirstCallbacks
<1>3. Pending[user] = Writes(queue[user])
  BY <1>1, PendingFacts
<1>4. Pending[user] # <<>> /\ Head(Pending[user]) = b.w
  BY <1>1, <1>2, <1>3, WritesFacts
<1>5. Pending' = [Pending EXCEPT ![user] = Tail(@)]
  <2>1. Writes(queue'[user]) = Tail(Writes(queue[user]))
    <3>1. queue[user] \in Seq(Batch) /\ queue'[user] \in Seq(Batch)
      BY <1>1, <1>2
    <3> QED
      BY <1>2, <3>1, WritesFacts
  <2> QED
    BY <1>1, <1>2, <2>1, PendingFacts
<1>6. told' = [told EXCEPT ![outcome] = @ \cup ({Head(Pending[user])} \cap session)]
  BY <1>2, <1>4 DEF Settle
<1>7. WQ!Settle(user, outcome)
  BY <1>4, <1>5, <1>6 DEF WQ!Settle, WQ!Tell, WQ!Seen
<1> QED
  BY <1>1, <1>7 DEF QueueStep, WQ!Next

\* The backend deals with a request.
LEMMA DealStep ==
    ASSUME HInv, ServerAccept \/ ServerRefuse
    PROVE  QueueStep
<1>1. /\ IInv /\ queue \in [Users -> Seq(Batch)] /\ user \in Users
      /\ SeenInv(rs, server) /\ rs.up # <<>> /\ rs.fin = "none"
      /\ queue[user] \in Seq(Batch) /\ CoreInv(rs, queue[user])
      /\ StoreInv(rs, queue[user])
      /\ UNCHANGED <<queue, author, session, told>>
  BY InvFacts DEF HInv, HistoryInv, IInv, TypeOK, ServerAccept, ServerRefuse
<1>2. CASE rs.hs
  <2>1. PICK i : i = Len(rs.down) + 1
    OBVIOUS
  <2>2. /\ i \in 1..Len(queue[user]) /\ rs.up[1] = queue[user][i]
        /\ rs.up[1] # Handshake
    BY <1>1, <1>2, <2>1, UpIsQueued
  <2>3. /\ Pending[user] = Writes(queue[user])
        /\ Len(Pending[user]) = Len(queue[user])
        /\ \A j \in 1..Len(queue[user]) : Pending[user][j] = queue[user][j].w
    <3>1. Pending[user] = Writes(queue[user])
      BY <1>1, PendingFacts
    <3> QED
      BY <1>1, <3>1, WritesFacts DEF Writes
  <2>4. ASSUME NEW j \in 1..(i - 1)
        PROVE  Pending[user][j] \in server.applied
    <3>1. /\ Len(rs.down) \in Nat /\ Len(rs.pipe) \in Nat
          /\ Len(queue[user]) \in Nat
      BY <1>1, RecordFields, BatchSeq DEF CoreInv
    <3>2. /\ Len(rs.down) <= Len(rs.pipe) /\ Len(rs.pipe) <= Len(queue[user])
          /\ \A k \in 1..Len(rs.down) : rs.down[k] = rs.pipe[k]
          /\ \A k \in 1..Len(rs.pipe) : rs.pipe[k] = queue[user][k]
      BY <1>1, <1>2 DEF StoreInv, CoreInv, WireInv, PrefixInv
    <3>3. j \in 1..Len(rs.down)
      BY <2>1, <3>1
    <3>4. j \in 1..Len(rs.pipe) /\ j \in 1..Len(queue[user])
      BY <3>1, <3>2, <3>3
    <3>5. rs.down[j] = queue[user][j]
      BY <3>2, <3>3, <3>4
    <3>6. rs.down[j].w \in server.applied
      BY <1>1, <1>2, <3>3 DEF SeenInv
    <3> QED
      BY <2>3, <3>4, <3>5, <3>6
  <2>5. \A j \in 1..(i - 1) : Pending[user][j] \in server.applied \cup server.refused
    BY <2>4
  <2>6. Pending[user][i] = rs.up[1].w /\ i \in 1..Len(Pending[user])
    BY <2>2, <2>3
  <2>7. UNCHANGED <<Pending, author, session, told>>
    BY <1>1 DEF Pending
  <2>8. CASE ServerAccept
    <3>1. server' = [server EXCEPT !["applied"] = @ \cup {Pending[user][i]}]
      BY <2>2, <2>6, <2>8 DEF ServerAccept
    <3>2. WQ!Deal(user, i, "applied")
      BY <2>5, <2>6, <2>7, <3>1 DEF WQ!Deal, WQ!Seen
    <3> QED
      BY <1>1, <2>6, <3>2 DEF QueueStep, WQ!Next
  <2>9. CASE ServerRefuse
    <3>1. server' = [server EXCEPT !["refused"] = @ \cup {Pending[user][i]}]
      BY <2>6, <2>9 DEF ServerRefuse
    <3>2. WQ!Deal(user, i, "refused")
      BY <2>5, <2>6, <2>7, <3>1 DEF WQ!Deal, WQ!Seen
    <3> QED
      BY <1>1, <2>6, <3>2 DEF QueueStep, WQ!Next
  <2> QED
    BY <2>8, <2>9
<1>3. CASE ~rs.hs
  <2>1. rs.up[1] = Handshake
    <3>1. 1 \in 1..Len(rs.up)
      BY <1>1, RecordFields, TailBatches DEF CoreInv
    <3> QED
      BY <1>1, <1>3, <3>1 DEF SeenInv
  <2>2. UNCHANGED server
    BY <2>1 DEF ServerAccept, ServerRefuse
  <2> QED
    BY <1>1, <2>2, StutterStep
<1> QED
  BY <1>2, <1>3

\* The process dies and a new client starts, maybe after the user was told of
\* a write that the backend applied.
LEMMA RestartStep ==
    ASSUME HInv, NEW u \in Users, Restart(u) \/ DieBeforeAcknowledge(u)
    PROVE  HistoryInv' /\ session' = {} /\ QueueStep
<1> USE InvFacts
<1>1. /\ IInv /\ queue \in [Users -> Seq(Batch)] /\ user \in Users
      /\ CallbacksMatchQueue /\ SeenInv(rs, server)
      /\ told \in [ok : SUBSET Nat, error : SUBSET Nat]
      /\ StartClient(u) /\ UNCHANGED <<author, server>>
  BY DEF HInv, HistoryInv, IInv, TypeOK, Restart, DieBeforeAcknowledge
<1>2. IInv'
  <2>1. Next
    BY DEF Next
  <2> QED
    BY <1>1, <2>1, NextInv
<1>3. /\ HistoryInv' /\ session' = {}
      /\ queue' = IF Persistence = "leveldb" THEN queue
                                             ELSE [v \in Users |-> <<>>]
  BY <1>1, <1>2, StartClientHistory
<1>4. Pending' = IF Persistence = "leveldb" THEN Pending
                                            ELSE [v \in Users |-> <<>>]
  <2>1. CASE Persistence = "leveldb"
    BY <1>3, <2>1 DEF Pending
  <2>2. CASE Persistence # "leveldb"
    <3>1. Writes(<<>>) = <<>>
      BY WritesFacts, EmptySeq DEF Writes
    <3>2. \A v \in Users : queue'[v] = <<>>
      BY <1>3, <2>2
    <3> QED
      BY <2>2, <3>1, <3>2, PendingFacts
  <2> QED
    BY <2>1, <2>2
<1>5. CASE UNCHANGED told
  <2>1. WQ!Restart
    BY <1>1, <1>3, <1>4, <1>5 DEF WQ!Restart
  <2> QED
    BY <1>3, <2>1 DEF QueueStep, WQ!Next
<1>6. CASE DieBeforeAcknowledge(u)
  <2>1. /\ rs.down # <<>> /\ rs.hs /\ rs.pipe # <<>>
        /\ told' = [told EXCEPT !.ok =
                      @ \cup {c.w : c \in CallbacksFor(rs.pipe[1])}]
    BY <1>6 DEF DieBeforeAcknowledge
  <2>2. /\ queue[user] # <<>> /\ rs.pipe[1] = queue[user][1]
        /\ {c.w : c \in CallbacksFor(rs.pipe[1])} = {rs.pipe[1].w} \cap session
    BY <2>1, FirstCallbacks
  <2>3. rs.pipe[1].w \in server.applied
    BY <2>1, FirstResponse
  <2>4. Pending[user] # <<>> /\ Head(Pending[user]) = rs.pipe[1].w
    <3>1. Pending[user] = Writes(queue[user])
      BY <1>1, PendingFacts
    <3> QED
      BY <1>1, <2>2, <3>1, WritesFacts
  <2>5. WQ!Tell(user, "ok")
    BY <2>1, <2>2, <2>4 DEF WQ!Tell
  <2>6. WQ!Restart
    BY <1>1, <1>3, <1>4, <2>3, <2>4, <2>5 DEF WQ!Restart
  <2> QED
    BY <1>3, <2>6 DEF QueueStep, WQ!Next
<1> QED
  BY <1>5, <1>6 DEF Restart

-----------------------------------------------------------------------------
(* Every step                                                              *)

\* What WaitersAnsweredInTime says of a step.
WaiterStep ==
    \A x \in waiters \ waiters' :
        \/ user' # user
        \/ ClientGoesAway
        \/ \A b \in Batches(queue'[user]) : b.w \notin x.pending

\* Only the write that the stream blames gets an error.
BlameStep ==
    \/ told'.error = told.error
    \/ /\ rs.pipe # <<>> /\ rs.hs
       /\ told'.error \subseteq told.error \cup {rs.pipe[1].w}
       /\ \/ "malformed" \in WireFaults
          \/ /\ rs.fin = "invalid_argument"
             /\ rs.down = <<>> \/ "drop_unread" \in WireFaults

\* The stream closes with an error.
LEMMA CloseHistory ==
    ASSUME HInv, NEW r, r.pipe = rs.pipe, r.hs = rs.hs, NEW status,
           CloseWithError(r, status), IInv', ~IsOpen(rs'),
           UNCHANGED <<next, user, author, session, server>>,
           rs.pipe # <<>> /\ rs.hs /\ IsPermanentWriteError(status) =>
             rs.pipe[1].w \in server.applied \cup server.refused
    PROVE  /\ HistoryInv' /\ QueueStep /\ WaiterStep
           /\ \/ told' = told
              \/ /\ rs.pipe # <<>> /\ rs.hs /\ IsPermanentWriteError(status)
                 /\ told'.error \subseteq told.error \cup {rs.pipe[1].w}
<1>1. /\ IInv /\ HistoryInv
      /\ told \in [ok : SUBSET Nat, error : SUBSET Nat]
  BY InvFacts DEF HInv, OtherTypes
<1>2. SeenInv(rs', server') /\ StreamTokenIsPersisted'
  BY NotOpenSeen DEF IInv, StreamTokenIsPersisted
<1>3. CASE rs.pipe # <<>> /\ rs.hs /\ IsPermanentWriteError(status)
  <2>1. PICK b : b = rs.pipe[1]
    OBVIOUS
  <2>2. Settle(b, "error") /\ "error" \in {"ok", "error"}
    BY <1>3, <2>1 DEF CloseWithError
  <2>3. HistoryInv' /\ WaiterStep
    BY <1>2, <1>3, <2>1, <2>2, SettleHistory DEF WaiterStep
  <2>4. QueueStep
    BY <1>3, <2>1, <2>2, SettleStep
  <2>5. {c.w : c \in CallbacksFor(b)} = {b.w} \cap session
    BY <1>3, <2>1, FirstCallbacks
  <2>6. told'.error = told.error \cup {c.w : c \in CallbacksFor(b)}
    BY <1>1, <2>2 DEF Settle
  <2>7. told'.error \subseteq told.error \cup {rs.pipe[1].w}
    BY <2>1, <2>5, <2>6
  <2> QED
    BY <1>3, <2>3, <2>4, <2>7
<1>4. CASE ~(rs.pipe # <<>> /\ rs.hs /\ IsPermanentWriteError(status))
  <2>1. UNCHANGED <<queue, callbacks, waiters, told>>
    BY <1>4 DEF CloseWithError
  <2> QED
    BY <1>1, <1>2, <2>1, SameHistory, StutterStep DEF WaiterStep
<1> QED
  BY <1>3, <1>4

\* A step preserves HistoryInv, maps to a step of WriteQueue, drops waiters
\* only in time and blames only the write that the backend did not accept.
LEMMA NextHistory ==
    ASSUME HInv, [Next]_vars
    PROVE  HistoryInv' /\ QueueStep /\ WaiterStep /\ BlameStep
<1>0. /\ IInv /\ IInv' /\ HistoryInv /\ SeenInv(rs, server)
      /\ rs \in RemoteStoreType
      /\ told \in [ok : SUBSET Nat, error : SUBSET Nat]
  BY NextInv, InvFacts DEF HInv, HistoryInv, OtherTypes
<1>1. CASE StreamStep
  <2>1. UNCHANGED <<queue, next, user, callbacks, waiters, author, session,
                    told, server>>
    BY <1>1, StreamStepFrame
  <2>2. HistoryInv'
    BY <1>0, <1>1, <2>1, StreamStepSeen, SameHistory
  <2>3. QueueStep
    BY <2>1, StutterStep
  <2> QED
    BY <2>1, <2>2, <2>3 DEF WaiterStep, BlameStep
<1>2. CASE ServerAccept \/ ServerRefuse
  <2>1. UNCHANGED <<queue, next, user, callbacks, waiters, author, session, told>>
    BY <1>2 DEF ServerAccept, ServerRefuse
  <2>2. HistoryInv'
    BY <1>0, <1>2, <2>1, ServerStepSeen, SameHistory
  <2>3. QueueStep
    BY <1>2, DealStep
  <2> QED
    BY <2>1, <2>2, <2>3 DEF WaiterStep, BlameStep
<1>3. CASE WriteMutationsCall
  <2>1. UNCHANGED <<waiters, told>>
    BY <1>3 DEF WriteMutationsCall
  <2> QED
    BY <1>3, <2>1, WriteMutationsHistory, IssueStep DEF WaiterStep, BlameStep
<1>4. CASE WaitForPendingWrites
  <2>1. UNCHANGED <<queue, author, session, told, server>>
    BY <1>4 DEF WaitForPendingWrites
  <2> QED
    BY <1>4, <2>1, WaitHistory, StutterStep DEF WaiterStep, BlameStep
<1>5. ASSUME NEW u \in Users, HandleCredentialChange(u)
      PROVE  HistoryInv' /\ QueueStep /\ WaiterStep /\ BlameStep
  <2>1. UNCHANGED <<queue, author, session, told, server>>
    BY <1>5 DEF HandleCredentialChange
  <2> QED
    BY <1>5, <2>1, CredentialHistory, StutterStep DEF WaiterStep, BlameStep
<1>6. ASSUME NEW u \in Users, Restart(u) \/ DieBeforeAcknowledge(u)
      PROVE  HistoryInv' /\ QueueStep /\ WaiterStep /\ BlameStep
  <2>1. told'.error = told.error
    BY <1>0, <1>6 DEF Restart, DieBeforeAcknowledge
  <2>2. ClientGoesAway
    BY <1>6 DEF ClientGoesAway
  <2> QED
    BY <1>6, <2>1, <2>2, RestartStep DEF WaiterStep, BlameStep
<1>7. ASSUME NEW status \in Errors, CredentialsError(status)
      PROVE  HistoryInv' /\ QueueStep /\ WaiterStep /\ BlameStep
  <2>1. /\ ~IsOpen(rs') /\ UNCHANGED <<queue, callbacks, waiters, told>>
        /\ UNCHANGED <<next, user, author, session, server>>
    BY <1>0, <1>7, CredentialsErrorInv DEF CredentialsError
  <2>2. SeenInv(rs', server') /\ StreamTokenIsPersisted'
    BY <1>0, <2>1, NotOpenSeen DEF IInv, StreamTokenIsPersisted
  <2> QED
    BY <1>0, <2>1, <2>2, SameHistory, StutterStep DEF WaiterStep, BlameStep
<1>8. ASSUME NEW t \in Tokens, MutationResult(t)
      PROVE  HistoryInv' /\ QueueStep /\ WaiterStep /\ BlameStep
  <2>1. rs.down # <<>> /\ rs.hs
        /\ UNCHANGED <<next, user, author, session, server>>
    BY <1>8 DEF MutationResult
  <2>2. rs.pipe # <<>> /\ rs.pipe[1].w \in server.applied
    BY <2>1, FirstResponse
  <2>3. PICK b : b = rs.pipe[1]
    OBVIOUS
  <2>4. /\ Settle(b, "ok") /\ "ok" \in {"ok", "error"}
        /\ stored' = [stored EXCEPT ![user] = t]
    BY <1>8, <2>2, <2>3 DEF MutationResult
  <2>5. SeenInv(rs', server') /\ StreamTokenIsPersisted'
    BY <1>0, <1>8, <2>1, ResultSeen
  <2>6. HistoryInv' /\ WaiterStep
    BY <2>1, <2>2, <2>3, <2>4, <2>5, SettleHistory DEF WaiterStep
  <2>7. QueueStep
    BY <2>1, <2>2, <2>3, <2>4, SettleStep
  <2>8. told'.error = told.error
    BY <1>0, <2>4 DEF Settle
  <2> QED
    BY <2>6, <2>7, <2>8 DEF BlameStep
<1>9. ASSUME NEW t \in Tokens \cup {rs.token}, MalformedResponse(t)
      PROVE  HistoryInv' /\ QueueStep /\ WaiterStep /\ BlameStep
  <2>1. /\ rs.down # <<>> /\ "malformed" \in WireFaults
        /\ UNCHANGED <<next, user, author, session, server>>
        /\ CloseWithError([rs EXCEPT !.token = t], "data_loss")
    BY <1>9 DEF MalformedResponse
  <2>2. ~IsOpen(rs')
    BY <1>0, <1>9, MalformedInv
  <2>3. PICK r : r = [rs EXCEPT !.token = t]
    OBVIOUS
  <2>4. r.pipe = rs.pipe /\ r.hs = rs.hs /\ CloseWithError(r, "data_loss")
    BY <1>0, <2>1, <2>3 DEF RemoteStoreType
  <2>5. rs.hs => rs.pipe[1].w \in server.applied \cup server.refused
    BY <2>1, FirstResponse
  <2> QED
    BY <1>0, <2>1, <2>2, <2>4, <2>5, CloseHistory DEF BlameStep
<1>10. CASE StreamFinish
  <2>1. /\ CloseWithError(rs, rs.fin)
        /\ rs.down = <<>> \/ "drop_unread" \in WireFaults
        /\ UNCHANGED <<next, user, author, session, server>>
    BY <1>10 DEF StreamFinish
  <2>2. ~IsOpen(rs')
    BY <1>0, <1>10, FinishInv
  <2>3. IsPermanentWriteError(rs.fin) => rs.fin = "invalid_argument"
    BY <1>0 DEF IsPermanentWriteError, IsPermanentError, SeenInv
  <2>4. rs.pipe # <<>> /\ rs.hs /\ IsPermanentWriteError(rs.fin) =>
          rs.pipe[1].w \in server.applied \cup server.refused
    <3>1. CASE rs.down # <<>>
      BY <3>1, FirstResponse
    <3>2. CASE rs.down = <<>>
      <4>1. Len(rs.down) + 1 = 1
        BY <3>2
      <4> QED
        BY <1>0, <2>3, <4>1 DEF SeenInv
    <3> QED
      BY <3>1, <3>2
  <2> QED
    BY <1>0, <2>1, <2>2, <2>3, <2>4, CloseHistory DEF BlameStep
<1>11. CASE UNCHANGED vars
  <2>1. UNCHANGED <<queue, stored, next, user, rs, callbacks, waiters, author,
                    session, told, server>>
    BY <1>11 DEF vars
  <2>2. SeenInv(rs', server') /\ StreamTokenIsPersisted'
    BY <1>0, <2>1 DEF HistoryInv, StreamTokenIsPersisted
  <2> QED
    BY <1>0, <2>1, <2>2, SameHistory, StutterStep DEF WaiterStep, BlameStep
<1> QED
  BY <1>1, <1>2, <1>3, <1>4, <1>5, <1>6, <1>7, <1>8, <1>9, <1>10, <1>11
     DEF Next, StreamStep

\* Initially nothing has been issued.
LEMMA InitHistory ==
    ASSUME Init
    PROVE  HInv /\ WQ!Init
<1>1. IInv
  BY InitInv
<1>2. /\ \A v \in Users : queue[v] = <<>> /\ callbacks[v] = {}
      /\ waiters = {} /\ author = <<>> /\ session = {} /\ user \in Users
      /\ queue = [v \in Users |-> <<>>]
      /\ told = [ok |-> {}, error |-> {}]
      /\ server = [applied |-> {}, refused |-> {}]
      /\ rs = EnableNetworkOp(NewRemoteStore, <<>>, NoToken)
  BY DEF Init
<1>3. Len(<<>>) = 0 /\ <<>> \in Seq(Batch)
  OBVIOUS
<1>4. SeenInv(rs, server) /\ StreamTokenIsPersisted
  <2>1. StoreInv(NewRemoteStore, <<>>) /\ NoToken \in Tokens \cup {NoToken}
    BY <1>3, NewStoreInv
  <2>2. OrderedQueue(<<>>) /\ ~IsOpen(NewRemoteStore)
    BY <1>3 DEF OrderedQueue, NewRemoteStore, IsOpen
  <2>3. StoreInv(rs, <<>>) /\ ~IsOpen(rs)
    BY <1>2, <1>3, <2>1, <2>2, EnableInv
  <2> QED
    BY <2>3, NotOpenSeen DEF StreamTokenIsPersisted
<1>5. WritesInv /\ CallbacksMatchQueue /\ LastIdInv /\ PendingInv
      /\ WaitersCanBeAnswered
  BY <1>2, <1>3 DEF WritesInv, CallbacksMatchQueue, LastIdInv, PendingInv,
     WaitersCanBeAnswered, Batches
<1>6. Pending = [v \in Users |-> <<>>]
  <2>1. Writes(<<>>) = <<>>
    BY <1>3, WritesFacts, EmptySeq DEF Writes
  <2> QED
    BY <1>2, <2>1, PendingFacts
<1>7. WQ!Init
  BY <1>2, <1>6 DEF WQ!Init
<1> QED
  BY <1>1, <1>4, <1>5, <1>7 DEF HInv, HistoryInv

\* HInv is an inductive invariant.
LEMMA HistoryInvariant == Spec => []HInv
<1>1. Init => HInv
  BY InitHistory
<1>2. HInv /\ [Next]_vars => HInv'
  BY NextInv, NextHistory DEF HInv
<1> QED
  BY <1>1, <1>2, PTL DEF Spec

-----------------------------------------------------------------------------
(* The order of the writes, from the refinement                            *)

\* Every write that can still reach the backend and that it has not seen is
\* pending for its author; a queue holds writes of its own user, in the order
\* in which they were issued.
OrderInv ==
    LET seen == server.applied \cup server.refused
    IN  /\ seen \subseteq 1..Len(author)
        /\ \A v \in 1..Len(author) :
              Persistence = "leveldb" \/ v \in session =>
                v \in seen \/ \E i \in 1..Len(Pending[author[v]]) :
                                 Pending[author[v]][i] = v
        /\ \A u \in Users : \A i \in 1..Len(Pending[u]) :
              Pending[u][i] \in 1..Len(author) /\ author[Pending[u][i]] = u
        /\ \A u \in Users : \A i, j \in 1..Len(Pending[u]) :
              i < j => Pending[u][i] < Pending[u][j]

\* The steps of WriteQueue preserve OrderInv and the order in which the
\* backend sees the writes of a user.
LEMMA OrderStep ==
    ASSUME HInv, HInv', OrderInv, BackendSeesWritesInOrder, QueueStep
    PROVE  OrderInv' /\ BackendSeesWritesInOrder'
<1> DEFINE seen == server.applied \cup server.refused
<1>0. /\ queue \in [Users -> Seq(Batch)] /\ queue' \in [Users -> Seq(Batch)]
      /\ author \in Seq(Users) /\ Len(author) \in Nat
      /\ server \in [applied : SUBSET Nat, refused : SUBSET Nat]
  BY DEF HInv, IInv, TypeOK
<1>1. ASSUME NEW u \in Users
      PROVE  /\ Pending[u] \in Seq(Nat) /\ Pending'[u] \in Seq(Nat)
             /\ Len(Pending[u]) \in Nat
  <2>1. Writes(queue[u]) \in Seq(Nat) /\ Writes(queue'[u]) \in Seq(Nat)
    BY <1>0, WritesFacts
  <2> QED
    BY <2>1, PendingFacts
<1>2. \A v \in 1..Len(author) : author[v] \in Users
  BY <1>0
<1>3. CASE UNCHANGED <<Pending, author, session, told, server>>
  BY <1>3 DEF OrderInv, BackendSeesWritesInOrder
<1>4. ASSUME NEW u \in Users, WQ!Issue(u)
      PROVE  OrderInv' /\ BackendSeesWritesInOrder'
  <2>0. PICK n \in Nat : n = Len(author)
    BY <1>0
  <2>1. /\ Pending' = [Pending EXCEPT ![u] = Append(Pending[u], n + 1)]
        /\ author' = Append(author, u)
        /\ session' = session \cup {n + 1} /\ server' = server
    BY <1>4, <2>0 DEF WQ!Issue
  <2>2. /\ Len(author') = n + 1 /\ author'[n + 1] = u
        /\ \A v \in 1..n : author'[v] = author[v]
    BY <1>0, <2>0, <2>1
  <2>3. DOMAIN Pending = Users
    BY DEF Pending
  <2>4. /\ Pending'[u] = Append(Pending[u], n + 1)
        /\ \A v \in Users : v # u => Pending'[v] = Pending[v]
    BY <2>1, <2>3
  <2>5. PICK k \in Nat : k = Len(Pending[u])
    BY <1>1
  <2>6. /\ Len(Pending'[u]) = k + 1 /\ Pending'[u][k + 1] = n + 1
        /\ \A i \in 1..k : Pending'[u][i] = Pending[u][i]
    BY <1>1, <2>4, <2>5
  <2>7. seen' = seen /\ seen \subseteq 1..n
    BY <2>0, <2>1 DEF OrderInv
  <2>8. ASSUME NEW v \in 1..(n + 1), Persistence = "leveldb" \/ v \in session'
        PROVE  v \in seen \/ \E i \in 1..Len(Pending'[author'[v]]) :
                                Pending'[author'[v]][i] = v
    <3>1. CASE v = n + 1
      <4>1. author'[v] = u /\ k + 1 \in 1..Len(Pending'[u])
            /\ Pending'[u][k + 1] = v
        BY <2>2, <2>6, <3>1
      <4> QED
        BY <4>1
    <3>2. CASE v # n + 1
      <4>1. v \in 1..n /\ (Persistence = "leveldb" \/ v \in session)
        BY <2>1, <2>8, <3>2
      <4>2. v \in seen \/ \E i \in 1..Len(Pending[author[v]]) :
                             Pending[author[v]][i] = v
        BY <2>0, <4>1 DEF OrderInv
      <4>3. author'[v] = author[v] /\ author[v] \in Users
        BY <1>2, <2>0, <2>2, <4>1
      <4>4. CASE author[v] = u
        <5>1. CASE v \notin seen
          <6>1. PICK i \in 1..k : Pending[u][i] = v
            BY <2>5, <4>2, <4>4, <5>1
          <6>2. i \in 1..(k + 1) /\ Pending'[u][i] = v
            BY <2>6, <6>1
          <6> QED
            BY <2>6, <4>3, <4>4, <6>2
        <5> QED
          BY <5>1
      <4>5. CASE author[v] # u
        BY <2>4, <4>2, <4>3, <4>5
      <4> QED
        BY <4>4, <4>5
    <3> QED
      BY <3>1, <3>2
  <2>9. ASSUME NEW v \in Users, NEW i \in 1..Len(Pending'[v])
        PROVE  Pending'[v][i] \in 1..(n + 1) /\ author'[Pending'[v][i]] = v
    <3>1. \A j \in 1..Len(Pending[v]) :
            /\ Pending[v][j] \in 1..(n + 1)
            /\ author'[Pending[v][j]] = v
      BY <2>0, <2>2 DEF OrderInv
    <3>2. CASE v = u
      <4>1. i \in 1..k \/ i = k + 1
        BY <2>6, <3>2
      <4> QED
        BY <2>2, <2>5, <2>6, <3>1, <3>2, <4>1
    <3>3. CASE v # u
      BY <2>4, <3>1, <3>3
    <3> QED
      BY <3>2, <3>3
  <2>10. ASSUME NEW v \in Users, NEW i \in 1..Len(Pending'[v]),
                NEW j \in 1..Len(Pending'[v]), i < j
         PROVE  Pending'[v][i] < Pending'[v][j]
    <3>1. CASE v = u
      <4>1. i \in 1..k /\ (j \in 1..k \/ j = k + 1)
        BY <2>6, <2>10, <3>1
      <4>2. Pending[u][i] \in 1..n
        BY <2>0, <2>5, <4>1 DEF OrderInv
      <4>3. CASE j \in 1..k
        <5>1. Pending[u][i] < Pending[u][j]
          BY <2>5, <2>10, <4>1, <4>3 DEF OrderInv
        <5> QED
          BY <2>6, <3>1, <4>1, <4>3, <5>1
      <4>4. CASE j = k + 1
        BY <2>6, <3>1, <4>1, <4>2, <4>4
      <4> QED
        BY <4>1, <4>3, <4>4
    <3>2. CASE v # u
      BY <2>4, <2>10, <3>2 DEF OrderInv
    <3> QED
      BY <3>1, <3>2
  <2>11. OrderInv'
    BY <2>2, <2>7, <2>8, <2>9, <2>10 DEF OrderInv
  <2>12. BackendSeesWritesInOrder'
    <3>1. ASSUME NEW w \in seen, NEW v \in 1..(w - 1), author'[v] = author'[w],
                 Persistence = "leveldb" \/ v \in session'
          PROVE  v \in seen
      <4>1. w \in 1..n /\ v \in 1..n /\ v # n + 1
        BY <2>7
      <4>2. author[v] = author[w] /\ (Persistence = "leveldb" \/ v \in session)
        BY <2>1, <2>2, <3>1, <4>1
      <4> QED
        BY <4>2 DEF BackendSeesWritesInOrder
    <3> QED
      BY <2>7, <3>1 DEF BackendSeesWritesInOrder
  <2> QED
    BY <2>11, <2>12
<1>5. ASSUME NEW u \in Users, NEW i \in 1..Len(Pending[u]),
             NEW verdict \in {"applied", "refused"}, WQ!Deal(u, i, verdict)
      PROVE  OrderInv' /\ BackendSeesWritesInOrder'
  <2>1. /\ \A j \in 1..(i - 1) : Pending[u][j] \in seen
        /\ server' = [server EXCEPT ![verdict] = @ \cup {Pending[u][i]}]
        /\ UNCHANGED <<Pending, author, session>>
    BY <1>5 DEF WQ!Deal, WQ!Seen
  <2>2. seen' = seen \cup {Pending[u][i]}
    BY <1>0, <2>1
  <2>3. PICK w : w = Pending[u][i]
    OBVIOUS
  <2>4. w \in 1..Len(author) /\ author[w] = u
    BY <2>3 DEF OrderInv
  <2>5. OrderInv'
    BY <2>1, <2>2, <2>3, <2>4 DEF OrderInv
  <2>6. ASSUME NEW v \in 1..(w - 1), author[v] = u,
               Persistence = "leveldb" \/ v \in session
        PROVE  v \in seen
    <3>1. v \in 1..Len(author)
      BY <1>0, <2>4
    <3>2. CASE v \notin seen
      <4>1. PICK j \in 1..Len(Pending[u]) : Pending[u][j] = v
        BY <2>6, <3>1, <3>2 DEF OrderInv
      <4>2. v < w /\ w \in Nat
        BY <2>4
      <4>3. ~(i < j) /\ i # j
        BY <2>3, <4>1, <4>2 DEF OrderInv
      <4>4. j \in 1..(i - 1)
        BY <1>1, <4>1, <4>3
      <4> QED
        BY <2>1, <4>1, <4>4
    <3> QED
      BY <3>2
  <2>7. BackendSeesWritesInOrder'
    BY <2>1, <2>2, <2>3, <2>4, <2>6 DEF BackendSeesWritesInOrder
  <2> QED
    BY <2>5, <2>7
<1>6. ASSUME NEW u \in Users, NEW outcome \in {"ok", "error"},
             WQ!Settle(u, outcome)
      PROVE  OrderInv' /\ BackendSeesWritesInOrder'
  <2>1. /\ Pending[u] # <<>> /\ Head(Pending[u]) \in seen
        /\ Pending' = [Pending EXCEPT ![u] = Tail(Pending[u])]
        /\ UNCHANGED <<author, session, server>>
    BY <1>6 DEF WQ!Settle, WQ!Seen
  <2>2. DOMAIN Pending = Users
    BY DEF Pending
  <2>3. /\ Pending'[u] = Tail(Pending[u])
        /\ \A v \in Users : v # u => Pending'[v] = Pending[v]
    BY <2>1, <2>2
  <2>4. PICK k \in Nat : k = Len(Pending[u])
    BY <1>1
  <2>5. /\ k >= 1 /\ Len(Pending'[u]) = k - 1
        /\ \A i \in 1..(k - 1) : Pending'[u][i] = Pending[u][i + 1]
        /\ Head(Pending[u]) = Pending[u][1]
    <3>1. PICK p : p = Pending[u]
      OBVIOUS
    <3>2. p \in Seq(Nat) /\ p # <<>> /\ k = Len(p)
      BY <1>1, <2>1, <2>4, <3>1
    <3>3. /\ k >= 1 /\ Len(Tail(p)) = k - 1 /\ Head(p) = p[1]
          /\ \A i \in 1..(k - 1) : Tail(p)[i] = p[i + 1]
      BY <3>2, HeadTailProperties, EmptySeq
    <3> QED
      BY <2>3, <3>1, <3>3
  <2>6. ASSUME NEW v \in 1..Len(author), Persistence = "leveldb" \/ v \in session
        PROVE  v \in seen \/ \E i \in 1..Len(Pending'[author[v]]) :
                                Pending'[author[v]][i] = v
    <3>1. CASE author[v] = u
      <4>1. CASE v \notin seen
        <5>1. PICK i \in 1..k : Pending[u][i] = v
          BY <2>4, <2>6, <3>1, <4>1 DEF OrderInv
        <5>2. i # 1
          BY <2>1, <2>5, <4>1, <5>1
        <5>3. i - 1 \in 1..(k - 1) /\ (i - 1) + 1 = i
          BY <5>1, <5>2
        <5>4. Pending'[u][i - 1] = v
          BY <2>5, <5>1, <5>3
        <5> QED
          BY <2>5, <3>1, <5>3, <5>4
      <4> QED
        BY <4>1
    <3>2. CASE author[v] # u
      BY <1>2, <2>3, <2>6, <3>2 DEF OrderInv
    <3> QED
      BY <3>1, <3>2
  <2>7. ASSUME NEW v \in Users, NEW i \in 1..Len(Pending'[v])
        PROVE  Pending'[v][i] \in 1..Len(author) /\ author[Pending'[v][i]] = v
    <3>1. CASE v = u
      <4>1. i + 1 \in 1..k /\ Pending'[u][i] = Pending[u][i + 1]
        BY <2>5, <3>1
      <4> QED
        BY <2>4, <3>1, <4>1 DEF OrderInv
    <3>2. CASE v # u
      BY <2>3, <3>2 DEF OrderInv
    <3> QED
      BY <3>1, <3>2
  <2>8. ASSUME NEW v \in Users, NEW i \in 1..Len(Pending'[v]),
               NEW j \in 1..Len(Pending'[v]), i < j
        PROVE  Pending'[v][i] < Pending'[v][j]
    <3>1. CASE v = u
      <4>1. /\ i + 1 \in 1..k /\ j + 1 \in 1..k /\ i + 1 < j + 1
            /\ Pending'[u][i] = Pending[u][i + 1]
            /\ Pending'[u][j] = Pending[u][j + 1]
        BY <2>5, <2>8, <3>1
      <4> QED
        BY <2>4, <3>1, <4>1 DEF OrderInv
    <3>2. CASE v # u
      BY <2>3, <2>8, <3>2 DEF OrderInv
    <3> QED
      BY <3>1, <3>2
  <2>9. OrderInv'
    <3>1. /\ seen' = seen /\ author' = author /\ session' = session
          /\ seen \subseteq 1..Len(author)
      BY <2>1 DEF OrderInv
    <3> HIDE DEF seen
    <3>2. OrderInv' <=>
            /\ seen' \subseteq 1..Len(author')
            /\ \A v \in 1..Len(author') :
                  Persistence = "leveldb" \/ v \in session' =>
                    v \in seen' \/ \E i \in 1..Len(Pending'[author'[v]]) :
                                      Pending'[author'[v]][i] = v
            /\ \A v \in Users : \A i \in 1..Len(Pending'[v]) :
                  Pending'[v][i] \in 1..Len(author') /\ author'[Pending'[v][i]] = v
            /\ \A v \in Users : \A i, j \in 1..Len(Pending'[v]) :
                  i < j => Pending'[v][i] < Pending'[v][j]
      BY DEF OrderInv, seen
    <3> QED
      BY <2>6, <2>7, <2>8, <3>1, <3>2
  <2>10. BackendSeesWritesInOrder'
    BY <2>1 DEF BackendSeesWritesInOrder
  <2> QED
    BY <2>9, <2>10
<1>7. CASE WQ!Restart
  <2>1. /\ session' = {} /\ UNCHANGED <<author, server>>
        /\ Pending' = IF Persistence = "leveldb" THEN Pending
                                                 ELSE [v \in Users |-> <<>>]
    BY <1>7 DEF WQ!Restart
  <2>2. CASE Persistence = "leveldb"
    BY <2>1, <2>2 DEF OrderInv, BackendSeesWritesInOrder
  <2>3. CASE Persistence # "leveldb"
    <3>1. \A v \in Users : Len(Pending'[v]) = 0
      BY <2>1, <2>3
    <3> QED
      BY <2>1, <2>3, <3>1 DEF OrderInv, BackendSeesWritesInOrder
  <2> QED
    BY <2>2, <2>3
<1> QED
  BY <1>3, <1>4, <1>5, <1>6, <1>7 DEF QueueStep, WQ!Next, WQ!vars

\* Initially the backend has seen nothing.
LEMMA InitOrder ==
    ASSUME Init
    PROVE  OrderInv /\ BackendSeesWritesInOrder
<1>1. /\ server = [applied |-> {}, refused |-> {}] /\ author = <<>>
      /\ queue = [v \in Users |-> <<>>]
  BY DEF Init
<1>2. Len(author) = 0
  BY <1>1
<1>3. ASSUME NEW u \in Users
      PROVE  Len(Pending[u]) = 0
  <2>1. queue[u] = <<>> /\ <<>> \in Seq(Batch) /\ Len(<<>>) = 0
    BY <1>1
  <2>2. Len(Writes(<<>>)) = 0
    BY <2>1, WritesFacts
  <2> QED
    BY <2>1, <2>2, PendingFacts
<1> QED
  BY <1>1, <1>2, <1>3 DEF OrderInv, BackendSeesWritesInOrder

-----------------------------------------------------------------------------
(* The theorems                                                            *)

\* The write path implements WriteQueue: across user changes, restarts, lost
\* connections and reused batch ids, a step settles at most the first write
\* of one user, only after the backend dealt with it, and tells its issuer.
THEOREM QueueRefinement == Spec => ImplementsWriteQueue
<1>1. Init => WQ!Init
  BY InitHistory
<1>2. HInv /\ [Next]_vars => [WQ!Next]_(WQ!vars)
  BY NextHistory DEF QueueStep
<1> QED
  BY <1>1, <1>2, HistoryInvariant, PTL DEF Spec, ImplementsWriteQueue, WQ!Spec

\* mutation_callbacks_ holds exactly the callbacks of the queued writes of
\* this session, each under the id of its own batch.
THEOREM CallbacksMatch == Spec => []CallbacksMatchQueue
<1>1. HInv => CallbacksMatchQueue
  BY DEF HInv, HistoryInv
<1> QED
  BY <1>1, HistoryInvariant, PTL

\* Every waiter for pending writes waits for a batch that is still queued for
\* the current user, and for no other of its writes beyond that batch.
THEOREM WaitersAnswerable == Spec => []WaitersCanBeAnswered
<1>1. HInv => WaitersCanBeAnswered
  BY DEF HInv, HistoryInv
<1> QED
  BY <1>1, HistoryInvariant, PTL

\* TriggerPendingWriteCallbacks() never calls a waiter while one of its writes
\* is queued: other than by the last acknowledgement or rejection, a waiter is
\* dropped only by a change of the user and by the step that ends the client.
THEOREM WaitersInTime == Spec => WaitersAnsweredInTime
<1>1. HInv /\ [Next]_vars => WaiterStep
  BY NextHistory
<1>2. HInv /\ [Next]_vars =>
        [\A x \in waiters \ waiters' :
           \/ user' # user
           \/ ClientGoesAway
           \/ \A b \in Batches(queue'[user]) : b.w \notin x.pending]_vars
  BY <1>1 DEF WaiterStep
<1> QED
  BY <1>2, HistoryInvariant, PTL DEF Spec, WaitersAnsweredInTime

\* After the handshake the stream token in memory is the persisted one.
THEOREM TokenPersisted == Spec => []StreamTokenIsPersisted
<1>1. HInv => StreamTokenIsPersisted
  BY DEF HInv, HistoryInv
<1> QED
  BY <1>1, HistoryInvariant, PTL

\* The backend sees the writes of a user in the order of their issue: it
\* applies or refuses none before it has dealt with all earlier ones that
\* were not lost with the process.
THEOREM WritesInOrder == Spec => []BackendSeesWritesInOrder
<1>1. Init => OrderInv /\ BackendSeesWritesInOrder
  BY InitOrder
<1>2. HInv /\ HInv' /\ [Next]_vars /\ OrderInv /\ BackendSeesWritesInOrder
        => OrderInv' /\ BackendSeesWritesInOrder'
  BY NextHistory, OrderStep
<1> QED
  BY <1>1, <1>2, HistoryInvariant, PTL DEF Spec

\* A callback gets a success only if the backend applied its write, also when
\* the process dies before the acknowledgement is stored.
THEOREM SuccessesAreApplied == Spec => []SuccessMeansApplied
<1>1. Init => SuccessMeansApplied
  BY DEF Init, SuccessMeansApplied
<1>2. HInv /\ [Next]_vars /\ SuccessMeansApplied => SuccessMeansApplied'
  <2> SUFFICES ASSUME HInv, [Next]_vars, SuccessMeansApplied
               PROVE  SuccessMeansApplied'
    OBVIOUS
  <2>1. /\ server \in [applied : SUBSET Nat, refused : SUBSET Nat]
        /\ told \in [ok : SUBSET Nat, error : SUBSET Nat]
    BY DEF HInv, IInv, TypeOK
  <2>2. QueueStep
    BY NextHistory
  <2>3. server.applied \subseteq server'.applied
    BY <2>1, <2>2 DEF QueueStep, WQ!Next, WQ!vars, WQ!Issue, WQ!Deal,
       WQ!Settle, WQ!Restart
  <2>4. told'.ok \subseteq told.ok \cup server.applied
    BY <2>1, <2>2 DEF QueueStep, WQ!Next, WQ!vars, WQ!Issue, WQ!Deal,
       WQ!Settle, WQ!Restart, WQ!Tell
  <2> QED
    BY <2>3, <2>4 DEF SuccessMeansApplied
<1> QED
  BY <1>1, <1>2, HistoryInvariant, PTL DEF Spec

\* When every response is read and decoded before the end of a call is
\* reported, HandleWriteError() blames only writes that the backend refused.
THEOREM FailuresAreRefusals ==
    ASSUME WireFaults = {}
    PROVE  Spec => []FailureMeansRefused
<1>1. Init => FailureMeansRefused
  BY DEF Init, FailureMeansRefused
<1>2. HInv /\ [Next]_vars /\ FailureMeansRefused => FailureMeansRefused'
  <2> SUFFICES ASSUME HInv, [Next]_vars, FailureMeansRefused
               PROVE  FailureMeansRefused'
    OBVIOUS
  <2>1. BlameStep
    BY NextHistory
  <2>2. server.refused \subseteq server'.refused
    <3>1. server \in [applied : SUBSET Nat, refused : SUBSET Nat]
      BY DEF HInv, IInv, TypeOK
    <3>2. QueueStep
      BY NextHistory
    <3> QED
      BY <3>1, <3>2 DEF QueueStep, WQ!Next, WQ!vars, WQ!Issue, WQ!Deal,
         WQ!Settle, WQ!Restart
  <2>3. CASE told'.error = told.error
    BY <2>2, <2>3 DEF FailureMeansRefused
  <2>4. CASE /\ told'.error \subseteq told.error \cup {rs.pipe[1].w}
             /\ rs.hs /\ rs.fin = "invalid_argument" /\ rs.down = <<>>
    <3>1. Len(rs.down) + 1 = 1
      BY <2>4
    <3>2. rs.pipe[1].w \in server.refused
      BY <2>4, <3>1 DEF HInv, HistoryInv, SeenInv
    <3> QED
      BY <2>2, <2>4, <3>2 DEF FailureMeansRefused
  <2> QED
    BY <2>1, <2>3, <2>4 DEF BlameStep
<1> QED
  BY <1>1, <1>2, HistoryInvariant, PTL DEF Spec
=============================================================================
