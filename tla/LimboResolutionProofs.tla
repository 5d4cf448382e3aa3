----------------------- MODULE LimboResolutionProofs -----------------------
(***************************************************************************)
(* Proofs about LimboResolution, for any number of documents and views and *)
(* any limit: SyncEngine's maps agree with the targets RemoteStore listens *)
(* to, no document in limbo is forgotten, and one waits only while the     *)
(* limit is reached.                                                       *)
(*                                                                         *)
(* The methods of SyncEngine are operators on its record, some of them     *)
(* loops.  Each has a lemma that says what it keeps: a consistent record   *)
(* stays consistent (Engines), a document that is being resolved or waits  *)
(* stays so unless its last reference is gone (Waiting), and the references*)
(* change as asked for.  The lemmas of the loops are by induction.         *)
(***************************************************************************)
EXTENDS LimboResolution, SequenceFacts, FiniteSetTheorems

\* SyncEngine's maps agree with each other and with the targets listened to, and
\* no target id is used twice.
Consistent(s) ==
    /\ s.ok
    /\ s.listens = {x.id : x \in s.byId}
    /\ \A k \in Keys : s.byKey[k] # 0 => [id |-> s.byKey[k], key |-> k] \in s.byId
    /\ \A x \in s.byId : x.id \in 1..s.ids
    /\ \A x, y \in s.byId : x.id = y.id => x = y

EngineRecords ==
    [refs : SUBSET [key : Keys, view : Views], queue : Seq(Keys), byKey : [Keys -> Nat],
     byId : SUBSET [id : Nat, key : Keys], listens : SUBSET Nat, ids : Nat, ok : BOOLEAN]

Engines == {s \in EngineRecords : Consistent(s)}

\* k is being resolved or waits for it.
Waiting(s, k) == s.byKey[k] # 0 \/ \E i \in 1..Len(s.queue) : s.queue[i] = k

Full(s) == Cardinality(ActiveKeys(s)) >= kMaxConcurrentLimboResolutions

\* Nothing waits without need.
Pumped(s) == s.queue # <<>> => Full(s)

InRefs(s, k, v) == [key |-> k, view |-> v] \in s.refs

\* Every document referred to is being resolved or waits, or is one of R.
Tracked(s, R) == \A k \in Keys, v \in Views : InRefs(s, k, v) => Waiting(s, k) \/ k \in R

\* The inductive invariant.
LimboInv ==
    /\ e \in Engines /\ Pumped(e) /\ Tracked(e, rejected)
    /\ open \subseteq Views /\ limbo \in [Views -> SUBSET Keys] /\ rejected \subseteq Keys
    /\ \A k \in Keys, v \in Views : InRefs(e, k, v) <=> k \in limbo[v]
    /\ \A v \in Views : v \notin open => limbo[v] = {}

\* The fields of SyncEngine's record.
LEMMA EngineFields ==
    ASSUME NEW s \in Engines
    PROVE  /\ s.refs \subseteq [key : Keys, view : Views] /\ s.queue \in Seq(Keys)
           /\ s.byKey \in [Keys -> Nat] /\ s.byId \subseteq [id : Nat, key : Keys]
           /\ s.listens \subseteq Nat /\ s.ids \in Nat /\ s.ok = TRUE /\ Consistent(s)
  BY DEF Engines, EngineRecords, Consistent

\* The number of active keys is a number.
LEMMA ActiveIsFinite ==
    ASSUME NEW s
    PROVE  Cardinality(ActiveKeys(s)) \in Nat
  <1>1. IsFiniteSet(Keys)
    <2>1. NumKeys \in Int /\ 1 \in Int
      BY LimboAssumption
    <2> QED
      BY <2>1, FS_Interval DEF Keys
  <1>2. ActiveKeys(s) \in SUBSET Keys
    BY DEF ActiveKeys
  <1>3. IsFiniteSet(ActiveKeys(s))
    BY <1>1, <1>2, FS_Subset
  <1> QED
    BY <1>3, FS_CardinalityType

\* The limit is reached or there is room.
LEMMA FullOrRoom ==
    ASSUME NEW s
    PROVE  Full(s) <=> ~(Cardinality(ActiveKeys(s)) < kMaxConcurrentLimboResolutions)
  BY ActiveIsFinite, LimboAssumption DEF Full

\* LimboTargetsMatchListens and the other properties follow.
LEMMA LimboConsequences ==
    ASSUME LimboInv
    PROVE  LimboTypeOK /\ LimboTargetsMatchListens /\ NoLimboDocumentForgotten /\ QueueMeansFull
  <1>1. /\ e.refs \subseteq [key : Keys, view : Views] /\ e.queue \in Seq(Keys)
        /\ e.byKey \in [Keys -> Nat] /\ e.byId \subseteq [id : Nat, key : Keys]
        /\ e.listens \subseteq Nat /\ e.ids \in Nat /\ e.ok = TRUE /\ Consistent(e)
    BY EngineFields DEF LimboInv
  <1>2. LimboTargetsMatchListens
    BY <1>1 DEF Consistent, LimboTargetsMatchListens, ActiveKeys
  <1>3. e.byId \subseteq [id : 1..e.ids, key : Keys]
    BY <1>1 DEF Consistent
  <1>4. e.listens \subseteq 1..e.ids
    BY <1>1 DEF Consistent
  <1>5. e.byKey \in [Keys -> 0..e.ids]
    <2>1. ASSUME NEW k \in Keys PROVE e.byKey[k] \in 0..e.ids
      <3>1. CASE e.byKey[k] = 0
        BY <1>1, <3>1
      <3>2. CASE e.byKey[k] # 0
        <4>1. [id |-> e.byKey[k], key |-> k] \in e.byId
          BY <1>1, <3>2 DEF Consistent
        <4>2. [id |-> e.byKey[k], key |-> k].id \in 1..e.ids
          BY <1>1, <4>1 DEF Consistent
        <4> QED
          BY <1>1, <4>2
      <3> QED
        BY <3>1, <3>2
    <2> QED
      BY <1>1, <2>1
  <1>6. LimboTypeOK
    <2>1. e \in EngineRecords
      BY DEF LimboInv, Engines
    <2>2. e \in [refs : SUBSET [key : Keys, view : Views], queue : Seq(Keys),
                 byKey : [Keys -> 0..e.ids], byId : SUBSET [id : 1..e.ids, key : Keys],
                 listens : SUBSET (1..e.ids), ids : Nat, ok : BOOLEAN]
      BY <1>1, <1>3, <1>4, <1>5, <2>1 DEF EngineRecords
    <2> QED
      BY <2>2 DEF LimboTypeOK, LimboInv
  <1>7. NoLimboDocumentForgotten
    <2>1. ASSUME NEW x \in [key : Keys, view : Views]
          PROVE  /\ x \in e.refs <=> x.key \in limbo[x.view]
                 /\ x \in e.refs => Waiting(e, x.key) \/ x.key \in rejected
      <3>1. x = [key |-> x.key, view |-> x.view] /\ x.key \in Keys /\ x.view \in Views
        OBVIOUS
      <3>2. x \in e.refs <=> InRefs(e, x.key, x.view)
        BY <3>1 DEF InRefs
      <3> QED
        BY <3>1, <3>2 DEF LimboInv, Tracked
    <2> QED
      BY <1>1, <2>1 DEF NoLimboDocumentForgotten, Waiting
  <1>8. QueueMeansFull
    BY DEF LimboInv, Pumped, Full, QueueMeansFull
  <1> QED
    BY <1>2, <1>6, <1>7, <1>8

-----------------------------------------------------------------------------
(* PumpEnqueuedLimboResolutions()                                          *)

\* An iteration of its loop starts the resolution of the first document.
LEMMA StartResolutionFacts ==
    ASSUME NEW s \in Engines, s.queue # <<>>
    PROVE  LET y == StartResolution(s)
           IN  /\ y \in Engines /\ y.refs = s.refs /\ y.queue = Tail(s.queue)
               /\ \A k \in Keys : Waiting(s, k) => Waiting(y, k)
  <1>1. /\ s.queue \in Seq(Keys) /\ s.byKey \in [Keys -> Nat] /\ s.byId \subseteq [id : Nat, key : Keys]
        /\ s.listens \subseteq Nat /\ s.ids \in Nat /\ s.ok = TRUE /\ Consistent(s)
    BY EngineFields
  <1>2. PICK key \in Keys : key = Head(s.queue)
    BY <1>1
  <1>3. PICK id \in Nat : id = s.ids + 1 /\ id # 0
    BY <1>1
  <1>4. PICK new : new = [id |-> id, key |-> key]
    OBVIOUS
  <1>5. PICK a : a = IF s.byKey[key] = 0 THEN id ELSE s.byKey[key]
    OBVIOUS
  <1>6. PICK q : q = Tail(s.queue)
    OBVIOUS
  <1>7. PICK byKey : byKey = [s.byKey EXCEPT ![key] = a]
    OBVIOUS
  <1>8. PICK byId : byId = s.byId \cup {new}
    OBVIOUS
  <1>9. PICK listens : listens = s.listens \cup {id}
    OBVIOUS
  <1>10. PICK y : y = StartResolution(s)
    OBVIOUS
  <1>11. s \in EngineRecords
    BY DEF Engines
  <1>12. y = [s EXCEPT !.queue = q, !.ids = id, !.byId = byId, !.byKey = byKey, !.listens = listens]
    BY <1>1, <1>2, <1>3, <1>4, <1>5, <1>6, <1>7, <1>8, <1>9, <1>10, <1>11
       DEF StartResolution, EngineRecords
  <1>13. /\ a \in Nat /\ a # 0 /\ byKey \in [Keys -> Nat] /\ byKey[key] = a
         /\ \A k \in Keys : k # key => byKey[k] = s.byKey[k]
    BY <1>1, <1>3, <1>5, <1>7
  <1>14. q \in Seq(Keys) /\ byId \subseteq [id : Nat, key : Keys] /\ listens \subseteq Nat
    BY <1>1, <1>4, <1>6, <1>8, <1>9
  <1>15. /\ y \in EngineRecords /\ y.queue = q /\ y.ids = id /\ y.byId = byId /\ y.byKey = byKey
         /\ y.listens = listens /\ y.refs = s.refs /\ y.ok = TRUE
    BY <1>1, <1>11, <1>12, <1>13, <1>14 DEF EngineRecords
  <1>16. Consistent(y)
    <2>1. new.id = id /\ new.key = key
      BY <1>4
    <2>2. listens = {x.id : x \in byId}
      BY <1>1, <1>8, <1>9, <2>1 DEF Consistent
    <2>3. ASSUME NEW k \in Keys, byKey[k] # 0 PROVE [id |-> byKey[k], key |-> k] \in byId
      <3>1. CASE k # key
        BY <1>1, <1>8, <1>13, <2>3, <3>1 DEF Consistent
      <3>2. CASE k = key /\ s.byKey[key] = 0
        BY <1>4, <1>5, <1>8, <1>13, <3>2
      <3>3. CASE k = key /\ s.byKey[key] # 0
        BY <1>1, <1>5, <1>8, <1>13, <3>3 DEF Consistent
      <3> QED
        BY <3>1, <3>2, <3>3
    <2>4. \A x \in s.byId : x.id \in 1..s.ids
      BY <1>1 DEF Consistent
    <2>5. ASSUME NEW x \in byId PROVE x.id \in 1..id /\ (x.id = id => x = new)
      <3>1. CASE x = new
        BY <1>3, <2>1, <3>1
      <3>2. CASE x \in s.byId
        <4>1. x.id \in 1..s.ids
          BY <2>4, <3>2
        <4> QED
          BY <1>1, <1>3, <4>1
      <3> QED
        BY <1>8, <3>1, <3>2
    <2>6. \A x, z \in byId : x.id = z.id => x = z
      BY <1>1, <1>8, <2>1, <2>5 DEF Consistent
    <2> QED
      BY <1>15, <2>2, <2>3, <2>5, <2>6 DEF Consistent
  <1>17. ASSUME NEW k \in Keys, Waiting(s, k) PROVE Waiting(y, k)
    <2>1. CASE k = key
      BY <1>13, <1>15, <2>1 DEF Waiting
    <2>2. CASE k # key /\ s.byKey[k] # 0
      BY <1>13, <1>15, <2>2 DEF Waiting
    <2>3. CASE k # key /\ \E i \in 1..Len(s.queue) : s.queue[i] = k
      <3>1. PICK i \in 1..Len(s.queue) : s.queue[i] = k
        BY <2>3
      <3>2. i # 1
        BY <1>1, <1>2, <2>3, <3>1
      <3>3. i - 1 \in 1..Len(q) /\ q[i - 1] = s.queue[i]
        BY <1>1, <1>6, <3>1, <3>2
      <3> QED
        BY <1>15, <3>1, <3>3 DEF Waiting
    <2> QED
      BY <1>17, <2>1, <2>2, <2>3 DEF Waiting
  <1> QED
    BY <1>6, <1>10, <1>15, <1>16, <1>17 DEF Engines

\* The whole loop: it ends when nothing waits or the limit is reached, and what
\* was being resolved or waited still is or does.
LEMMA PumpFacts ==
    ASSUME NEW s \in Engines
    PROVE  LET y == PumpEnqueuedLimboResolutions(s)
           IN  /\ y \in Engines /\ y.refs = s.refs /\ Pumped(y)
               /\ \A k \in Keys : Waiting(s, k) => Waiting(y, k)
  <1>0. s.queue \in Seq(Keys)
    BY EngineFields
  <1>1. PICK n \in Nat : n = Len(s.queue)
    BY <1>0
  <1>2. PICK F : F = [p \in (1..n) \X Engines |->
                        IF p[2].queue # <<>> /\ ~Full(p[2]) THEN StartResolution(p[2]) ELSE p[2]]
    OBVIOUS
  <1>3. F \in [(1..n) \X Engines -> Engines]
    <2>1. ASSUME NEW p \in (1..n) \X Engines
          PROVE  (IF p[2].queue # <<>> /\ ~Full(p[2]) THEN StartResolution(p[2]) ELSE p[2]) \in Engines
      <3>1. p[2] \in Engines
        OBVIOUS
      <3> QED
        BY <3>1, StartResolutionFacts
    <2> QED
      BY <1>2, <2>1
  <1>4. PICK g : Iterates(g, n, Engines, s, F)
    BY <1>3, IterationExists
  <1>5. g \in [0..n -> Engines] /\ g[0] = s
    BY <1>4 DEF Iterates
  <1>6. ASSUME NEW i \in 1..n
        PROVE  /\ i - 1 \in 0..n /\ g[i - 1] \in Engines
               /\ g[i] = IF g[i - 1].queue # <<>> /\ ~Full(g[i - 1])
                         THEN StartResolution(g[i - 1]) ELSE g[i - 1]
    <2>1. g[i] = F[<<i, g[i - 1]>>] /\ i - 1 \in 0..n
      BY <1>4 DEF Iterates
    <2>2. <<i, g[i - 1]>> \in (1..n) \X Engines
      BY <1>5, <2>1
    <2> QED
      BY <1>2, <1>5, <2>1, <2>2
  <1>7. PICK T : T = {i \in 0..n : /\ Full(g[i]) \/ Len(g[i].queue) = n - i
                                   /\ g[i].refs = s.refs
                                   /\ \A k \in Keys : Waiting(s, k) => Waiting(g[i], k)}
    OBVIOUS
  <1>8. 0 \in T
    BY <1>1, <1>5, <1>7
  <1>9. ASSUME NEW i \in 1..n, i - 1 \in T PROVE i \in T
    <2>1. PICK z \in Engines : z = g[i - 1]
      BY <1>6
    <2>2. /\ Full(z) \/ Len(z.queue) = n - (i - 1)
          /\ z.refs = s.refs /\ \A k \in Keys : Waiting(s, k) => Waiting(z, k)
      BY <1>7, <1>9, <2>1
    <2>3. z.queue \in Seq(Keys)
      BY EngineFields
    <2>4. CASE Full(z)
      <3>1. g[i] = z
        BY <1>6, <2>1, <2>4
      <3> QED
        BY <1>7, <2>2, <2>4, <3>1
    <2>5. CASE ~Full(z)
      <3>1. z.queue # <<>>
        BY <2>2, <2>3, <2>5
      <3>2. PICK y : y = StartResolution(z)
        OBVIOUS
      <3>3. g[i] = y
        BY <1>6, <2>1, <2>5, <3>1, <3>2
      <3>4. /\ y.refs = z.refs /\ y.queue = Tail(z.queue)
            /\ \A k \in Keys : Waiting(z, k) => Waiting(y, k)
        BY <3>1, <3>2, StartResolutionFacts
      <3>5. Len(y.queue) = n - i
        BY <2>2, <2>3, <2>5, <3>1, <3>4
      <3>6. y.refs = s.refs /\ \A k \in Keys : Waiting(s, k) => Waiting(y, k)
        BY <2>2, <3>4
      <3> QED
        BY <1>7, <3>3, <3>5, <3>6
    <2> QED
      BY <2>4, <2>5
  <1>10. 0..n \subseteq T
    BY <1>8, <1>9, SetInduction
  <1>11. ASSUME NEW i \in 1..n
         PROVE  g[i] = IF Cardinality(ActiveKeys(g[i - 1])) < kMaxConcurrentLimboResolutions
                       THEN StartResolution(g[i - 1]) ELSE g[i - 1]
    <2>1. PICK z \in Engines : z = g[i - 1]
      BY <1>6
    <2>2. Full(z) \/ Len(z.queue) = n - (i - 1)
      BY <1>6, <1>7, <1>10, <2>1
    <2>3. Full(z) \/ z.queue # <<>>
      BY <2>2
    <2>4. Full(z) <=> ~(Cardinality(ActiveKeys(z)) < kMaxConcurrentLimboResolutions)
      BY FullOrRoom
    <2> QED
      BY <1>6, <2>1, <2>3, <2>4
  <1>12. g = [i \in 0..n |->
                IF i = 0 THEN s
                ELSE IF Cardinality(ActiveKeys(g[i - 1])) < kMaxConcurrentLimboResolutions
                THEN StartResolution(g[i - 1]) ELSE g[i - 1]]
    <2>1. ASSUME NEW i \in 0..n
          PROVE  g[i] = IF i = 0 THEN s
                        ELSE IF Cardinality(ActiveKeys(g[i - 1])) < kMaxConcurrentLimboResolutions
                        THEN StartResolution(g[i - 1]) ELSE g[i - 1]
      <3>1. i = 0 \/ i \in 1..n
        OBVIOUS
      <3> QED
        BY <1>5, <1>11, <3>1
    <2> QED
      BY <1>5, <2>1
  <1>13. PICK f : f = CHOOSE h : h =
           [i \in 0..n |->
              IF i = 0 THEN s
              ELSE IF Cardinality(ActiveKeys(h[i - 1])) < kMaxConcurrentLimboResolutions
              THEN StartResolution(h[i - 1]) ELSE h[i - 1]]
    OBVIOUS
  <1>14. PumpEnqueuedLimboResolutions(s) = f[n]
    BY <1>1, <1>13 DEF PumpEnqueuedLimboResolutions
  <1>15. f = [i \in 0..n |->
                IF i = 0 THEN s
                ELSE IF Cardinality(ActiveKeys(f[i - 1])) < kMaxConcurrentLimboResolutions
                THEN StartResolution(f[i - 1]) ELSE f[i - 1]]
    BY <1>12, <1>13
  <1>16. f[n] = g[n]
    <2>1. PICK U : U = {i \in 0..n : f[i] = g[i]}
      OBVIOUS
    <2>2. 0 \in U
      BY <1>5, <1>15, <2>1
    <2>3. ASSUME NEW i \in 1..n, i - 1 \in U PROVE i \in U
      <3>1. i \in 0..n /\ i # 0 /\ f[i - 1] = g[i - 1]
        BY <2>1, <2>3
      <3>2. f[i] = IF Cardinality(ActiveKeys(f[i - 1])) < kMaxConcurrentLimboResolutions
                   THEN StartResolution(f[i - 1]) ELSE f[i - 1]
        BY <1>15, <3>1
      <3> QED
        BY <1>11, <2>1, <3>1, <3>2
    <2>4. 0..n \subseteq U
      BY <2>2, <2>3, SetInduction
    <2> QED
      BY <2>1, <2>4
  <1>17. PICK y \in Engines : y = g[n]
    BY <1>5
  <1>18. /\ Full(y) \/ Len(y.queue) = 0
         /\ y.refs = s.refs /\ \A k \in Keys : Waiting(s, k) => Waiting(y, k)
    BY <1>7, <1>10, <1>17
  <1>19. Pumped(y)
    <2>1. y.queue \in Seq(Keys)
      BY EngineFields
    <2> QED
      BY <1>18, <2>1 DEF Pumped
  <1> QED
    BY <1>14, <1>16, <1>17, <1>18, <1>19

-----------------------------------------------------------------------------
(* TrackLimboChange() and RemoveLimboTarget()                              *)

\* A document that is tracked is being resolved or waits.
LEMMA TrackFacts ==
    ASSUME NEW s \in Engines, Pumped(s), NEW key \in Keys
    PROVE  LET y == TrackLimboChange(s, key)
           IN  /\ y \in Engines /\ y.refs = s.refs /\ Pumped(y) /\ Waiting(y, key)
               /\ \A k \in Keys : Waiting(s, k) => Waiting(y, k)
  <1>1. CASE s.byKey[key] # 0
    BY <1>1 DEF TrackLimboChange, Waiting
  <1>2. CASE s.byKey[key] = 0
    <2>1. PICK q : q = Append(s.queue, key)
      OBVIOUS
    <2>2. PICK z : z = [s EXCEPT !.queue = q]
      OBVIOUS
    <2>3. s.queue \in Seq(Keys) /\ s \in EngineRecords /\ Consistent(s)
      BY EngineFields DEF Engines
    <2>4. q \in Seq(Keys) /\ q[Len(q)] = key /\ Len(q) \in 1..Len(q)
          /\ \A i \in 1..Len(s.queue) : i \in 1..Len(q) /\ q[i] = s.queue[i]
      BY <2>1, <2>3
    <2>5. /\ z \in EngineRecords /\ z.queue = q /\ z.refs = s.refs /\ z.byKey = s.byKey
          /\ z.byId = s.byId /\ z.listens = s.listens /\ z.ids = s.ids /\ z.ok = s.ok
      BY <2>2, <2>3, <2>4 DEF EngineRecords
    <2>6. z \in Engines
      BY <2>3, <2>5 DEF Consistent, Engines
    <2>7. Waiting(z, key) /\ \A k \in Keys : Waiting(s, k) => Waiting(z, k)
      BY <2>4, <2>5 DEF Waiting
    <2>8. PICK y : y = PumpEnqueuedLimboResolutions(z)
      OBVIOUS
    <2>9. /\ y \in Engines /\ y.refs = z.refs /\ Pumped(y)
          /\ \A k \in Keys : Waiting(z, k) => Waiting(y, k)
      BY <2>6, <2>8, PumpFacts
    <2>10. TrackLimboChange(s, key) = y
      BY <1>2, <2>1, <2>2, <2>8 DEF TrackLimboChange
    <2> QED
      BY <2>5, <2>7, <2>9, <2>10
  <1> QED
    BY <1>1, <1>2

\* Erasing a target from both maps and from RemoteStore's listens.
LEMMA EraseFacts ==
    ASSUME NEW s \in Engines, NEW x \in s.byId, NEW z \in EngineRecords, z.refs = s.refs,
           z.queue = s.queue, z.ids = s.ids, z.ok = TRUE, z.listens = s.listens \ {x.id},
           z.byKey = [s.byKey EXCEPT ![x.key] = 0], z.byId = s.byId \ {x}
    PROVE  z \in Engines /\ \A k \in Keys \ {x.key} : Waiting(s, k) => Waiting(z, k)
  <1>1. s.byKey \in [Keys -> Nat] /\ s.byId \subseteq [id : Nat, key : Keys] /\ Consistent(s)
    BY EngineFields
  <1>2. x.key \in Keys
    BY <1>1
  <1>3. z.byKey[x.key] = 0 /\ \A k \in Keys : k # x.key => z.byKey[k] = s.byKey[k]
    BY <1>1, <1>2
  <1>4. z.listens = {w.id : w \in z.byId}
    BY <1>1 DEF Consistent
  <1>5. ASSUME NEW k \in Keys, z.byKey[k] # 0 PROVE [id |-> z.byKey[k], key |-> k] \in z.byId
    <2>1. k # x.key /\ z.byKey[k] = s.byKey[k]
      BY <1>3, <1>5
    <2>2. PICK w : w = [id |-> s.byKey[k], key |-> k]
      OBVIOUS
    <2>3. w \in s.byId /\ w.key # x.key
      BY <1>1, <1>5, <2>1, <2>2 DEF Consistent
    <2> QED
      BY <2>1, <2>2, <2>3
  <1>6. Consistent(z)
    BY <1>1, <1>4, <1>5 DEF Consistent
  <1>7. \A k \in Keys \ {x.key} : Waiting(s, k) => Waiting(z, k)
    BY <1>3 DEF Waiting
  <1> QED
    BY <1>6, <1>7 DEF Engines

\* Removing the target of a document keeps the other documents.
LEMMA RemoveTargetFacts ==
    ASSUME NEW s \in Engines, Pumped(s), NEW key \in Keys
    PROVE  LET y == RemoveLimboTarget(s, key)
           IN  /\ y \in Engines /\ y.refs = s.refs /\ Pumped(y)
               /\ \A k \in Keys \ {key} : Waiting(s, k) => Waiting(y, k)
  <1>1. CASE s.byKey[key] = 0
    BY <1>1 DEF RemoveLimboTarget
  <1>2. CASE s.byKey[key] # 0
    <2>1. /\ s.byKey \in [Keys -> Nat] /\ s.byId \subseteq [id : Nat, key : Keys] /\ Consistent(s)
          /\ s.listens \subseteq Nat /\ s.ok = TRUE
      BY EngineFields
    <2>2. s \in EngineRecords
      BY DEF Engines
    <2>3. PICK id \in Nat : id = s.byKey[key]
      BY <2>1
    <2>4. PICK x \in s.byId : x = [id |-> id, key |-> key]
      BY <1>2, <2>1, <2>3 DEF Consistent
    <2>5. x.id = id /\ x.key = key /\ id \in s.listens
      BY <2>1, <2>4 DEF Consistent
    <2>6. PICK ids : ids = {w \in s.byId : w.id # id}
      OBVIOUS
    <2>7. ids = s.byId \ {x}
      BY <2>1, <2>5, <2>6 DEF Consistent
    <2>8. PICK listens : listens = s.listens \ {id}
      OBVIOUS
    <2>9. PICK byKey : byKey = [s.byKey EXCEPT ![key] = 0]
      OBVIOUS
    <2>10. PICK z : z = [s EXCEPT !.ok = TRUE, !.listens = listens, !.byKey = byKey, !.byId = ids]
      OBVIOUS
    <2>11. byKey \in [Keys -> Nat] /\ listens \subseteq Nat /\ ids \subseteq [id : Nat, key : Keys]
      BY <2>1, <2>7, <2>8, <2>9
    <2>12. /\ z \in EngineRecords /\ z.refs = s.refs /\ z.queue = s.queue /\ z.ids = s.ids
           /\ z.ok = TRUE /\ z.listens = listens /\ z.byKey = byKey /\ z.byId = ids
      BY <2>2, <2>10, <2>11 DEF EngineRecords
    <2>13. z \in Engines /\ \A k \in Keys \ {key} : Waiting(s, k) => Waiting(z, k)
      BY <2>5, <2>7, <2>8, <2>9, <2>12, EraseFacts
    <2>14. z = [s EXCEPT !.ok = @ /\ s.byKey[key] \in s.listens,
                         !.listens = @ \ {s.byKey[key]},
                         !.byKey[key] = 0,
                         !.byId = {w \in @ : w.id # s.byKey[key]}]
      BY <2>1, <2>2, <2>3, <2>5, <2>6, <2>8, <2>9, <2>10 DEF EngineRecords
    <2>15. RemoveLimboTarget(s, key) = PumpEnqueuedLimboResolutions(z)
      BY <1>2, <2>14 DEF RemoveLimboTarget
    <2>16. PICK y : y = PumpEnqueuedLimboResolutions(z)
      OBVIOUS
    <2>17. /\ y \in Engines /\ y.refs = z.refs /\ Pumped(y)
           /\ \A k \in Keys : Waiting(z, k) => Waiting(y, k)
      BY <2>13, <2>16, PumpFacts
    <2> QED
      BY <2>12, <2>13, <2>15, <2>16, <2>17
  <1> QED
    BY <1>1, <1>2

-----------------------------------------------------------------------------
(* UpdateTrackedLimboDocuments()                                           *)

\* What a change of the references must keep.
Sound(s, R) == s \in Engines /\ Pumped(s) /\ Tracked(s, R)

\* A document enters limbo.
LEMMA AddFacts ==
    ASSUME NEW R, NEW s, Sound(s, R), NEW key \in Keys, NEW view \in Views
    PROVE  LET y == AddLimboDocument(s, key, view)
           IN  /\ Sound(y, R)
               /\ \A k \in Keys, v \in Views :
                     InRefs(y, k, v) <=> InRefs(s, k, v) \/ (k = key /\ v = view)
  <1>1. PICK refs : refs = s.refs \cup {[key |-> key, view |-> view]}
    OBVIOUS
  <1>2. PICK z : z = [s EXCEPT !.refs = refs]
    OBVIOUS
  <1>3. s \in Engines /\ s \in EngineRecords /\ Consistent(s) /\ Pumped(s) /\ Tracked(s, R)
    BY DEF Sound, Engines
  <1>4. refs \subseteq [key : Keys, view : Views]
    BY <1>1, <1>3 DEF EngineRecords
  <1>5. /\ z \in EngineRecords /\ z.refs = refs /\ z.queue = s.queue /\ z.byKey = s.byKey
        /\ z.byId = s.byId /\ z.listens = s.listens /\ z.ids = s.ids /\ z.ok = s.ok
    BY <1>2, <1>3, <1>4 DEF EngineRecords
  <1>6. z \in Engines /\ Pumped(z) /\ \A k \in Keys : Waiting(z, k) <=> Waiting(s, k)
    <2>1. ActiveKeys(z) = ActiveKeys(s)
      BY <1>5 DEF ActiveKeys
    <2> QED
      BY <1>3, <1>5, <2>1 DEF Consistent, Engines, Pumped, Full, Waiting
  <1>7. PICK y : y = TrackLimboChange(z, key)
    OBVIOUS
  <1>8. /\ y \in Engines /\ y.refs = z.refs /\ Pumped(y) /\ Waiting(y, key)
        /\ \A k \in Keys : Waiting(z, k) => Waiting(y, k)
    BY <1>6, <1>7, TrackFacts
  <1>9. AddLimboDocument(s, key, view) = y
    BY <1>1, <1>2, <1>3, <1>7 DEF AddLimboDocument, EngineRecords
  <1>10. \A k \in Keys, v \in Views : InRefs(y, k, v) <=> InRefs(s, k, v) \/ (k = key /\ v = view)
    BY <1>1, <1>5, <1>8 DEF InRefs
  <1>11. Tracked(y, R)
    BY <1>3, <1>6, <1>8, <1>10 DEF Tracked
  <1> QED
    BY <1>8, <1>9, <1>10, <1>11 DEF Sound

\* Engines that differ in their references only.
LEMMA RefsChanged ==
    ASSUME NEW s, s \in Engines, Pumped(s), NEW refs, refs \subseteq s.refs
    PROVE  LET z == [s EXCEPT !.refs = refs]
           IN  /\ z \in Engines /\ Pumped(z) /\ z.refs = refs
               /\ \A k \in Keys : Waiting(z, k) <=> Waiting(s, k)
  <1>1. PICK z : z = [s EXCEPT !.refs = refs]
    OBVIOUS
  <1>2. s \in EngineRecords /\ Consistent(s) /\ refs \subseteq [key : Keys, view : Views]
    BY EngineFields DEF Engines
  <1>3. /\ z \in EngineRecords /\ z.refs = refs /\ z.queue = s.queue /\ z.byKey = s.byKey
        /\ z.byId = s.byId /\ z.listens = s.listens /\ z.ids = s.ids /\ z.ok = s.ok
    BY <1>1, <1>2 DEF EngineRecords
  <1>4. ActiveKeys(z) = ActiveKeys(s)
    BY <1>3 DEF ActiveKeys
  <1>5. z \in Engines /\ Pumped(z) /\ \A k \in Keys : Waiting(z, k) <=> Waiting(s, k)
    BY <1>2, <1>3, <1>4 DEF Consistent, Engines, Pumped, Full, Waiting
  <1> QED
    BY <1>1, <1>3, <1>5

\* A document to which no view refers need not be resolved.
LEMMA RemoveUnreferenced ==
    ASSUME NEW R, NEW s, Sound(s, R), NEW key \in Keys, \A v \in Views : ~InRefs(s, key, v)
    PROVE  LET y == RemoveLimboTarget(s, key)
           IN  Sound(y, R) /\ y.refs = s.refs
  <1>1. PICK y : y = RemoveLimboTarget(s, key)
    OBVIOUS
  <1>2. /\ y \in Engines /\ y.refs = s.refs /\ Pumped(y)
        /\ \A k \in Keys \ {key} : Waiting(s, k) => Waiting(y, k)
    BY <1>1, RemoveTargetFacts DEF Sound
  <1>3. \A k \in Keys, v \in Views : InRefs(y, k, v) => InRefs(s, k, v) /\ k # key
    BY <1>2 DEF InRefs
  <1>4. Tracked(y, R)
    BY <1>2, <1>3 DEF Tracked, Sound
  <1> QED
    BY <1>1, <1>2, <1>4 DEF Sound

\* limbo_document_refs_.ContainsKey().
LEMMA ContainsKeyFacts ==
    ASSUME NEW s, s \in Engines, NEW key \in Keys
    PROVE  ContainsKey(s, key) <=> \E v \in Views : InRefs(s, key, v)
  <1>1. s.refs \subseteq [key : Keys, view : Views]
    BY EngineFields
  <1>2. ASSUME NEW x \in s.refs, x.key = key PROVE \E v \in Views : InRefs(s, key, v)
    <2>1. x = [key |-> key, view |-> x.view] /\ x.view \in Views
      BY <1>1, <1>2
    <2> QED
      BY <2>1 DEF InRefs
  <1>3. ASSUME NEW v \in Views, InRefs(s, key, v) PROVE ContainsKey(s, key)
    <2>1. PICK x \in s.refs : x = [key |-> key, view |-> v]
      BY <1>3 DEF InRefs
    <2>2. x.key = key
      BY <2>1
    <2> QED
      BY <2>2 DEF ContainsKey
  <1> QED
    BY <1>2, <1>3 DEF ContainsKey

\* A document leaves limbo.
LEMMA RemoveFacts ==
    ASSUME NEW R, NEW s, Sound(s, R), NEW key \in Keys, NEW view \in Views
    PROVE  LET y == RemoveLimboDocument(s, key, view)
           IN  /\ Sound(y, R)
               /\ \A k \in Keys, v \in Views :
                     InRefs(y, k, v) <=> InRefs(s, k, v) /\ ~(k = key /\ v = view)
  <1>1. PICK refs : refs = s.refs \ {[key |-> key, view |-> view]}
    OBVIOUS
  <1>2. PICK z : z = [s EXCEPT !.refs = refs]
    OBVIOUS
  <1>3. s \in Engines /\ Pumped(s) /\ Tracked(s, R) /\ refs \subseteq s.refs
    BY <1>1 DEF Sound
  <1>4. /\ z \in Engines /\ Pumped(z) /\ z.refs = refs
        /\ \A k \in Keys : Waiting(z, k) <=> Waiting(s, k)
    BY <1>2, <1>3, RefsChanged
  <1>5. \A k \in Keys, v \in Views : InRefs(z, k, v) <=> InRefs(s, k, v) /\ ~(k = key /\ v = view)
    BY <1>1, <1>4 DEF InRefs
  <1>6. Sound(z, R)
    BY <1>3, <1>4, <1>5 DEF Sound, Tracked
  <1>7. PICK y : y = RemoveLimboDocument(s, key, view)
    OBVIOUS
  <1>8. y = IF ContainsKey(z, key) THEN z ELSE RemoveLimboTarget(z, key)
    <2>1. z = [s EXCEPT !.refs = @ \ {[key |-> key, view |-> view]}]
      BY <1>1, <1>2
    <2> QED
      BY <1>7, <2>1 DEF RemoveLimboDocument
  <1>9. CASE ContainsKey(z, key)
    BY <1>5, <1>6, <1>7, <1>8, <1>9
  <1>10. CASE ~ContainsKey(z, key)
    <2>1. \A v \in Views : ~InRefs(z, key, v)
      BY <1>4, <1>10, ContainsKeyFacts
    <2>2. y = RemoveLimboTarget(z, key)
      BY <1>8, <1>10
    <2>3. Sound(y, R) /\ y.refs = z.refs
      BY <1>6, <2>1, <2>2, RemoveUnreferenced
    <2>4. \A k \in Keys, v \in Views : InRefs(y, k, v) <=> InRefs(z, k, v)
      BY <2>3 DEF InRefs
    <2> QED
      BY <1>5, <1>7, <2>3, <2>4
  <1> QED
    BY <1>9, <1>10

\* One iteration of the loop over the changes.
Changed(s, i, view, old, new) ==
    IF i \in old \ new THEN RemoveLimboDocument(s, i, view)
    ELSE IF i - NumKeys \in new \ old THEN AddLimboDocument(s, i - NumKeys, view)
    ELSE s

\* Whether view refers to k after i of them.
RefersAfter(s, i, k, view, old, new) ==
    IF k \in old \ new THEN InRefs(s, k, view) /\ i < k
    ELSE IF k \in new \ old THEN InRefs(s, k, view) \/ k + NumKeys <= i
    ELSE InRefs(s, k, view)

\* One change.
LEMMA ChangedFacts ==
    ASSUME NEW R, NEW s, Sound(s, R), NEW view \in Views, NEW old \in SUBSET Keys,
           NEW new \in SUBSET Keys, NEW i \in 1..(2 * NumKeys)
    PROVE  LET y == Changed(s, i, view, old, new)
           IN  /\ Sound(y, R)
               /\ \A k \in Keys, v \in Views : v # view => (InRefs(y, k, v) <=> InRefs(s, k, v))
               /\ \A k \in Keys : InRefs(y, k, view) <=>
                     \/ InRefs(s, k, view) /\ ~(k \in old \ new /\ k = i)
                     \/ k \in new \ old /\ k + NumKeys = i
  <1>1. PICK y : y = Changed(s, i, view, old, new)
    OBVIOUS
  <1>2. NumKeys \in Nat /\ Keys = 1..NumKeys
    BY LimboAssumption DEF Keys
  <1>3. CASE i \in old \ new
    <2>1. i \in Keys /\ y = RemoveLimboDocument(s, i, view)
      BY <1>1, <1>3 DEF Changed
    <2>2. /\ Sound(y, R)
          /\ \A k \in Keys, v \in Views :
                InRefs(y, k, v) <=> InRefs(s, k, v) /\ ~(k = i /\ v = view)
      BY <2>1, RemoveFacts
    <2>3. \A k \in Keys : k + NumKeys # i
      BY <1>2, <2>1
    <2> QED
      BY <1>1, <1>3, <2>2, <2>3
  <1>4. CASE i \notin old \ new /\ i - NumKeys \in new \ old
    <2>1. PICK j \in Keys : j = i - NumKeys /\ j \in new \ old
      BY <1>4
    <2>2. y = AddLimboDocument(s, j, view)
      BY <1>1, <1>4, <2>1 DEF Changed
    <2>3. /\ Sound(y, R)
          /\ \A k \in Keys, v \in Views :
                InRefs(y, k, v) <=> InRefs(s, k, v) \/ (k = j /\ v = view)
      BY <2>2, AddFacts
    <2>4. i \notin Keys /\ \A k \in Keys : k + NumKeys = i <=> k = j
      BY <1>2, <2>1
    <2> QED
      BY <1>1, <2>1, <2>3, <2>4
  <1>5. CASE i \notin old \ new /\ i - NumKeys \notin new \ old
    <2>1. y = s
      BY <1>1, <1>5 DEF Changed
    <2>2. \A k \in Keys : k + NumKeys = i => i - NumKeys = k
      BY <1>2
    <2> QED
      BY <1>1, <1>5, <2>1, <2>2
  <1> QED
    BY <1>3, <1>4, <1>5

\* The loop over the changes makes view refer to the documents of new.
LEMMA UpdateTrackedFacts ==
    ASSUME NEW R, NEW s, Sound(s, R), NEW view \in Views, NEW old \in SUBSET Keys,
           NEW new \in SUBSET Keys, \A k \in Keys : InRefs(s, k, view) <=> k \in old
    PROVE  LET y == UpdateTrackedLimboDocuments(s, view, old, new)
           IN  /\ Sound(y, R)
               /\ \A k \in Keys, v \in Views :
                     InRefs(y, k, v) <=> IF v = view THEN k \in new ELSE InRefs(s, k, v)
  <1>1. NumKeys \in Nat /\ Keys = 1..NumKeys
    BY LimboAssumption DEF Keys
  <1>2. PICK n \in Nat : n = 2 * NumKeys
    BY <1>1
  <1>3. PICK S : S = {z \in Engines : Sound(z, R)}
    OBVIOUS
  <1>4. s \in S /\ \A z \in S : Sound(z, R)
    BY <1>3 DEF Sound
  <1>5. ASSUME NEW z \in S, NEW i \in 1..n
        PROVE  LET y == Changed(z, i, view, old, new)
               IN  /\ y \in S
                   /\ \A k \in Keys, v \in Views : v # view => (InRefs(y, k, v) <=> InRefs(z, k, v))
                   /\ \A k \in Keys : InRefs(y, k, view) <=>
                         \/ InRefs(z, k, view) /\ ~(k \in old \ new /\ k = i)
                         \/ k \in new \ old /\ k + NumKeys = i
    <2>1. PICK y : y = Changed(z, i, view, old, new)
      OBVIOUS
    <2>2. Sound(z, R) /\ i \in 1..(2 * NumKeys)
      BY <1>2, <1>4
    <2>3. /\ Sound(y, R)
          /\ \A k \in Keys, v \in Views : v # view => (InRefs(y, k, v) <=> InRefs(z, k, v))
          /\ \A k \in Keys : InRefs(y, k, view) <=>
                \/ InRefs(z, k, view) /\ ~(k \in old \ new /\ k = i)
                \/ k \in new \ old /\ k + NumKeys = i
      BY <2>1, <2>2, ChangedFacts
    <2>4. y \in S
      BY <1>3, <2>3 DEF Sound
    <2> QED
      BY <2>1, <2>3, <2>4
  <1>6. PICK F : F = [p \in (1..n) \X S |-> Changed(p[2], p[1], view, old, new)]
    OBVIOUS
  <1>7. F \in [(1..n) \X S -> S]
    <2>1. ASSUME NEW p \in (1..n) \X S PROVE Changed(p[2], p[1], view, old, new) \in S
      <3>1. p[1] \in 1..n /\ p[2] \in S
        OBVIOUS
      <3> QED
        BY <1>5, <3>1
    <2> QED
      BY <1>6, <2>1
  <1>8. PICK g : Iterates(g, n, S, s, F)
    BY <1>4, <1>7, IterationExists
  <1>9. g \in [0..n -> S] /\ g[0] = s
    BY <1>8 DEF Iterates
  <1>10. ASSUME NEW i \in 1..n PROVE g[i] = Changed(g[i - 1], i, view, old, new)
    <2>1. g[i] = F[<<i, g[i - 1]>>] /\ i - 1 \in 0..n
      BY <1>8 DEF Iterates
    <2>2. <<i, g[i - 1]>> \in (1..n) \X S
      BY <1>9, <2>1
    <2> QED
      BY <1>6, <2>1, <2>2
  <1>11. g = [i \in 0..n |-> IF i = 0 THEN s ELSE Changed(g[i - 1], i, view, old, new)]
    <2>1. ASSUME NEW i \in 0..n
          PROVE  g[i] = IF i = 0 THEN s ELSE Changed(g[i - 1], i, view, old, new)
      <3>1. i = 0 \/ i \in 1..n
        OBVIOUS
      <3> QED
        BY <1>9, <1>10, <3>1
    <2> QED
      BY <1>9, <2>1
  <1>12. PICK f : f = CHOOSE h : h = [i \in 0..n |-> IF i = 0 THEN s
                                                     ELSE Changed(h[i - 1], i, view, old, new)]
    OBVIOUS
  <1>13. UpdateTrackedLimboDocuments(s, view, old, new) = f[n]
    BY <1>2, <1>12 DEF UpdateTrackedLimboDocuments, Changed
  <1>14. f = [i \in 0..n |-> IF i = 0 THEN s ELSE Changed(f[i - 1], i, view, old, new)]
    BY <1>11, <1>12
  <1>15. ASSUME NEW i \in 1..n PROVE f[i] = Changed(f[i - 1], i, view, old, new)
    BY <1>14
  <1>16. PICK T : T = {i \in 0..n : /\ f[i] \in S
                                    /\ \A k \in Keys, v \in Views :
                                          InRefs(f[i], k, v) <=>
                                            IF v = view THEN RefersAfter(s, i, k, view, old, new)
                                            ELSE InRefs(s, k, v)}
    OBVIOUS
  <1>17. 0 \in T
    <2>1. f[0] = s
      BY <1>14
    <2>2. \A k \in Keys : RefersAfter(s, 0, k, view, old, new) <=> InRefs(s, k, view)
      BY <1>1 DEF RefersAfter
    <2> QED
      BY <1>4, <1>16, <2>1, <2>2
  <1>18. ASSUME NEW i \in 1..n, i - 1 \in T PROVE i \in T
    <2>1. PICK z \in S : z = f[i - 1]
      BY <1>16, <1>18
    <2>2. PICK y : y = f[i]
      OBVIOUS
    <2>3. y = Changed(z, i, view, old, new)
      BY <1>15, <2>1, <2>2
    <2>4. /\ y \in S
          /\ \A k \in Keys, v \in Views : v # view => (InRefs(y, k, v) <=> InRefs(z, k, v))
          /\ \A k \in Keys : InRefs(y, k, view) <=>
                \/ InRefs(z, k, view) /\ ~(k \in old \ new /\ k = i)
                \/ k \in new \ old /\ k + NumKeys = i
      BY <1>5, <2>3
    <2>5. \A k \in Keys, v \in Views :
             InRefs(z, k, v) <=> IF v = view THEN RefersAfter(s, i - 1, k, view, old, new)
                                 ELSE InRefs(s, k, v)
      BY <1>16, <1>18, <2>1
    <2>6. ASSUME NEW k \in Keys
          PROVE  InRefs(y, k, view) <=> RefersAfter(s, i, k, view, old, new)
      <3>1. InRefs(z, k, view) <=> RefersAfter(s, i - 1, k, view, old, new)
        BY <2>5
      <3>2. /\ i - 1 < k <=> i < k \/ k = i
            /\ ~(i < k /\ k = i)
            /\ k + NumKeys <= i <=> k + NumKeys <= i - 1 \/ k + NumKeys = i
        BY <1>1
      <3> QED
        BY <2>4, <3>1, <3>2 DEF RefersAfter
    <2>7. \A k \in Keys, v \in Views :
             InRefs(y, k, v) <=> IF v = view THEN RefersAfter(s, i, k, view, old, new)
                                 ELSE InRefs(s, k, v)
      BY <2>4, <2>5, <2>6
    <2> QED
      BY <1>16, <2>2, <2>4, <2>7
  <1>19. 0..n \subseteq T
    BY <1>17, <1>18, SetInduction
  <1>20. PICK y \in S : y = f[n]
    BY <1>16, <1>19
  <1>21. \A k \in Keys, v \in Views :
            InRefs(y, k, v) <=> IF v = view THEN RefersAfter(s, n, k, view, old, new)
                                ELSE InRefs(s, k, v)
    BY <1>16, <1>19, <1>20
  <1>22. ASSUME NEW k \in Keys PROVE RefersAfter(s, n, k, view, old, new) <=> k \in new
    <2>1. ~(n < k) /\ k + NumKeys <= n
      BY <1>1, <1>2
    <2> QED
      BY <2>1 DEF RefersAfter
  <1> QED
    BY <1>4, <1>13, <1>20, <1>21, <1>22

-----------------------------------------------------------------------------
(* RemoveAndCleanupTarget()                                                *)

\* One iteration of the loop over the documents of a view.
Cleaned(s, i, keys) ==
    IF i \in keys /\ ~ContainsKey(s, i) THEN RemoveLimboTarget(s, i) ELSE s

\* It removes the target of a document without references.
LEMMA CleanedFacts ==
    ASSUME NEW R, NEW s, Sound(s, R), NEW keys \in SUBSET Keys, NEW i
    PROVE  LET y == Cleaned(s, i, keys)
           IN  Sound(y, R) /\ y.refs = s.refs
  <1>1. CASE i \in keys /\ ~ContainsKey(s, i)
    <2>1. i \in Keys /\ s \in Engines
      BY <1>1 DEF Sound
    <2>2. \A v \in Views : ~InRefs(s, i, v)
      BY <1>1, <2>1, ContainsKeyFacts
    <2>3. PICK y : y = RemoveLimboTarget(s, i)
      OBVIOUS
    <2>4. Sound(y, R) /\ y.refs = s.refs
      BY <2>1, <2>2, <2>3, RemoveUnreferenced
    <2>5. Cleaned(s, i, keys) = y
      BY <1>1, <2>3 DEF Cleaned
    <2> QED
      BY <2>4, <2>5
  <1>2. CASE ~(i \in keys /\ ~ContainsKey(s, i))
    <2>1. Cleaned(s, i, keys) = s
      BY <1>2 DEF Cleaned
    <2> QED
      BY <2>1
  <1> QED
    BY <1>1, <1>2

\* A view that is closed refers to nothing any more.
LEMMA CleanupFacts ==
    ASSUME NEW R, NEW s, Sound(s, R), NEW view \in Views
    PROVE  LET y == RemoveAndCleanupTarget(s, view)
           IN  /\ Sound(y, R)
               /\ \A k \in Keys, v \in Views : InRefs(y, k, v) <=> InRefs(s, k, v) /\ v # view
  <1>1. PICK n \in Nat : n = NumKeys
    BY LimboAssumption
  <1>2. PICK keys \in SUBSET Keys : keys = ReferencedKeys(s, view)
    BY DEF ReferencedKeys
  <1>3. PICK refs : refs = {x \in s.refs : x.view # view}
    OBVIOUS
  <1>4. PICK s0 : s0 = [s EXCEPT !.refs = refs]
    OBVIOUS
  <1>5. s \in Engines /\ Pumped(s) /\ Tracked(s, R) /\ refs \subseteq s.refs
    BY <1>3 DEF Sound
  <1>6. /\ s0 \in Engines /\ Pumped(s0) /\ s0.refs = refs
        /\ \A k \in Keys : Waiting(s0, k) <=> Waiting(s, k)
    BY <1>4, <1>5, RefsChanged
  <1>7. \A k \in Keys, v \in Views : InRefs(s0, k, v) <=> InRefs(s, k, v) /\ v # view
    BY <1>3, <1>6 DEF InRefs
  <1>8. Sound(s0, R)
    BY <1>5, <1>6, <1>7 DEF Sound, Tracked
  <1>9. PICK S : S = {z \in Engines : Sound(z, R)}
    OBVIOUS
  <1>10. s0 \in S /\ \A z \in S : Sound(z, R)
    BY <1>6, <1>8, <1>9
  <1>11. ASSUME NEW z \in S, NEW i
         PROVE  Cleaned(z, i, keys) \in S /\ Cleaned(z, i, keys).refs = z.refs
    <2>1. PICK y : y = Cleaned(z, i, keys)
      OBVIOUS
    <2>2. Sound(y, R) /\ y.refs = z.refs
      BY <1>10, <2>1, CleanedFacts
    <2>3. y \in S
      BY <1>9, <2>2 DEF Sound
    <2> QED
      BY <2>1, <2>2, <2>3
  <1>12. PICK F : F = [p \in (1..n) \X S |-> Cleaned(p[2], p[1], keys)]
    OBVIOUS
  <1>13. F \in [(1..n) \X S -> S]
    <2>1. ASSUME NEW p \in (1..n) \X S PROVE Cleaned(p[2], p[1], keys) \in S
      <3>1. p[2] \in S
        OBVIOUS
      <3> QED
        BY <1>11, <3>1
    <2> QED
      BY <1>12, <2>1
  <1>14. PICK g : Iterates(g, n, S, s0, F)
    BY <1>10, <1>13, IterationExists
  <1>15. g \in [0..n -> S] /\ g[0] = s0
    BY <1>14 DEF Iterates
  <1>16. ASSUME NEW i \in 1..n PROVE g[i] = Cleaned(g[i - 1], i, keys)
    <2>1. g[i] = F[<<i, g[i - 1]>>] /\ i - 1 \in 0..n
      BY <1>14 DEF Iterates
    <2>2. <<i, g[i - 1]>> \in (1..n) \X S
      BY <1>15, <2>1
    <2> QED
      BY <1>12, <2>1, <2>2
  <1>17. g = [i \in 0..n |-> IF i = 0 THEN s0 ELSE Cleaned(g[i - 1], i, keys)]
    <2>1. ASSUME NEW i \in 0..n PROVE g[i] = IF i = 0 THEN s0 ELSE Cleaned(g[i - 1], i, keys)
      <3>1. i = 0 \/ i \in 1..n
        OBVIOUS
      <3> QED
        BY <1>15, <1>16, <3>1
    <2> QED
      BY <1>15, <2>1
  <1>18. PICK f : f = CHOOSE h : h = [i \in 0..n |-> IF i = 0 THEN s0
                                                     ELSE Cleaned(h[i - 1], i, keys)]
    OBVIOUS
  <1>19. RemoveAndCleanupTarget(s, view) = f[n]
    <2>1. s0 = [s EXCEPT !.refs = {x \in @ : x.view # view}]
      BY <1>3, <1>4
    <2> QED
      BY <1>1, <1>2, <1>18, <2>1 DEF RemoveAndCleanupTarget, Cleaned
  <1>20. f = [i \in 0..n |-> IF i = 0 THEN s0 ELSE Cleaned(f[i - 1], i, keys)]
    BY <1>17, <1>18
  <1>21. PICK T : T = {i \in 0..n : f[i] \in S /\ f[i].refs = refs}
    OBVIOUS
  <1>22. 0 \in T
    BY <1>6, <1>10, <1>20, <1>21
  <1>23. ASSUME NEW i \in 1..n, i - 1 \in T PROVE i \in T
    <2>1. PICK z \in S : z = f[i - 1] /\ z.refs = refs
      BY <1>21, <1>23
    <2>2. f[i] = Cleaned(z, i, keys)
      BY <1>20, <2>1
    <2>3. f[i] \in S /\ f[i].refs = refs
      BY <1>11, <2>1, <2>2
    <2> QED
      BY <1>21, <2>3
  <1>24. 0..n \subseteq T
    BY <1>22, <1>23, SetInduction
  <1>25. PICK y \in S : y = f[n] /\ y.refs = refs
    BY <1>21, <1>24
  <1>26. \A k \in Keys, v \in Views : InRefs(y, k, v) <=> InRefs(s, k, v) /\ v # view
    BY <1>6, <1>7, <1>25 DEF InRefs
  <1> QED
    BY <1>10, <1>19, <1>25, <1>26

-----------------------------------------------------------------------------
(* The actions                                                             *)

\* SyncEngine::Listen().
LEMMA ListenInv ==
    ASSUME LimboInv, NEW view \in Views, Listen(view)
    PROVE  LimboInv'
  BY DEF LimboInv, Listen, Pumped, Full, ActiveKeys, Tracked, InRefs, Waiting

\* What is no longer in limbo anywhere is not remembered as rejected.
LEMMA RejectedShrinks ==
    ASSUME NEW s, NEW R, Sound(s, R), NEW refers \in [Views -> SUBSET Keys],
           \A k \in Keys, v \in Views : InRefs(s, k, v) <=> k \in refers[v],
           NEW Q, Q = {k \in R : \E v \in Views : k \in refers[v]}
    PROVE  Tracked(s, Q)
  BY DEF Sound, Tracked

\* SyncEngine::StopListening() and HandleRejectedListen() of a query.
LEMMA StopListeningInv ==
    ASSUME LimboInv, NEW view \in Views, StopListening(view)
    PROVE  LimboInv'
  <1>1. Sound(e, rejected)
    BY DEF LimboInv, Sound
  <1>2. PICK y : y = RemoveAndCleanupTarget(e, view)
    OBVIOUS
  <1>3. /\ Sound(y, rejected)
        /\ \A k \in Keys, v \in Views : InRefs(y, k, v) <=> InRefs(e, k, v) /\ v # view
    BY <1>1, <1>2, CleanupFacts
  <1>4. PICK after \in [Views -> SUBSET Keys] : after = [limbo EXCEPT ![view] = {}]
    BY DEF LimboInv
  <1>5. PICK Q : Q = {k \in rejected : \E v \in Views : k \in after[v]}
    OBVIOUS
  <1>6. e' = y /\ limbo' = after /\ rejected' = Q /\ open' = open \ {view}
    BY <1>2, <1>4, <1>5 DEF StopListening
  <1>7. after[view] = {} /\ \A v \in Views : v # view => after[v] = limbo[v]
    BY <1>4 DEF LimboInv
  <1>8. \A k \in Keys, v \in Views : InRefs(y, k, v) <=> k \in after[v]
    BY <1>3, <1>7 DEF LimboInv
  <1>9. Tracked(y, Q)
    BY <1>3, <1>5, <1>8, RejectedShrinks
  <1>10. /\ y \in Engines /\ Pumped(y) /\ Q \subseteq Keys /\ open \ {view} \subseteq Views
         /\ \A v \in Views : v \notin open \ {view} => after[v] = {}
    BY <1>3, <1>5, <1>7 DEF LimboInv, Sound
  <1> QED
    BY <1>4, <1>6, <1>8, <1>9, <1>10 DEF LimboInv, Pumped, Full, ActiveKeys, Tracked, InRefs, Waiting

\* UpdateTrackedLimboDocuments() after a new snapshot of a view.
LEMMA UpdateLimboDocumentsInv ==
    ASSUME LimboInv, NEW view \in Views, NEW new \in SUBSET Keys, UpdateLimboDocuments(view, new)
    PROVE  LimboInv'
  <1>1. Sound(e, rejected)
    BY DEF LimboInv, Sound
  <1>2. PICK old \in SUBSET Keys : old = limbo[view]
    BY DEF LimboInv
  <1>3. PICK y : y = UpdateTrackedLimboDocuments(e, view, old, new)
    OBVIOUS
  <1>4. \A k \in Keys : InRefs(e, k, view) <=> k \in old
    BY <1>2 DEF LimboInv
  <1>5. /\ Sound(y, rejected)
        /\ \A k \in Keys, v \in Views :
              InRefs(y, k, v) <=> IF v = view THEN k \in new ELSE InRefs(e, k, v)
    BY <1>1, <1>3, <1>4, UpdateTrackedFacts
  <1>6. PICK after \in [Views -> SUBSET Keys] : after = [limbo EXCEPT ![view] = new]
    BY DEF LimboInv
  <1>7. PICK Q : Q = {k \in rejected : \E v \in Views : k \in after[v]}
    OBVIOUS
  <1>8. e' = y /\ limbo' = after /\ rejected' = Q /\ open' = open /\ view \in open
    BY <1>2, <1>3, <1>6, <1>7 DEF UpdateLimboDocuments
  <1>9. after[view] = new /\ \A v \in Views : v # view => after[v] = limbo[v]
    BY <1>6 DEF LimboInv
  <1>10. \A k \in Keys, v \in Views : InRefs(y, k, v) <=> k \in after[v]
    BY <1>5, <1>9 DEF LimboInv
  <1>11. Tracked(y, Q)
    BY <1>5, <1>7, <1>10, RejectedShrinks
  <1>12. /\ y \in Engines /\ Pumped(y) /\ Q \subseteq Keys /\ open \subseteq Views
         /\ \A v \in Views : v \notin open => after[v] = {}
    BY <1>5, <1>7, <1>8, <1>9 DEF LimboInv, Sound
  <1> QED
    BY <1>6, <1>8, <1>10, <1>11, <1>12 DEF LimboInv, Pumped, Full, ActiveKeys, Tracked, InRefs, Waiting

\* One iteration of the loop over the views of a rejected document.
Dropped(s, v, key, current, docs) ==
    IF v \in current THEN UpdateTrackedLimboDocuments(s, v, docs[v], docs[v] \ {key}) ELSE s

\* One view drops it.
LEMMA DroppedFacts ==
    ASSUME NEW R, NEW s, Sound(s, R), NEW w \in Views, NEW key, NEW current,
           NEW docs \in [Views -> SUBSET Keys],
           \A k \in Keys : InRefs(s, k, w) <=> k \in docs[w]
    PROVE  LET y == Dropped(s, w, key, current, docs)
           IN  /\ Sound(y, R)
               /\ \A k \in Keys, v \in Views :
                     InRefs(y, k, v) <=> InRefs(s, k, v) /\ ~(v = w /\ w \in current /\ k = key)
  <1>1. PICK old \in SUBSET Keys : old = docs[w]
    OBVIOUS
  <1>2. PICK new \in SUBSET Keys : new = old \ {key}
    OBVIOUS
  <1>3. PICK y : y = Dropped(s, w, key, current, docs)
    OBVIOUS
  <1>4. CASE w \in current
    <2>1. y = UpdateTrackedLimboDocuments(s, w, old, new)
      BY <1>1, <1>2, <1>3, <1>4 DEF Dropped
    <2>2. /\ Sound(y, R)
          /\ \A k \in Keys, v \in Views :
                InRefs(y, k, v) <=> IF v = w THEN k \in new ELSE InRefs(s, k, v)
      BY <1>1, <2>1, UpdateTrackedFacts
    <2> QED
      BY <1>1, <1>2, <1>3, <1>4, <2>2
  <1>5. CASE w \notin current
    <2>1. y = s
      BY <1>3, <1>5 DEF Dropped
    <2> QED
      BY <1>3, <1>5, <2>1
  <1> QED
    BY <1>4, <1>5

\* f has SyncEngine's record after each iteration.
IsDrop(f, s, key, current, docs) ==
    f = [v \in 0..NumViews |-> IF v = 0 THEN s ELSE Dropped(f[v - 1], v, key, current, docs)]

\* The loop over the views: the current ones drop the document.
LEMMA DropFacts ==
    ASSUME NEW R, NEW s, Sound(s, R), NEW key, NEW current \in SUBSET Views,
           NEW docs \in [Views -> SUBSET Keys],
           \A k \in Keys, v \in Views : InRefs(s, k, v) <=> k \in docs[v]
    PROVE  /\ \E f : IsDrop(f, s, key, current, docs)
           /\ \A h : IsDrop(h, s, key, current, docs) =>
                /\ Sound(h[NumViews], R)
                /\ \A k \in Keys, v \in Views :
                      InRefs(h[NumViews], k, v) <=> k \in docs[v] /\ ~(v \in current /\ k = key)
  <1>1. PICK n \in Nat : n = NumViews /\ Views = 1..n
    BY LimboAssumption DEF Views
  <1>2. PICK S : S = {z \in Engines : Sound(z, R)}
    OBVIOUS
  <1>3. s \in S /\ \A z \in S : Sound(z, R)
    BY <1>2 DEF Sound
  <1>4. PICK F : F = [p \in (1..n) \X S |->
                        IF \A k \in Keys : InRefs(p[2], k, p[1]) <=> k \in docs[p[1]]
                        THEN Dropped(p[2], p[1], key, current, docs) ELSE s]
    OBVIOUS
  <1>5. F \in [(1..n) \X S -> S]
    <2>1. ASSUME NEW w \in 1..n, NEW z \in S,
                 \A k \in Keys : InRefs(z, k, w) <=> k \in docs[w]
          PROVE  Dropped(z, w, key, current, docs) \in S
      <3>1. PICK y : y = Dropped(z, w, key, current, docs)
        OBVIOUS
      <3>2. Sound(y, R)
        BY <1>1, <1>3, <2>1, <3>1, DroppedFacts
      <3> QED
        BY <1>2, <3>1, <3>2 DEF Sound
    <2>2. ASSUME NEW p \in (1..n) \X S
          PROVE  (IF \A k \in Keys : InRefs(p[2], k, p[1]) <=> k \in docs[p[1]]
                  THEN Dropped(p[2], p[1], key, current, docs) ELSE s) \in S
      <3>1. PICK w \in 1..n : w = p[1]
        OBVIOUS
      <3>2. PICK z \in S : z = p[2]
        OBVIOUS
      <3> QED
        BY <1>3, <2>1, <3>1, <3>2
    <2> QED
      BY <1>4, <2>2
  <1>6. PICK g : Iterates(g, n, S, s, F)
    BY <1>3, <1>5, IterationExists
  <1>7. g \in [0..n -> S] /\ g[0] = s
    BY <1>6 DEF Iterates
  <1>8. ASSUME NEW i \in 1..n
        PROVE  /\ i - 1 \in 0..n /\ g[i - 1] \in S
               /\ (\A k \in Keys : InRefs(g[i - 1], k, i) <=> k \in docs[i]) =>
                     g[i] = Dropped(g[i - 1], i, key, current, docs)
    <2>1. g[i] = F[<<i, g[i - 1]>>] /\ i - 1 \in 0..n
      BY <1>6 DEF Iterates
    <2>2. <<i, g[i - 1]>> \in (1..n) \X S
      BY <1>7, <2>1
    <2> QED
      BY <1>4, <1>7, <2>1, <2>2
  <1> DEFINE Holding(z, i) == \A k \in Keys, v \in Views :
                InRefs(z, k, v) <=> k \in docs[v] /\ ~(v \in current /\ v <= i /\ k = key)
  <1>9. ASSUME NEW i \in 1..n, NEW z \in S, Holding(z, i - 1)
        PROVE  /\ \A k \in Keys : InRefs(z, k, i) <=> k \in docs[i]
               /\ Sound(Dropped(z, i, key, current, docs), R)
               /\ Holding(Dropped(z, i, key, current, docs), i)
    <2>1. \A v \in Views : (v <= i - 1 \/ v = i <=> v <= i) /\ (v <= i - 1 => v # i)
      BY <1>1
    <2>2. i \in Views /\ ~(i <= i - 1)
      BY <1>1
    <2>3. \A k \in Keys : InRefs(z, k, i) <=> k \in docs[i]
      BY <1>9, <2>2
    <2>4. PICK y : y = Dropped(z, i, key, current, docs)
      OBVIOUS
    <2>5. /\ Sound(y, R)
          /\ \A k \in Keys, v \in Views :
                InRefs(y, k, v) <=> InRefs(z, k, v) /\ ~(v = i /\ i \in current /\ k = key)
      BY <1>3, <2>2, <2>3, <2>4, DroppedFacts
    <2>6. Holding(y, i)
      BY <1>9, <2>1, <2>5
    <2> QED
      BY <2>3, <2>4, <2>5, <2>6
  <1>10. Holding(s, 0)
    BY <1>1
  <1> HIDE DEF Holding
  <1>11. ASSUME NEW h, h[0] = s,
                \A i \in 1..n : Holding(h[i - 1], i - 1) /\ h[i - 1] \in S =>
                                  h[i] = Dropped(h[i - 1], i, key, current, docs)
         PROVE  \A i \in 0..n : h[i] \in S /\ Holding(h[i], i)
    <2>1. PICK T : T = {i \in 0..n : h[i] \in S /\ Holding(h[i], i)}
      OBVIOUS
    <2>2. 0 \in T
      BY <1>3, <1>10, <1>11, <2>1
    <2>3. ASSUME NEW i \in 1..n, i - 1 \in T PROVE i \in T
      <3>1. PICK z \in S : z = h[i - 1] /\ Holding(z, i - 1)
        BY <2>1, <2>3
      <3>2. PICK y : y = Dropped(z, i, key, current, docs)
        OBVIOUS
      <3>3. h[i] = y
        BY <1>11, <3>1, <3>2
      <3>4. Sound(y, R) /\ Holding(y, i)
        BY <1>9, <3>1, <3>2
      <3>5. y \in S
        BY <1>2, <3>4 DEF Sound
      <3> QED
        BY <2>1, <3>3, <3>4, <3>5
    <2>4. 0..n \subseteq T
      BY <2>2, <2>3, SetInduction
    <2> QED
      BY <2>1, <2>4
  <1>12. \A i \in 0..n : g[i] \in S /\ Holding(g[i], i)
    <2>1. \A i \in 1..n : Holding(g[i - 1], i - 1) /\ g[i - 1] \in S =>
                            g[i] = Dropped(g[i - 1], i, key, current, docs)
      BY <1>8, <1>9
    <2> QED
      BY <1>7, <1>11, <2>1
  <1>13. g = [v \in 0..n |-> IF v = 0 THEN s ELSE Dropped(g[v - 1], v, key, current, docs)]
    <2>1. ASSUME NEW i \in 0..n
          PROVE  g[i] = IF i = 0 THEN s ELSE Dropped(g[i - 1], i, key, current, docs)
      <3>1. CASE i = 0
        BY <1>7, <3>1
      <3>2. CASE i \in 1..n
        <4>1. i - 1 \in 0..n /\ g[i - 1] \in S /\ Holding(g[i - 1], i - 1)
          BY <1>12, <3>2
        <4>2. g[i] = Dropped(g[i - 1], i, key, current, docs)
          BY <1>8, <1>9, <3>2, <4>1
        <4> QED
          BY <3>2, <4>2
      <3> QED
        BY <3>1, <3>2
    <2> QED
      BY <1>7, <2>1
  <1>14. ASSUME NEW h, h = [v \in 0..n |-> IF v = 0 THEN s
                                           ELSE Dropped(h[v - 1], v, key, current, docs)]
         PROVE  /\ Sound(h[n], R)
                /\ \A k \in Keys, v \in Views :
                      InRefs(h[n], k, v) <=> k \in docs[v] /\ ~(v \in current /\ k = key)
    <2>1. h[0] = s /\ \A i \in 1..n : h[i] = Dropped(h[i - 1], i, key, current, docs)
      BY <1>14
    <2>2. h[n] \in S /\ Holding(h[n], n)
      BY <1>11, <2>1
    <2>3. \A v \in Views : v <= n
      BY <1>1
    <2> QED
      BY <1>3, <2>2, <2>3 DEF Holding
  <1> QED
    BY <1>1, <1>13, <1>14 DEF IsDrop

\* HandleRejectedListen() of a limbo target.
LEMMA HandleRejectedInv ==
    ASSUME LimboInv, NEW x \in e.byId, NEW current \in SUBSET open,
           HandleRejectedLimboTarget(x, current)
    PROVE  LimboInv'
  <1>1. /\ e \in Engines /\ e \in EngineRecords /\ Consistent(e) /\ e.ok = TRUE
        /\ e.byKey \in [Keys -> Nat] /\ e.byId \subseteq [id : Nat, key : Keys]
        /\ e.listens \subseteq Nat
    BY EngineFields DEF LimboInv, Engines
  <1>2. PICK key \in Keys : key = x.key
    BY <1>1
  <1>3. PICK listens : listens = e.listens \ {x.id}
    OBVIOUS
  <1>4. PICK byKey : byKey = [e.byKey EXCEPT ![key] = 0]
    OBVIOUS
  <1>5. PICK ids : ids = e.byId \ {x}
    OBVIOUS
  <1>6. PICK z : z = [e EXCEPT !.listens = listens, !.byKey = byKey, !.byId = ids]
    OBVIOUS
  <1>7. byKey \in [Keys -> Nat] /\ listens \subseteq Nat /\ ids \subseteq [id : Nat, key : Keys]
    BY <1>1, <1>3, <1>4, <1>5
  <1>8. /\ z \in EngineRecords /\ z.refs = e.refs /\ z.queue = e.queue /\ z.ids = e.ids
        /\ z.ok = TRUE /\ z.listens = listens /\ z.byKey = byKey /\ z.byId = ids
    BY <1>1, <1>6, <1>7 DEF EngineRecords
  <1>9. z \in Engines /\ \A k \in Keys \ {key} : Waiting(e, k) => Waiting(z, k)
    BY <1>1, <1>2, <1>3, <1>4, <1>5, <1>8, EraseFacts
  <1>10. PICK erased : erased = PumpEnqueuedLimboResolutions(z)
    OBVIOUS
  <1>11. /\ erased \in Engines /\ erased.refs = e.refs /\ Pumped(erased)
         /\ \A k \in Keys \ {key} : Waiting(e, k) => Waiting(erased, k)
    <2>1. /\ erased \in Engines /\ erased.refs = z.refs /\ Pumped(erased)
          /\ \A k \in Keys : Waiting(z, k) => Waiting(erased, k)
      BY <1>9, <1>10, PumpFacts
    <2> QED
      BY <1>8, <1>9, <2>1
  <1>12. PICK R : R = rejected \cup {key}
    OBVIOUS
  <1>13. \A k \in Keys, v \in Views : /\ InRefs(erased, k, v) <=> InRefs(e, k, v)
                                      /\ InRefs(e, k, v) <=> k \in limbo[v]
    BY <1>11 DEF InRefs, LimboInv
  <1>14. Sound(erased, R)
    BY <1>11, <1>12, <1>13 DEF Sound, Tracked, LimboInv
  <1>15. current \in SUBSET Views /\ limbo \in [Views -> SUBSET Keys] /\ open \subseteq Views
    BY DEF LimboInv
  <1>16. PICK docs \in [Views -> SUBSET Keys] : docs = limbo
    BY <1>15
  <1>17. PICK f : f = CHOOSE h : h = [v \in 0..NumViews |->
                                        IF v = 0 THEN erased
                                        ELSE Dropped(h[v - 1], v, key, current, docs)]
    OBVIOUS
  <1>18. /\ Sound(f[NumViews], R)
         /\ \A k \in Keys, v \in Views :
               InRefs(f[NumViews], k, v) <=> k \in docs[v] /\ ~(v \in current /\ k = key)
    <2>1. \A k \in Keys, v \in Views : InRefs(erased, k, v) <=> k \in docs[v]
      BY <1>13, <1>16
    <2>2. /\ \E h : IsDrop(h, erased, key, current, docs)
          /\ IsDrop(f, erased, key, current, docs) =>
                /\ Sound(f[NumViews], R)
                /\ \A k \in Keys, v \in Views :
                      InRefs(f[NumViews], k, v) <=> k \in docs[v] /\ ~(v \in current /\ k = key)
      BY <1>14, <1>15, <2>1, DropFacts
    <2>3. IsDrop(f, erased, key, current, docs)
      BY <1>17, <2>2 DEF IsDrop
    <2> QED
      BY <2>2, <2>3
  <1>19. PICK y : y = f[NumViews]
    OBVIOUS
  <1>20. e' = y
    <2>1. z = [e EXCEPT !.listens = @ \ {x.id}, !.byKey[x.key] = 0, !.byId = @ \ {x}]
      BY <1>1, <1>2, <1>3, <1>4, <1>5, <1>6 DEF EngineRecords
    <2> QED
      BY <1>2, <1>10, <1>16, <1>17, <1>19, <2>1 DEF HandleRejectedLimboTarget, Dropped
  <1>21. PICK after : after = [v \in Views |-> IF v \in current THEN limbo[v] \ {key} ELSE limbo[v]]
    OBVIOUS
  <1>22. after \in [Views -> SUBSET Keys]
         /\ \A k \in Keys, v \in Views : k \in after[v] <=> k \in limbo[v] /\ ~(v \in current /\ k = key)
    BY <1>15, <1>21
  <1>23. limbo' = after /\ open' = open
         /\ rejected' = IF \E v \in open : key \in after[v] THEN R ELSE rejected \ {key}
    BY <1>2, <1>12, <1>21 DEF HandleRejectedLimboTarget
  <1>24. \A k \in Keys, v \in Views : InRefs(y, k, v) <=> k \in after[v]
    BY <1>16, <1>18, <1>19, <1>22
  <1>25. \A v \in Views : v \notin open => after[v] = {}
    BY <1>15, <1>22 DEF LimboInv
  <1>26. rejected' \subseteq Keys /\ Tracked(y, rejected')
    <2>1. Sound(y, R) /\ rejected \subseteq Keys
      BY <1>18, <1>19 DEF LimboInv
    <2>2. CASE \E v \in open : key \in after[v]
      BY <1>12, <1>23, <2>1, <2>2 DEF Sound
    <2>3. CASE ~\E v \in open : key \in after[v]
      <3>1. rejected' = rejected \ {key} /\ \A v \in Views : key \notin after[v]
        BY <1>23, <1>25, <2>3
      <3>2. \A k \in Keys, v \in Views : InRefs(y, k, v) => k # key
        BY <1>24, <3>1
      <3> QED
        BY <1>12, <2>1, <3>1, <3>2 DEF Sound, Tracked
    <2> QED
      BY <2>2, <2>3
  <1>27. y \in Engines /\ Pumped(y)
    BY <1>18, <1>19 DEF Sound
  <1> QED
    BY <1>15, <1>20, <1>22, <1>23, <1>24, <1>25, <1>26, <1>27
       DEF LimboInv, Pumped, Full, ActiveKeys, Tracked, InRefs, Waiting

-----------------------------------------------------------------------------
(* The theorems                                                            *)

\* Nothing is in limbo.
LEMMA LimboInit ==
    ASSUME Init
    PROVE  LimboInv
  <1>1. PICK s : s = [refs |-> {}, queue |-> <<>>, byKey |-> [k \in Keys |-> 0],
                      byId |-> {}, listens |-> {}, ids |-> 0, ok |-> TRUE]
    OBVIOUS
  <1>2. /\ s.refs = {} /\ s.queue = <<>> /\ s.byKey = [k \in Keys |-> 0] /\ s.byId = {}
        /\ s.listens = {} /\ s.ids = 0 /\ s.ok = TRUE /\ s \in EngineRecords
    BY <1>1 DEF EngineRecords
  <1>3. s \in Engines /\ Pumped(s) /\ \A k, v : ~InRefs(s, k, v)
    BY <1>2 DEF Engines, Consistent, Pumped, InRefs
  <1>4. e = s /\ open = {} /\ limbo = [v \in Views |-> {}] /\ rejected = {}
    BY <1>1 DEF Init
  <1> QED
    BY <1>3, <1>4 DEF LimboInv, Tracked

\* Every step preserves the invariant.
LEMMA LimboNext ==
    ASSUME LimboInv, [Next]_vars
    PROVE  LimboInv'
  <1>1. CASE UNCHANGED vars
    BY <1>1 DEF vars, LimboInv, Pumped, Full, ActiveKeys, Tracked, InRefs, Waiting
  <1>2. CASE Next
    BY <1>2, ListenInv, StopListeningInv, UpdateLimboDocumentsInv, HandleRejectedInv DEF Next
  <1> QED
    BY <1>1, <1>2

\* The invariant of limbo resolution.
LEMMA LimboInvariant == Spec => []LimboInv
  <1>1. Init => LimboInv
    BY LimboInit
  <1>2. LimboInv /\ [Next]_vars => LimboInv'
    BY LimboNext
  <1> QED
    BY <1>1, <1>2, PTL DEF Spec

\* The variables keep their types.
THEOREM LimboTypes == Spec => []LimboTypeOK
  <1>1. LimboInv => LimboTypeOK
    BY LimboConsequences
  <1> QED
    BY <1>1, LimboInvariant, PTL

\* RemoteStore listens to exactly the targets in SyncEngine's maps, whatever
\* documents enter and leave limbo and whatever targets are rejected.
THEOREM ListensAreKnown == Spec => []LimboTargetsMatchListens
  <1>1. LimboInv => LimboTargetsMatchListens
    BY LimboConsequences
  <1> QED
    BY <1>1, LimboInvariant, PTL

\* Every document in limbo is being resolved or waits for it
\* (UpdateTrackedLimboDocuments()), unless its resolution was rejected while the
\* view was not current.
THEOREM LimboIsRemembered == Spec => []NoLimboDocumentForgotten
  <1>1. LimboInv => NoLimboDocumentForgotten
    BY LimboConsequences
  <1> QED
    BY <1>1, LimboInvariant, PTL

\* A document waits only while the limit is reached
\* (PumpEnqueuedLimboResolutions()).
THEOREM NoNeedlessWait == Spec => []QueueMeansFull
  <1>1. LimboInv => QueueMeansFull
    BY LimboConsequences
  <1> QED
    BY <1>1, LimboInvariant, PTL
=============================================================================
