------------------------ MODULE WatchPipelineProofs ------------------------
(***************************************************************************)
(* Proofs about WatchPipeline, for every number of targets and documents   *)
(* and every bound.                                                        *)
(***************************************************************************)
EXTENDS WatchPipeline, SequenceFacts, FiniteSetTheorems, FunctionTheorems

-----------------------------------------------------------------------------
(* The invariant of the stream and of the online state                     *)

\* A connection that is not open carries nothing, and the aggregator has not
\* seen anything.
Quiet(s) ==
    /\ s.up = <<>> /\ s.down = <<>> /\ s.srv = NothingWatched /\ s.read = 0
    /\ s.agg = NewAggregator

\* Timers and callbacks belong to the state that the stream is in.
StreamInv(s) ==
    /\ s.backoff <=> s.state = "Backoff"
    /\ s.closes \in s.auth <=> s.state = "Starting"
    /\ \A c \in s.auth : c <= s.closes
    /\ IsStarted(s) => s.net
    /\ s.idle => IsOpen(s) /\ s.on = {}
    /\ s.exists <=> IsStarted(s)
    /\ ~IsOpen(s) => Quiet(s)

\* The tracker waits only for a stream that is on its way, and counts failures
\* only while it is not online.
TrackerInv(s) ==
    /\ s.timer => s.online = "Unknown" /\ IsStarted(s) /\ s.failures = 0
    /\ s.online = "Online" => IsOpen(s) /\ s.failures = 0

\* What every method of RemoteStore preserves.
Core(s) == s \in ClientType /\ s.ok /\ StreamInv(s) /\ TrackerInv(s)

\* What RemoteStore and SyncEngine know about targets is the same.
SameQueries(s, q) ==
    /\ s.views = q.views /\ s.data = q.data /\ s.on = q.on /\ s.tokens = q.tokens

\* The connection is the same.
SameWire(s, q) ==
    /\ s.state = q.state /\ s.agg = q.agg
    /\ s.up = q.up /\ s.down = q.down /\ s.srv = q.srv /\ s.read = q.read

\* Everything but the online state is the same.
SameStream(s, q) ==
    /\ SameQueries(s, q) /\ SameWire(s, q)
    /\ s.net = q.net /\ s.exists = q.exists /\ s.idle = q.idle /\ s.backoff = q.backoff
    /\ s.closes = q.closes /\ s.auth = q.auth /\ s.ok = q.ok

\* The fields of the client's memory.
LEMMA ClientFields ==
    ASSUME NEW s \in ClientType
    PROVE  /\ s.net \in BOOLEAN /\ s.views \in SUBSET Targets /\ s.data \in [Targets -> Nat]
           /\ s.current \in [Targets -> BOOLEAN] /\ s.on \in SUBSET Targets
           /\ s.tokens \in [Targets -> Nat] /\ s.exists \in BOOLEAN
           /\ s.agg \in [states : [Targets -> TargetState], resets : SUBSET Targets]
           /\ s.online \in OnlineStates /\ s.failures \in Nat /\ s.timer \in BOOLEAN
           /\ s.state \in StreamStates /\ s.idle \in BOOLEAN /\ s.backoff \in BOOLEAN
           /\ s.closes \in Nat /\ s.auth \in SUBSET Nat /\ s.up \in Seq(Request)
           /\ s.down \in Seq(Response)
           /\ s.srv \in [Targets -> [on : BOOLEAN, at : Nat, cur : BOOLEAN]]
           /\ s.read \in Nat /\ s.ok \in BOOLEAN
  BY DEF ClientType

\* A HARD_ASSERT whose condition holds changes nothing.
LEMMA AssertHolds ==
    ASSUME NEW s \in ClientType, s.ok, NEW c \in BOOLEAN, c
    PROVE  HardAssert(s, c) = s
  BY DEF HardAssert, ClientType

-----------------------------------------------------------------------------
(* OnlineStateTracker                                                      *)

\* SetAndBroadcast() changes the online state, and which views are current.
LEMMA BroadcastFacts ==
    ASSUME NEW q \in ClientType, NEW state \in OnlineStates
    PROVE  LET s == SetAndBroadcast(q, state)
           IN  /\ s \in ClientType /\ SameStream(s, q)
               /\ s.online = state /\ s.failures = q.failures /\ s.timer = q.timer
  <1>1. PICK current \in [Targets -> BOOLEAN] :
          current = IF state = "Offline" THEN [t \in DOMAIN q.current |-> FALSE] ELSE q.current
    BY ClientFields
  <1>2. PICK s : s = [q EXCEPT !.online = state, !.current = current]
    OBVIOUS
  <1>3. s \in ClientType
    BY <1>1, <1>2 DEF ClientType
  <1>4. /\ SameStream(s, q) /\ s.online = state
        /\ s.failures = q.failures /\ s.timer = q.timer
    BY <1>2 DEF ClientType, SameStream, SameQueries, SameWire
  <1>5. CASE state = q.online
    BY <1>5 DEF SetAndBroadcast, SameStream, SameQueries, SameWire
  <1>6. CASE state # q.online
    <2>1. SetAndBroadcast(q, state) = s
      BY <1>1, <1>2, <1>6 DEF SetAndBroadcast
    <2> QED
      BY <1>3, <1>4, <2>1
  <1> QED
    BY <1>5, <1>6

\* UpdateState() stops the timer and forgets failures.
LEMMA UpdateStateFacts ==
    ASSUME NEW q \in ClientType, NEW state \in OnlineStates
    PROVE  LET s == UpdateState(q, state)
           IN  /\ s \in ClientType /\ SameStream(s, q)
               /\ s.online = state /\ s.failures = 0 /\ ~s.timer
  <1>1. PICK m : m = [q EXCEPT !.timer = FALSE, !.failures = 0]
    OBVIOUS
  <1>2. m \in ClientType /\ SameStream(m, q) /\ m.failures = 0 /\ m.timer = FALSE
    BY <1>1 DEF ClientType, SameStream, SameQueries, SameWire
  <1>3. UpdateState(q, state) = SetAndBroadcast(m, state)
    BY <1>1 DEF UpdateState, ClearOnlineStateTimer, ClientType
  <1>4. PICK s : s = SetAndBroadcast(m, state)
    OBVIOUS
  <1>5. /\ s \in ClientType /\ SameStream(s, m)
        /\ s.online = state /\ s.failures = m.failures /\ s.timer = m.timer
    BY <1>2, <1>4, BroadcastFacts
  <1>6. SameStream(s, q)
    BY <1>2, <1>5 DEF SameStream, SameQueries, SameWire
  <1> QED
    BY <1>2, <1>3, <1>4, <1>5, <1>6

\* HandleWatchStreamStart() of a tracker that is not online: the timer is set
\* unless there were failures before.
LEMMA WatchStreamStartFacts ==
    ASSUME NEW q \in ClientType, q.ok, ~q.timer
    PROVE  LET s == HandleWatchStreamStart(q)
           IN  /\ s \in ClientType /\ SameStream(s, q) /\ s.failures = q.failures
               /\ IF q.failures = 0 THEN s.online = "Unknown" ELSE s.online = q.online /\ ~s.timer
  <1>1. CASE q.failures # 0
    BY <1>1 DEF HandleWatchStreamStart, SameStream, SameQueries, SameWire
  <1>2. CASE q.failures = 0
    <2>1. PICK m : m = SetAndBroadcast(q, "Unknown")
      OBVIOUS
    <2>2. /\ m \in ClientType /\ SameStream(m, q) /\ m.online = "Unknown"
          /\ m.failures = q.failures /\ m.timer = q.timer
      BY <2>1, BroadcastFacts DEF OnlineStates
    <2>3. HardAssert(m, ~q.timer) = m
      BY <2>2, AssertHolds, ClientFields DEF SameStream
    <2>4. PICK s : s = [m EXCEPT !.timer = TRUE]
      OBVIOUS
    <2>5. HandleWatchStreamStart(q) = s
      BY <1>2, <2>1, <2>3, <2>4 DEF HandleWatchStreamStart
    <2>6. s \in ClientType /\ SameStream(s, m) /\ s.online = m.online /\ s.failures = m.failures
      BY <2>2, <2>4 DEF ClientType, SameStream, SameQueries, SameWire
    <2>7. SameStream(s, q)
      BY <2>2, <2>6 DEF SameStream, SameQueries, SameWire
    <2> QED
      BY <1>2, <2>2, <2>5, <2>6, <2>7
  <1> QED
    BY <1>1, <1>2

\* HandleWatchStreamFailure(): the client is not online any more, and nobody waits.
LEMMA WatchStreamFailureFacts ==
    ASSUME NEW q \in ClientType, q.ok, q.online = "Online" => q.failures = 0 /\ ~q.timer
    PROVE  LET s == HandleWatchStreamFailure(q)
           IN  s \in ClientType /\ SameStream(s, q) /\ s.online # "Online" /\ ~s.timer
  <1>1. CASE q.online = "Online"
    <2>1. PICK m : m = SetAndBroadcast(q, "Unknown")
      OBVIOUS
    <2>2. /\ m \in ClientType /\ SameStream(m, q) /\ m.online = "Unknown" /\ m.timer = q.timer
      BY <2>1, BroadcastFacts DEF OnlineStates
    <2>3. HardAssert(m, q.failures = 0 /\ ~q.timer) = m
      BY <1>1, <2>2, AssertHolds, ClientFields DEF SameStream
    <2>4. HandleWatchStreamFailure(q) = m
      BY <1>1, <2>1, <2>3 DEF HandleWatchStreamFailure
    <2> QED
      BY <1>1, <2>2, <2>4
  <1>2. CASE q.online # "Online"
    <2>1. PICK f : f = [q EXCEPT !.failures = q.failures + 1]
      OBVIOUS
    <2>2. /\ f \in ClientType /\ SameStream(f, q) /\ f.failures = q.failures + 1
          /\ f.failures >= kMaxWatchStreamFailures
      <3>1. q.failures \in Nat
        BY ClientFields
      <3>2. q.failures + 1 \in Nat /\ q.failures + 1 >= kMaxWatchStreamFailures
        BY <3>1 DEF kMaxWatchStreamFailures
      <3>3. PICK n \in Nat : n = q.failures + 1 /\ n >= kMaxWatchStreamFailures
        BY <3>2
      <3>4. f \in ClientType /\ f.failures = n /\ SameStream(f, q)
        BY <2>1, <3>3 DEF ClientType, SameStream, SameQueries, SameWire
      <3> QED
        BY <3>3, <3>4
    <2>3. PICK m : m = [f EXCEPT !.timer = FALSE]
      OBVIOUS
    <2>4. m \in ClientType /\ SameStream(m, q) /\ m.timer = FALSE
      BY <2>2, <2>3 DEF ClientType, SameStream, SameQueries, SameWire
    <2>5. PICK s : s = SetAndBroadcast(m, "Offline")
      OBVIOUS
    <2>6. HandleWatchStreamFailure(q) = s
      BY <1>2, <2>1, <2>2, <2>3, <2>5 DEF HandleWatchStreamFailure, ClearOnlineStateTimer
    <2>7. s \in ClientType /\ SameStream(s, m) /\ s.online = "Offline" /\ s.timer = m.timer
      BY <2>4, <2>5, BroadcastFacts DEF OnlineStates
    <2>8. SameStream(s, q)
      BY <2>4, <2>7 DEF SameStream, SameQueries, SameWire
    <2> QED
      BY <2>4, <2>6, <2>7, <2>8
  <1> QED
    BY <1>1, <1>2

-----------------------------------------------------------------------------
(* Starting and stopping the stream                                        *)

\* StreamInv does not depend on the online state.
LEMMA StreamInvSame ==
    ASSUME NEW q, NEW s, StreamInv(q), SameStream(s, q)
    PROVE  StreamInv(s)
  BY DEF StreamInv, SameStream, SameQueries, SameWire, Quiet, IsOpen, IsStarted

\* UpdateState() to a state that is right for the stream.
LEMMA UpdateStateCore ==
    ASSUME NEW q \in ClientType, q.ok, StreamInv(q), NEW state \in OnlineStates,
           state = "Online" => IsOpen(q)
    PROVE  Core(UpdateState(q, state)) /\ SameStream(UpdateState(q, state), q)
  <1>1. PICK s : s = UpdateState(q, state)
    OBVIOUS
  <1>2. /\ s \in ClientType /\ SameStream(s, q)
        /\ s.online = state /\ s.failures = 0 /\ ~s.timer
    BY <1>1, UpdateStateFacts
  <1>3. StreamInv(s)
    BY <1>2, StreamInvSame
  <1>4. TrackerInv(s) /\ s.ok
    BY <1>2 DEF TrackerInv, SameStream, SameWire, IsOpen
  <1> QED
    BY <1>1, <1>2, <1>3, <1>4 DEF Core

\* Start() of a stream that is not started: it asks for a token, or waits.
LEMMA StartFacts ==
    ASSUME NEW q \in ClientType, q.ok, ~IsStarted(q)
    PROVE  LET s == Start(q)
           IN  /\ s \in ClientType /\ SameQueries(s, q)
               /\ \/ s.state = "Backoff" /\ s.backoff /\ s.auth = q.auth
                  \/ s.state = "Starting" /\ s.backoff = q.backoff /\ s.auth = q.auth \cup {q.closes}
               /\ s.agg = q.agg /\ s.up = q.up /\ s.down = q.down /\ s.srv = q.srv
               /\ s.read = q.read /\ s.net = q.net /\ s.exists = q.exists /\ s.idle = q.idle
               /\ s.closes = q.closes /\ s.ok = q.ok
               /\ s.online = q.online /\ s.failures = q.failures /\ s.timer = q.timer
  <1>1. CASE q.state = "Error"
    <2>1. HardAssert(q, q.state = "Error") = q
      BY <1>1, AssertHolds
    <2>2. PICK s : s = [q EXCEPT !.state = "Backoff", !.backoff = TRUE]
      OBVIOUS
    <2>3. Start(q) = s
      BY <1>1, <2>1, <2>2 DEF Start, BackoffAndTryRestarting
    <2>4. s \in ClientType
      BY <2>2 DEF ClientType, StreamStates
    <2>5. /\ SameQueries(s, q) /\ s.state = "Backoff" /\ s.backoff = TRUE /\ s.auth = q.auth
          /\ s.agg = q.agg /\ s.up = q.up /\ s.down = q.down /\ s.srv = q.srv
          /\ s.read = q.read /\ s.net = q.net /\ s.exists = q.exists /\ s.idle = q.idle
          /\ s.closes = q.closes /\ s.ok = q.ok
          /\ s.online = q.online /\ s.failures = q.failures /\ s.timer = q.timer
      BY <2>2 DEF ClientType, SameQueries
    <2> QED
      BY <2>3, <2>4, <2>5
  <1>2. CASE q.state = "Initial"
    <2>1. HardAssert(q, q.state = "Initial") = q
      BY <1>2, AssertHolds
    <2>2. PICK m : m = [q EXCEPT !.state = "Starting"]
      OBVIOUS
    <2>3. m \in ClientType /\ m.auth = q.auth /\ m.closes = q.closes
      BY <2>2 DEF ClientType, StreamStates
    <2>4. PICK auth : auth = q.auth \cup {q.closes}
      OBVIOUS
    <2>5. auth \in SUBSET Nat
      BY <2>4, ClientFields
    <2>6. PICK s : s = [m EXCEPT !.auth = auth]
      OBVIOUS
    <2>7. Start(q) = s
      BY <1>2, <2>1, <2>2, <2>3, <2>4, <2>6 DEF Start, RequestCredentials
    <2>8. s \in ClientType
      BY <2>3, <2>5, <2>6 DEF ClientType
    <2>9. /\ SameQueries(s, q) /\ s.state = "Starting" /\ s.backoff = q.backoff /\ s.auth = auth
          /\ s.agg = q.agg /\ s.up = q.up /\ s.down = q.down /\ s.srv = q.srv
          /\ s.read = q.read /\ s.net = q.net /\ s.exists = q.exists /\ s.idle = q.idle
          /\ s.closes = q.closes /\ s.ok = q.ok
          /\ s.online = q.online /\ s.failures = q.failures /\ s.timer = q.timer
      BY <2>2, <2>6 DEF ClientType, SameQueries
    <2> QED
      BY <2>4, <2>7, <2>8, <2>9
  <1> QED
    BY <1>1, <1>2, ClientFields DEF IsStarted, StreamStates

\* StartWatchStream() on a stopped stream that is needed.
LEMMA StartWatchInv ==
    ASSUME NEW q, Core(q), ShouldStartWatchStream(q)
    PROVE  LET s == StartWatchStream(q)
           IN  Core(s) /\ IsStarted(s) /\ ~IsOpen(s) /\ SameQueries(s, q) /\ s.net = q.net
  <1>1. /\ q \in ClientType /\ q.ok /\ q.net /\ ~IsStarted(q) /\ q.on # {}
        /\ ~q.timer /\ q.online # "Online" /\ ~q.backoff /\ ~q.idle /\ q.closes \notin q.auth
        /\ \A c \in q.auth : c <= q.closes
        /\ Quiet(q)
    BY DEF Core, StreamInv, TrackerInv, ShouldStartWatchStream, IsStarted, IsOpen
  <1>2. HardAssert(q, ShouldStartWatchStream(q)) = q
    BY <1>1, AssertHolds DEF ShouldStartWatchStream
  <1>3. PICK m : m = [q EXCEPT !.exists = TRUE, !.agg = NewAggregator]
    OBVIOUS
  <1>4. /\ m \in ClientType /\ m.ok /\ m.state = q.state /\ SameQueries(m, q)
        /\ m.net = q.net /\ m.exists = TRUE /\ m.agg = NewAggregator /\ Quiet(m)
        /\ m.backoff = q.backoff /\ m.idle = q.idle /\ m.closes = q.closes /\ m.auth = q.auth
        /\ m.timer = q.timer /\ m.online = q.online
    BY <1>1, <1>3 DEF ClientType, SameQueries, Quiet
  <1>5. PICK a : a = Start(m)
    OBVIOUS
  <1>6. /\ a \in ClientType /\ SameQueries(a, m)
        /\ \/ a.state = "Backoff" /\ a.backoff /\ a.auth = m.auth
           \/ a.state = "Starting" /\ a.backoff = m.backoff /\ a.auth = m.auth \cup {m.closes}
        /\ a.agg = m.agg /\ a.up = m.up /\ a.down = m.down /\ a.srv = m.srv
        /\ a.read = m.read /\ a.net = m.net /\ a.exists = m.exists /\ a.idle = m.idle
        /\ a.closes = m.closes /\ a.ok = m.ok
        /\ a.online = m.online /\ a.failures = m.failures /\ a.timer = m.timer
    BY <1>1, <1>4, <1>5, StartFacts DEF IsStarted
  <1>7. /\ Quiet(a) /\ a.net /\ a.exists /\ ~a.idle /\ a.ok /\ ~a.timer /\ a.online # "Online"
        /\ \/ a.state = "Backoff" /\ a.backoff /\ a.auth = q.auth
           \/ a.state = "Starting" /\ ~a.backoff /\ a.auth = q.auth \cup {q.closes}
        /\ a.closes = q.closes /\ SameQueries(a, q)
    BY <1>1, <1>4, <1>6 DEF Quiet, SameQueries
  <1>8. q.closes \in Nat
    BY <1>1, ClientFields
  <1>9. StreamInv(a)
    BY <1>1, <1>7, <1>8 DEF StreamInv, IsStarted, IsOpen
  <1>10. PICK s : s = HandleWatchStreamStart(a)
    OBVIOUS
  <1>11. /\ s \in ClientType /\ SameStream(s, a) /\ s.failures = a.failures
         /\ IF a.failures = 0 THEN s.online = "Unknown" ELSE s.online = a.online /\ ~s.timer
    BY <1>6, <1>7, <1>10, WatchStreamStartFacts
  <1>12. StreamInv(s)
    BY <1>9, <1>11, StreamInvSame
  <1>13. IsStarted(s) /\ ~IsOpen(s) /\ s.ok /\ s.net = q.net /\ SameQueries(s, q)
    BY <1>1, <1>7, <1>11 DEF SameStream, SameWire, SameQueries, IsStarted, IsOpen
  <1>14. TrackerInv(s)
    BY <1>7, <1>11, <1>13 DEF TrackerInv
  <1>15. StartWatchStream(q) = s
    BY <1>2, <1>3, <1>5, <1>10 DEF StartWatchStream
  <1> QED
    BY <1>11, <1>12, <1>13, <1>14, <1>15 DEF Core

\* The connection after Close() and CleanUpWatchStreamState().
Closed(q, state) ==
    [q EXCEPT !.idle = FALSE, !.backoff = FALSE, !.closes = q.closes + 1,
              !.up = <<>>, !.down = <<>>, !.srv = NothingWatched, !.read = 0,
              !.state = state, !.exists = FALSE, !.agg = NewAggregator]

\* A new aggregator has the type of one.
LEMMA NewTypes ==
    /\ NewTargetState \in TargetState
    /\ NewAggregator \in [states : [Targets -> TargetState], resets : SUBSET Targets]
    /\ NothingWatched \in [Targets -> [on : BOOLEAN, at : Nat, cur : BOOLEAN]]
    /\ <<>> \in Seq(Request) /\ <<>> \in Seq(Response) /\ 0 \in Nat
  <1>1. NewTargetState \in TargetState
    BY DEF NewTargetState, TargetState, ChangeTypes
  <1> QED
    BY <1>1 DEF NewAggregator, NothingWatched

\* The fields of a closed stream.
LEMMA ClosedFacts ==
    ASSUME NEW q \in ClientType, NEW state \in {"Initial", "Error"}
    PROVE  LET s == Closed(q, state)
           IN  /\ s \in ClientType /\ SameQueries(s, q) /\ Quiet(s)
               /\ s.state = state /\ s.idle = FALSE /\ s.backoff = FALSE /\ s.exists = FALSE
               /\ s.closes = q.closes + 1 /\ s.auth = q.auth /\ s.net = q.net /\ s.ok = q.ok
               /\ s.online = q.online /\ s.failures = q.failures /\ s.timer = q.timer
  <1>1. PICK n \in Nat : n = q.closes + 1
    BY ClientFields
  <1>2. PICK s : s = Closed(q, state)
    OBVIOUS
  <1>3. s \in ClientType
    <2>1. state \in StreamStates
      BY DEF StreamStates
    <2> QED
      BY <1>1, <1>2, <2>1, NewTypes DEF ClientType, Closed
  <1>4. /\ SameQueries(s, q) /\ Quiet(s)
        /\ s.state = state /\ s.idle = FALSE /\ s.backoff = FALSE /\ s.exists = FALSE
        /\ s.closes = n /\ s.auth = q.auth /\ s.net = q.net /\ s.ok = q.ok
        /\ s.online = q.online /\ s.failures = q.failures /\ s.timer = q.timer
    BY <1>1, <1>2 DEF ClientType, Closed, SameQueries, Quiet
  <1> QED
    BY <1>1, <1>2, <1>3, <1>4

\* What Close() does to a started stream.
LEMMA CloseStarted ==
    ASSUME NEW q \in ClientType, q.ok, IsStarted(q), NEW status \in {"ok", "error"},
           status = "ok" => ~(q.net /\ q.on # {})
    PROVE  Close(q, status) =
             LET c == Closed(q, IF status = "ok" THEN "Initial" ELSE "Error")
             IN  IF q.net /\ q.on # {} THEN StartWatchStream(HandleWatchStreamFailure(c))
                 ELSE UpdateState(c, "Unknown")
  <1>1. PICK state \in {"Initial", "Error"} : state = IF status = "ok" THEN "Initial" ELSE "Error"
    OBVIOUS
  <1>2. PICK n \in Nat : n = q.closes + 1
    BY ClientFields
  <1>3. PICK a : a = [q EXCEPT !.idle = FALSE, !.backoff = FALSE, !.closes = n,
                        !.up = <<>>, !.down = <<>>, !.srv = NothingWatched, !.read = 0,
                        !.state = state]
    OBVIOUS
  <1>4. a \in ClientType
    <2>1. state \in StreamStates
      BY DEF StreamStates
    <2> QED
      BY <1>3, <2>1, NewTypes DEF ClientType
  <1>5. a.ok /\ a.net = q.net /\ a.on = q.on /\ a.state = state
    BY <1>3 DEF ClientType
  <1>6. HardAssert(q, IsStarted(q)) = q
    BY AssertHolds DEF IsStarted
  <1>7. Close(q, status) = OnWatchStreamClose(a, status)
    BY <1>1, <1>2, <1>3, <1>6 DEF Close
  <1>8. HardAssert(a, status = "ok" => ~ShouldStartWatchStream(a)) = a
    BY <1>4, <1>5, AssertHolds DEF ShouldStartWatchStream
  <1>9. PICK c : c = Closed(q, state)
    OBVIOUS
  <1>10. CleanUpWatchStreamState(a) = c
    BY <1>2, <1>3, <1>9 DEF CleanUpWatchStreamState, Closed, ClientType
  <1>11. c.net = q.net /\ c.on = q.on /\ c.state = state
    BY <1>9, ClosedFacts DEF SameQueries
  <1>12. ShouldStartWatchStream(c) <=> q.net /\ q.on # {}
    BY <1>11 DEF ShouldStartWatchStream, IsStarted
  <1>13. OnWatchStreamClose(a, status) =
            IF q.net /\ q.on # {} THEN StartWatchStream(HandleWatchStreamFailure(c))
            ELSE UpdateState(c, "Unknown")
    BY <1>8, <1>10, <1>12 DEF OnWatchStreamClose
  <1> QED
    BY <1>1, <1>7, <1>9, <1>13

\* A closed stream is in order.
LEMMA ClosedInv ==
    ASSUME NEW q \in ClientType, q.ok, \A c \in q.auth : c <= q.closes,
           NEW state \in {"Initial", "Error"}
    PROVE  StreamInv(Closed(q, state))
  <1>1. PICK s : s = Closed(q, state)
    OBVIOUS
  <1>2. /\ Quiet(s)
        /\ s.state = state /\ s.idle = FALSE /\ s.backoff = FALSE /\ s.exists = FALSE
        /\ s.closes = q.closes + 1 /\ s.auth = q.auth
    BY <1>1, ClosedFacts
  <1>3. q.closes \in Nat /\ q.auth \in SUBSET Nat
    BY ClientFields
  <1>4. q.closes + 1 \notin q.auth /\ \A c \in q.auth : c <= q.closes + 1
    BY <1>3
  <1> QED
    BY <1>1, <1>2, <1>4 DEF StreamInv, IsOpen, IsStarted

\* Close() of a started stream; "ok" only if nobody needs it.
LEMMA CloseInv ==
    ASSUME NEW q \in ClientType, q.ok, IsStarted(q), NEW status \in {"ok", "error"},
           status = "ok" => ~(q.net /\ q.on # {}),
           \A c \in q.auth : c <= q.closes,
           q.online = "Online" => q.failures = 0 /\ ~q.timer
    PROVE  LET s == Close(q, status)
           IN  /\ Core(s) /\ SameQueries(s, q) /\ s.net = q.net
               /\ IsOpen(s) = FALSE
               /\ ~(q.net /\ q.on # {}) => ~IsStarted(s) /\ s.online = "Unknown"
  <1>1. PICK state \in {"Initial", "Error"} : state = IF status = "ok" THEN "Initial" ELSE "Error"
    OBVIOUS
  <1>2. PICK c : c = Closed(q, state)
    OBVIOUS
  <1>3. /\ c \in ClientType /\ SameQueries(c, q) /\ Quiet(c)
        /\ c.state = state /\ c.net = q.net /\ c.ok = q.ok
        /\ c.online = q.online /\ c.failures = q.failures /\ c.timer = q.timer
    BY <1>2, ClosedFacts
  <1>4. StreamInv(c)
    BY <1>2, ClosedInv
  <1>5. CASE q.net /\ q.on # {}
    <2>1. PICK f : f = HandleWatchStreamFailure(c)
      OBVIOUS
    <2>2. f \in ClientType /\ SameStream(f, c) /\ f.online # "Online" /\ ~f.timer
      BY <1>3, <2>1, WatchStreamFailureFacts
    <2>3. StreamInv(f)
      BY <1>4, <2>2, StreamInvSame
    <2>4. Core(f) /\ ShouldStartWatchStream(f) /\ SameQueries(f, q) /\ f.net = q.net
      BY <1>3, <1>5, <2>2, <2>3 DEF Core, TrackerInv, ShouldStartWatchStream, SameStream,
         SameQueries, SameWire, IsStarted
    <2>5. PICK s : s = StartWatchStream(f)
      OBVIOUS
    <2>6. Core(s) /\ IsStarted(s) /\ ~IsOpen(s) /\ SameQueries(s, f) /\ s.net = f.net
      BY <2>4, <2>5, StartWatchInv
    <2>7. SameQueries(s, q) /\ IsOpen(s) = FALSE
      BY <2>4, <2>6 DEF SameQueries, IsOpen
    <2>8. Close(q, status) = s
      BY <1>1, <1>2, <1>5, <2>1, <2>5, CloseStarted
    <2> QED
      BY <1>5, <2>4, <2>6, <2>7, <2>8
  <1>6. CASE ~(q.net /\ q.on # {})
    <2>1. PICK s : s = UpdateState(c, "Unknown")
      OBVIOUS
    <2>2. Core(s) /\ SameStream(s, c)
      BY <1>3, <1>4, <2>1, UpdateStateCore DEF OnlineStates
    <2>3. s.online = "Unknown"
      BY <1>3, <2>1, UpdateStateFacts DEF OnlineStates
    <2>4. SameQueries(s, q) /\ s.net = q.net /\ s.state = state
      BY <1>3, <2>2 DEF SameStream, SameQueries, SameWire
    <2>5. Close(q, status) = s
      BY <1>1, <1>2, <1>6, <2>1, CloseStarted
    <2>6. IsOpen(s) = FALSE /\ ~IsStarted(s)
      BY <2>4 DEF IsOpen, IsStarted
    <2> QED
      BY <2>2, <2>3, <2>4, <2>5, <2>6
  <1> QED
    BY <1>5, <1>6

\* If the connection is open then it is the same.
Kept(s, q) == IsOpen(s) => SameWire(s, q)

\* EnableNetwork().
LEMMA EnableInv ==
    ASSUME NEW q, Core(q)
    PROVE  LET s == EnableNetworkOp(q)
           IN  Core(s) /\ SameQueries(s, q) /\ s.net /\ Kept(s, q)
  <1>1. PICK e : e = [q EXCEPT !.net = TRUE]
    OBVIOUS
  <1>2. q \in ClientType
    BY DEF Core
  <1>3. /\ e \in ClientType /\ SameQueries(e, q) /\ SameWire(e, q) /\ e.net = TRUE
        /\ e.exists = q.exists /\ e.idle = q.idle /\ e.backoff = q.backoff
        /\ e.closes = q.closes /\ e.auth = q.auth /\ e.ok = q.ok
        /\ e.online = q.online /\ e.failures = q.failures /\ e.timer = q.timer
    BY <1>1, <1>2 DEF ClientType, SameQueries, SameWire
  <1>4. Core(e)
    BY <1>3 DEF Core, StreamInv, TrackerInv, SameQueries, SameWire, Quiet, IsOpen, IsStarted
  <1>5. CASE ShouldStartWatchStream(e)
    <2>1. PICK s : s = StartWatchStream(e)
      OBVIOUS
    <2>2. Core(s) /\ ~IsOpen(s) /\ SameQueries(s, e) /\ s.net = e.net
      BY <1>4, <1>5, <2>1, StartWatchInv
    <2>3. SameQueries(s, q) /\ Kept(s, q)
      BY <1>3, <2>2 DEF SameQueries, Kept
    <2>4. EnableNetworkOp(q) = s
      BY <1>1, <1>5, <2>1 DEF EnableNetworkOp
    <2> QED
      BY <1>3, <2>2, <2>3, <2>4
  <1>6. CASE ~ShouldStartWatchStream(e)
    <2>1. PICK s : s = UpdateState(e, "Unknown")
      OBVIOUS
    <2>2. Core(s) /\ SameStream(s, e)
      BY <1>4, <2>1, UpdateStateCore DEF OnlineStates, Core
    <2>3. SameQueries(s, q) /\ Kept(s, q) /\ s.net
      BY <1>3, <2>2 DEF SameStream, SameQueries, SameWire, Kept
    <2>4. EnableNetworkOp(q) = s
      BY <1>1, <1>6, <2>1 DEF EnableNetworkOp
    <2> QED
      BY <2>2, <2>3, <2>4
  <1> QED
    BY <1>5, <1>6

\* DisableNetworkInternal(), after the network was disabled.
LEMMA DisableInternalInv ==
    ASSUME NEW q, Core(q)
    PROVE  LET s == DisableNetworkInternal([q EXCEPT !.net = FALSE])
           IN  Core(s) /\ SameQueries(s, q) /\ ~s.net /\ ~IsStarted(s)
  <1>1. PICK d : d = [q EXCEPT !.net = FALSE]
    OBVIOUS
  <1>2. q \in ClientType
    BY DEF Core
  <1>3. /\ d \in ClientType /\ SameQueries(d, q) /\ SameWire(d, q) /\ d.net = FALSE
        /\ d.exists = q.exists /\ d.idle = q.idle /\ d.backoff = q.backoff
        /\ d.closes = q.closes /\ d.auth = q.auth /\ d.ok = q.ok
        /\ d.online = q.online /\ d.failures = q.failures /\ d.timer = q.timer
    BY <1>1, <1>2 DEF ClientType, SameQueries, SameWire
  <1>4. PICK c : c = Stop(d)
    OBVIOUS
  <1>5. Core(c) /\ SameQueries(c, q) /\ ~c.net /\ ~IsStarted(c)
    <2>1. CASE IsStarted(d)
      <3>1. /\ d.ok /\ \A e \in d.auth : e <= d.closes
            /\ d.online = "Online" => d.failures = 0 /\ ~d.timer
        BY <1>3 DEF Core, StreamInv, TrackerInv
      <3>2. /\ Core(c) /\ SameQueries(c, d) /\ c.net = d.net /\ ~IsStarted(c)
        BY <1>3, <1>4, <2>1, <3>1, CloseInv DEF Stop
      <3> QED
        BY <1>3, <3>2 DEF SameQueries
    <2>2. CASE ~IsStarted(d)
      <3>1. c = d
        BY <1>4, <2>2 DEF Stop, Close
      <3> QED
        BY <1>3, <2>2, <3>1
           DEF Core, StreamInv, TrackerInv, SameQueries, SameWire, Quiet, IsOpen, IsStarted
    <2> QED
      BY <2>1, <2>2
  <1>6. CleanUpWatchStreamState(c) = c
    <2>1. c \in ClientType /\ c.exists = FALSE /\ c.agg = NewAggregator
      BY <1>5, ClientFields DEF Core, StreamInv, Quiet, IsOpen, IsStarted
    <2> QED
      BY <2>1 DEF CleanUpWatchStreamState, ClientType
  <1> QED
    BY <1>1, <1>4, <1>5, <1>6 DEF DisableNetworkInternal

\* DisableNetwork().
LEMMA DisableInv ==
    ASSUME NEW q, Core(q)
    PROVE  LET s == DisableNetworkOp(q)
           IN  Core(s) /\ SameQueries(s, q) /\ ~IsOpen(s)
  <1>1. PICK d : d = DisableNetworkInternal([q EXCEPT !.net = FALSE])
    OBVIOUS
  <1>2. Core(d) /\ SameQueries(d, q) /\ ~d.net /\ ~IsStarted(d)
    BY <1>1, DisableInternalInv
  <1>3. PICK s : s = UpdateState(d, "Offline")
    OBVIOUS
  <1>4. Core(s) /\ SameStream(s, d)
    BY <1>2, <1>3, UpdateStateCore DEF OnlineStates, Core
  <1>5. SameQueries(s, q) /\ ~IsOpen(s)
    BY <1>2, <1>4 DEF SameStream, SameQueries, SameWire, IsStarted, IsOpen
  <1> QED
    BY <1>1, <1>3, <1>4, <1>5 DEF DisableNetworkOp

\* RestartNetwork().
LEMMA RestartInv ==
    ASSUME NEW q, Core(q)
    PROVE  LET s == RestartNetwork(q)
           IN  Core(s) /\ SameQueries(s, q) /\ ~IsOpen(s)
  <1>1. PICK d : d = DisableNetworkInternal([q EXCEPT !.net = FALSE])
    OBVIOUS
  <1>2. Core(d) /\ SameQueries(d, q) /\ ~d.net /\ ~IsStarted(d)
    BY <1>1, DisableInternalInv
  <1>3. PICK u : u = UpdateState(d, "Unknown")
    OBVIOUS
  <1>4. Core(u) /\ SameStream(u, d)
    BY <1>2, <1>3, UpdateStateCore DEF OnlineStates, Core
  <1>5. u \in ClientType /\ u.ok /\ ~IsStarted(u) /\ SameQueries(u, q)
    BY <1>2, <1>4 DEF Core, SameStream, SameWire, SameQueries, IsStarted
  <1>6. HardAssert(u, ~IsStarted(u)) = u
    BY <1>5, AssertHolds DEF IsStarted
  <1>7. PICK i : i = [u EXCEPT !.state = "Initial"]
    OBVIOUS
  <1>8. /\ i \in ClientType /\ SameQueries(i, u) /\ i.state = "Initial" /\ i.net = u.net
        /\ i.exists = u.exists /\ i.idle = u.idle /\ i.backoff = u.backoff
        /\ i.closes = u.closes /\ i.auth = u.auth /\ i.ok = u.ok
        /\ i.online = u.online /\ i.failures = u.failures /\ i.timer = u.timer
        /\ i.up = u.up /\ i.down = u.down /\ i.srv = u.srv /\ i.read = u.read /\ i.agg = u.agg
    BY <1>5, <1>7 DEF ClientType, StreamStates, SameQueries
  <1>9. Core(i)
    BY <1>4, <1>5, <1>8 DEF Core, StreamInv, TrackerInv, SameQueries, Quiet, IsOpen, IsStarted
  <1>10. PICK s : s = EnableNetworkOp(i)
    OBVIOUS
  <1>11. Core(s) /\ SameQueries(s, i) /\ Kept(s, i)
    BY <1>9, <1>10, EnableInv
  <1>12. SameQueries(s, q) /\ ~IsOpen(s)
    BY <1>5, <1>8, <1>11 DEF SameQueries, Kept, SameWire, IsOpen
  <1>13. RestartNetwork(q) = s
    BY <1>1, <1>3, <1>6, <1>7, <1>10 DEF RestartNetwork, InhibitBackoff
  <1> QED
    BY <1>11, <1>12, <1>13

\* A client that was just constructed.
LEMMA NewClientCore == Core(NewClient) /\ ~IsOpen(NewClient)
  <1>1. PICK s : s = NewClient
    OBVIOUS
  <1>2. s \in ClientType
    <2>1. /\ [t \in Targets |-> 0] \in [Targets -> Nat]
          /\ [t \in Targets |-> FALSE] \in [Targets -> BOOLEAN]
          /\ "Initial" \in StreamStates /\ "Unknown" \in OnlineStates
          /\ {} \in SUBSET Targets /\ {} \in SUBSET Nat
      BY DEF StreamStates, OnlineStates
    <2> QED
      BY <1>1, <2>1, NewTypes DEF ClientType, NewClient
  <1>3. /\ s.ok = TRUE /\ s.state = "Initial" /\ s.backoff = FALSE /\ s.auth = {} /\ s.idle = FALSE
        /\ s.exists = FALSE /\ s.timer = FALSE /\ s.online = "Unknown" /\ Quiet(s)
    BY <1>1 DEF NewClient, Quiet
  <1> QED
    BY <1>1, <1>2, <1>3 DEF Core, StreamInv, TrackerInv, IsOpen, IsStarted

-----------------------------------------------------------------------------
(* Requests                                                                *)

Agg == [states : [Targets -> TargetState], resets : SUBSET Targets]

\* The aggregator a after n requests for target t.
Recorded(a, t, n) == [a EXCEPT !.states[t] = RecordPendingTargetRequests(@, n)]

\* The count of t is greater by n, and nothing else has changed.
OnlyCounted(b, a, t, n) ==
    /\ b \in Agg
    /\ b.resets = a.resets
    /\ b.states[t].here = TRUE /\ b.states[t].out = a.states[t].out + n
    /\ b.states[t].changes = a.states[t].changes
    /\ \A u \in Targets : u # t => b.states[u] = a.states[u]

\* A recorded request changes the count of one target.
LEMMA RecordedFacts ==
    ASSUME NEW a \in Agg, NEW t \in Targets, NEW n \in Nat
    PROVE  OnlyCounted(Recorded(a, t, n), a, t, n)
  <1>1. PICK x : x = a.states[t]
    OBVIOUS
  <1>2. x \in TargetState /\ x.out \in Int
    BY <1>1 DEF TargetState, Agg
  <1>3. PICK o \in Int : o = x.out + n
    BY <1>2
  <1>4. PICK y : y = [x EXCEPT !.here = TRUE, !.out = o]
    OBVIOUS
  <1>5. y \in TargetState /\ y.here = TRUE /\ y.out = o /\ y.changes = x.changes
    BY <1>2, <1>3, <1>4 DEF TargetState
  <1>6. RecordPendingTargetRequests(x, n) = y
    BY <1>3, <1>4 DEF RecordPendingTargetRequests
  <1>7. PICK b : b = [a EXCEPT !.states[t] = y]
    OBVIOUS
  <1>8. Recorded(a, t, n) = b
    BY <1>1, <1>6, <1>7 DEF Recorded
  <1>9. /\ b \in Agg
        /\ b.resets = a.resets /\ b.states[t] = y
        /\ \A u \in Targets : u # t => b.states[u] = a.states[u]
    BY <1>5, <1>7 DEF Agg
  <1> QED
    BY <1>1, <1>3, <1>4, <1>5, <1>8, <1>9 DEF OnlyCounted

\* s is q after the requests u for target t.
Sent(s, q, t, u) ==
    /\ s \in ClientType /\ SameQueries(s, q)
    /\ s.up = q.up \o u /\ s.agg = Recorded(q.agg, t, Len(u)) /\ s.idle = FALSE
    /\ s.state = q.state /\ s.down = q.down /\ s.srv = q.srv /\ s.read = q.read
    /\ s.net = q.net /\ s.exists = q.exists /\ s.backoff = q.backoff /\ s.closes = q.closes
    /\ s.auth = q.auth /\ s.ok = q.ok /\ s.current = q.current
    /\ s.online = q.online /\ s.failures = q.failures /\ s.timer = q.timer

\* SendRequests() on an open stream.
LEMMA SendFacts ==
    ASSUME NEW q \in ClientType, q.ok, q.exists, IsOpen(q), NEW t \in Targets,
           NEW u \in Seq(Request), u # <<>>
    PROVE  Sent(SendRequests(q, t, u), q, t, u)
  <1>1. HardAssert(q, q.exists) = q /\ HardAssert(q, IsOpen(q)) = q
    BY AssertHolds, ClientFields DEF IsOpen
  <1>2. PICK n \in Nat : n = Len(u)
    OBVIOUS
  <1>3. PICK up : up = q.up \o u
    OBVIOUS
  <1>4. up \in Seq(Request)
    BY <1>3, ClientFields
  <1>5. PICK w : w = [q EXCEPT !.idle = FALSE, !.up = up]
    OBVIOUS
  <1>6. w \in ClientType /\ w.agg = q.agg
    BY <1>4, <1>5 DEF ClientType
  <1>7. Write(q, u) = w
    BY <1>1, <1>3, <1>5 DEF Write
  <1>8. PICK b : b = Recorded(q.agg, t, n)
    OBVIOUS
  <1>9. b \in [states : [Targets -> TargetState], resets : SUBSET Targets]
    BY <1>2, <1>8, ClientFields, RecordedFacts DEF OnlyCounted, Agg
  <1>10. PICK s : s = [w EXCEPT !.agg = b]
    OBVIOUS
  <1>11. SendRequests(q, t, u) = s
    <2>1. SendRequests(q, t, u) = [w EXCEPT !.agg.states[t] = RecordPendingTargetRequests(@, n)]
      BY <1>1, <1>2, <1>7 DEF SendRequests
    <2>2. [w EXCEPT !.agg.states[t] = RecordPendingTargetRequests(@, n)] = s
      BY <1>6, <1>8, <1>10 DEF Recorded
    <2> QED
      BY <2>1, <2>2
  <1>12. s \in ClientType
    BY <1>6, <1>9, <1>10 DEF ClientType
  <1>13. /\ SameQueries(s, q) /\ s.up = up /\ s.agg = b /\ s.idle = FALSE
         /\ s.state = q.state /\ s.down = q.down /\ s.srv = q.srv /\ s.read = q.read
         /\ s.net = q.net /\ s.exists = q.exists /\ s.backoff = q.backoff /\ s.closes = q.closes
         /\ s.auth = q.auth /\ s.ok = q.ok /\ s.current = q.current
         /\ s.online = q.online /\ s.failures = q.failures /\ s.timer = q.timer
    BY <1>5, <1>10 DEF ClientType, SameQueries
  <1> QED
    BY <1>2, <1>3, <1>8, <1>11, <1>12, <1>13 DEF Sent

\* Requests keep an open stream in order.
LEMMA SentCore ==
    ASSUME NEW q, NEW s, NEW t, NEW u, Sent(s, q, t, u), IsOpen(q), q.ok, q.net, q.exists,
           ~q.backoff, q.closes \notin q.auth, \A c \in q.auth : c <= q.closes, TrackerInv(q)
    PROVE  Core(s) /\ IsOpen(s)
  BY DEF Sent, Core, StreamInv, TrackerInv, IsOpen, IsStarted

\* The client listens to t as well, and has asked for it if the stream is open.
Listened(s, q, t, token) ==
    /\ Core(s) /\ s.views = q.views /\ s.data = q.data /\ s.on = q.on \cup {t}
    /\ s.tokens = [q.tokens EXCEPT ![t] = token]
    /\ IsOpen(s) =>
         /\ IsOpen(q) /\ s.up = q.up \o <<WatchRequest(s, t)>>
         /\ s.agg = Recorded(q.agg, t, 1)
         /\ s.down = q.down /\ s.srv = q.srv /\ s.read = q.read

\* RemoteStore::Listen() of a new target.
LEMMA ListenInv ==
    ASSUME NEW q, Core(q), NEW t \in Targets, t \notin q.on, NEW token \in Nat
    PROVE  Listened(RemoteListen(q, t, token), q, t, token)
  <1>1. q \in ClientType /\ q.ok /\ q.on \in SUBSET Targets /\ q.tokens \in [Targets -> Nat]
    BY ClientFields DEF Core
  <1>2. PICK on : on = q.on \cup {t}
    OBVIOUS
  <1>3. PICK tokens : tokens = [q.tokens EXCEPT ![t] = token]
    OBVIOUS
  <1>4. on \in SUBSET Targets /\ tokens \in [Targets -> Nat] /\ tokens[t] = token
    BY <1>1, <1>2, <1>3
  <1>5. PICK l : l = [q EXCEPT !.on = on, !.tokens = tokens]
    OBVIOUS
  <1>6. /\ l \in ClientType /\ l.on = on /\ l.tokens = tokens /\ l.views = q.views
        /\ l.data = q.data /\ SameWire(l, q)
        /\ l.net = q.net /\ l.exists = q.exists /\ l.idle = q.idle /\ l.backoff = q.backoff
        /\ l.closes = q.closes /\ l.auth = q.auth /\ l.ok = q.ok
        /\ l.online = q.online /\ l.failures = q.failures /\ l.timer = q.timer
    BY <1>1, <1>4, <1>5 DEF ClientType, SameWire
  <1>7. RemoteListen(q, t, token) =
          IF ShouldStartWatchStream(l) THEN StartWatchStream(l)
          ELSE IF IsOpen(l) THEN SendRequests(l, t, <<WatchRequest(l, t)>>) ELSE l
    <2>1. [q EXCEPT !.on = @ \cup {t}, !.tokens[t] = token] = l
      BY <1>1, <1>2, <1>3, <1>5
    <2> QED
      BY <2>1 DEF RemoteListen
  <1>8. ~IsOpen(q) => Core(l)
    BY <1>6 DEF Core, StreamInv, TrackerInv, SameWire, Quiet, IsOpen, IsStarted
  <1>9. CASE ShouldStartWatchStream(l)
    <2>1. PICK s : s = StartWatchStream(l)
      OBVIOUS
    <2>2. Core(l)
      BY <1>6, <1>8, <1>9 DEF ShouldStartWatchStream, SameWire, IsOpen, IsStarted
    <2>3. Core(s) /\ ~IsOpen(s) /\ SameQueries(s, l)
      BY <1>9, <2>1, <2>2, StartWatchInv
    <2>4. RemoteListen(q, t, token) = s
      BY <1>7, <1>9, <2>1
    <2> QED
      BY <1>2, <1>3, <1>6, <2>3, <2>4 DEF Listened, SameQueries
  <1>10. CASE ~ShouldStartWatchStream(l) /\ IsOpen(l)
    <2>1. PICK w : w = WatchRequest(l, t)
      OBVIOUS
    <2>2. w \in Request
      BY <1>4, <1>6, <2>1 DEF WatchRequest, Request
    <2>3. <<w>> \in Seq(Request) /\ <<w>> # <<>> /\ Len(<<w>>) = 1
      BY <2>2
    <2>4. /\ IsOpen(q) /\ l.ok /\ l.net /\ l.exists /\ ~l.backoff /\ l.closes \notin l.auth
          /\ (\A c \in l.auth : c <= l.closes) /\ TrackerInv(l)
      BY <1>6, <1>10 DEF Core, StreamInv, TrackerInv, SameWire, IsOpen, IsStarted
    <2>5. PICK s : s = SendRequests(l, t, <<w>>)
      OBVIOUS
    <2>6. Sent(s, l, t, <<w>>)
      BY <1>6, <1>10, <2>3, <2>4, <2>5, SendFacts
    <2>7. Core(s) /\ IsOpen(s)
      BY <1>10, <2>4, <2>6, SentCore
    <2>8. RemoteListen(q, t, token) = s
      BY <1>7, <1>10, <2>1, <2>5
    <2>9. /\ s.views = q.views /\ s.data = q.data /\ s.on = on /\ s.tokens = tokens
          /\ s.up = q.up \o <<w>> /\ s.agg = Recorded(q.agg, t, 1)
          /\ s.down = q.down /\ s.srv = q.srv /\ s.read = q.read
      BY <1>6, <2>3, <2>6 DEF Sent, SameQueries, SameWire
    <2>10. w = WatchRequest(s, t)
      BY <1>6, <2>1, <2>9 DEF WatchRequest
    <2> QED
      BY <1>2, <1>3, <2>4, <2>7, <2>8, <2>9, <2>10 DEF Listened
  <1>11. CASE ~ShouldStartWatchStream(l) /\ ~IsOpen(l)
    <2>1. RemoteListen(q, t, token) = l
      BY <1>7, <1>11
    <2>2. ~IsOpen(q)
      BY <1>6, <1>11 DEF SameWire, IsOpen
    <2> QED
      BY <1>2, <1>3, <1>6, <1>8, <1>11, <2>1, <2>2 DEF Listened
  <1> QED
    BY <1>9, <1>10, <1>11

\* RemoteStore::StopListening() of a target that is listened to.
LEMMA StopListeningInv ==
    ASSUME NEW q, Core(q), NEW t \in Targets, t \in q.on
    PROVE  LET s == RemoteStopListening(q, t)
           IN  /\ Core(s) /\ s.views = q.views /\ s.data = q.data /\ s.on = q.on \ {t}
               /\ s.tokens = q.tokens
               /\ IsOpen(s) =>
                    /\ IsOpen(q) /\ s.up = q.up \o <<UnwatchRequest(t)>>
                    /\ s.agg = Recorded(q.agg, t, 1)
                    /\ s.down = q.down /\ s.srv = q.srv /\ s.read = q.read
  <1>1. q \in ClientType /\ q.ok /\ q.on \in SUBSET Targets
    BY ClientFields DEF Core
  <1>2. PICK on : on = q.on \ {t}
    OBVIOUS
  <1>3. HardAssert(q, t \in q.on) = q
    BY <1>1, AssertHolds
  <1>4. PICK e : e = [q EXCEPT !.on = on]
    OBVIOUS
  <1>5. /\ e \in ClientType /\ e.on = on /\ e.tokens = q.tokens /\ e.views = q.views
        /\ e.data = q.data /\ SameWire(e, q)
        /\ e.net = q.net /\ e.exists = q.exists /\ e.idle = q.idle /\ e.backoff = q.backoff
        /\ e.closes = q.closes /\ e.auth = q.auth /\ e.ok = q.ok
        /\ e.online = q.online /\ e.failures = q.failures /\ e.timer = q.timer
    BY <1>1, <1>2, <1>4 DEF ClientType, SameWire
  <1>6. PICK s : s = IF IsOpen(e) THEN SendRequests(e, t, <<UnwatchRequest(t)>>) ELSE e
    OBVIOUS
  <1>7. RemoteStopListening(q, t) =
          IF s.on # {} THEN s ELSE IF IsOpen(s) THEN MarkIdle(s)
          ELSE IF s.net THEN UpdateState(s, "Unknown") ELSE s
    BY <1>2, <1>3, <1>4, <1>6 DEF RemoteStopListening
  <1>8. CASE IsOpen(q)
    <2>1. PICK w : w = UnwatchRequest(t)
      OBVIOUS
    <2>2. w \in Request
      BY <2>1 DEF UnwatchRequest, Request
    <2>3. <<w>> \in Seq(Request) /\ <<w>> # <<>> /\ Len(<<w>>) = 1
      BY <2>2
    <2>4. /\ IsOpen(e) /\ e.ok /\ e.net /\ e.exists /\ ~e.backoff /\ e.closes \notin e.auth
          /\ (\A c \in e.auth : c <= e.closes) /\ TrackerInv(e)
      BY <1>5, <1>8 DEF Core, StreamInv, TrackerInv, SameWire, IsOpen, IsStarted
    <2>5. Sent(s, e, t, <<w>>)
      BY <1>5, <1>6, <2>1, <2>3, <2>4, SendFacts
    <2>6. Core(s) /\ IsOpen(s)
      BY <2>4, <2>5, SentCore
    <2>7. /\ s.views = q.views /\ s.data = q.data /\ s.on = on /\ s.tokens = q.tokens
          /\ s.up = q.up \o <<w>> /\ s.agg = Recorded(q.agg, t, 1)
          /\ s.down = q.down /\ s.srv = q.srv /\ s.read = q.read
      BY <1>5, <2>3, <2>5 DEF Sent, SameQueries, SameWire
    <2>8. CASE on # {}
      BY <1>2, <1>7, <1>8, <2>1, <2>6, <2>7, <2>8
    <2>9. CASE on = {}
      <3>1. PICK i : i = [s EXCEPT !.idle = TRUE]
        OBVIOUS
      <3>2. RemoteStopListening(q, t) = i
        BY <1>7, <2>6, <2>7, <2>9, <3>1 DEF MarkIdle
      <3>3. s \in ClientType
        BY <2>6 DEF Core
      <3>4. /\ i \in ClientType /\ SameQueries(i, s) /\ SameWire(i, s)
            /\ i.net = s.net /\ i.exists = s.exists /\ i.backoff = s.backoff
            /\ i.closes = s.closes /\ i.auth = s.auth /\ i.ok = s.ok
            /\ i.online = s.online /\ i.failures = s.failures /\ i.timer = s.timer
        BY <3>1, <3>3 DEF ClientType, SameQueries, SameWire
      <3>5. Core(i)
        BY <2>6, <2>7, <2>9, <3>4
           DEF Core, StreamInv, TrackerInv, SameQueries, SameWire, IsOpen, IsStarted
      <3> QED
        BY <1>2, <1>8, <2>1, <2>7, <3>2, <3>4, <3>5 DEF SameQueries, SameWire
    <2> QED
      BY <2>8, <2>9
  <1>9. CASE ~IsOpen(q)
    <2>1. s = e /\ ~IsOpen(s)
      BY <1>5, <1>6, <1>9 DEF SameWire, IsOpen
    <2>2. Core(s)
      BY <1>5, <1>9, <2>1 DEF Core, StreamInv, TrackerInv, SameWire, Quiet, IsOpen, IsStarted
    <2>3. CASE RemoteStopListening(q, t) = s
      BY <1>2, <1>5, <2>1, <2>2, <2>3
    <2>4. CASE RemoteStopListening(q, t) = UpdateState(s, "Unknown")
      <3>1. PICK u : u = UpdateState(s, "Unknown")
        OBVIOUS
      <3>2. Core(u) /\ SameStream(u, s)
        BY <2>2, <3>1, UpdateStateCore DEF OnlineStates, Core
      <3> QED
        BY <1>2, <1>5, <2>1, <2>4, <3>1, <3>2 DEF SameStream, SameQueries, SameWire, IsOpen
    <2> QED
      BY <1>7, <2>1, <2>3, <2>4
  <1> QED
    BY <1>8, <1>9

\* The iterations of InOrder().
LEMMA InOrderSteps ==
    ASSUME NEW S, NEW n \in Nat
    PROVE  \E f : /\ f[0] = <<>> /\ InOrder(S, n) = f[n]
                  /\ \A i \in 1..n : f[i] = IF i \in S THEN Append(f[i - 1], i) ELSE f[i - 1]
  <1>1. PICK F : F = [p \in (1..n) \X Seq(Nat) |->
                        IF p[1] \in S THEN Append(p[2], p[1]) ELSE p[2]]
    OBVIOUS
  <1>2. F \in [(1..n) \X Seq(Nat) -> Seq(Nat)]
    <2>1. ASSUME NEW p \in (1..n) \X Seq(Nat)
          PROVE  (IF p[1] \in S THEN Append(p[2], p[1]) ELSE p[2]) \in Seq(Nat)
      <3>1. p[1] \in Nat /\ p[2] \in Seq(Nat)
        OBVIOUS
      <3>2. Append(p[2], p[1]) \in Seq(Nat)
        BY <3>1, AppendFacts
      <3> QED
        BY <3>1, <3>2
    <2> QED
      BY <1>1, <2>1
  <1>3. <<>> \in Seq(Nat)
    OBVIOUS
  <1>4. PICK g : Iterates(g, n, Seq(Nat), <<>>, F)
    BY <1>2, <1>3, IterationExists
  <1>5. g \in [0..n -> Seq(Nat)] /\ g[0] = <<>>
    BY <1>4 DEF Iterates
  <1>6. ASSUME NEW i \in 1..n PROVE g[i] = IF i \in S THEN Append(g[i - 1], i) ELSE g[i - 1]
    <2>1. g[i] = F[<<i, g[i - 1]>>] /\ i - 1 \in 0..n
      BY <1>4 DEF Iterates
    <2>2. <<i, g[i - 1]>> \in (1..n) \X Seq(Nat)
      BY <1>5, <2>1
    <2> QED
      BY <1>1, <2>1, <2>2
  <1>7. g = [i \in 0..n |-> IF i = 0 THEN <<>>
                            ELSE IF i \in S THEN Append(g[i - 1], i) ELSE g[i - 1]]
    <2>1. ASSUME NEW i \in 0..n
          PROVE  g[i] = IF i = 0 THEN <<>> ELSE IF i \in S THEN Append(g[i - 1], i) ELSE g[i - 1]
      <3>1. i = 0 \/ i \in 1..n
        OBVIOUS
      <3> QED
        BY <1>5, <1>6, <3>1
    <2> QED
      BY <1>5, <2>1
  <1>8. PICK f : f = CHOOSE h : h = [i \in 0..n |-> IF i = 0 THEN <<>>
                                     ELSE IF i \in S THEN Append(h[i - 1], i) ELSE h[i - 1]]
    OBVIOUS
  <1>9. InOrder(S, n) = f[n]
    BY <1>8 DEF InOrder
  <1>10. f = [i \in 0..n |-> IF i = 0 THEN <<>>
                             ELSE IF i \in S THEN Append(f[i - 1], i) ELSE f[i - 1]]
    BY <1>7, <1>8
  <1>11. /\ f[0] = <<>>
         /\ \A i \in 1..n : f[i] = IF i \in S THEN Append(f[i - 1], i) ELSE f[i - 1]
    <2>1. 0 \in 0..n /\ \A i \in 1..n : i \in 0..n /\ i # 0
      OBVIOUS
    <2> QED
      BY <1>10, <2>1
  <1> QED
    BY <1>9, <1>11

\* InOrder() is a sequence of the elements of S, each once.
LEMMA InOrderFacts ==
    ASSUME NEW S, NEW n \in Nat
    PROVE  LET s == InOrder(S, n)
           IN  /\ s \in Seq(Nat)
               /\ \A x : InSeq(x, s) <=> x \in S /\ x \in 1..n
               /\ \A i, j \in 1..Len(s) : s[i] = s[j] => i = j
  <1>1. PICK f : /\ f[0] = <<>> /\ InOrder(S, n) = f[n]
                 /\ \A i \in 1..n : f[i] = IF i \in S THEN Append(f[i - 1], i) ELSE f[i - 1]
    BY InOrderSteps
  <1> DEFINE P(s, m) == /\ s \in Seq(Nat) /\ \A x : InSeq(x, s) <=> x \in S /\ x \in 1..m
                        /\ \A i, j \in 1..Len(s) : s[i] = s[j] => i = j
  <1>2. PICK T : T = {m \in 0..n : P(f[m], m)}
    OBVIOUS
  <1>3. 0 \in T
    <2>1. 1..0 = {} /\ Len(<<>>) = 0 /\ <<>> \in Seq(Nat) /\ \A x : ~InSeq(x, <<>>)
      BY EmptyFacts
    <2>2. P(<<>>, 0)
      BY <2>1
    <2> HIDE DEF P
    <2> QED
      BY <1>1, <1>2, <2>2
  <1>4. ASSUME NEW m \in 1..n, m - 1 \in T PROVE m \in T
    <2>1. PICK s : s = f[m - 1]
      OBVIOUS
    <2>2. P(s, m - 1) /\ f[m] = IF m \in S THEN Append(s, m) ELSE s
      BY <1>1, <1>2, <1>4, <2>1
    <2>3. m \notin 1..(m - 1) /\ 1..m = 1..(m - 1) \cup {m} /\ m \in Nat
      OBVIOUS
    <2>4. CASE m \notin S
      <3>1. P(s, m)
        BY <2>2, <2>3, <2>4
      <3> HIDE DEF P
      <3> QED
        BY <1>2, <2>2, <2>4, <3>1
    <2>5. CASE m \in S
      <3>1. PICK u : u = Append(s, m)
        OBVIOUS
      <3>2. u \in Seq(Nat) /\ \A x : InSeq(x, u) <=> InSeq(x, s) \/ x = m
        BY <2>2, <2>3, <3>1, AppendFacts
      <3>3. PICK l \in Nat : l = Len(s)
        BY <2>2
      <3>4. /\ Len(u) = l + 1 /\ u[l + 1] = m /\ 1..(l + 1) = 1..l \cup {l + 1}
            /\ \A i \in 1..l : u[i] = s[i] /\ i # l + 1
        BY <2>2, <2>3, <3>1, <3>3
      <3>5. \A i \in 1..l : s[i] # m
        <4>1. ~InSeq(m, s)
          BY <2>2, <2>3
        <4>2. DOMAIN s = 1..l
          BY <2>2, <3>3
        <4> QED
          BY <4>1, <4>2 DEF InSeq
      <3>6. \A i, j \in 1..Len(u) : u[i] = u[j] => i = j
        BY <2>2, <3>3, <3>4, <3>5
      <3>7. \A x : InSeq(x, u) <=> x \in S /\ x \in 1..m
        BY <2>2, <2>3, <2>5, <3>2
      <3>8. P(u, m)
        BY <3>2, <3>6, <3>7
      <3>9. f[m] = u /\ m \in 0..n
        BY <2>2, <2>5, <3>1
      <3> HIDE DEF P
      <3> QED
        BY <1>2, <3>8, <3>9
    <2> QED
      BY <2>4, <2>5
  <1>5. 0..n \subseteq T
    BY <1>3, <1>4, SetInduction
  <1>6. n \in T
    BY <1>5
  <1> QED
    BY <1>1, <1>2, <1>6

\* The requests u watch every target that s listens to, once.
WatchesAll(u, s) ==
    /\ \A i \in 1..Len(u) : u[i].t \in s.on /\ u[i] = WatchRequest(s, u[i].t)
    /\ \A t \in s.on : \E i \in 1..Len(u) : u[i].t = t
    /\ \A i, j \in 1..Len(u) : u[i].t = u[j].t => i = j

\* The requests of WatchAll().
LEMMA RequestsOfAll ==
    ASSUME NEW q \in ClientType
    PROVE  LET d == InOrder(q.on, NumTargets)
               u == [i \in 1..Len(d) |-> WatchRequest(q, d[i])]
           IN  /\ d = <<>> <=> q.on = {}
               /\ u \in Seq(Request) /\ WatchesAll(u, q) /\ (q.on # {} => u # <<>>)
  <1>1. PICK d : d = InOrder(q.on, NumTargets)
    OBVIOUS
  <1>2. /\ d \in Seq(Nat) /\ \A x : InSeq(x, d) <=> x \in q.on /\ x \in 1..NumTargets
        /\ \A i, j \in 1..Len(d) : d[i] = d[j] => i = j
    BY <1>1, TargetAssumption, InOrderFacts
  <1>3. PICK n \in Nat : n = Len(d)
    BY <1>2
  <1>4. DOMAIN d = 1..n
    BY <1>2, <1>3
  <1>5. q.on \in SUBSET Targets /\ q.tokens \in [Targets -> Nat]
    BY ClientFields
  <1>6. \A x : (\E i \in 1..n : d[i] = x) <=> x \in q.on
    BY <1>2, <1>4, <1>5 DEF InSeq, Targets
  <1>7. PICK u : u = [i \in 1..n |-> WatchRequest(q, d[i])]
    OBVIOUS
  <1>8. ASSUME NEW i \in 1..n
        PROVE  u[i] \in Request /\ u[i].t = d[i] /\ u[i] = WatchRequest(q, d[i]) /\ d[i] \in q.on
    <2>1. d[i] \in q.on /\ d[i] \in Targets
      BY <1>5, <1>6
    <2>2. q.tokens[d[i]] \in Nat
      BY <1>5, <2>1
    <2> QED
      BY <1>7, <2>1, <2>2 DEF WatchRequest, Request
  <1>9. u \in Seq(Request) /\ Len(u) = n
    <2>1. u \in [1..n -> Request]
      BY <1>7, <1>8
    <2> QED
      BY <1>7, <2>1
  <1>10. WatchesAll(u, q)
    <2>1. \A i \in 1..n : u[i].t \in q.on /\ u[i] = WatchRequest(q, u[i].t)
      BY <1>8
    <2>2. \A t \in q.on : \E i \in 1..n : u[i].t = t
      BY <1>6, <1>8
    <2>3. \A i, j \in 1..n : u[i].t = u[j].t => i = j
      BY <1>2, <1>3, <1>8
    <2> QED
      BY <1>9, <2>1, <2>2, <2>3 DEF WatchesAll
  <1>11. d = <<>> <=> q.on = {}
    <2>1. d = <<>> <=> n = 0
      BY <1>2, <1>3, EmptySeq
    <2>2. n = 0 => q.on = {}
      BY <1>6
    <2>3. n # 0 => 1 \in 1..n
      OBVIOUS
    <2> QED
      BY <1>6, <2>1, <2>2, <2>3
  <1>12. q.on # {} => u # <<>>
    <2>1. q.on # {} => n # 0
      BY <1>6
    <2> QED
      BY <1>9, <2>1, EmptySeq
  <1> QED
    BY <1>1, <1>3, <1>7, <1>9, <1>10, <1>11, <1>12

\* WatchAll() on an open stream.
LEMMA WatchAllFacts ==
    ASSUME NEW q \in ClientType, q.ok, q.exists, IsOpen(q)
    PROVE  LET s == WatchAll(q)
           IN  /\ s \in ClientType /\ SameQueries(s, q)
               /\ s.agg.resets = q.agg.resets
               /\ \A t \in Targets : s.agg.states[t] =
                    IF t \in q.on THEN RecordPendingTargetRequests(q.agg.states[t], 1)
                                  ELSE q.agg.states[t]
               /\ s.idle => q.idle /\ q.on = {}
               /\ s.state = q.state /\ s.down = q.down /\ s.srv = q.srv /\ s.read = q.read
               /\ s.net = q.net /\ s.exists = q.exists /\ s.backoff = q.backoff
               /\ s.closes = q.closes /\ s.auth = q.auth /\ s.ok = q.ok
               /\ s.online = q.online /\ s.failures = q.failures /\ s.timer = q.timer
               /\ \E u \in Seq(Request) : s.up = q.up \o u /\ WatchesAll(u, q)
  <1>1. PICK d : d = InOrder(q.on, NumTargets)
    OBVIOUS
  <1>2. PICK u : u = [i \in 1..Len(d) |-> WatchRequest(q, d[i])]
    OBVIOUS
  <1>3. /\ d = <<>> <=> q.on = {}
        /\ u \in Seq(Request) /\ WatchesAll(u, q) /\ (q.on # {} => u # <<>>)
    BY <1>1, <1>2, RequestsOfAll
  <1>4. CASE q.on = {}
    <2>1. WatchAll(q) = q
      BY <1>1, <1>3, <1>4 DEF WatchAll
    <2>2. q.up \in Seq(Request)
      BY ClientFields
    <2>3. <<>> \in Seq(Request) /\ q.up = q.up \o <<>>
      BY <2>2
    <2>4. WatchesAll(<<>>, q)
      <3>1. Len(<<>>) = 0 /\ 1..0 = {}
        OBVIOUS
      <3> QED
        BY <1>4, <3>1 DEF WatchesAll
    <2> QED
      BY <1>4, <2>1, <2>3, <2>4 DEF SameQueries
  <1>5. CASE q.on # {}
    <2>1. HardAssert(q, q.exists) = q /\ HardAssert(q, IsOpen(q)) = q
      BY AssertHolds, ClientFields DEF IsOpen
    <2>2. PICK up : up = q.up \o u
      OBVIOUS
    <2>3. up \in Seq(Request)
      BY <1>3, <2>2, ClientFields
    <2>4. PICK w : w = [q EXCEPT !.idle = FALSE, !.up = up]
      OBVIOUS
    <2>5. w \in ClientType /\ w.agg = q.agg
      BY <2>3, <2>4 DEF ClientType
    <2>6. Write(q, u) = w
      BY <1>3, <1>5, <2>1, <2>2, <2>4 DEF Write
    <2>7. PICK f : f = [t \in Targets |->
                          IF t \in q.on THEN RecordPendingTargetRequests(q.agg.states[t], 1)
                                        ELSE q.agg.states[t]]
      OBVIOUS
    <2>8. f \in [Targets -> TargetState]
      <3>1. ASSUME NEW t \in Targets
            PROVE  /\ q.agg.states[t] \in TargetState
                   /\ RecordPendingTargetRequests(q.agg.states[t], 1) \in TargetState
        <4>1. PICK x \in TargetState : x = q.agg.states[t]
          BY ClientFields
        <4>2. PICK o \in Int : o = x.out + 1
          BY DEF TargetState
        <4>3. RecordPendingTargetRequests(x, 1) \in TargetState
          BY <4>2 DEF TargetState, RecordPendingTargetRequests
        <4> QED
          BY <4>1, <4>3
      <3> QED
        BY <2>7, <3>1
    <2>9. PICK a : a = [q.agg EXCEPT !.states = f]
      OBVIOUS
    <2>10. /\ a \in [states : [Targets -> TargetState], resets : SUBSET Targets]
           /\ a.states = f /\ a.resets = q.agg.resets
      BY <2>8, <2>9, ClientFields
    <2>11. PICK s : s = [w EXCEPT !.agg = a]
      OBVIOUS
    <2>12. WatchAll(q) = s
      <3>1. WatchAll(q) = [w EXCEPT !.agg.states =
                [t \in Targets |->
                   IF t \in q.on THEN RecordPendingTargetRequests(@[t], 1) ELSE @[t]]]
        BY <1>1, <1>2, <1>3, <1>5, <2>1, <2>6 DEF WatchAll
      <3>2. WatchAll(q) = [w EXCEPT !.agg.states = f]
        BY <2>5, <2>7, <3>1
      <3> QED
        BY <2>5, <2>9, <2>11, <3>2
    <2>13. s \in ClientType
      BY <2>5, <2>10, <2>11 DEF ClientType
    <2>14. /\ SameQueries(s, q) /\ s.up = up /\ s.agg = a /\ s.idle = FALSE
           /\ s.state = q.state /\ s.down = q.down /\ s.srv = q.srv /\ s.read = q.read
           /\ s.net = q.net /\ s.exists = q.exists /\ s.backoff = q.backoff
           /\ s.closes = q.closes /\ s.auth = q.auth /\ s.ok = q.ok
           /\ s.online = q.online /\ s.failures = q.failures /\ s.timer = q.timer
      BY <2>4, <2>11 DEF ClientType, SameQueries
    <2>15. \A t \in Targets : s.agg.states[t] =
              IF t \in q.on THEN RecordPendingTargetRequests(q.agg.states[t], 1)
                            ELSE q.agg.states[t]
      BY <2>7, <2>10, <2>14
    <2>16. \E v \in Seq(Request) : s.up = q.up \o v /\ WatchesAll(v, q)
      BY <1>3, <2>2, <2>14
    <2>17. s.agg.resets = q.agg.resets
      BY <2>10, <2>14
    <2> QED
      BY <2>12, <2>13, <2>14, <2>15, <2>16, <2>17
  <1> QED
    BY <1>4, <1>5

-----------------------------------------------------------------------------
(* WatchChangeAggregator                                                   *)

\* The changes in the target state x make sense for the documents in keys.
Fits(x, keys) ==
    \A d \in Docs : /\ x.changes[d] \in {"modified", "removed"} => d \in keys
                    /\ x.changes[d] = "added" => d \notin keys

\* The documents of a target once the changes in x are applied to keys.
Result(x, keys) == (keys \ DocumentsOf(x, "removed")) \cup DocumentsOf(x, "added")

\* The state x of an active target is replaced by y, which has the documents E.
Moved(y, x, keys, E) ==
    /\ y \in TargetState /\ Fits(y, keys) /\ y.here = TRUE /\ y.out = x.out
    /\ Result(y, keys) = E

\* A document was sent.
LEMMA PutFacts ==
    ASSUME NEW x \in TargetState, NEW keys \in SUBSET Docs, Fits(x, keys), NEW d \in Docs
    PROVE  Moved(AddDocumentChange(x, d, IF d \in keys THEN "modified" ELSE "added"), x, keys,
                 Result(x, keys) \cup {d})
  <1>1. PICK c \in ChangeTypes : c = IF d \in keys THEN "modified" ELSE "added"
    BY DEF ChangeTypes
  <1>2. PICK f : f = [x.changes EXCEPT ![d] = c]
    OBVIOUS
  <1>3. /\ x.changes \in [Docs -> ChangeTypes] /\ f \in [Docs -> ChangeTypes]
        /\ f[d] = c /\ \A e \in Docs : e # d => f[e] = x.changes[e]
    BY <1>2 DEF TargetState
  <1>4. PICK y : y = [x EXCEPT !.here = TRUE, !.pending = TRUE, !.changes = f]
    OBVIOUS
  <1>5. y \in TargetState /\ y.here = TRUE /\ y.out = x.out /\ y.changes = f
    BY <1>3, <1>4 DEF TargetState
  <1>6. AddDocumentChange(x, d, c) = y
    BY <1>2, <1>4 DEF AddDocumentChange
  <1>7. Fits(y, keys)
    BY <1>1, <1>3, <1>5 DEF Fits
  <1>8. Result(y, keys) = Result(x, keys) \cup {d}
    <2>1. ASSUME NEW e \in Docs
          PROVE  /\ e \in DocumentsOf(x, "removed") <=> x.changes[e] = "removed"
                 /\ e \in DocumentsOf(x, "added") <=> x.changes[e] = "added"
                 /\ e \in DocumentsOf(y, "removed") <=> f[e] = "removed"
                 /\ e \in DocumentsOf(y, "added") <=> f[e] = "added"
      BY <1>5 DEF DocumentsOf
    <2>2. Result(x, keys) \subseteq Docs /\ Result(y, keys) \subseteq Docs
      BY DEF Result, DocumentsOf
    <2>3. ASSUME NEW e \in Docs
          PROVE  e \in Result(y, keys) <=> e \in Result(x, keys) \cup {d}
      BY <1>1, <1>3, <2>1 DEF Result
    <2> QED
      BY <2>2, <2>3
  <1> QED
    BY <1>1, <1>5, <1>6, <1>7, <1>8 DEF Moved

\* The removal of a document was sent.
LEMMA DropFacts ==
    ASSUME NEW x \in TargetState, NEW keys \in SUBSET Docs, Fits(x, keys), NEW d \in Docs
    PROVE  Moved(IF d \in keys THEN AddDocumentChange(x, d, "removed")
                               ELSE RemoveDocumentChange(x, d), x, keys, Result(x, keys) \ {d})
  <1>1. PICK c \in ChangeTypes : c = IF d \in keys THEN "removed" ELSE "none"
    BY DEF ChangeTypes
  <1>2. PICK f : f = [x.changes EXCEPT ![d] = c]
    OBVIOUS
  <1>3. /\ x.changes \in [Docs -> ChangeTypes] /\ f \in [Docs -> ChangeTypes]
        /\ f[d] = c /\ \A e \in Docs : e # d => f[e] = x.changes[e]
    BY <1>2 DEF TargetState
  <1>4. PICK y : y = [x EXCEPT !.here = TRUE, !.pending = TRUE, !.changes = f]
    OBVIOUS
  <1>5. y \in TargetState /\ y.here = TRUE /\ y.out = x.out /\ y.changes = f
    BY <1>3, <1>4 DEF TargetState
  <1>6. AddDocumentChange(x, d, c) = y
    BY <1>2, <1>4 DEF AddDocumentChange
  <1>7. (IF d \in keys THEN AddDocumentChange(x, d, "removed") ELSE RemoveDocumentChange(x, d)) = y
    BY <1>1, <1>6 DEF RemoveDocumentChange
  <1>8. Fits(y, keys)
    BY <1>1, <1>3, <1>5 DEF Fits
  <1>9. Result(y, keys) = Result(x, keys) \ {d}
    <2>1. ASSUME NEW e \in Docs
          PROVE  /\ e \in DocumentsOf(x, "removed") <=> x.changes[e] = "removed"
                 /\ e \in DocumentsOf(x, "added") <=> x.changes[e] = "added"
                 /\ e \in DocumentsOf(y, "removed") <=> f[e] = "removed"
                 /\ e \in DocumentsOf(y, "added") <=> f[e] = "added"
      BY <1>5 DEF DocumentsOf
    <2>2. Result(x, keys) \subseteq Docs /\ Result(y, keys) \subseteq Docs
      BY DEF Result, DocumentsOf
    <2>3. ASSUME NEW e \in Docs
          PROVE  e \in Result(y, keys) <=> e \in Result(x, keys) \ {d}
      BY <1>1, <1>3, <2>1 DEF Result
    <2> QED
      BY <2>2, <2>3
  <1> QED
    BY <1>5, <1>7, <1>8, <1>9 DEF Moved

\* A target state without changes.
LEMMA NoChangesFacts ==
    ASSUME NEW x \in TargetState, NEW keys \in SUBSET Docs, x.changes = [d \in Docs |-> "none"]
    PROVE  Fits(x, keys) /\ Result(x, keys) = keys
  BY DEF Fits, Result, DocumentsOf

\* A fresh target state, and one whose changes were cleared.
LEMMA ClearedFacts ==
    ASSUME NEW x \in TargetState, NEW keys \in SUBSET Docs
    PROVE  /\ Fits(NewTargetState, keys) /\ NewTargetState.out = 0
           /\ LET y == ClearPendingChanges(x)
              IN  /\ y \in TargetState /\ Fits(y, keys) /\ y.here = x.here /\ y.out = x.out
                  /\ Result(y, keys) = keys
  <1>1. PICK y : y = ClearPendingChanges(x)
    OBVIOUS
  <1>2. [d \in Docs |-> "none"] \in [Docs -> ChangeTypes]
    BY DEF ChangeTypes
  <1>3. /\ y \in TargetState /\ y.here = x.here /\ y.out = x.out
        /\ y.changes = [d \in Docs |-> "none"]
    BY <1>1, <1>2 DEF ClearPendingChanges, TargetState
  <1>4. Fits(y, keys) /\ Result(y, keys) = keys
    BY <1>3, NoChangesFacts
  <1>5. /\ NewTargetState \in TargetState /\ NewTargetState.out = 0
        /\ NewTargetState.changes = [d \in Docs |-> "none"]
    BY NewTypes DEF NewTargetState
  <1>6. Fits(NewTargetState, keys)
    BY <1>5, NoChangesFacts
  <1> QED
    BY <1>1, <1>3, <1>4, <1>5, <1>6

\* A reset removes every document.
LEMMA ResetFacts ==
    ASSUME NEW keys \in SUBSET Docs
    PROVE  LET y == [NewTargetState EXCEPT
                       !.here = TRUE,
                       !.changes = [d \in Docs |-> IF d \in keys THEN "removed" ELSE "none"]]
           IN  /\ y \in TargetState /\ Fits(y, keys) /\ y.here = TRUE /\ y.out = 0
               /\ Result(y, keys) = {}
  <1>1. PICK f : f = [d \in Docs |-> IF d \in keys THEN "removed" ELSE "none"]
    OBVIOUS
  <1>2. f \in [Docs -> ChangeTypes]
    BY <1>1 DEF ChangeTypes
  <1>3. PICK y : y = [NewTargetState EXCEPT !.here = TRUE, !.changes = f]
    OBVIOUS
  <1>4. y \in TargetState /\ y.here = TRUE /\ y.changes = f /\ y.out = 0
    <2>1. y \in TargetState
      BY <1>2, <1>3, NewTypes DEF TargetState
    <2> QED
      BY <1>3, <2>1 DEF NewTargetState
  <1>5. Fits(y, keys) /\ Result(y, keys) = {}
    BY <1>1, <1>4 DEF Fits, Result, DocumentsOf
  <1> QED
    BY <1>1, <1>3, <1>4, <1>5

\* One target state of an aggregator is replaced.
LEMMA ReplaceFacts ==
    ASSUME NEW a \in Agg, NEW t \in Targets, NEW y \in TargetState
    PROVE  LET b == [a EXCEPT !.states[t] = y]
           IN  /\ b \in Agg /\ b.resets = a.resets /\ b.states[t] = y
               /\ \A u \in Targets : u # t => b.states[u] = a.states[u]
  BY DEF Agg

\* Marking a target state as present, current or up to date changes neither
\* its documents nor its count.
LEMMA MarkFacts ==
    ASSUME NEW x \in TargetState, NEW keys \in SUBSET Docs, Fits(x, keys), NEW v \in Nat
    PROVE  LET h == [x EXCEPT !.here = TRUE]
               y == UpdateResumeToken(MarkCurrent(h), v)
               z == UpdateResumeToken(x, v)
           IN  /\ h \in TargetState /\ y \in TargetState /\ z \in TargetState
               /\ h.here = TRUE /\ y.here = TRUE /\ z.here = x.here
               /\ h.out = x.out /\ y.out = x.out /\ z.out = x.out
               /\ h.changes = x.changes /\ y.changes = x.changes /\ z.changes = x.changes
               /\ Fits(h, keys) /\ Fits(y, keys) /\ Fits(z, keys)
               /\ Result(h, keys) = Result(x, keys) /\ Result(y, keys) = Result(x, keys)
               /\ Result(z, keys) = Result(x, keys)
               /\ z.token = (IF v = 0 THEN x.token ELSE v)
               /\ v # 0 => z.pending = TRUE
  <1>1. PICK h : h = [x EXCEPT !.here = TRUE]
    OBVIOUS
  <1>2. h \in TargetState /\ h.here = TRUE /\ h.out = x.out /\ h.changes = x.changes
    BY <1>1 DEF TargetState
  <1>3. PICK c : c = MarkCurrent(h)
    OBVIOUS
  <1>4. c \in TargetState /\ c.here = TRUE /\ c.out = x.out /\ c.changes = x.changes
    BY <1>2, <1>3 DEF TargetState, MarkCurrent
  <1>5. PICK y : y = UpdateResumeToken(c, v)
    OBVIOUS
  <1>6. y \in TargetState /\ y.here = TRUE /\ y.out = x.out /\ y.changes = x.changes
    BY <1>4, <1>5 DEF TargetState, UpdateResumeToken
  <1>7. PICK z : z = UpdateResumeToken(x, v)
    OBVIOUS
  <1>8. /\ z \in TargetState /\ z.here = x.here /\ z.out = x.out /\ z.changes = x.changes
        /\ z.token = (IF v = 0 THEN x.token ELSE v) /\ (v # 0 => z.pending = TRUE)
    BY <1>7 DEF TargetState, UpdateResumeToken
  <1>9. /\ Fits(h, keys) /\ Fits(y, keys) /\ Fits(z, keys)
        /\ Result(h, keys) = Result(x, keys) /\ Result(y, keys) = Result(x, keys)
        /\ Result(z, keys) = Result(x, keys)
    BY <1>2, <1>6, <1>8 DEF Fits, Result, DocumentsOf
  <1> QED
    BY <1>1, <1>2, <1>3, <1>5, <1>6, <1>7, <1>8, <1>9

\* An answer to a request is counted.
LEMMA ResponseFacts ==
    ASSUME NEW x \in TargetState, NEW keys \in SUBSET Docs, Fits(x, keys)
    PROVE  LET y == RecordTargetResponse(x)
           IN  /\ y \in TargetState /\ y.here = TRUE /\ y.out = x.out - 1 /\ Fits(y, keys)
               /\ IsPending(y) <=> x.out # 1
  <1>1. x.out \in Int
    BY DEF TargetState
  <1>2. PICK o \in Int : o = x.out - 1 /\ (o # 0 <=> x.out # 1)
    BY <1>1
  <1>3. PICK y : y = [x EXCEPT !.here = TRUE, !.out = o]
    OBVIOUS
  <1>4. y \in TargetState /\ y.here = TRUE /\ y.out = o /\ y.changes = x.changes
    BY <1>3 DEF TargetState
  <1>5. RecordTargetResponse(x) = y
    BY <1>2, <1>3 DEF RecordTargetResponse
  <1> QED
    BY <1>2, <1>4, <1>5 DEF Fits, IsPending

\* What a response of the backend does to a set of documents E of target t.
Apply(t, E, m) ==
    IF m.t # t THEN E
    ELSE IF m.kind = "put" THEN E \cup {m.v}
    ELSE IF m.kind = "drop" THEN E \ {m.v}
    ELSE IF m.kind = "reset" THEN {} ELSE E

IsAnswer(m, t) == m.t = t /\ m.kind \in {"added", "removed"}

\* A target or document change m replaced the target state x by y.
Changed(y, x, t, m) ==
    /\ y \in TargetState /\ Fits(y, cache[t].keys)
    /\ y.out = IF IsAnswer(m, t) THEN x.out - 1 ELSE x.out
    /\ m.kind # "removed" => (x.here => y.here)
    /\ m.kind = "added" /\ x.out = 1 => Result(y, cache[t].keys) = cache[t].keys
    /\ ~IsAnswer(m, t) /\ m.kind # "filter" /\ t \in r.on /\ x.out = 0 =>
          Result(y, cache[t].keys) = Apply(t, Result(x, cache[t].keys), m)

\* The responses that are not about a target are snapshots, and documents are
\* named by the others.
Sound(m) ==
    /\ m.kind # "snapshot" => m.t \in Targets
    /\ m.kind \in {"put", "drop"} => m.v \in Docs

\* A target or document change replaces the state of one target.
LEMMA AggregateFacts ==
    ASSUME NEW a \in Agg, cache \in [Targets -> [keys : SUBSET Docs, token : Nat]],
           \A u \in Targets : Fits(a.states[u], cache[u].keys),
           NEW m \in Response, Sound(m), m.kind \notin {"rejected", "snapshot"}
    PROVE  LET b == Aggregate(a, m)
           IN  /\ b \in Agg /\ Changed(b.states[m.t], a.states[m.t], m.t, m)
               /\ \A u \in Targets : u # m.t => b.states[u] = a.states[u]
               /\ m.kind # "filter" => b.resets = a.resets
  <1>1. PICK t \in Targets : t = m.t
    BY DEF Sound
  <1>2. PICK x \in TargetState : x = a.states[t]
    BY DEF Agg
  <1>3. PICK keys \in SUBSET Docs : keys = cache[t].keys /\ keys = Keys[t]
    BY DEF Keys
  <1>4. Fits(x, keys) /\ x.out \in Int
    BY <1>2, <1>3 DEF TargetState
  <1>5. PICK v \in Nat : v = m.v
    BY DEF Response
  <1>6. ASSUME NEW y, Changed(y, x, t, m), Aggregate(a, m) = [a EXCEPT !.states[t] = y]
        PROVE  LET b == Aggregate(a, m)
               IN  /\ b \in Agg /\ Changed(b.states[t], a.states[t], t, m)
                   /\ \A u \in Targets : u # t => b.states[u] = a.states[u]
                   /\ b.resets = a.resets
    <2>1. y \in TargetState
      BY <1>6 DEF Changed
    <2>2. PICK b : b = [a EXCEPT !.states[t] = y]
      OBVIOUS
    <2>3. /\ b \in Agg /\ b.resets = a.resets /\ b.states[t] = y
          /\ \A u \in Targets : u # t => b.states[u] = a.states[u]
      BY <2>1, <2>2, ReplaceFacts
    <2> QED
      BY <1>2, <1>6, <2>2, <2>3
  <1>7. [a EXCEPT !.states[t] = x] = a
    BY <1>2 DEF Agg
  <1>8. PICK h : h = [x EXCEPT !.here = TRUE]
    OBVIOUS
  <1>9. /\ h \in TargetState /\ h.here = TRUE /\ h.out = x.out /\ Fits(h, keys)
        /\ Result(h, keys) = Result(x, keys) /\ EnsureTargetState(a, t) = [a EXCEPT !.states[t] = h]
    <2>1. EnsureTargetState(a, t) = [a EXCEPT !.states[t] = h]
      BY <1>2, <1>8 DEF EnsureTargetState, Agg
    <2> QED
      BY <1>4, <1>5, <1>8, <2>1, MarkFacts
  <1>10. IsActiveTarget(a, r.on, t) <=> t \in r.on /\ x.out = 0
    BY <1>2 DEF IsActiveTarget, IsPending
  <1>11. CASE m.kind = "added"
    <2>1. PICK s : s = RecordTargetResponse(x)
      OBVIOUS
    <2>2. s \in TargetState /\ s.here = TRUE /\ s.out = x.out - 1 /\ Fits(s, keys)
          /\ (IsPending(s) <=> x.out # 1)
      BY <1>4, <2>1, ResponseFacts
    <2>3. PICK y : y = IF IsPending(s) THEN s ELSE ClearPendingChanges(s)
      OBVIOUS
    <2>4. /\ y \in TargetState /\ y.here = TRUE /\ y.out = x.out - 1 /\ Fits(y, keys)
          /\ x.out = 1 => Result(y, keys) = keys
      BY <2>2, <2>3, ClearedFacts
    <2>5. Changed(y, x, t, m)
      BY <1>1, <1>3, <1>11, <2>4 DEF Changed, IsAnswer
    <2>6. Aggregate(a, m) = [a EXCEPT !.states[t] = y]
      BY <1>1, <1>2, <1>11, <2>1, <2>3 DEF Aggregate, HandleAdded
    <2> QED
      BY <1>1, <1>6, <2>5, <2>6
  <1>12. CASE m.kind = "removed"
    <2>1. PICK s : s = RecordTargetResponse(x)
      OBVIOUS
    <2>2. s \in TargetState /\ s.here = TRUE /\ s.out = x.out - 1 /\ Fits(s, keys)
          /\ (IsPending(s) <=> x.out # 1)
      BY <1>4, <2>1, ResponseFacts
    <2>3. PICK y : y = IF IsPending(s) THEN s ELSE NewTargetState
      OBVIOUS
    <2>4. y \in TargetState /\ y.out = x.out - 1 /\ Fits(y, keys)
      <3>1. CASE x.out = 1
        <4>1. y = NewTargetState /\ x.out - 1 = 0
          BY <2>2, <2>3, <3>1
        <4> QED
          BY <4>1, ClearedFacts, NewTypes
      <3>2. CASE x.out # 1
        BY <2>2, <2>3, <3>2
      <3> QED
        BY <3>1, <3>2
    <2>5. Changed(y, x, t, m)
      BY <1>1, <1>3, <1>12, <2>4 DEF Changed, IsAnswer
    <2>6. Aggregate(a, m) = [a EXCEPT !.states[t] = y]
      BY <1>1, <1>2, <1>12, <2>1, <2>3 DEF Aggregate, HandleRemoved, RemoveTarget
    <2> QED
      BY <1>1, <1>6, <2>5, <2>6
  <1>13. CASE m.kind = "current"
    <2>1. PICK y : y = IF t \in r.on /\ x.out = 0 THEN UpdateResumeToken(MarkCurrent(h), v) ELSE h
      OBVIOUS
    <2>2. /\ y \in TargetState /\ y.here = TRUE /\ y.out = x.out /\ Fits(y, keys)
          /\ Result(y, keys) = Result(x, keys)
      <3>1. CASE t \in r.on /\ x.out = 0
        <4>1. y = UpdateResumeToken(MarkCurrent([x EXCEPT !.here = TRUE]), v)
          BY <1>8, <2>1, <3>1
        <4> QED
          BY <1>4, <4>1, MarkFacts, Zenon
      <3>2. CASE ~(t \in r.on /\ x.out = 0)
        BY <1>9, <2>1, <3>2
      <3> QED
        BY <3>1, <3>2
    <2>3. Changed(y, x, t, m)
      BY <1>1, <1>3, <1>13, <2>2 DEF Changed, IsAnswer, Apply
    <2>4. Aggregate(a, m) = HandleCurrent(a, r.on, t, v)
      BY <1>1, <1>5, <1>13 DEF Aggregate
    <2>5. HandleCurrent(a, r.on, t, v) = [a EXCEPT !.states[t] = y]
      <3>1. PICK e : e = [a EXCEPT !.states[t] = h]
        OBVIOUS
      <3>2. e \in Agg /\ e.states[t] = h
        BY <1>9, <3>1, ReplaceFacts
      <3>3. [e EXCEPT !.states[t] = UpdateResumeToken(MarkCurrent(@), v)]
              = [a EXCEPT !.states[t] = UpdateResumeToken(MarkCurrent(h), v)]
        BY <3>1, <3>2 DEF Agg
      <3> QED
        BY <1>9, <1>10, <2>1, <3>1, <3>3 DEF HandleCurrent
    <2> QED
      BY <1>1, <1>6, <2>3, <2>4, <2>5
  <1>14. ASSUME NEW y, y = [NewTargetState EXCEPT !.here = TRUE,
                 !.changes = [d \in Docs |-> IF d \in keys THEN "removed" ELSE "none"]]
         PROVE  /\ y \in TargetState /\ Fits(y, keys) /\ y.here = TRUE /\ y.out = 0
                /\ Result(y, keys) = {} /\ ResetTarget(a, Keys, t) = [a EXCEPT !.states[t] = y]
    <2>1. ResetTarget(a, Keys, t) = [a EXCEPT !.states[t] = y]
      BY <1>3, <1>14 DEF ResetTarget
    <2> QED
      BY <1>14, <2>1, ResetFacts
  <1>15. CASE m.kind = "reset"
    <2>1. CASE ~(t \in r.on /\ x.out = 0)
      <3>1. Changed(h, x, t, m)
        BY <1>1, <1>3, <1>9, <1>15, <2>1 DEF Changed, IsAnswer
      <3>2. Aggregate(a, m) = [a EXCEPT !.states[t] = h]
        BY <1>1, <1>9, <1>10, <1>15, <2>1 DEF Aggregate, HandleReset
      <3> QED
        BY <1>1, <1>6, <3>1, <3>2
    <2>2. CASE t \in r.on /\ x.out = 0
      <3>1. PICK y : y = [NewTargetState EXCEPT !.here = TRUE,
                 !.changes = [d \in Docs |-> IF d \in keys THEN "removed" ELSE "none"]]
        OBVIOUS
      <3>2. /\ y \in TargetState /\ Fits(y, keys) /\ y.here = TRUE /\ y.out = 0
            /\ Result(y, keys) = {} /\ ResetTarget(a, Keys, t) = [a EXCEPT !.states[t] = y]
        BY <1>14, <3>1
      <3>3. Changed(y, x, t, m)
        BY <1>1, <1>3, <1>15, <2>2, <3>2 DEF Changed, IsAnswer, Apply
      <3>4. Aggregate(a, m) = [a EXCEPT !.states[t] = y]
        BY <1>1, <1>10, <1>15, <2>2, <3>2 DEF Aggregate, HandleReset
      <3> QED
        BY <1>1, <1>6, <3>3, <3>4
    <2> QED
      BY <2>1, <2>2
  <1>16. CASE m.kind \in {"put", "drop"} /\ ~(t \in r.on /\ x.out = 0)
    <2>1. Changed(x, x, t, m)
      BY <1>1, <1>3, <1>4, <1>16 DEF Changed, IsAnswer
    <2>2. Aggregate(a, m) = a
      BY <1>1, <1>10, <1>16 DEF Aggregate, AddDocumentToTarget, RemoveDocumentFromTarget
    <2> QED
      BY <1>1, <1>6, <1>7, <2>1, <2>2
  <1>17. CASE m.kind = "put" /\ t \in r.on /\ x.out = 0
    <2>1. v \in Docs
      BY <1>5, <1>17 DEF Sound
    <2>2. PICK y : y = AddDocumentChange(x, v, IF v \in keys THEN "modified" ELSE "added")
      OBVIOUS
    <2>3. /\ y \in TargetState /\ Fits(y, keys) /\ y.here = TRUE /\ y.out = x.out
          /\ Result(y, keys) = Result(x, keys) \cup {v}
      <3>1. PICK d \in Docs : d = v
        BY <2>1
      <3>2. y = AddDocumentChange(x, d, IF d \in keys THEN "modified" ELSE "added")
        BY <2>2, <3>1
      <3>3. Moved(y, x, keys, Result(x, keys) \cup {d})
        BY <1>4, <3>2, PutFacts
      <3> QED
        BY <3>1, <3>3 DEF Moved
    <2>4. Changed(y, x, t, m)
      BY <1>1, <1>3, <1>5, <1>17, <2>3 DEF Changed, IsAnswer, Apply
    <2>5. Aggregate(a, m) = [a EXCEPT !.states[t] = y]
      BY <1>1, <1>2, <1>3, <1>5, <1>10, <1>17, <2>2 DEF Aggregate, AddDocumentToTarget
    <2> QED
      BY <1>1, <1>6, <2>4, <2>5
  <1>18. CASE m.kind = "drop" /\ t \in r.on /\ x.out = 0
    <2>1. v \in Docs
      BY <1>5, <1>18 DEF Sound
    <2>2. PICK y : y = IF v \in keys THEN AddDocumentChange(x, v, "removed")
                                     ELSE RemoveDocumentChange(x, v)
      OBVIOUS
    <2>3. /\ y \in TargetState /\ Fits(y, keys) /\ y.here = TRUE /\ y.out = x.out
          /\ Result(y, keys) = Result(x, keys) \ {v}
      <3>1. PICK d \in Docs : d = v
        BY <2>1
      <3>2. y = IF d \in keys THEN AddDocumentChange(x, d, "removed")
                               ELSE RemoveDocumentChange(x, d)
        BY <2>2, <3>1
      <3>3. Moved(y, x, keys, Result(x, keys) \ {d})
        BY <1>4, <3>2, DropFacts
      <3> QED
        BY <3>1, <3>3 DEF Moved
    <2>4. Changed(y, x, t, m)
      BY <1>1, <1>3, <1>5, <1>18, <2>3 DEF Changed, IsAnswer, Apply
    <2>5. Aggregate(a, m) = [a EXCEPT !.states[t] = y]
      BY <1>1, <1>2, <1>3, <1>5, <1>10, <1>18, <2>2 DEF Aggregate, RemoveDocumentFromTarget
    <2> QED
      BY <1>1, <1>6, <2>4, <2>5
  <1>19. CASE m.kind = "filter"
    <2>1. Aggregate(a, m) = HandleExistenceFilter(a, r.on, Keys, t, v)
      BY <1>1, <1>5, <1>19 DEF Aggregate
    <2>2. CASE Aggregate(a, m) = a
      <3>1. Changed(x, x, t, m)
        BY <1>1, <1>3, <1>4, <1>19 DEF Changed, IsAnswer
      <3> QED
        BY <1>1, <1>6, <1>7, <2>2, <3>1
    <2>3. CASE Aggregate(a, m) = EnsureTargetState(a, t)
      <3>1. Changed(h, x, t, m)
        BY <1>1, <1>3, <1>9, <1>19 DEF Changed, IsAnswer
      <3> QED
        BY <1>1, <1>6, <1>9, <2>3, <3>1
    <2>4. CASE /\ x.out = 0
               /\ Aggregate(a, m) = [ResetTarget(a, Keys, t) EXCEPT !.resets = @ \cup {t}]
      <3>1. PICK y : y = [NewTargetState EXCEPT !.here = TRUE,
                 !.changes = [d \in Docs |-> IF d \in keys THEN "removed" ELSE "none"]]
        OBVIOUS
      <3>2. /\ y \in TargetState /\ Fits(y, keys) /\ y.here = TRUE /\ y.out = 0
            /\ Result(y, keys) = {} /\ ResetTarget(a, Keys, t) = [a EXCEPT !.states[t] = y]
        BY <1>14, <3>1
      <3>3. Changed(y, x, t, m)
        BY <1>1, <1>3, <1>19, <2>4, <3>2 DEF Changed, IsAnswer
      <3>4. PICK e : e = [a EXCEPT !.states[t] = y]
        OBVIOUS
      <3>5. /\ e \in Agg /\ e.states[t] = y
            /\ \A u \in Targets : u # t => e.states[u] = a.states[u]
        BY <3>2, <3>4, ReplaceFacts
      <3>6. PICK b : b = [e EXCEPT !.resets = @ \cup {t}]
        OBVIOUS
      <3>7. b \in Agg /\ b.states = e.states
        BY <3>5, <3>6 DEF Agg
      <3> QED
        BY <1>1, <1>2, <1>19, <2>4, <3>2, <3>3, <3>4, <3>5, <3>6, <3>7
    <2> QED
      BY <1>10, <2>1, <2>2, <2>3, <2>4 DEF HandleExistenceFilter
  <1> QED
    BY <1>11, <1>12, <1>13, <1>15, <1>16, <1>17, <1>18, <1>19 DEF Response

-----------------------------------------------------------------------------
(* Counting the elements of a sequence                                     *)

\* The positions in s of the elements of A, and their number.
At(s, A) == {i \in 1..Len(s) : s[i] \in A}
Occ(s, A) == Cardinality(At(s, A))

\* The positions are a finite set.
LEMMA OccType ==
    ASSUME NEW S, NEW s \in Seq(S), NEW A
    PROVE  IsFiniteSet(At(s, A)) /\ Occ(s, A) \in Nat
  <1>1. PICK n \in Nat : n = Len(s)
    OBVIOUS
  <1>2. IsFiniteSet(1..n)
    BY FS_Interval
  <1>3. At(s, A) \in SUBSET (1..n)
    BY <1>1 DEF At
  <1>4. IsFiniteSet(At(s, A))
    BY <1>2, <1>3, FS_Subset
  <1> QED
    BY <1>4, FS_CardinalityType DEF Occ

\* Nothing is counted where there is nothing.
LEMMA OccNone ==
    ASSUME NEW s, NEW A, \A i \in 1..Len(s) : s[i] \notin A
    PROVE  Occ(s, A) = 0
  <1>1. At(s, A) = {}
    BY DEF At
  <1> QED
    BY <1>1, FS_EmptySet DEF Occ

\* Append() adds one if the new element is counted.
LEMMA OccAppend ==
    ASSUME NEW S, NEW s \in Seq(S), NEW e \in S, NEW A
    PROVE  Occ(Append(s, e), A) = IF e \in A THEN Occ(s, A) + 1 ELSE Occ(s, A)
  <1>1. PICK n \in Nat : n = Len(s)
    OBVIOUS
  <1>2. PICK t : t = Append(s, e)
    OBVIOUS
  <1>3. /\ Len(t) = n + 1 /\ t[n + 1] = e /\ 1..(n + 1) = 1..n \cup {n + 1}
        /\ n + 1 \notin 1..n /\ \A i \in 1..n : t[i] = s[i]
    BY <1>1, <1>2
  <1>4. IsFiniteSet(At(s, A)) /\ n + 1 \notin At(s, A)
    BY <1>1, <1>3, OccType DEF At
  <1>5. CASE e \in A
    <2>1. At(t, A) = At(s, A) \cup {n + 1}
      BY <1>1, <1>3, <1>5 DEF At
    <2>2. Cardinality(At(s, A) \cup {n + 1}) = Cardinality(At(s, A)) + 1
      BY <1>4, FS_AddElement
    <2> QED
      BY <1>2, <1>5, <2>1, <2>2 DEF Occ
  <1>6. CASE e \notin A
    <2>1. At(t, A) = At(s, A)
      BY <1>1, <1>3, <1>6 DEF At
    <2> QED
      BY <1>2, <1>6, <2>1 DEF Occ
  <1> QED
    BY <1>5, <1>6

\* Tail() subtracts one if the first element was counted.
LEMMA OccTail ==
    ASSUME NEW S, NEW s \in Seq(S), s # <<>>, NEW A
    PROVE  Occ(s, A) = IF Head(s) \in A THEN Occ(Tail(s), A) + 1 ELSE Occ(Tail(s), A)
  <1>1. PICK n \in Nat : n = Len(s) /\ n > 0
    BY EmptySeq
  <1>2. PICK t : t = Tail(s)
    OBVIOUS
  <1>3. t \in Seq(S) /\ Len(t) = n - 1 /\ \A i \in 1..(n - 1) : t[i] = s[i + 1]
    BY <1>1, <1>2
  <1>4. Head(s) = s[1]
    OBVIOUS
  <1>5. PICK T : T = {i \in 2..n : s[i] \in A}
    OBVIOUS
  <1>6. PICK f : f = [i \in At(t, A) |-> i + 1]
    OBVIOUS
  <1>7. At(t, A) \in SUBSET (1..(n - 1))
    BY <1>3 DEF At
  <1>8. ASSUME NEW i \in At(t, A) PROVE f[i] \in T /\ f[i] = i + 1
    <2>1. i \in 1..(n - 1) /\ t[i] \in A
      BY <1>3 DEF At
    <2>2. s[i + 1] \in A /\ i + 1 \in 2..n
      BY <1>3, <2>1
    <2> QED
      BY <1>5, <1>6, <2>2
  <1>9. f \in [At(t, A) -> T]
    BY <1>6, <1>8
  <1>10. \A i, j \in At(t, A) : f[i] = f[j] => i = j
    BY <1>7, <1>8
  <1>11. ASSUME NEW j \in T PROVE \E i \in At(t, A) : f[i] = j
    <2>1. j \in 2..n /\ s[j] \in A
      BY <1>5
    <2>2. PICK i \in 1..(n - 1) : j = i + 1
      BY <2>1
    <2>3. i \in At(t, A)
      BY <1>3, <2>1, <2>2 DEF At
    <2> QED
      BY <1>8, <2>2, <2>3
  <1>12. ExistsBijection(At(t, A), T)
    <2>1. f \in Bijection(At(t, A), T)
      BY <1>9, <1>10, <1>11, Fun_IsBij
    <2> QED
      BY <2>1, Fun_ExistsBij
  <1>13. IsFiniteSet(T) /\ Cardinality(T) = Occ(t, A)
    BY <1>3, <1>12, OccType, FS_Bijection DEF Occ
  <1>14. 1..n = 2..n \cup {1} /\ 1 \notin T
    BY <1>1, <1>5
  <1>15. CASE Head(s) \in A
    <2>1. At(s, A) = T \cup {1}
      BY <1>1, <1>4, <1>5, <1>14, <1>15 DEF At
    <2>2. Cardinality(T \cup {1}) = Cardinality(T) + 1
      BY <1>13, <1>14, FS_AddElement
    <2> QED
      BY <1>2, <1>13, <1>15, <2>1, <2>2 DEF Occ
  <1>16. CASE Head(s) \notin A
    <2>1. At(s, A) = T
      BY <1>1, <1>4, <1>5, <1>14, <1>16 DEF At
    <2> QED
      BY <1>2, <1>13, <1>16, <2>1 DEF Occ
  <1> QED
    BY <1>15, <1>16

\* Elements that are not counted can be added at the end.
LEMMA OccConcat ==
    ASSUME NEW S, NEW s \in Seq(S), NEW u \in Seq(S), NEW A, \A i \in 1..Len(u) : u[i] \notin A
    PROVE  Occ(s \o u, A) = Occ(s, A)
  <1>1. PICK n \in Nat, k \in Nat : n = Len(s) /\ k = Len(u)
    OBVIOUS
  <1>2. PICK t : t = s \o u
    OBVIOUS
  <1>3. /\ Len(t) = n + k /\ \A i \in 1..n : t[i] = s[i] /\ i \in 1..(n + k)
        /\ \A i \in 1..(n + k) : i \in 1..n \/ t[i] \notin A
    <2>1. /\ Len(t) = n + k /\ \A i \in 1..n : t[i] = s[i]
          /\ \A i \in 1..k : t[n + i] = u[i]
      BY <1>1, <1>2, ConcatProperties
    <2>2. ASSUME NEW i \in 1..(n + k), i \notin 1..n PROVE t[i] \notin A
      <3>1. PICK j \in 1..k : i = n + j
        <4>1. i - n \in 1..k /\ i = n + (i - n)
          BY <2>2
        <4> QED
          BY <4>1
      <3> QED
        BY <1>1, <2>1, <3>1
    <2> QED
      BY <2>1, <2>2
  <1>4. At(t, A) = At(s, A)
    BY <1>1, <1>3 DEF At
  <1> QED
    BY <1>2, <1>4 DEF Occ

-----------------------------------------------------------------------------
(* Listening again to targets whose filter did not match                   *)

\* The requests for target t, and what the aggregator counts beyond them.
Asks(t) == {q \in Request : q.t = t}
Owed(s, t) == s.agg.states[t].out - Occ(s.up, Asks(t))

\* s is q after targets were listened to again.
Relistened(s, q) ==
    /\ s \in ClientType
    /\ s.views = q.views /\ s.data = q.data /\ s.on = q.on
    /\ s.state = q.state /\ s.down = q.down /\ s.srv = q.srv /\ s.read = q.read
    /\ s.net = q.net /\ s.exists = q.exists /\ s.backoff = q.backoff /\ s.closes = q.closes
    /\ s.auth = q.auth /\ s.ok = q.ok /\ s.current = q.current
    /\ s.online = q.online /\ s.failures = q.failures /\ s.timer = q.timer
    /\ s.idle => q.idle
    /\ \A t \in Targets : /\ s.agg.states[t].changes = q.agg.states[t].changes
                          /\ Owed(s, t) = Owed(q, t)

\* Relistened is transitive.
LEMMA RelistenedTwice ==
    ASSUME NEW s, NEW p, NEW q, Relistened(s, p), Relistened(p, q)
    PROVE  Relistened(s, q)
  BY DEF Relistened

\* Two requests at the end of a queue.
LEMMA AppendTwo ==
    ASSUME NEW S, NEW s \in Seq(S), NEW a \in S, NEW b \in S
    PROVE  s \o <<a, b>> = Append(Append(s, a), b)
  <1>1. PICK u : u = <<a, b>>
    OBVIOUS
  <1>2. u \in Seq(S) /\ Len(u) = 2 /\ u[1] = a /\ u[2] = b
    BY <1>1
  <1>3. PICK n \in Nat : n = Len(s)
    OBVIOUS
  <1>4. PICK p : p = Append(s, a)
    OBVIOUS
  <1>5. p \in Seq(S) /\ Len(p) = n + 1 /\ p[n + 1] = a /\ \A i \in 1..n : p[i] = s[i]
    BY <1>3, <1>4
  <1>6. PICK t : t = Append(p, b)
    OBVIOUS
  <1>7. t \in Seq(S) /\ Len(t) = n + 2 /\ t[n + 2] = b /\ \A i \in 1..(n + 1) : t[i] = p[i]
    BY <1>5, <1>6
  <1>8. PICK v : v = s \o u
    OBVIOUS
  <1>9. v \in Seq(S) /\ Len(v) = n + 2 /\ (\A i \in 1..n : v[i] = s[i]) /\ v[n + 1] = a /\ v[n + 2] = b
    <2>1. /\ v \in Seq(S) /\ Len(v) = n + Len(u) /\ \A i \in 1..n : v[i] = s[i]
          /\ \A i \in 1..Len(u) : v[n + i] = u[i]
      <3>1. u \in Seq(S)
        BY <1>2
      <3> QED
        BY <1>3, <1>8, <3>1, ConcatProperties
    <2>2. 1 \in 1..2 /\ 2 \in 1..2
      OBVIOUS
    <2> QED
      BY <1>2, <2>1, <2>2
  <1>10. \A i \in 1..(n + 2) : v[i] = t[i]
    <2>1. \A i \in 1..(n + 2) : i \in 1..n \/ i = n + 1 \/ i = n + 2
      OBVIOUS
    <2> QED
      BY <1>5, <1>7, <1>9, <2>1
  <1>11. v = t
    BY <1>7, <1>9, <1>10, SeqEqual
  <1> QED
    BY <1>1, <1>4, <1>6, <1>8, <1>11

\* Requests for target t are counted as they are sent.
LEMMA OwedSent ==
    ASSUME NEW q \in ClientType, NEW s \in ClientType, NEW t \in Targets,
           NEW a \in Asks(t), NEW b \in Asks(t), NEW n \in Nat,
           \/ n = 1 /\ s.up = q.up \o <<a>>
           \/ n = 2 /\ s.up = q.up \o <<a, b>>,
           s.agg = Recorded(q.agg, t, n)
    PROVE  \A x \in Targets : /\ s.agg.states[x].changes = q.agg.states[x].changes
                              /\ Owed(s, x) = Owed(q, x)
  <1>1. PICK g : g = Recorded(q.agg, t, n)
    OBVIOUS
  <1>2. /\ g.states[t].out = q.agg.states[t].out + n
        /\ g.states[t].changes = q.agg.states[t].changes
        /\ \A x \in Targets : x # t => g.states[x] = q.agg.states[x]
    <2>1. PICK z \in Agg : z = q.agg
      BY ClientFields DEF Agg
    <2>2. g = Recorded(z, t, n)
      BY <1>1, <2>1
    <2>3. OnlyCounted(g, z, t, n)
      BY <2>2, RecordedFacts
    <2>4. /\ g.states[t].out = z.states[t].out + n
          /\ g.states[t].changes = z.states[t].changes
          /\ \A x \in Targets : x # t => g.states[x] = z.states[x]
      BY <2>3, Zenon DEF OnlyCounted
    <2> QED
      BY <2>1, <2>4
  <1>3. q.up \in Seq(Request) /\ a \in Request /\ b \in Request
    BY ClientFields DEF Asks
  <1>4. PICK p : p = Append(q.up, a)
    OBVIOUS
  <1>5. /\ p \in Seq(Request)
        /\ \/ n = 1 /\ s.up = p
           \/ n = 2 /\ s.up = Append(p, b)
    BY <1>3, <1>4, AppendTwo, AppendFacts
  <1>6. ASSUME NEW x \in Targets, x # t PROVE Owed(s, x) = Owed(q, x)
    <2>1. a \notin Asks(x) /\ b \notin Asks(x)
      BY <1>6 DEF Asks
    <2>2. Occ(p, Asks(x)) = Occ(q.up, Asks(x))
      BY <1>3, <1>4, <2>1, OccAppend
    <2>3. Occ(s.up, Asks(x)) = Occ(q.up, Asks(x))
      <3>1. Occ(Append(p, b), Asks(x)) = Occ(p, Asks(x))
        BY <1>3, <1>5, <2>1, OccAppend
      <3> QED
        BY <1>5, <2>2, <3>1
    <2> QED
      BY <1>1, <1>2, <1>6, <2>3 DEF Owed
  <1>7. Owed(s, t) = Owed(q, t)
    <2>1. PICK o \in Int : o = q.agg.states[t].out
      BY ClientFields DEF TargetState
    <2>2. PICK k \in Nat : k = Occ(q.up, Asks(t))
      BY <1>3, OccType
    <2>3. Occ(p, Asks(t)) = k + 1
      BY <1>3, <1>4, <2>2, OccAppend
    <2>4. CASE n = 1
      <3>1. Occ(s.up, Asks(t)) = k + 1
        BY <1>5, <2>3, <2>4
      <3>2. (o + 1) - (k + 1) = o - k
        OBVIOUS
      <3> QED
        BY <1>1, <1>2, <2>1, <2>2, <2>4, <3>1, <3>2 DEF Owed
    <2>5. CASE n = 2
      <3>1. Occ(Append(p, b), Asks(t)) = Occ(p, Asks(t)) + 1
        BY <1>3, <1>5, OccAppend
      <3>4. s.up = Append(p, b) /\ (k + 1) + 1 = k + 2
        BY <1>5, <2>5
      <3>2. Occ(s.up, Asks(t)) = k + 2
        BY <2>3, <3>1, <3>4
      <3>3. (o + 2) - (k + 2) = o - k
        OBVIOUS
      <3> QED
        BY <1>1, <1>2, <2>1, <2>2, <2>5, <3>2, <3>3 DEF Owed
    <2> QED
      BY <1>5, <2>4, <2>5
  <1> QED
    BY <1>1, <1>2, <1>6, <1>7

\* Listening again to one target.
LEMMA RelistenFacts ==
    ASSUME NEW q \in ClientType, q.ok, q.exists, IsOpen(q), NEW t \in Targets
    PROVE  Relistened(Relisten(q, t), q)
  <1>1. PICK tokens : tokens = [q.tokens EXCEPT ![t] = 0]
    OBVIOUS
  <1>2. tokens \in [Targets -> Nat] /\ tokens[t] = 0
    BY <1>1, ClientFields
  <1>3. PICK c : c = [q EXCEPT !.tokens = tokens]
    OBVIOUS
  <1>4. c \in ClientType /\ c.tokens = tokens
    BY <1>2, <1>3 DEF ClientType
  <1>5. /\ c.views = q.views /\ c.data = q.data /\ c.on = q.on /\ SameWire(c, q)
        /\ c.net = q.net /\ c.exists = q.exists /\ c.backoff = q.backoff /\ c.closes = q.closes
        /\ c.auth = q.auth /\ c.ok = q.ok /\ c.current = q.current
        /\ c.online = q.online /\ c.failures = q.failures /\ c.timer = q.timer
    BY <1>3 DEF ClientType, SameWire
  <1>6. PICK a, b : a = UnwatchRequest(t) /\ b = WatchRequest(c, t)
    OBVIOUS
  <1>7. a \in Request /\ b \in Request /\ a.t = t /\ b.t = t
    BY <1>2, <1>4, <1>6 DEF UnwatchRequest, WatchRequest, Request
  <1>8. a \in Asks(t) /\ b \in Asks(t)
    BY <1>7 DEF Asks
  <1>9. PICK u : u = <<a, b>>
    OBVIOUS
  <1>10. u \in Seq(Request) /\ u # <<>> /\ Len(u) = 2
    BY <1>9, <1>7
  <1>11. PICK s : s = SendRequests(c, t, u)
    OBVIOUS
  <1>12. Sent(s, c, t, u)
    BY <1>4, <1>5, <1>10, <1>11, SendFacts DEF SameWire, IsOpen
  <1>13. Relisten(q, t) = s
    BY <1>1, <1>3, <1>6, <1>9, <1>11 DEF Relisten
  <1>14. s \in ClientType /\ s.up = q.up \o u /\ s.agg = Recorded(q.agg, t, 2)
    BY <1>5, <1>10, <1>12 DEF Sent, SameWire
  <1>15. \A x \in Targets : /\ s.agg.states[x].changes = q.agg.states[x].changes
                            /\ Owed(s, x) = Owed(q, x)
    <2>1. PICK n \in Nat : /\ n = 2 /\ s.up = q.up \o <<a, b>>
                           /\ s.agg = Recorded(q.agg, t, n)
      BY <1>9, <1>14
    <2>2. q \in ClientType /\ s \in ClientType
      BY <1>14
    <2> QED
      BY <1>8, <2>1, <2>2, OwedSent, Zenon
  <1>16. /\ s.views = q.views /\ s.data = q.data /\ s.on = q.on
         /\ s.state = q.state /\ s.down = q.down /\ s.srv = q.srv /\ s.read = q.read
         /\ s.net = q.net /\ s.exists = q.exists /\ s.backoff = q.backoff
         /\ s.closes = q.closes /\ s.auth = q.auth /\ s.ok = q.ok /\ s.current = q.current
         /\ s.online = q.online /\ s.failures = q.failures /\ s.timer = q.timer
         /\ s.idle = FALSE
    BY <1>5, <1>12 DEF Sent, SameQueries, SameWire
  <1>17. Relistened(s, q)
    BY <1>14, <1>15, <1>16, Zenon DEF Relistened
  <1> QED
    BY <1>13, <1>17

\* Listening again to some targets.
LEMMA RelistenAllFacts ==
    ASSUME NEW q \in ClientType, q.ok, q.exists, IsOpen(q), NEW targets \in SUBSET Targets
    PROVE  /\ Relistened(RelistenAll(q, targets), q)
           /\ targets = {} => RelistenAll(q, targets) = q
  <1>1. PICK n \in Nat : n = NumTargets
    BY TargetAssumption
  <1>2. PICK S : S = {s \in ClientType : Relistened(s, q) /\ (targets = {} => s = q)}
    OBVIOUS
  <1>3. q \in S
    <2>1. Relistened(q, q)
      BY DEF Relistened
    <2> QED
      BY <1>2, <2>1
  <1>4. ASSUME NEW s \in S, NEW i \in Targets, i \in targets PROVE Relisten(s, i) \in S
    <2>1. s \in ClientType /\ Relistened(s, q)
      BY <1>2
    <2>2. s.ok /\ s.exists /\ IsOpen(s)
      BY <2>1 DEF Relistened, IsOpen
    <2>3. PICK p : p = Relisten(s, i)
      OBVIOUS
    <2>4. Relistened(p, s)
      BY <2>1, <2>2, <2>3, RelistenFacts
    <2>5. Relistened(p, q)
      BY <2>1, <2>4, RelistenedTwice
    <2>6. p \in ClientType
      BY <2>4 DEF Relistened
    <2> QED
      BY <1>2, <1>4, <2>3, <2>5, <2>6
  <1>5. PICK F : F = [p \in (1..n) \X S |-> IF p[1] \in targets THEN Relisten(p[2], p[1]) ELSE p[2]]
    OBVIOUS
  <1>6. F \in [(1..n) \X S -> S]
    <2>1. ASSUME NEW p \in (1..n) \X S
          PROVE  (IF p[1] \in targets THEN Relisten(p[2], p[1]) ELSE p[2]) \in S
      <3>1. p[1] \in Targets /\ p[2] \in S
        BY <1>1 DEF Targets
      <3> QED
        BY <1>4, <3>1
    <2> QED
      BY <1>5, <2>1
  <1>7. PICK g : Iterates(g, n, S, q, F)
    BY <1>3, <1>6, IterationExists
  <1>8. g \in [0..n -> S] /\ g[0] = q
    BY <1>7 DEF Iterates
  <1>9. ASSUME NEW i \in 1..n PROVE g[i] = IF i \in targets THEN Relisten(g[i - 1], i) ELSE g[i - 1]
    <2>1. g[i] = F[<<i, g[i - 1]>>] /\ i - 1 \in 0..n
      BY <1>7 DEF Iterates
    <2>2. <<i, g[i - 1]>> \in (1..n) \X S
      BY <1>8, <2>1
    <2> QED
      BY <1>5, <2>1, <2>2
  <1>10. g = [i \in 0..n |-> IF i = 0 THEN q
                             ELSE IF i \in targets THEN Relisten(g[i - 1], i) ELSE g[i - 1]]
    <2>1. ASSUME NEW i \in 0..n
          PROVE  g[i] = IF i = 0 THEN q ELSE IF i \in targets THEN Relisten(g[i - 1], i) ELSE g[i - 1]
      <3>1. i = 0 \/ i \in 1..n
        OBVIOUS
      <3> QED
        BY <1>8, <1>9, <3>1
    <2> QED
      BY <1>8, <2>1
  <1>11. PICK f : f = CHOOSE h : h = [i \in 0..n |-> IF i = 0 THEN q
                             ELSE IF i \in targets THEN Relisten(h[i - 1], i) ELSE h[i - 1]]
    OBVIOUS
  <1>12. RelistenAll(q, targets) = f[n]
    BY <1>1, <1>11 DEF RelistenAll
  <1>13. f = [i \in 0..n |-> IF i = 0 THEN q
                             ELSE IF i \in targets THEN Relisten(f[i - 1], i) ELSE f[i - 1]]
    BY <1>10, <1>11
  <1>14. f[0] = q /\ \A i \in 1..n : f[i] = IF i \in targets THEN Relisten(f[i - 1], i) ELSE f[i - 1]
    <2>1. 0 \in 0..n /\ \A i \in 1..n : i \in 0..n /\ i # 0
      OBVIOUS
    <2> QED
      BY <1>13, <2>1
  <1>15. PICK T : T = {i \in 0..n : f[i] \in S}
    OBVIOUS
  <1>16. 0 \in T
    BY <1>3, <1>14, <1>15
  <1>17. ASSUME NEW i \in 1..n, i - 1 \in T PROVE i \in T
    <2>1. f[i - 1] \in S /\ i \in Targets /\ i \in 0..n
      BY <1>1, <1>15, <1>17 DEF Targets
    <2>2. f[i] \in S
      BY <1>4, <1>14, <2>1
    <2> QED
      BY <1>15, <2>1, <2>2
  <1>18. 0..n \subseteq T
    BY <1>16, <1>17, SetInduction
  <1>19. f[n] \in S
    BY <1>15, <1>18
  <1> QED
    BY <1>2, <1>12, <1>19

-----------------------------------------------------------------------------
(* Timers, credentials, and the end of a call                              *)

\* The backoff timer.
LEMMA BackoffInv ==
    ASSUME NEW q, Core(q), q.backoff
    PROVE  LET s == RestartAfterBackoff(q)
           IN  Core(s) /\ SameQueries(s, q) /\ ~IsOpen(s)
  <1>1. /\ q \in ClientType /\ q.ok /\ q.state = "Backoff" /\ q.closes \notin q.auth
        /\ (\A c \in q.auth : c <= q.closes) /\ q.net /\ ~q.idle /\ q.exists /\ Quiet(q)
        /\ q.online # "Online" /\ (q.timer => q.online = "Unknown" /\ q.failures = 0)
    BY DEF Core, StreamInv, TrackerInv, IsOpen, IsStarted
  <1>2. HardAssert(q, q.state = "Backoff") = q
    BY <1>1, AssertHolds
  <1>3. PICK i : i = [q EXCEPT !.backoff = FALSE, !.state = "Initial"]
    OBVIOUS
  <1>4. i \in ClientType
    BY <1>1, <1>3 DEF ClientType, StreamStates
  <1>5. /\ SameQueries(i, q) /\ i.state = "Initial" /\ i.backoff = FALSE /\ i.net = q.net
        /\ i.exists = q.exists /\ i.idle = q.idle /\ i.closes = q.closes /\ i.auth = q.auth
        /\ i.ok = q.ok /\ i.online = q.online /\ i.failures = q.failures /\ i.timer = q.timer
        /\ i.agg = q.agg /\ i.up = q.up /\ i.down = q.down /\ i.srv = q.srv /\ i.read = q.read
    BY <1>1, <1>3 DEF ClientType, SameQueries
  <1>6. PICK s : s = Start(i)
    OBVIOUS
  <1>7. /\ s \in ClientType /\ SameQueries(s, i)
        /\ s.agg = i.agg /\ s.up = i.up /\ s.down = i.down /\ s.srv = i.srv
        /\ s.read = i.read /\ s.net = i.net /\ s.exists = i.exists /\ s.idle = i.idle
        /\ s.closes = i.closes /\ s.ok = i.ok
        /\ s.online = i.online /\ s.failures = i.failures /\ s.timer = i.timer
        /\ \/ s.state = "Backoff" /\ s.backoff /\ s.auth = i.auth
           \/ s.state = "Starting" /\ s.backoff = i.backoff /\ s.auth = i.auth \cup {i.closes}
    BY <1>1, <1>4, <1>5, <1>6, StartFacts DEF IsStarted
  <1>8. IsStarted(s) /\ ~IsOpen(s) /\ s.ok
    BY <1>1, <1>5, <1>7 DEF IsStarted, IsOpen
  <1>9. HardAssert(s, IsStarted(s)) = s
    BY <1>7, <1>8, AssertHolds DEF IsStarted
  <1>10. RestartAfterBackoff(q) = s
    BY <1>2, <1>3, <1>6, <1>9 DEF RestartAfterBackoff
  <1>11. q.closes \in Nat
    BY <1>1, ClientFields
  <1>12. StreamInv(s)
    BY <1>1, <1>5, <1>7, <1>11 DEF StreamInv, Quiet, IsStarted, IsOpen
  <1>13. TrackerInv(s)
    BY <1>1, <1>5, <1>7, <1>8 DEF TrackerInv
  <1> QED
    BY <1>5, <1>7, <1>8, <1>10, <1>12, <1>13 DEF Core, SameQueries

\* The idle timer.
LEMMA IdleInv ==
    ASSUME NEW q, Core(q), q.idle
    PROVE  LET s == Stop([q EXCEPT !.idle = FALSE])
           IN  Core(s) /\ SameQueries(s, q) /\ ~IsOpen(s)
  <1>1. /\ q \in ClientType /\ q.ok /\ IsOpen(q) /\ q.on = {} /\ \A c \in q.auth : c <= q.closes
        /\ q.online = "Online" => q.failures = 0 /\ ~q.timer
    BY DEF Core, StreamInv, TrackerInv
  <1>2. PICK i : i = [q EXCEPT !.idle = FALSE]
    OBVIOUS
  <1>3. /\ i \in ClientType /\ SameQueries(i, q) /\ i.state = q.state /\ i.ok = q.ok
        /\ i.closes = q.closes /\ i.auth = q.auth
        /\ i.online = q.online /\ i.failures = q.failures /\ i.timer = q.timer
    BY <1>1, <1>2 DEF ClientType, SameQueries
  <1>4. i.ok /\ IsStarted(i) /\ i.on = {}
    BY <1>1, <1>3 DEF IsOpen, IsStarted, SameQueries
  <1>5. PICK s : s = Close(i, "ok")
    OBVIOUS
  <1>6. Core(s) /\ SameQueries(s, i) /\ IsOpen(s) = FALSE
    BY <1>1, <1>3, <1>4, <1>5, CloseInv
  <1> QED
    BY <1>2, <1>3, <1>5, <1>6 DEF Stop, SameQueries

\* The online state timer.
LEMMA TimeoutInv ==
    ASSUME NEW q, Core(q), q.timer
    PROVE  LET s == HandleOnlineStateTimeout(q)
           IN  Core(s) /\ SameQueries(s, q) /\ SameWire(s, q)
  <1>1. q \in ClientType /\ q.ok /\ q.online = "Unknown" /\ StreamInv(q)
    BY DEF Core, TrackerInv
  <1>2. HardAssert(q, q.online = "Unknown") = q
    BY <1>1, AssertHolds
  <1>3. PICK i : i = [q EXCEPT !.timer = FALSE]
    OBVIOUS
  <1>4. i \in ClientType /\ SameStream(i, q) /\ i.timer = FALSE
    BY <1>1, <1>3 DEF ClientType, SameStream, SameQueries, SameWire
  <1>5. PICK s : s = SetAndBroadcast(i, "Offline")
    OBVIOUS
  <1>6. s \in ClientType /\ SameStream(s, i) /\ s.online = "Offline" /\ s.timer = i.timer
    BY <1>4, <1>5, BroadcastFacts DEF OnlineStates
  <1>7. SameStream(s, q)
    BY <1>4, <1>6 DEF SameStream, SameQueries, SameWire
  <1>8. StreamInv(s)
    BY <1>1, <1>7, StreamInvSame
  <1>9. TrackerInv(s) /\ s.ok
    BY <1>1, <1>4, <1>6, <1>7 DEF TrackerInv, SameStream
  <1>10. HandleOnlineStateTimeout(q) = s
    BY <1>2, <1>3, <1>5 DEF HandleOnlineStateTimeout
  <1> QED
    BY <1>6, <1>7, <1>8, <1>9, <1>10 DEF Core, SameStream

\* A token for a stream that was closed since.
LEMMA StaleInv ==
    ASSUME NEW q, Core(q), NEW c \in q.auth, c # q.closes
    PROVE  LET s == [q EXCEPT !.auth = @ \ {c}]
           IN  Core(s) /\ SameQueries(s, q) /\ SameWire(s, q)
  <1>1. q \in ClientType
    BY DEF Core
  <1>2. PICK auth : auth = q.auth \ {c}
    OBVIOUS
  <1>3. auth \in SUBSET Nat
    BY <1>1, <1>2, ClientFields
  <1>4. PICK s : s = [q EXCEPT !.auth = auth]
    OBVIOUS
  <1>5. s \in ClientType
    BY <1>1, <1>3, <1>4 DEF ClientType
  <1>6. /\ SameQueries(s, q) /\ SameWire(s, q) /\ s.auth = auth /\ s.net = q.net
        /\ s.exists = q.exists /\ s.idle = q.idle /\ s.backoff = q.backoff /\ s.closes = q.closes
        /\ s.ok = q.ok /\ s.online = q.online /\ s.failures = q.failures /\ s.timer = q.timer
    BY <1>1, <1>4 DEF ClientType, SameQueries, SameWire
  <1>7. StreamInv(s) /\ TrackerInv(s) /\ s.ok
    BY <1>2, <1>6 DEF Core, StreamInv, TrackerInv, SameQueries, SameWire, Quiet, IsOpen, IsStarted
  <1> QED
    BY <1>2, <1>4, <1>5, <1>6, <1>7 DEF Core

\* An error instead of a token.
LEMMA NoTokenInv ==
    ASSUME NEW q, Core(q), q.closes \in q.auth
    PROVE  LET s == Close([HardAssert(q, q.state = "Starting") EXCEPT !.auth = @ \ {q.closes}], "error")
           IN  Core(s) /\ SameQueries(s, q) /\ ~IsOpen(s)
  <1>1. /\ q \in ClientType /\ q.ok /\ q.state = "Starting" /\ \A c \in q.auth : c <= q.closes
        /\ q.online = "Online" => q.failures = 0 /\ ~q.timer
    BY DEF Core, StreamInv, TrackerInv
  <1>2. HardAssert(q, q.state = "Starting") = q
    BY <1>1, AssertHolds
  <1>3. PICK auth : auth = q.auth \ {q.closes}
    OBVIOUS
  <1>4. auth \in SUBSET Nat
    BY <1>1, <1>3, ClientFields
  <1>5. PICK i : i = [q EXCEPT !.auth = auth]
    OBVIOUS
  <1>6. i \in ClientType
    BY <1>1, <1>4, <1>5 DEF ClientType
  <1>7. /\ SameQueries(i, q) /\ i.state = q.state /\ i.ok = q.ok
        /\ i.closes = q.closes /\ i.auth = auth
        /\ i.online = q.online /\ i.failures = q.failures /\ i.timer = q.timer
    BY <1>1, <1>5 DEF ClientType, SameQueries
  <1>8. i.ok /\ IsStarted(i) /\ \A c \in i.auth : c <= i.closes
    BY <1>1, <1>3, <1>7 DEF IsStarted
  <1>9. PICK s : s = Close(i, "error")
    OBVIOUS
  <1>10. Core(s) /\ SameQueries(s, i) /\ IsOpen(s) = FALSE
    BY <1>1, <1>6, <1>7, <1>8, <1>9, CloseInv
  <1> QED
    BY <1>2, <1>3, <1>5, <1>7, <1>9, <1>10 DEF SameQueries

\* The end of a call.
LEMMA FinishInv ==
    ASSUME NEW q, Core(q), IsOpen(q)
    PROVE  LET s == Close(q, "error")
           IN  Core(s) /\ SameQueries(s, q) /\ ~IsOpen(s)
  <1>1. /\ q \in ClientType /\ q.ok /\ IsStarted(q) /\ \A c \in q.auth : c <= q.closes
        /\ q.online = "Online" => q.failures = 0 /\ ~q.timer
    BY DEF Core, StreamInv, TrackerInv, IsOpen, IsStarted
  <1> QED
    BY <1>1, CloseInv

\* The token of the current attempt: the stream opens and all targets are watched.
LEMMA OpenInv ==
    ASSUME NEW q, Core(q), q.closes \in q.auth
    PROVE  LET s == WatchAll([HardAssert(q, q.state = "Starting") EXCEPT
                                !.auth = @ \ {q.closes}, !.state = "Open"])
           IN  /\ Core(s) /\ SameQueries(s, q) /\ IsOpen(s)
               /\ s.down = <<>> /\ s.srv = NothingWatched /\ s.read = 0
               /\ WatchesAll(s.up, s) /\ s.agg.resets = {}
               /\ \A t \in Targets : s.agg.states[t] =
                    IF t \in s.on THEN RecordPendingTargetRequests(NewTargetState, 1)
                                  ELSE NewTargetState
  <1>1. /\ q \in ClientType /\ q.ok /\ q.state = "Starting" /\ (\A c \in q.auth : c <= q.closes)
        /\ q.net /\ ~q.idle /\ ~q.backoff /\ q.exists /\ Quiet(q)
        /\ q.online # "Online" /\ (q.timer => q.online = "Unknown" /\ q.failures = 0)
    BY DEF Core, StreamInv, TrackerInv, IsOpen, IsStarted
  <1>2. HardAssert(q, q.state = "Starting") = q
    BY <1>1, AssertHolds
  <1>3. PICK auth : auth = q.auth \ {q.closes}
    OBVIOUS
  <1>4. auth \in SUBSET Nat
    BY <1>1, <1>3, ClientFields
  <1>5. PICK i : i = [q EXCEPT !.auth = auth, !.state = "Open"]
    OBVIOUS
  <1>6. i \in ClientType
    BY <1>1, <1>4, <1>5 DEF ClientType, StreamStates
  <1>7. /\ SameQueries(i, q) /\ i.state = "Open" /\ i.ok = q.ok /\ i.net = q.net
        /\ i.closes = q.closes /\ i.auth = auth /\ i.exists = q.exists /\ i.idle = q.idle
        /\ i.backoff = q.backoff /\ Quiet(i)
        /\ i.online = q.online /\ i.failures = q.failures /\ i.timer = q.timer
    BY <1>1, <1>5 DEF ClientType, SameQueries, Quiet
  <1>8. PICK s : s = WatchAll(i)
    OBVIOUS
  <1>9. /\ s \in ClientType /\ SameQueries(s, i)
        /\ s.agg.resets = i.agg.resets
        /\ \A t \in Targets : s.agg.states[t] =
              IF t \in i.on THEN RecordPendingTargetRequests(i.agg.states[t], 1)
                            ELSE i.agg.states[t]
        /\ s.idle => i.idle /\ i.on = {}
        /\ s.state = i.state /\ s.down = i.down /\ s.srv = i.srv /\ s.read = i.read
        /\ s.net = i.net /\ s.exists = i.exists /\ s.backoff = i.backoff
        /\ s.closes = i.closes /\ s.auth = i.auth /\ s.ok = i.ok
        /\ s.online = i.online /\ s.failures = i.failures /\ s.timer = i.timer
        /\ \E u \in Seq(Request) : s.up = i.up \o u /\ WatchesAll(u, i)
    <2>1. i.ok /\ i.exists /\ IsOpen(i)
      BY <1>1, <1>7 DEF IsOpen
    <2> QED
      BY <1>6, <1>8, <2>1, WatchAllFacts, Zenon
  <1>10. StreamInv(s) /\ TrackerInv(s) /\ s.ok /\ IsOpen(s)
    BY <1>1, <1>3, <1>7, <1>9 DEF StreamInv, TrackerInv, IsOpen, IsStarted
  <1>11. \A t \in Targets : s.agg.states[t] =
            IF t \in s.on THEN RecordPendingTargetRequests(NewTargetState, 1) ELSE NewTargetState
    <2>1. \A t \in Targets : i.agg.states[t] = NewTargetState
      BY <1>7 DEF Quiet, NewAggregator
    <2> QED
      BY <1>9, <2>1 DEF SameQueries
  <1>12. WatchesAll(s.up, s)
    <2>1. PICK u \in Seq(Request) : s.up = i.up \o u /\ WatchesAll(u, i)
      BY <1>9
    <2>2. s.up = u
      BY <1>7, <2>1 DEF Quiet
    <2> QED
      BY <1>9, <2>1, <2>2 DEF WatchesAll, WatchRequest, SameQueries
  <1>13. s.down = <<>> /\ s.srv = NothingWatched /\ s.read = 0 /\ s.agg.resets = {}
    BY <1>7, <1>9 DEF Quiet, NewAggregator
  <1>14. SameQueries(s, q)
    BY <1>7, <1>9 DEF SameQueries
  <1>15. WatchAll([HardAssert(q, q.state = "Starting") EXCEPT
                     !.auth = @ \ {q.closes}, !.state = "Open"]) = s
    BY <1>2, <1>3, <1>5, <1>8
  <1>16. Core(s)
    BY <1>9, <1>10 DEF Core
  <1> QED
    BY <1>10, <1>11, <1>12, <1>13, <1>14, <1>15, <1>16

-----------------------------------------------------------------------------
(* The invariant                                                           *)

\* Every response makes sense.
DownInv(s) == \A i \in 1..Len(s.down) : Sound(s.down[i])

\* The changes that wait for a snapshot make sense for what is cached.
FitsCache(s, c) == \A t \in Targets : Fits(s.agg.states[t], c[t].keys)

\* What holds whatever the backend does.
WatchInv ==
    /\ WatchTypeOK /\ Core(r) /\ r.on = r.views
    /\ DownInv(r) /\ FitsCache(r, cache) /\ history # <<>>

\* The variables other than r have their types.
LEMMA WatchFields ==
    ASSUME WatchInv
    PROVE  /\ cache \in [Targets -> [keys : SUBSET Docs, token : Nat]]
           /\ last \in Nat /\ history \in Seq([Targets -> SUBSET Docs]) /\ history # <<>>
           /\ listens \in Nat /\ faults \in Nat /\ Core(r) /\ r \in ClientType /\ r.on = r.views
           /\ DownInv(r) /\ FitsCache(r, cache)
  BY DEF WatchInv, WatchTypeOK

\* The first response, and the others.
LEMMA SoundTail ==
    ASSUME NEW q \in ClientType, q.down # <<>>, DownInv(q)
    PROVE  /\ Head(q.down) \in Response /\ Sound(Head(q.down)) /\ Tail(q.down) \in Seq(Response)
           /\ \A i \in 1..Len(Tail(q.down)) : Sound(Tail(q.down)[i])
  <1>1. q.down \in Seq(Response)
    BY ClientFields
  <1>2. PICK n \in Nat : n = Len(q.down) /\ n > 0
    BY <1>1, EmptySeq
  <1>3. PICK d : d = q.down
    OBVIOUS
  <1>4. PICK u : u = Tail(d)
    OBVIOUS
  <1>5. u \in Seq(Response) /\ Len(u) = n - 1 /\ \A i \in 1..(n - 1) : u[i] = d[i + 1]
    BY <1>1, <1>2, <1>3, <1>4
  <1>6. Head(d) = d[1] /\ 1 \in 1..n /\ d[1] \in Response
    BY <1>1, <1>2, <1>3
  <1>7. \A i \in 1..n : Sound(d[i])
    BY <1>2, <1>3 DEF DownInv
  <1>8. \A i \in 1..(n - 1) : i + 1 \in 1..n
    BY <1>2
  <1>9. \A i \in 1..(n - 1) : Sound(u[i])
    BY <1>5, <1>7, <1>8
  <1> QED
    BY <1>3, <1>4, <1>5, <1>6, <1>7, <1>9

\* Reading a response.
LEMMA ReadFacts ==
    ASSUME Core(r), r.down # <<>>
    PROVE  LET q == ReadResponse
           IN  /\ Core(q) /\ IsOpen(q) /\ IsOpen(r) /\ SameQueries(q, r)
               /\ q.down = Tail(r.down) /\ q.agg = r.agg /\ q.up = r.up /\ q.srv = r.srv
               /\ q.read = r.read /\ q.exists /\ r.exists
  <1>1. /\ r \in ClientType /\ r.ok /\ StreamInv(r) /\ r.down \in Seq(Response)
    BY ClientFields DEF Core
  <1>2. IsOpen(r) /\ r.exists
    BY <1>1 DEF StreamInv, Quiet, IsOpen, IsStarted
  <1>3. PICK d : d = Tail(r.down)
    OBVIOUS
  <1>4. d \in Seq(Response)
    BY <1>1, <1>3
  <1>5. PICK m : m = [r EXCEPT !.down = d]
    OBVIOUS
  <1>6. m \in ClientType
    BY <1>1, <1>4, <1>5 DEF ClientType
  <1>7. /\ SameQueries(m, r) /\ m.down = d /\ m.agg = r.agg /\ m.up = r.up /\ m.srv = r.srv
        /\ m.read = r.read /\ m.exists = r.exists /\ m.state = r.state /\ m.net = r.net
        /\ m.idle = r.idle /\ m.backoff = r.backoff /\ m.closes = r.closes /\ m.auth = r.auth
        /\ m.ok = r.ok
    BY <1>1, <1>5 DEF ClientType, SameQueries
  <1>8. StreamInv(m) /\ m.ok /\ IsOpen(m)
    BY <1>1, <1>2, <1>7 DEF StreamInv, SameQueries, IsOpen, IsStarted
  <1>9. PICK q : q = UpdateState(m, "Online")
    OBVIOUS
  <1>10. Core(q) /\ SameStream(q, m)
    BY <1>6, <1>8, <1>9, UpdateStateCore DEF OnlineStates
  <1>11. ReadResponse = q
    BY <1>3, <1>5, <1>9 DEF ReadResponse
  <1> QED
    BY <1>2, <1>3, <1>7, <1>8, <1>10, <1>11 DEF SameStream, SameQueries, SameWire, IsOpen

\* The aggregator of an open stream may change.
LEMMA AggCore ==
    ASSUME NEW q, Core(q), IsOpen(q), NEW a \in Agg
    PROVE  LET s == [q EXCEPT !.agg = a]
           IN  /\ Core(s) /\ IsOpen(s) /\ SameQueries(s, q) /\ s.agg = a
               /\ s.up = q.up /\ s.down = q.down /\ s.srv = q.srv /\ s.read = q.read
               /\ s.exists = q.exists
  <1>1. q \in ClientType
    BY DEF Core
  <1>2. PICK s : s = [q EXCEPT !.agg = a]
    OBVIOUS
  <1>3. s \in ClientType
    BY <1>1, <1>2 DEF ClientType, Agg
  <1>4. /\ SameQueries(s, q) /\ s.agg = a
        /\ s.up = q.up /\ s.down = q.down /\ s.srv = q.srv /\ s.read = q.read
        /\ s.exists = q.exists /\ s.state = q.state /\ s.net = q.net
        /\ s.idle = q.idle /\ s.backoff = q.backoff /\ s.closes = q.closes /\ s.auth = q.auth
        /\ s.ok = q.ok /\ s.online = q.online /\ s.failures = q.failures /\ s.timer = q.timer
    BY <1>1, <1>2 DEF ClientType, SameQueries
  <1>5. Core(s) /\ IsOpen(s)
    BY <1>3, <1>4 DEF Core, StreamInv, TrackerInv, SameQueries, IsOpen, IsStarted
  <1> QED
    BY <1>2, <1>4, <1>5

\* A target or document change is read.
LEMMA ChangeFacts ==
    ASSUME WatchInv, OnTargetOrDocumentChange
    PROVE  /\ Core(r') /\ IsOpen(r) /\ IsOpen(r') /\ SameQueries(r', r)
           /\ r'.agg = Aggregate(r.agg, Head(r.down)) /\ r'.down = Tail(r.down)
           /\ r'.up = r.up /\ r'.srv = r.srv /\ r'.read = r.read
           /\ r.agg \in Agg /\ r'.agg \in Agg
           /\ LET m == Head(r.down)
              IN  /\ m \in Response /\ Sound(m) /\ m.kind \notin {"rejected", "snapshot"}
                  /\ Changed(r'.agg.states[m.t], r.agg.states[m.t], m.t, m)
                  /\ \A u \in Targets : u # m.t => r'.agg.states[u] = r.agg.states[u]
                  /\ m.kind # "filter" => r'.agg.resets = r.agg.resets
  <1>1. /\ Core(r) /\ r \in ClientType /\ DownInv(r) /\ FitsCache(r, cache)
        /\ cache \in [Targets -> [keys : SUBSET Docs, token : Nat]]
    BY WatchFields
  <1>2. PICK m \in Response : m = Head(r.down) /\ Sound(m) /\ m.kind \notin {"rejected", "snapshot"}
    BY <1>1, SoundTail DEF OnTargetOrDocumentChange
  <1>3. PICK q : q = ReadResponse
    OBVIOUS
  <1>4. /\ Core(q) /\ IsOpen(q) /\ IsOpen(r) /\ SameQueries(q, r)
        /\ q.down = Tail(r.down) /\ q.agg = r.agg /\ q.up = r.up /\ q.srv = r.srv
        /\ q.read = r.read /\ q.exists /\ r.exists
    BY <1>1, <1>3, ReadFacts DEF OnTargetOrDocumentChange
  <1>5. HardAssert(q, r.exists) = q
    BY <1>1, <1>4, AssertHolds, ClientFields DEF Core
  <1>6. PICK a \in Agg : a = r.agg
    BY <1>1, ClientFields DEF Agg
  <1>7. PICK b : b = Aggregate(a, m)
    OBVIOUS
  <1>8. \A u \in Targets : Fits(a.states[u], cache[u].keys)
    BY <1>1, <1>6 DEF FitsCache
  <1>9. /\ b \in Agg /\ Changed(b.states[m.t], a.states[m.t], m.t, m)
        /\ \A u \in Targets : u # m.t => b.states[u] = a.states[u]
        /\ m.kind # "filter" => b.resets = a.resets
    BY <1>1, <1>2, <1>7, <1>8, AggregateFacts
  <1>10. PICK s : s = [q EXCEPT !.agg = b]
    OBVIOUS
  <1>11. /\ Core(s) /\ IsOpen(s) /\ SameQueries(s, q) /\ s.agg = b
         /\ s.up = q.up /\ s.down = q.down /\ s.srv = q.srv /\ s.read = q.read
    BY <1>4, <1>9, <1>10, AggCore
  <1>12. r' = s
    BY <1>2, <1>3, <1>4, <1>5, <1>6, <1>7, <1>10 DEF OnTargetOrDocumentChange
  <1> QED
    BY <1>2, <1>4, <1>6, <1>7, <1>9, <1>11, <1>12 DEF SameQueries

-----------------------------------------------------------------------------
(* Snapshots                                                               *)

\* The target state y has the documents and the count of x.
SameDocs(y, x) ==
    y \in TargetState /\ y.here = x.here /\ y.out = x.out /\ y.changes = x.changes

\* HandleNoChange() gives the active targets a new token.
LEMMA NoChangeFacts ==
    ASSUME NEW a \in Agg, NEW on \in SUBSET Targets, NEW v \in Nat
    PROVE  LET b == HandleNoChange(a, on, v)
           IN  /\ b \in Agg /\ b.resets = a.resets
               /\ \A t \in Targets : SameDocs(b.states[t], a.states[t])
               /\ v # 0 => \A t \in ChangedTargets(b, on) : b.states[t].token = v
  <1>1. PICK f : f = [t \in Targets |->
            IF a.states[t].here /\ IsActiveTarget(a, on, t)
            THEN UpdateResumeToken(a.states[t], v) ELSE a.states[t]]
    OBVIOUS
  <1>2. PICK b : b = [a EXCEPT !.states = f]
    OBVIOUS
  <1>3. HandleNoChange(a, on, v) = b
    BY <1>1, <1>2 DEF HandleNoChange
  <1>4. ASSUME NEW t \in Targets
        PROVE  /\ SameDocs(f[t], a.states[t])
               /\ v # 0 /\ a.states[t].here /\ IsActiveTarget(a, on, t) => f[t].token = v
    <2>1. PICK x \in TargetState : x = a.states[t]
      BY DEF Agg
    <2>2. PICK z : z = UpdateResumeToken(x, v)
      OBVIOUS
    <2>3. /\ z \in TargetState /\ z.here = x.here /\ z.out = x.out /\ z.changes = x.changes
          /\ v # 0 => z.token = v
      BY <2>2 DEF TargetState, UpdateResumeToken
    <2>4. f[t] = IF x.here /\ IsActiveTarget(a, on, t) THEN z ELSE x
      BY <1>1, <2>1, <2>2
    <2> QED
      BY <2>1, <2>3, <2>4 DEF SameDocs
  <1>5. f \in [Targets -> TargetState]
    BY <1>1, <1>4 DEF SameDocs
  <1>6. b \in Agg /\ b.resets = a.resets /\ b.states = f
    BY <1>2, <1>5 DEF Agg
  <1>7. ASSUME NEW t \in ChangedTargets(b, on), v # 0 PROVE b.states[t].token = v
    <2>1. t \in Targets /\ b.states[t].here /\ IsActiveTarget(b, on, t)
      BY DEF ChangedTargets
    <2>2. a.states[t].here /\ IsActiveTarget(a, on, t)
      BY <1>4, <1>6, <2>1 DEF SameDocs, IsActiveTarget, IsPending
    <2> QED
      BY <1>4, <1>6, <1>7, <2>1, <2>2
  <1> QED
    BY <1>3, <1>4, <1>6, <1>7

\* CreateRemoteEvent() clears the changes of the targets in the event.
LEMMA ClearAfterFacts ==
    ASSUME NEW a \in Agg, NEW on \in SUBSET Targets
    PROVE  LET b == ClearAfterEvent(a, on)
           IN  /\ b \in Agg /\ b.resets = {}
               /\ \A t \in Targets : b.states[t] = IF t \in ChangedTargets(a, on)
                                                   THEN ClearPendingChanges(a.states[t])
                                                   ELSE a.states[t]
  <1>1. PICK f : f = [t \in Targets |-> IF t \in ChangedTargets(a, on)
                                        THEN ClearPendingChanges(a.states[t]) ELSE a.states[t]]
    OBVIOUS
  <1>2. ASSUME NEW t \in Targets PROVE f[t] \in TargetState
    <2>1. PICK x \in TargetState : x = a.states[t]
      BY DEF Agg
    <2>2. ClearPendingChanges(x) \in TargetState
      BY ClearedFacts
    <2> QED
      BY <1>1, <2>1, <2>2
  <1>3. f \in [Targets -> TargetState]
    BY <1>1, <1>2
  <1>4. PICK b : b = [states |-> f, resets |-> {}]
    OBVIOUS
  <1>5. b \in Agg /\ b.resets = {} /\ b.states = f
    BY <1>3, <1>4 DEF Agg
  <1>6. ClearAfterEvent(a, on) = b
    BY <1>1, <1>4 DEF ClearAfterEvent
  <1> QED
    BY <1>1, <1>5, <1>6

\* The cache after the event that the aggregator b makes of a snapshot, for
\* target data with the tokens data.
Stored(b, data, t) ==
    LET change == ToTargetChange(b.states[t])
    IN  IF t \notin ChangedTargets(b, r.on) THEN cache[t]
        ELSE [keys  |-> (cache[t].keys \ change.removed) \cup change.added,
              token |-> IF /\ change.token # 0
                           /\ ShouldPersistTargetData(change.token, data[t], change)
                        THEN change.token ELSE cache[t].token]

\* The documents that are stored for a target are those that the aggregator
\* made of it, and its new state has no changes.
LEMMA StoredFacts ==
    ASSUME NEW b \in Agg, NEW data \in [Targets -> Nat], NEW t \in Targets, WatchInv,
           Fits(b.states[t], cache[t].keys)
    PROVE  LET c == Stored(b, data, t)
               y == ClearAfterEvent(b, r.on).states[t]
           IN  /\ c \in [keys : SUBSET Docs, token : Nat]
               /\ Fits(y, c.keys) /\ y.here = b.states[t].here /\ y.out = b.states[t].out
               /\ Result(y, c.keys) = Result(b.states[t], cache[t].keys)
               /\ t \in ChangedTargets(b, r.on) =>
                    /\ c.keys = Result(b.states[t], cache[t].keys)
                    /\ \/ c.token = b.states[t].token
                       \/ c.token = cache[t].token /\ (c.keys = cache[t].keys \/ b.states[t].token = 0)
  <1>1. PICK x \in TargetState : x = b.states[t]
    BY DEF Agg
  <1>2. PICK e \in [keys : SUBSET Docs, token : Nat] : e = cache[t]
    BY WatchFields
  <1>3. e.keys \in SUBSET Docs /\ e.token \in Nat /\ x.token \in Nat
    BY DEF TargetState
  <1>4. r.on \in SUBSET Targets
    BY WatchFields, ClientFields
  <1>5. PICK y : y = ClearAfterEvent(b, r.on).states[t]
    OBVIOUS
  <1>6. y = IF t \in ChangedTargets(b, r.on) THEN ClearPendingChanges(x) ELSE x
    BY <1>1, <1>4, <1>5, ClearAfterFacts
  <1>7. PICK c : c = Stored(b, data, t)
    OBVIOUS
  <1>8. CASE t \notin ChangedTargets(b, r.on)
    <2>1. c = e /\ y = x
      BY <1>2, <1>6, <1>7, <1>8 DEF Stored
    <2> QED
      BY <1>1, <1>2, <1>3, <1>5, <1>7, <1>8, <2>1
  <1>9. CASE t \in ChangedTargets(b, r.on)
    <2>1. PICK k : k = Result(x, e.keys)
      OBVIOUS
    <2>2. k \in SUBSET Docs
      BY <1>3, <2>1 DEF Result, DocumentsOf
    <2>3. PICK change : change = ToTargetChange(x)
      OBVIOUS
    <2>4. /\ change.removed = DocumentsOf(x, "removed") /\ change.added = DocumentsOf(x, "added")
          /\ change.token = x.token
      BY <2>3 DEF ToTargetChange
    <2>5. PICK n : n = IF change.token # 0 /\ ShouldPersistTargetData(change.token, data[t], change)
                       THEN change.token ELSE e.token
      OBVIOUS
    <2>6. n \in Nat
      BY <1>3, <2>4, <2>5
    <2>7. c = [keys |-> k, token |-> n]
      BY <1>1, <1>2, <1>7, <1>9, <2>1, <2>3, <2>4, <2>5 DEF Stored, Result
    <2>8. c \in [keys : SUBSET Docs, token : Nat] /\ c.keys = k /\ c.token = n
      BY <2>2, <2>6, <2>7
    <2>9. /\ Fits(y, k) /\ y.here = x.here /\ y.out = x.out /\ Result(y, k) = k
      BY <1>6, <1>9, <2>2, ClearedFacts
    <2>10. n = x.token \/ (n = e.token /\ (k = e.keys \/ x.token = 0))
      <3>1. CASE ~ShouldPersistTargetData(change.token, data[t], change)
        <4>1. change.added = {} /\ change.removed = {}
          BY <3>1 DEF ShouldPersistTargetData
        <4>2. k = e.keys
          BY <2>1, <2>4, <4>1 DEF Result
        <4> QED
          BY <2>4, <2>5, <3>1, <4>2
      <3>2. CASE ShouldPersistTargetData(change.token, data[t], change)
        BY <2>4, <2>5, <3>2
      <3> QED
        BY <3>1, <3>2
    <2> QED
      BY <1>1, <1>2, <1>5, <1>7, <2>1, <2>8, <2>9, <2>10
  <1> QED
    BY <1>8, <1>9

\* Target t is as it was, or it is up to date with version v.
Untouched(t) == cache'[t] = cache[t] /\ r'.tokens[t] = r.tokens[t] /\ r'.data[t] = r.data[t]

Renewed(t, v) ==
    /\ t \in r.on /\ r.agg.states[t].out = 0 /\ r'.tokens[t] = v /\ r'.data[t] = v
    /\ cache'[t].keys = Result(r.agg.states[t], cache[t].keys)
    /\ \/ cache'[t].token = v
       \/ cache'[t].token = cache[t].token /\ cache'[t].keys = cache[t].keys

\* What a snapshot with version v does.
Snapshotted(v) ==
    /\ Core(r') /\ IsOpen(r) /\ IsOpen(r') /\ r'.views = r.views /\ r'.on = r.on
    /\ r'.down = Tail(r.down) /\ r'.srv = r.srv /\ r'.read = r.read
    /\ cache' \in [Targets -> [keys : SUBSET Docs, token : Nat]] /\ last' \in Nat
    /\ FitsCache(r', cache')
    /\ \A t \in Targets : Owed(r', t) = Owed(r, t)
    /\ r.agg.resets = {} =>
         /\ r'.up = r.up /\ r'.agg.resets = {}
         /\ \A t \in Targets :
              /\ r'.agg.states[t].out = r.agg.states[t].out
              /\ r'.agg.states[t].here = r.agg.states[t].here
              /\ Result(r'.agg.states[t], cache'[t].keys) = Result(r.agg.states[t], cache[t].keys)
              /\ v # 0 => Renewed(t, v) \/ Untouched(t)

\* Listening again keeps an open stream in order.
LEMMA RelistenedCore ==
    ASSUME NEW s, NEW q, Core(q), IsOpen(q), Relistened(s, q)
    PROVE  Core(s) /\ IsOpen(s)
  BY DEF Relistened, Core, StreamInv, TrackerInv, IsOpen, IsStarted

\* A snapshot is read.
LEMMA SnapshotFacts ==
    ASSUME WatchInv, OnSnapshot
    PROVE  Snapshotted(Head(r.down).v)
  <1>1. /\ Core(r) /\ r \in ClientType /\ DownInv(r) /\ FitsCache(r, cache) /\ last \in Nat
        /\ cache \in [Targets -> [keys : SUBSET Docs, token : Nat]]
    BY WatchFields
  <1>2. Head(r.down) \in Response
    BY <1>1, SoundTail DEF OnSnapshot
  <1>3. PICK v \in Nat : v = Head(r.down).v
    BY <1>2 DEF Response
  <1>4. PICK q : q = ReadResponse
    OBVIOUS
  <1>5. /\ Core(q) /\ IsOpen(q) /\ IsOpen(r) /\ SameQueries(q, r)
        /\ q.down = Tail(r.down) /\ q.agg = r.agg /\ q.up = r.up /\ q.srv = r.srv
        /\ q.read = r.read /\ q.exists /\ r.exists
    BY <1>1, <1>4, ReadFacts DEF OnSnapshot
  <1>6. HardAssert(q, r.exists) = q
    BY <1>1, <1>5, AssertHolds, ClientFields DEF Core
  <1>7. PICK a \in Agg : a = r.agg
    BY <1>1, ClientFields DEF Agg
  <1>8. r.on \in SUBSET Targets
    BY <1>1, ClientFields
  <1>9. PICK b : b = HandleNoChange(a, r.on, v)
    OBVIOUS
  <1>10. /\ b \in Agg /\ b.resets = a.resets
         /\ \A t \in Targets : SameDocs(b.states[t], a.states[t])
         /\ v # 0 => \A t \in ChangedTargets(b, r.on) : b.states[t].token = v
    BY <1>8, <1>9, NoChangeFacts
  <1>11. PICK s : s = [q EXCEPT !.agg = b]
    OBVIOUS
  <1>12. /\ Core(s) /\ IsOpen(s) /\ SameQueries(s, q) /\ s.agg = b
         /\ s.up = q.up /\ s.down = q.down /\ s.srv = q.srv /\ s.read = q.read
    BY <1>5, <1>10, <1>11, AggCore
  <1>13. [HardAssert(ReadResponse, r.exists) EXCEPT !.agg = HandleNoChange(@, r.on, Head(r.down).v)] = s
    BY <1>3, <1>4, <1>5, <1>6, <1>7, <1>9, <1>11
  <1>14. \A t \in Targets : /\ Fits(b.states[t], cache[t].keys)
                            /\ Result(b.states[t], cache[t].keys) = Result(a.states[t], cache[t].keys)
                            /\ b.states[t].out = a.states[t].out /\ b.states[t].here = a.states[t].here
    BY <1>1, <1>7, <1>10 DEF FitsCache, Fits, Result, DocumentsOf, SameDocs
  <1>15. CASE ~(v >= last)
    <2>1. r' = s /\ cache' = cache /\ last' = last
      BY <1>3, <1>13, <1>15 DEF OnSnapshot
    <2>2. FitsCache(r', cache')
      BY <1>12, <1>14, <2>1 DEF FitsCache
    <2>3. \A t \in Targets : Owed(r', t) = Owed(r, t)
      BY <1>5, <1>7, <1>12, <1>14, <2>1 DEF Owed
    <2>4. \A t \in Targets : Untouched(t)
      BY <1>5, <1>12, <2>1 DEF Untouched, SameQueries
    <2> QED
      BY <1>1, <1>3, <1>5, <1>7, <1>10, <1>12, <1>14, <2>1, <2>2, <2>3, <2>4
         DEF Snapshotted, SameQueries
  <1>16. CASE v >= last
    <2>1. RaiseWatchSnapshot(s, v)
      BY <1>3, <1>13, <1>16 DEF OnSnapshot
    <2>2. s \in ClientType /\ s.ok /\ s.on = r.on /\ s.data = r.data /\ s.tokens = r.tokens
      BY <1>5, <1>12 DEF Core, SameQueries
    <2>3. s.data \in [Targets -> Nat] /\ s.tokens \in [Targets -> Nat] /\ s.current \in [Targets -> BOOLEAN]
      BY <2>2, ClientFields
    <2>4. PICK C : C = ChangedTargets(b, r.on)
      OBVIOUS
    <2>5. PICK change : change = [t \in Targets |-> ToTargetChange(b.states[t])]
      OBVIOUS
    <2>6. ASSUME NEW t \in Targets
          PROVE  /\ change[t].token \in Nat /\ change[t].token = b.states[t].token
                 /\ change[t].current \in BOOLEAN
                 /\ change[t].modified = DocumentsOf(b.states[t], "modified")
      <3>1. PICK x \in TargetState : x = b.states[t]
        BY <1>10 DEF Agg
      <3>2. change[t] = ToTargetChange(x)
        BY <2>5, <3>1
      <3> QED
        BY <3>1, <3>2 DEF ToTargetChange, TargetState
    <2>7. \A t \in C : t \in Targets /\ t \in r.on /\ b.states[t].out = 0
      BY <2>4 DEF ChangedTargets, IsActiveTarget, IsPending
    <2>8. PICK R : R = {t \in C : change[t].token # 0}
      OBVIOUS
    <2>9. PICK tokens : tokens = [t \in Targets |-> IF t \in R THEN change[t].token ELSE s.tokens[t]]
      OBVIOUS
    <2>10. PICK data : data = [t \in Targets |-> IF t \in R THEN change[t].token ELSE s.data[t]]
      OBVIOUS
    <2>11. PICK current : current = [t \in Targets |-> IF t \in C THEN change[t].current
                                                                  ELSE s.current[t]]
      OBVIOUS
    <2>12. tokens \in [Targets -> Nat] /\ data \in [Targets -> Nat] /\ current \in [Targets -> BOOLEAN]
      BY <2>3, <2>6, <2>9, <2>10, <2>11
    <2>13. \A t \in C : change[t].modified \subseteq cache[t].keys
      BY <1>14, <2>6, <2>7 DEF Fits, DocumentsOf
    <2>14. HardAssert(s, v >= last /\ \A t \in C : change[t].modified \subseteq cache[t].keys) = s
      BY <1>16, <2>2, <2>13, AssertHolds
    <2>15. PICK e : e = ClearAfterEvent(b, r.on)
      OBVIOUS
    <2>16. e \in Agg /\ e.resets = {}
      BY <1>8, <1>10, <2>15, ClearAfterFacts
    <2>17. PICK p : p = [s EXCEPT !.agg = e, !.tokens = tokens, !.data = data, !.current = current]
      OBVIOUS
    <2>18. /\ Core(p) /\ IsOpen(p) /\ p.views = s.views /\ p.on = s.on
           /\ p.agg = e /\ p.tokens = tokens /\ p.data = data
           /\ p.up = s.up /\ p.down = s.down /\ p.srv = s.srv /\ p.read = s.read
           /\ p.exists /\ p \in ClientType /\ p.ok
      <3>1. p \in ClientType
        BY <2>2, <2>12, <2>16, <2>17 DEF ClientType, Agg
      <3>2. /\ p.views = s.views /\ p.on = s.on /\ p.agg = e /\ p.tokens = tokens /\ p.data = data
            /\ p.up = s.up /\ p.down = s.down /\ p.srv = s.srv /\ p.read = s.read
            /\ p.exists = s.exists /\ p.state = s.state /\ p.net = s.net
            /\ p.idle = s.idle /\ p.backoff = s.backoff /\ p.closes = s.closes /\ p.auth = s.auth
            /\ p.ok = s.ok /\ p.online = s.online /\ p.failures = s.failures /\ p.timer = s.timer
        BY <2>2, <2>17 DEF ClientType
      <3>3. Core(p) /\ IsOpen(p) /\ p.exists /\ p.ok
        BY <1>12, <3>1, <3>2 DEF Core, StreamInv, TrackerInv, IsOpen, IsStarted
      <3> QED
        BY <3>1, <3>2, <3>3
    <2>19. PICK D \in SUBSET Targets : D = b.resets \cap r.on
      BY <1>8
    <2>20. r' = RelistenAll(p, D) /\ last' = v
      <3>1. r' = RelistenAll(
                  [HardAssert(s, /\ v >= last
                                 /\ \A t \in C : change[t].modified \subseteq cache[t].keys)
                   EXCEPT
                     !.agg = ClearAfterEvent(@, s.on),
                     !.tokens = [t \in Targets |-> IF t \in R THEN change[t].token ELSE @[t]],
                     !.data = [t \in Targets |-> IF t \in R THEN change[t].token ELSE @[t]],
                     !.current = [t \in Targets |-> IF t \in C THEN change[t].current ELSE @[t]]],
                  s.agg.resets \cap s.on) /\ last' = v
        BY <1>12, <2>1, <2>2, <2>4, <2>5, <2>8, ZenonT(40) DEF RaiseWatchSnapshot
      <3>2. [s EXCEPT
                     !.agg = ClearAfterEvent(@, s.on),
                     !.tokens = [t \in Targets |-> IF t \in R THEN change[t].token ELSE @[t]],
                     !.data = [t \in Targets |-> IF t \in R THEN change[t].token ELSE @[t]],
                     !.current = [t \in Targets |-> IF t \in C THEN change[t].current ELSE @[t]]] = p
        BY <1>12, <2>2, <2>9, <2>10, <2>11, <2>15, <2>17
      <3> QED
        BY <1>12, <2>2, <2>14, <2>19, <3>1, <3>2
    <2>29. cache' = [t \in Targets |-> Stored(b, s.data, t)]
      BY <1>12, <2>1, <2>2 DEF RaiseWatchSnapshot, Stored
    <2>21. \A t \in Targets : cache'[t] = Stored(b, s.data, t)
      BY <2>29
    <2>22. ASSUME NEW t \in Targets
           PROVE  /\ cache'[t] \in [keys : SUBSET Docs, token : Nat]
                  /\ Fits(e.states[t], cache'[t].keys) /\ e.states[t].here = b.states[t].here
                  /\ e.states[t].out = b.states[t].out
                  /\ Result(e.states[t], cache'[t].keys) = Result(b.states[t], cache[t].keys)
                  /\ t \in C =>
                      /\ cache'[t].keys = Result(b.states[t], cache[t].keys)
                      /\ \/ cache'[t].token = b.states[t].token
                         \/ /\ cache'[t].token = cache[t].token
                            /\ cache'[t].keys = cache[t].keys \/ b.states[t].token = 0
      <3>1. Fits(b.states[t], cache[t].keys)
        BY <1>14
      <3>2. PICK c : c = Stored(b, s.data, t)
        OBVIOUS
      <3>3. PICK y : y = e.states[t]
        OBVIOUS
      <3>4. /\ c \in [keys : SUBSET Docs, token : Nat]
            /\ Fits(y, c.keys) /\ y.here = b.states[t].here /\ y.out = b.states[t].out
            /\ Result(y, c.keys) = Result(b.states[t], cache[t].keys)
            /\ t \in ChangedTargets(b, r.on) =>
                 /\ c.keys = Result(b.states[t], cache[t].keys)
                 /\ \/ c.token = b.states[t].token
                    \/ c.token = cache[t].token /\ (c.keys = cache[t].keys \/ b.states[t].token = 0)
        BY <1>10, <2>3, <2>15, <3>1, <3>2, <3>3, StoredFacts
      <3> QED
        BY <2>4, <2>21, <3>2, <3>3, <3>4
    <2>23. cache' \in [Targets -> [keys : SUBSET Docs, token : Nat]]
      BY <2>22, <2>29
    <2>24. /\ Relistened(r', p) /\ Core(r') /\ IsOpen(r')
           /\ D = {} => r' = p
      BY <2>18, <2>20, RelistenAllFacts, RelistenedCore
    <2>25. FitsCache(r', cache')
      <3>1. \A t \in Targets : r'.agg.states[t].changes = e.states[t].changes
        BY <2>18, <2>24 DEF Relistened
      <3> QED
        BY <2>22, <3>1 DEF FitsCache, Fits
    <2>26. \A t \in Targets : Owed(r', t) = Owed(r, t)
      <3>1. \A t \in Targets : Owed(r', t) = Owed(p, t)
        BY <2>24 DEF Relistened
      <3>2. \A t \in Targets : Owed(p, t) = Owed(r, t)
        BY <1>5, <1>7, <1>12, <1>14, <2>18, <2>22 DEF Owed
      <3> QED
        BY <3>1, <3>2
    <2>27. ASSUME r.agg.resets = {}
           PROVE  /\ r'.up = r.up /\ r'.agg.resets = {}
                  /\ \A t \in Targets :
                       /\ r'.agg.states[t].out = r.agg.states[t].out
                       /\ r'.agg.states[t].here = r.agg.states[t].here
                       /\ Result(r'.agg.states[t], cache'[t].keys) = Result(r.agg.states[t], cache[t].keys)
                       /\ v # 0 => Renewed(t, v) \/ Untouched(t)
      <3>1. r' = p
        BY <1>7, <1>10, <2>19, <2>24, <2>27
      <3>2. \A t \in Targets :
               /\ r'.agg.states[t].out = r.agg.states[t].out
               /\ r'.agg.states[t].here = r.agg.states[t].here
               /\ Result(r'.agg.states[t], cache'[t].keys) = Result(r.agg.states[t], cache[t].keys)
        BY <1>7, <1>14, <2>18, <2>22, <3>1
      <3>3. ASSUME NEW t \in Targets, v # 0 PROVE Renewed(t, v) \/ Untouched(t)
        <4>1. CASE t \notin C
          <5>1. cache'[t] = cache[t]
            BY <2>4, <2>21, <4>1 DEF Stored
          <5>2. r'.tokens[t] = r.tokens[t] /\ r'.data[t] = r.data[t]
            BY <2>2, <2>8, <2>9, <2>10, <2>18, <3>1, <4>1
          <5> QED
            BY <5>1, <5>2 DEF Untouched
        <4>2. CASE t \in C
          <5>1. b.states[t].token = v /\ t \in R
            BY <1>10, <2>4, <2>6, <2>8, <3>3, <4>2
          <5>2. r'.tokens[t] = v /\ r'.data[t] = v
            BY <2>6, <2>9, <2>10, <2>18, <3>1, <5>1
          <5>3. t \in r.on /\ r.agg.states[t].out = 0
            BY <1>7, <1>14, <2>7, <4>2
          <5>4. cache'[t].keys = Result(r.agg.states[t], cache[t].keys)
            BY <1>7, <1>14, <2>22, <4>2
          <5> QED
            BY <2>22, <3>3, <4>2, <5>1, <5>2, <5>3, <5>4 DEF Renewed
        <4> QED
          BY <4>1, <4>2
      <3> QED
        BY <1>5, <1>12, <2>16, <2>18, <3>1, <3>2, <3>3
    <2>28. /\ r'.views = r.views /\ r'.on = r.on
           /\ r'.down = Tail(r.down) /\ r'.srv = r.srv /\ r'.read = r.read
      BY <1>5, <1>12, <2>18, <2>24 DEF Relistened, SameQueries
    <2> QED
      BY <1>3, <1>5, <2>20, <2>23, <2>24, <2>25, <2>26, <2>27, <2>28 DEF Snapshotted
  <1> QED
    BY <1>1, <1>3, <1>15, <1>16

-----------------------------------------------------------------------------
(* What the backend sends                                                  *)

\* Responses of the kinds K that make sense.
Plain(u, K) ==
    u \in Seq(Response) /\ \A i \in 1..Len(u) : Sound(u[i]) /\ u[i].kind \in K

\* The responses u bring the documents of target t from E to F: W[i] is what
\* the first i responses make of E.
Walk(W, t, E, u, F) ==
    /\ W[0] = E /\ W[Len(u)] = F
    /\ \A i \in 1..Len(u) : W[i] = Apply(t, W[i - 1], u[i])

Path(t, E, u, F) == \E W : Walk(W, t, E, u, F)

\* Concatenation, element by element.
LEMMA ConcatElements ==
    ASSUME NEW S, NEW s \in Seq(S), NEW u \in Seq(S)
    PROVE  /\ s \o u \in Seq(S) /\ Len(s \o u) = Len(s) + Len(u)
           /\ \A i \in 1..Len(s) : (s \o u)[i] = s[i]
           /\ \A i \in (Len(s) + 1)..(Len(s) + Len(u)) :
                 i - Len(s) \in 1..Len(u) /\ (s \o u)[i] = u[i - Len(s)]
  <1>1. PICK n \in Nat, k \in Nat : n = Len(s) /\ k = Len(u)
    OBVIOUS
  <1>2. PICK t : t = s \o u
    OBVIOUS
  <1>3. /\ t \in Seq(S) /\ Len(t) = n + k /\ \A i \in 1..n : t[i] = s[i]
        /\ \A i \in 1..k : t[n + i] = u[i]
    BY <1>1, <1>2, ConcatProperties
  <1>4. ASSUME NEW i \in (n + 1)..(n + k) PROVE i - n \in 1..k /\ t[i] = u[i - n]
    <2>1. i - n \in 1..k /\ i = n + (i - n)
      OBVIOUS
    <2> QED
      BY <1>3, <2>1
  <1> QED
    BY <1>1, <1>2, <1>3, <1>4

\* Concatenation of responses.
LEMMA PlainConcat ==
    ASSUME NEW K, NEW u, NEW w, Plain(u, K), Plain(w, K)
    PROVE  Plain(u \o w, K)
  <1>1. u \in Seq(Response) /\ w \in Seq(Response)
    BY DEF Plain
  <1>2. PICK n \in Nat, k \in Nat : n = Len(u) /\ k = Len(w)
    BY <1>1
  <1>3. PICK t : t = u \o w
    OBVIOUS
  <1>4. /\ t \in Seq(Response) /\ Len(t) = n + k /\ \A i \in 1..n : t[i] = u[i]
        /\ \A i \in (n + 1)..(n + k) : i - n \in 1..k /\ t[i] = w[i - n]
    BY <1>1, <1>2, <1>3, ConcatElements
  <1>5. \A i \in 1..(n + k) : i \in 1..n \/ i \in (n + 1)..(n + k)
    OBVIOUS
  <1>6. \A i \in 1..(n + k) : Sound(t[i]) /\ t[i].kind \in K
    BY <1>2, <1>4, <1>5 DEF Plain
  <1> QED
    BY <1>3, <1>4, <1>6 DEF Plain

\* Paths follow each other.
LEMMA PathConcat ==
    ASSUME NEW t, NEW E, NEW F, NEW G, NEW u \in Seq(Response), NEW w \in Seq(Response),
           Path(t, E, u, F), Path(t, F, w, G)
    PROVE  Path(t, E, u \o w, G)
  <1>1. PICK n \in Nat, k \in Nat : n = Len(u) /\ k = Len(w)
    OBVIOUS
  <1>2. PICK s : s = u \o w
    OBVIOUS
  <1>3. /\ Len(s) = n + k /\ \A i \in 1..n : s[i] = u[i]
        /\ \A i \in (n + 1)..(n + k) : i - n \in 1..k /\ s[i] = w[i - n]
    BY <1>1, <1>2, ConcatElements
  <1>4. PICK V : Walk(V, t, E, u, F)
    BY DEF Path
  <1>5. PICK X : Walk(X, t, F, w, G)
    BY DEF Path
  <1>6. PICK W : W = [i \in 0..(n + k) |-> IF i <= n THEN V[i] ELSE X[i - n]]
    OBVIOUS
  <1>7. V[0] = E /\ V[n] = F /\ \A i \in 1..n : V[i] = Apply(t, V[i - 1], u[i])
    BY <1>1, <1>4 DEF Walk
  <1>8. X[0] = F /\ X[k] = G /\ \A i \in 1..k : X[i] = Apply(t, X[i - 1], w[i])
    BY <1>1, <1>5 DEF Walk
  <1>9. \A i \in 0..n : W[i] = V[i]
    BY <1>6
  <1>10. ASSUME NEW i \in n..(n + k) PROVE W[i] = X[i - n]
    <2>1. CASE i = n
      BY <1>7, <1>8, <1>9, <2>1
    <2>2. CASE i # n
      BY <1>6, <2>2
    <2> QED
      BY <2>1, <2>2
  <1>11. ASSUME NEW i \in 1..(n + k) PROVE W[i] = Apply(t, W[i - 1], s[i])
    <2>1. CASE i \in 1..n
      <3>1. i - 1 \in 0..n /\ i \in 0..n
        BY <2>1
      <3> QED
        BY <1>3, <1>7, <1>9, <2>1, <3>1
    <2>2. CASE i \notin 1..n
      <3>1. i \in (n + 1)..(n + k) /\ i \in n..(n + k) /\ i - 1 \in n..(n + k)
        BY <2>2
      <3>2. PICK j \in 1..k : j = i - n /\ (i - 1) - n = j - 1
        BY <3>1
      <3>3. W[i] = X[j] /\ W[i - 1] = X[j - 1] /\ s[i] = w[j]
        BY <1>3, <1>10, <3>1, <3>2
      <3> QED
        BY <1>8, <3>3
    <2> QED
      BY <2>1, <2>2
  <1>12. W[0] = E
    BY <1>7, <1>9
  <1>13. W[n + k] = G
    <2>1. n + k \in n..(n + k) /\ (n + k) - n = k
      OBVIOUS
    <2> QED
      BY <1>8, <1>10, <2>1
  <1>14. Walk(W, t, E, s, G)
    BY <1>3, <1>11, <1>12, <1>13 DEF Walk
  <1> QED
    BY <1>2, <1>14 DEF Path

\* One response, and none.
LEMMA PathOne ==
    ASSUME NEW t, NEW E, NEW m
    PROVE  Path(t, E, <<m>>, Apply(t, E, m)) /\ Path(t, E, <<>>, E)
  <1>1. PICK F : F = Apply(t, E, m)
    OBVIOUS
  <1>2. PICK W : W = [i \in 0..1 |-> IF i = 0 THEN E ELSE F]
    OBVIOUS
  <1>3. W[0] = E /\ W[1] = F
    BY <1>2
  <1>4. PICK u : u = <<m>>
    OBVIOUS
  <1>5. Len(u) = 1 /\ u[1] = m /\ 1..1 = {1} /\ 1 - 1 = 0
    BY <1>4
  <1>6. Walk(W, t, E, u, F)
    BY <1>1, <1>3, <1>5 DEF Walk
  <1>7. Len(<<>>) = 0 /\ 1..0 = {}
    OBVIOUS
  <1>8. Walk([i \in {0} |-> E], t, E, <<>>, E)
    BY <1>7 DEF Walk
  <1> QED
    BY <1>1, <1>4, <1>6, <1>8 DEF Path

\* Responses for other targets.
LEMMA PathOther ==
    ASSUME NEW t, NEW E, NEW u \in Seq(Response), \A i \in 1..Len(u) : u[i].t # t
    PROVE  Path(t, E, u, E)
  <1>1. PICK n \in Nat : n = Len(u)
    OBVIOUS
  <1>2. PICK W : W = [i \in 0..n |-> E]
    OBVIOUS
  <1>3. \A i \in 0..n : W[i] = E
    BY <1>2
  <1>4. \A i \in 1..n : W[i] = Apply(t, W[i - 1], u[i])
    <2>1. \A i \in 1..n : i - 1 \in 0..n /\ i \in 0..n
      OBVIOUS
    <2> QED
      BY <1>1, <1>3, <2>1 DEF Apply
  <1>5. Walk(W, t, E, u, E)
    BY <1>1, <1>3, <1>4 DEF Walk
  <1> QED
    BY <1>5 DEF Path

\* A message is a response.
LEMMA MessageFacts ==
    ASSUME NEW kind \in {"added", "removed", "rejected", "current", "reset", "put", "drop",
                         "filter", "snapshot"},
           NEW t \in Nat, NEW v \in Nat
    PROVE  LET m == Message(kind, t, v)
           IN  m \in Response /\ m.kind = kind /\ m.t = t /\ m.v = v
  BY DEF Message, Response

\* The responses u name the documents ds to target t.
Names(u, ds, t, docs, kind) ==
    /\ Plain(u, {kind}) /\ Len(u) \in Nat
    /\ \A i \in 1..Len(u) : u[i].t = t /\ u[i].kind = kind /\ u[i].v = ds[i]
    /\ docs \in SUBSET Docs => \A x : x \in docs <=> \E i \in 1..Len(u) : ds[i] = x

\* The responses of Puts() and Drops().
LEMMA DocumentMessages ==
    ASSUME NEW t \in Targets, NEW docs, NEW kind \in {"put", "drop"},
           NEW ds, ds = InOrder(docs, NumDocs)
    PROVE  Names([i \in 1..Len(ds) |-> Message(kind, t, ds[i])], ds, t, docs, kind)
  <1>1. ds = InOrder(docs, NumDocs)
    OBVIOUS
  <1>2. ds \in Seq(Nat) /\ \A x : InSeq(x, ds) <=> x \in docs /\ x \in 1..NumDocs
    BY <1>1, TargetAssumption, InOrderFacts
  <1>3. PICK n \in Nat : n = Len(ds)
    BY <1>2
  <1>4. DOMAIN ds = 1..n
    BY <1>2, <1>3
  <1>5. \A x : (\E i \in 1..n : ds[i] = x) <=> x \in docs /\ x \in Docs
    BY <1>2, <1>4 DEF InSeq, Docs
  <1>6. PICK u : u = [i \in 1..n |-> Message(kind, t, ds[i])]
    OBVIOUS
  <1>7. ASSUME NEW i \in 1..n
        PROVE  /\ u[i] \in Response /\ u[i].t = t /\ u[i].kind = kind /\ u[i].v = ds[i]
               /\ Sound(u[i])
    <2>1. ds[i] \in Docs /\ ds[i] \in Nat /\ t \in Nat
      BY <1>5 DEF Docs, Targets
    <2>2. u[i] = Message(kind, t, ds[i])
      BY <1>6
    <2>3. u[i] \in Response /\ u[i].kind = kind /\ u[i].t = t /\ u[i].v = ds[i]
      BY <2>1, <2>2, MessageFacts
    <2> QED
      BY <2>1, <2>3 DEF Sound
  <1>8. u \in Seq(Response) /\ Len(u) = n
    <2>1. u \in [1..n -> Response]
      BY <1>6, <1>7
    <2> QED
      BY <1>6, <2>1
  <1>9. Plain(u, {kind})
    BY <1>7, <1>8 DEF Plain
  <1> QED
    BY <1>3, <1>5, <1>6, <1>7, <1>8, <1>9 DEF Names

\* Puts() adds documents.
LEMMA PutsPath ==
    ASSUME NEW t \in Targets, NEW E, NEW docs \in SUBSET Docs
    PROVE  Path(t, E, Puts(t, docs), E \cup docs)
  <1>1. PICK ds : ds = InOrder(docs, NumDocs)
    OBVIOUS
  <1>2. PICK u : u = [i \in 1..Len(ds) |-> Message("put", t, ds[i])]
    OBVIOUS
  <1>10. Names(u, ds, t, docs, "put")
    BY <1>1, <1>2, DocumentMessages
  <1>3. /\ Len(u) \in Nat /\ \A i \in 1..Len(u) : u[i].t = t /\ u[i].kind = "put" /\ u[i].v = ds[i]
        /\ \A x : x \in docs <=> \E i \in 1..Len(u) : ds[i] = x
    BY <1>10 DEF Names
  <1>4. PICK n \in Nat : n = Len(u)
    BY <1>3
  <1>5. PICK W : W = [i \in 0..n |-> E \cup {ds[j] : j \in 1..i}]
    OBVIOUS
  <1>6. W[0] = E
    <2>1. 1..0 = {} /\ 0 \in 0..n
      OBVIOUS
    <2> QED
      BY <1>5, <2>1
  <1>7. W[n] = E \cup docs
    <2>1. {ds[j] : j \in 1..n} = docs
      BY <1>3, <1>4
    <2> QED
      BY <1>5, <2>1
  <1>8. ASSUME NEW i \in 1..n PROVE W[i] = Apply(t, W[i - 1], u[i])
    <2>1. 1..i = 1..(i - 1) \cup {i} /\ i - 1 \in 0..n /\ i \in 0..n
      OBVIOUS
    <2>2. W[i] = E \cup {ds[j] : j \in 1..i} /\ W[i - 1] = E \cup {ds[j] : j \in 1..(i - 1)}
      BY <1>5, <2>1
    <2>3. W[i] = W[i - 1] \cup {ds[i]}
      BY <2>1, <2>2
    <2> QED
      BY <1>3, <1>4, <2>3 DEF Apply
  <1>9. Walk(W, t, E, u, E \cup docs)
    BY <1>4, <1>6, <1>7, <1>8 DEF Walk
  <1> QED
    BY <1>1, <1>2, <1>9 DEF Path, Puts

\* Drops() removes documents.
LEMMA DropsPath ==
    ASSUME NEW t \in Targets, NEW E, NEW docs \in SUBSET Docs
    PROVE  Path(t, E, Drops(t, docs), E \ docs)
  <1>1. PICK ds : ds = InOrder(docs, NumDocs)
    OBVIOUS
  <1>2. PICK u : u = [i \in 1..Len(ds) |-> Message("drop", t, ds[i])]
    OBVIOUS
  <1>10. Names(u, ds, t, docs, "drop")
    BY <1>1, <1>2, DocumentMessages
  <1>3. /\ Len(u) \in Nat /\ \A i \in 1..Len(u) : u[i].t = t /\ u[i].kind = "drop" /\ u[i].v = ds[i]
        /\ \A x : x \in docs <=> \E i \in 1..Len(u) : ds[i] = x
    BY <1>10 DEF Names
  <1>4. PICK n \in Nat : n = Len(u)
    BY <1>3
  <1>5. PICK W : W = [i \in 0..n |-> E \ {ds[j] : j \in 1..i}]
    OBVIOUS
  <1>6. W[0] = E
    <2>1. 1..0 = {} /\ 0 \in 0..n
      OBVIOUS
    <2> QED
      BY <1>5, <2>1
  <1>7. W[n] = E \ docs
    <2>1. {ds[j] : j \in 1..n} = docs
      BY <1>3, <1>4
    <2> QED
      BY <1>5, <2>1
  <1>8. ASSUME NEW i \in 1..n PROVE W[i] = Apply(t, W[i - 1], u[i])
    <2>1. 1..i = 1..(i - 1) \cup {i} /\ i - 1 \in 0..n /\ i \in 0..n
      OBVIOUS
    <2>2. W[i] = E \ {ds[j] : j \in 1..i} /\ W[i - 1] = E \ {ds[j] : j \in 1..(i - 1)}
      BY <1>5, <2>1
    <2>3. W[i] = W[i - 1] \ {ds[i]}
      BY <2>1, <2>2
    <2> QED
      BY <1>3, <1>4, <2>3 DEF Apply
  <1>9. Walk(W, t, E, u, E \ docs)
    BY <1>4, <1>6, <1>7, <1>8 DEF Walk
  <1> QED
    BY <1>1, <1>2, <1>9 DEF Path, Drops

\* More kinds do not matter.
LEMMA PlainMore ==
    ASSUME NEW u, NEW K, NEW L, Plain(u, K), K \subseteq L
    PROVE  Plain(u, L)
  BY DEF Plain

\* One response that makes sense.
LEMMA PlainOne ==
    ASSUME NEW K, NEW m \in Response, Sound(m), m.kind \in K
    PROVE  Plain(<<m>>, K)
  <1>1. PICK u : u = <<m>>
    OBVIOUS
  <1>2. u \in Seq(Response) /\ Len(u) = 1 /\ \A i \in 1..1 : u[i] = m
    BY <1>1
  <1> QED
    BY <1>1, <1>2 DEF Plain

\* All responses u are for target t.
For(u, t) == \A i \in 1..Len(u) : u[i].t = t

\* ... and so is their concatenation.
LEMMA ForConcat ==
    ASSUME NEW t, NEW u \in Seq(Response), NEW w \in Seq(Response), For(u, t), For(w, t)
    PROVE  For(u \o w, t)
  <1>1. PICK n \in Nat, k \in Nat : n = Len(u) /\ k = Len(w)
    OBVIOUS
  <1>2. PICK s : s = u \o w
    OBVIOUS
  <1>3. /\ Len(s) = n + k /\ \A i \in 1..n : s[i] = u[i]
        /\ \A i \in (n + 1)..(n + k) : i - n \in 1..k /\ s[i] = w[i - n]
    BY <1>1, <1>2, ConcatElements
  <1>4. \A i \in 1..(n + k) : i \in 1..n \/ i \in (n + 1)..(n + k)
    OBVIOUS
  <1> QED
    BY <1>1, <1>2, <1>3, <1>4 DEF For

\* The documents of a target at a version of the history.
LEMMA DocsType ==
    ASSUME history \in Seq([Targets -> SUBSET Docs]), NEW t \in Targets, NEW v \in 0..Len(history)
    PROVE  DocsAt(t, v) \in SUBSET Docs
  <1>1. CASE v = 0
    BY <1>1 DEF DocsAt
  <1>2. CASE v # 0
    <2>1. v \in 1..Len(history)
      BY <1>2
    <2>2. history[v] \in [Targets -> SUBSET Docs]
      BY <2>1
    <2> QED
      BY <1>2, <2>2 DEF DocsAt
  <1> QED
    BY <1>1, <1>2

\* The responses about documents.
LEMMA PutsFacts ==
    ASSUME NEW t \in Targets, NEW docs
    PROVE  /\ Plain(Puts(t, docs), {"put"}) /\ For(Puts(t, docs), t)
           /\ Plain(Drops(t, docs), {"drop"}) /\ For(Drops(t, docs), t)
  <1>1. PICK ds : ds = InOrder(docs, NumDocs)
    OBVIOUS
  <1>2. PICK u : u = [i \in 1..Len(ds) |-> Message("put", t, ds[i])]
    OBVIOUS
  <1>3. PICK w : w = [i \in 1..Len(ds) |-> Message("drop", t, ds[i])]
    OBVIOUS
  <1>4. Names(u, ds, t, docs, "put")
    BY <1>1, <1>2, DocumentMessages
  <1>5. Names(w, ds, t, docs, "drop")
    BY <1>1, <1>3, DocumentMessages
  <1>6. Puts(t, docs) = u /\ Drops(t, docs) = w
    BY <1>1, <1>2, <1>3 DEF Puts, Drops
  <1> QED
    BY <1>4, <1>5, <1>6 DEF Names, For

\* The kinds of responses that catch up; filters come with lossy resumptions.
Kinds(lossy) == {"put", "drop", "reset", "current"} \cup (IF lossy THEN {"filter"} ELSE {})

\* CatchUp() sends responses for its target, and brings it to version v.
LEMMA CatchUpFacts ==
    ASSUME history \in Seq([Targets -> SUBSET Docs]), NEW t \in Targets, NEW at \in Nat,
           NEW v \in 1..Len(history), NEW mode \in {"delta", "reset", "lossy"}
    PROVE  LET u == CatchUp(t, at, v, mode)
           IN  /\ Plain(u, Kinds(mode = "lossy")) /\ For(u, t)
               /\ mode # "lossy" /\ at \in 0..Len(history) =>
                     Path(t, DocsAt(t, at), u, DocsAt(t, v))
  <1>1. PICK old, new : old = DocsAt(t, at) /\ new = DocsAt(t, v)
    OBVIOUS
  <1>2. new \in SUBSET Docs
    <2>1. v \in 0..Len(history)
      OBVIOUS
    <2> QED
      BY <1>1, <2>1, DocsType
  <1>3. at \in 0..Len(history) => old \in SUBSET Docs
    BY <1>1, DocsType
  <1>4. t \in Nat
    BY DEF Targets
  <1>5. PICK K : K = Kinds(mode = "lossy")
    OBVIOUS
  <1>6. {"put"} \subseteq K /\ {"drop"} \subseteq K /\ "reset" \in K /\ (mode = "lossy" => "filter" \in K)
    BY <1>5 DEF Kinds
  <1>7. CASE mode = "delta"
    <2>1. PICK d, p : d = Drops(t, old \ new) /\ p = Puts(t, new \ old)
      OBVIOUS
    <2>2. Plain(d, {"drop"}) /\ For(d, t) /\ Plain(p, {"put"}) /\ For(p, t)
      BY <2>1, PutsFacts
    <2>3. Plain(d, K) /\ Plain(p, K) /\ d \in Seq(Response) /\ p \in Seq(Response)
      BY <1>6, <2>2, PlainMore DEF Plain
    <2>4. PICK u : u = d \o p
      OBVIOUS
    <2>5. Plain(u, K) /\ For(u, t)
      BY <2>2, <2>3, <2>4, PlainConcat, ForConcat
    <2>6. CatchUp(t, at, v, mode) = u
      BY <1>1, <1>7, <2>1, <2>4 DEF CatchUp
    <2>7. ASSUME at \in 0..Len(history) PROVE Path(t, old, u, new)
      <3>1. PICK x, y, z : x = old \ new /\ y = new \ old /\ z = old \cap new
        OBVIOUS
      <3>2. x \in SUBSET Docs /\ y \in SUBSET Docs /\ old \ x = z /\ z \cup y = new
        BY <1>2, <1>3, <2>7, <3>1
      <3>3. Path(t, old, d, z)
        <4>1. Path(t, old, Drops(t, x), old \ x)
          BY <3>2, DropsPath
        <4> QED
          BY <2>1, <3>1, <3>2, <4>1
      <3>4. Path(t, z, p, new)
        <4>1. Path(t, z, Puts(t, y), z \cup y)
          BY <3>2, PutsPath
        <4> QED
          BY <2>1, <3>1, <3>2, <4>1
      <3> QED
        BY <2>3, <2>4, <3>3, <3>4, PathConcat
    <2> QED
      BY <1>1, <1>5, <2>5, <2>6, <2>7
  <1>8. CASE mode = "reset"
    <2>1. PICK m, p : m = Message("reset", t, 0) /\ p = Puts(t, new)
      OBVIOUS
    <2>2. m \in Response /\ m.kind = "reset" /\ m.t = t
      BY <1>4, <2>1, MessageFacts
    <2>3. Sound(m)
      BY <2>2 DEF Sound
    <2>4. PICK d : d = <<m>>
      OBVIOUS
    <2>5. Plain(d, K) /\ d \in Seq(Response) /\ For(d, t)
      <3>1. Plain(d, K)
        BY <1>6, <2>2, <2>3, <2>4, PlainOne
      <3>2. Len(d) = 1 /\ d[1] = m /\ 1..1 = {1}
        BY <2>4
      <3> QED
        BY <2>2, <3>1, <3>2 DEF Plain, For
    <2>6. Plain(p, {"put"}) /\ For(p, t)
      BY <2>1, PutsFacts
    <2>7. Plain(p, K) /\ p \in Seq(Response)
      BY <1>6, <2>6, PlainMore DEF Plain
    <2>8. PICK u : u = d \o p
      OBVIOUS
    <2>9. Plain(u, K) /\ For(u, t)
      BY <2>5, <2>6, <2>7, <2>8, PlainConcat, ForConcat
    <2>10. CatchUp(t, at, v, mode) = u
      BY <1>1, <1>8, <2>1, <2>4, <2>8 DEF CatchUp
    <2>11. Path(t, old, u, new)
      <3>1. Path(t, old, d, {})
        <4>1. Apply(t, old, m) = {}
          BY <2>2 DEF Apply
        <4>2. Path(t, old, <<m>>, Apply(t, old, m))
          BY PathOne
        <4> QED
          BY <2>4, <4>1, <4>2
      <3>2. Path(t, {}, p, new)
        <4>1. Path(t, {}, Puts(t, new), {} \cup new) /\ {} \cup new = new
          BY <1>2, PutsPath
        <4> QED
          BY <2>1, <4>1
      <3> QED
        BY <2>5, <2>7, <2>8, <3>1, <3>2, PathConcat
    <2> QED
      BY <1>1, <1>5, <2>9, <2>10, <2>11
  <1>9. CASE mode = "lossy"
    <2>1. Cardinality(new) \in Nat
      <3>1. IsFiniteSet(Docs)
        BY TargetAssumption, FS_Interval DEF Docs
      <3>2. IsFiniteSet(new)
        BY <1>2, <3>1, FS_Subset
      <3> QED
        BY <3>2, FS_CardinalityType
    <2>2. PICK m, p : m = Message("filter", t, Cardinality(new)) /\ p = Puts(t, new \ old)
      OBVIOUS
    <2>3. m \in Response /\ m.kind = "filter" /\ m.t = t
      BY <1>4, <2>1, <2>2, MessageFacts
    <2>4. Sound(m)
      BY <2>3 DEF Sound
    <2>5. PICK d : d = <<m>>
      OBVIOUS
    <2>6. Plain(d, K) /\ d \in Seq(Response) /\ For(d, t)
      <3>1. Plain(d, K)
        BY <1>6, <1>9, <2>3, <2>4, <2>5, PlainOne
      <3>2. Len(d) = 1 /\ d[1] = m /\ 1..1 = {1}
        BY <2>5
      <3> QED
        BY <2>3, <3>1, <3>2 DEF Plain, For
    <2>7. Plain(p, {"put"}) /\ For(p, t)
      BY <2>2, PutsFacts
    <2>8. Plain(p, K) /\ p \in Seq(Response)
      BY <1>6, <2>7, PlainMore DEF Plain
    <2>9. PICK u : u = p \o d
      OBVIOUS
    <2>10. Plain(u, K) /\ For(u, t)
      BY <2>6, <2>7, <2>8, <2>9, PlainConcat, ForConcat
    <2>11. CatchUp(t, at, v, mode) = u
      BY <1>1, <1>9, <2>2, <2>5, <2>9 DEF CatchUp
    <2> QED
      BY <1>5, <1>9, <2>10, <2>11
  <1> QED
    BY <1>7, <1>8, <1>9

\* The responses of a snapshot for target t, and all of those for targets up to i.
CurrentOf(t, v, odd, mode) ==
    IF r.srv[t].cur /\ ~(t = odd /\ mode = "reset") THEN <<>> ELSE <<Message("current", t, v)>>

ChangesOf(t, v, odd, mode) == CatchUp(t, r.srv[t].at, v, IF t = odd THEN mode ELSE "delta")

Arrives(u, i, v, mode) ==
    /\ Plain(u, Kinds(mode = "lossy"))
    /\ mode # "lossy" /\ (\A t \in Targets : r.srv[t].at \in 0..Len(history)) =>
         \A t \in Targets : Path(t, DocsAt(t, r.srv[t].at), u,
                                 DocsAt(t, IF r.srv[t].on /\ t <= i THEN v ELSE r.srv[t].at))

\* One watched target is brought up to date.
LEMMA ArrivesNext ==
    ASSUME history \in Seq([Targets -> SUBSET Docs]), r \in ClientType, NEW t \in Targets,
           NEW v \in 1..Len(history), NEW odd, NEW mode \in {"delta", "reset", "lossy"},
           NEW s, Arrives(s, t - 1, v, mode), r.srv[t].on
    PROVE  Arrives((s \o ChangesOf(t, v, odd, mode)) \o CurrentOf(t, v, odd, mode), t, v, mode)
  <1>1. PICK md \in {"delta", "reset", "lossy"} : md = IF t = odd THEN mode ELSE "delta"
    OBVIOUS
  <1>2. PICK at \in Nat : at = r.srv[t].at
    BY ClientFields
  <1>3. PICK c, d : c = CatchUp(t, at, v, md) /\ d = CurrentOf(t, v, odd, mode)
    OBVIOUS
  <1>4. ChangesOf(t, v, odd, mode) = c
    BY <1>1, <1>2, <1>3 DEF ChangesOf
  <1>5. PICK K : K = Kinds(mode = "lossy")
    OBVIOUS
  <1>6. /\ Plain(c, Kinds(md = "lossy")) /\ For(c, t)
        /\ md # "lossy" /\ at \in 0..Len(history) => Path(t, DocsAt(t, at), c, DocsAt(t, v))
    BY <1>1, <1>2, <1>3, CatchUpFacts, Zenon
  <1>7. Plain(c, K)
    <2>1. Kinds(md = "lossy") \subseteq K
      BY <1>1, <1>5 DEF Kinds
    <2> QED
      BY <1>6, <2>1, PlainMore
  <1>8. /\ Plain(d, K) /\ For(d, t) /\ \A E : Path(t, E, d, E)
    <2>1. CASE d = <<>>
      <3>1. Len(d) = 0 /\ 1..0 = {} /\ d \in Seq(Response)
        BY <2>1
      <3>2. \A E : Path(t, E, d, E)
        BY <2>1, PathOne
      <3> QED
        BY <3>1, <3>2 DEF Plain, For
    <2>2. CASE d # <<>>
      <3>1. PICK m : m = Message("current", t, v)
        OBVIOUS
      <3>2. t \in Nat /\ v \in Nat
        BY DEF Targets
      <3>3. m \in Response /\ m.kind = "current" /\ m.t = t
        BY <3>1, <3>2, MessageFacts
      <3>4. d = <<m>>
        BY <1>3, <2>2, <3>1 DEF CurrentOf
      <3>5. Sound(m) /\ "current" \in K
        BY <1>5, <3>3 DEF Sound, Kinds
      <3>6. Plain(d, K)
        BY <3>3, <3>4, <3>5, PlainOne
      <3>7. Len(d) = 1 /\ d[1] = m /\ 1..1 = {1}
        BY <3>4
      <3>8. For(d, t)
        BY <3>3, <3>7 DEF For
      <3>9. ASSUME NEW E PROVE Path(t, E, d, E)
        <4>1. Apply(t, E, m) = E
          BY <3>3 DEF Apply
        <4>2. Path(t, E, <<m>>, Apply(t, E, m))
          BY PathOne
        <4> QED
          BY <3>4, <4>1, <4>2
      <3> QED
        BY <3>6, <3>8, <3>9
    <2> QED
      BY <2>1, <2>2
  <1>9. Plain(s, K) /\ s \in Seq(Response) /\ c \in Seq(Response) /\ d \in Seq(Response)
    BY <1>5, <1>7, <1>8 DEF Arrives, Plain
  <1>10. PICK p, u : p = s \o c /\ u = p \o d
    OBVIOUS
  <1>11. Plain(p, K)
    BY <1>7, <1>9, <1>10, PlainConcat
  <1>12. Plain(u, K) /\ p \in Seq(Response)
    BY <1>8, <1>10, <1>11, PlainConcat DEF Plain
  <1>13. ASSUME mode # "lossy", \A x \in Targets : r.srv[x].at \in 0..Len(history), NEW x \in Targets
         PROVE  Path(x, DocsAt(x, r.srv[x].at), u, DocsAt(x, IF r.srv[x].on /\ x <= t THEN v ELSE r.srv[x].at))
    <2>1. Path(x, DocsAt(x, r.srv[x].at), s, DocsAt(x, IF r.srv[x].on /\ x <= t - 1 THEN v ELSE r.srv[x].at))
      BY <1>13 DEF Arrives
    <2>2. PICK E, F, G : /\ E = DocsAt(x, r.srv[x].at)
                         /\ F = DocsAt(x, IF r.srv[x].on /\ x <= t - 1 THEN v ELSE r.srv[x].at)
                         /\ G = DocsAt(x, IF r.srv[x].on /\ x <= t THEN v ELSE r.srv[x].at)
      OBVIOUS
    <2>3. Path(x, F, c, G) /\ Path(x, G, d, G)
      <3>1. CASE x = t
        <4>1. (r.srv[x].on /\ x <= t - 1) = FALSE /\ (r.srv[x].on /\ x <= t) = TRUE
          BY <3>1 DEF Targets
        <4>2. F = DocsAt(t, at) /\ G = DocsAt(t, v)
          BY <1>2, <2>2, <3>1, <4>1
        <4>3. md # "lossy"
          BY <1>1, <1>13
        <4> QED
          BY <1>2, <1>6, <1>8, <1>13, <3>1, <4>2, <4>3
      <3>2. CASE x # t
        <4>1. x <= t - 1 <=> x <= t
          BY <3>2 DEF Targets
        <4>2. F = G
          BY <2>2, <4>1
        <4>3. (\A i \in 1..Len(c) : c[i].t # x) /\ (\A i \in 1..Len(d) : d[i].t # x)
          BY <1>6, <1>8, <3>2 DEF For
        <4>4. Path(x, G, c, G) /\ Path(x, G, d, G)
          BY <1>9, <4>3, PathOther
        <4> QED
          BY <4>2, <4>4
      <3> QED
        BY <3>1, <3>2
    <2>4. Path(x, E, p, G)
      BY <1>9, <1>10, <2>1, <2>2, <2>3, PathConcat
    <2>5. Path(x, E, u, G)
      BY <1>9, <1>10, <1>12, <2>3, <2>4, PathConcat
    <2> QED
      BY <2>2, <2>5
  <1>14. Arrives(u, t, v, mode)
    BY <1>5, <1>12, <1>13 DEF Arrives
  <1> QED
    BY <1>3, <1>4, <1>10, <1>14

\* What ServerSnapshot() sends before the snapshot itself.
PartOf(i, s, watched, v, odd, mode) ==
    IF i \notin watched THEN s
    ELSE (s \o ChangesOf(i, v, odd, mode)) \o CurrentOf(i, v, odd, mode)

PartsOf(watched, v, odd, mode) ==
    LET part[t \in 0..NumTargets] ==
          IF t = 0 THEN <<>>
          ELSE IF t \notin watched THEN part[t - 1]
          ELSE part[t - 1]
               \o CatchUp(t, r.srv[t].at, v, IF t = odd THEN mode ELSE "delta")
               \o (IF r.srv[t].cur /\ ~(t = odd /\ mode = "reset") THEN <<>>
                   ELSE <<Message("current", t, v)>>)
    IN  part[NumTargets]

\* They bring all watched targets to version v.
LEMMA PartsArrive ==
    ASSUME history \in Seq([Targets -> SUBSET Docs]), r \in ClientType,
           NEW v \in 1..Len(history), NEW odd, NEW mode \in {"delta", "reset", "lossy"},
           NEW watched, watched = {t \in Targets : r.srv[t].on}
    PROVE  Arrives(PartsOf(watched, v, odd, mode), NumTargets, v, mode)
  <1>1. PICK n \in Nat : n = NumTargets
    BY TargetAssumption
  <1>2. PICK S : S = Seq(Response)
    OBVIOUS
  <1>3. <<>> \in S
    BY <1>2
  <1>4. ASSUME NEW i \in 1..n, NEW s \in S PROVE PartOf(i, s, watched, v, odd, mode) \in S
    <2>1. CASE i \notin watched
      BY <2>1 DEF PartOf
    <2>2. CASE i \in watched
      <3>1. i \in Targets /\ r.srv[i].at \in Nat /\ i \in Nat /\ v \in Nat
        BY <1>1, ClientFields DEF Targets
      <3>2. PICK md \in {"delta", "reset", "lossy"} : md = IF i = odd THEN mode ELSE "delta"
        OBVIOUS
      <3>3. Plain(CatchUp(i, r.srv[i].at, v, md), Kinds(md = "lossy"))
        BY <3>1, CatchUpFacts, Zenon
      <3>4. ChangesOf(i, v, odd, mode) \in S
        BY <1>2, <3>2, <3>3 DEF ChangesOf, Plain
      <3>5. PICK m : m = Message("current", i, v)
        OBVIOUS
      <3>6. m \in Response
        BY <3>1, <3>5, MessageFacts
      <3>7. CurrentOf(i, v, odd, mode) \in S
        BY <1>2, <3>5, <3>6 DEF CurrentOf
      <3>8. PICK a, b : a = ChangesOf(i, v, odd, mode) /\ b = CurrentOf(i, v, odd, mode)
        OBVIOUS
      <3>9. (s \o a) \o b \in S
        BY <1>2, <3>4, <3>7, <3>8
      <3> QED
        BY <2>2, <3>8, <3>9 DEF PartOf
    <2> QED
      BY <2>1, <2>2
  <1>5. PICK F : F = [p \in (1..n) \X S |-> PartOf(p[1], p[2], watched, v, odd, mode)]
    OBVIOUS
  <1>6. F \in [(1..n) \X S -> S]
    <2>1. ASSUME NEW p \in (1..n) \X S PROVE PartOf(p[1], p[2], watched, v, odd, mode) \in S
      <3>1. p[1] \in 1..n /\ p[2] \in S
        OBVIOUS
      <3> QED
        BY <1>4, <3>1
    <2> QED
      BY <1>5, <2>1
  <1>7. PICK g : Iterates(g, n, S, <<>>, F)
    BY <1>3, <1>6, IterationExists
  <1>8. g \in [0..n -> S] /\ g[0] = <<>>
    BY <1>7 DEF Iterates
  <1>9. ASSUME NEW i \in 1..n PROVE g[i] = PartOf(i, g[i - 1], watched, v, odd, mode)
    <2>1. g[i] = F[<<i, g[i - 1]>>] /\ i - 1 \in 0..n
      BY <1>7 DEF Iterates
    <2>2. <<i, g[i - 1]>> \in (1..n) \X S
      BY <1>8, <2>1
    <2> QED
      BY <1>5, <2>1, <2>2
  <1>10. g = [i \in 0..n |-> IF i = 0 THEN <<>> ELSE PartOf(i, g[i - 1], watched, v, odd, mode)]
    <2>1. ASSUME NEW i \in 0..n
          PROVE  g[i] = IF i = 0 THEN <<>> ELSE PartOf(i, g[i - 1], watched, v, odd, mode)
      <3>1. i = 0 \/ i \in 1..n
        OBVIOUS
      <3> QED
        BY <1>8, <1>9, <3>1
    <2> QED
      BY <1>8, <2>1
  <1>11. PICK f : f = CHOOSE h : h = [i \in 0..n |->
              IF i = 0 THEN <<>> ELSE PartOf(i, h[i - 1], watched, v, odd, mode)]
    OBVIOUS
  <1>12. PartsOf(watched, v, odd, mode) = f[n]
    BY <1>1, <1>11 DEF PartsOf, PartOf, ChangesOf, CurrentOf
  <1>13. f = [i \in 0..n |-> IF i = 0 THEN <<>> ELSE PartOf(i, f[i - 1], watched, v, odd, mode)]
    BY <1>10, <1>11
  <1>14. f[0] = <<>> /\ \A i \in 1..n : f[i] = PartOf(i, f[i - 1], watched, v, odd, mode)
    <2>1. 0 \in 0..n /\ \A i \in 1..n : i \in 0..n /\ i # 0
      OBVIOUS
    <2> QED
      BY <1>13, <2>1
  <1>15. PICK T : T = {i \in 0..n : Arrives(f[i], i, v, mode)}
    OBVIOUS
  <1>16. 0 \in T
    <2>1. PICK e : e = f[0]
      OBVIOUS
    <2>2. e = <<>> /\ Len(e) = 0 /\ 1..0 = {} /\ e \in Seq(Response)
      BY <1>14, <2>1
    <2>3. Plain(e, Kinds(mode = "lossy"))
      BY <2>2 DEF Plain
    <2>4. ASSUME NEW t \in Targets
          PROVE  Path(t, DocsAt(t, r.srv[t].at), e,
                      DocsAt(t, IF r.srv[t].on /\ t <= 0 THEN v ELSE r.srv[t].at))
      <3>1. (r.srv[t].on /\ t <= 0) = FALSE
        BY DEF Targets
      <3>2. \A E : Path(t, E, <<>>, E)
        BY PathOne
      <3> QED
        BY <2>2, <3>1, <3>2
    <2>5. Arrives(e, 0, v, mode)
      BY <2>3, <2>4 DEF Arrives
    <2> QED
      BY <1>15, <2>1, <2>5
  <1>17. ASSUME NEW i \in 1..n, i - 1 \in T PROVE i \in T
    <2>1. PICK s : s = f[i - 1]
      OBVIOUS
    <2>2. Arrives(s, i - 1, v, mode) /\ i \in Targets /\ i \in 0..n
      BY <1>1, <1>15, <1>17, <2>1 DEF Targets
    <2>3. CASE i \in watched
      <3>1. f[i] = (s \o ChangesOf(i, v, odd, mode)) \o CurrentOf(i, v, odd, mode)
        BY <1>14, <2>1, <2>3 DEF PartOf
      <3>2. Arrives((s \o ChangesOf(i, v, odd, mode)) \o CurrentOf(i, v, odd, mode), i, v, mode)
        BY <2>2, <2>3, ArrivesNext
      <3> QED
        BY <1>15, <2>2, <3>1, <3>2
    <2>4. CASE i \notin watched
      <3>1. f[i] = s
        BY <1>14, <2>1, <2>4 DEF PartOf
      <3>2. \A t \in Targets : r.srv[t].on /\ t <= i - 1 <=> r.srv[t].on /\ t <= i
        BY <2>2, <2>4 DEF Targets
      <3>3. Arrives(s, i, v, mode)
        BY <2>2, <3>2 DEF Arrives
      <3> QED
        BY <1>15, <2>2, <3>1, <3>3
    <2> QED
      BY <2>3, <2>4
  <1>18. 0..n \subseteq T
    BY <1>16, <1>17, SetInduction
  <1>19. Arrives(f[n], n, v, mode)
    BY <1>15, <1>18
  <1> QED
    BY <1>1, <1>12, <1>19

\* What ServerSnapshot() does: u is what it sends before the snapshot.
Delivered(u, v, mode) ==
    /\ Core(r') /\ IsOpen(r) /\ IsOpen(r') /\ SameQueries(r', r)
    /\ r'.agg = r.agg /\ r'.up = r.up /\ r'.read = v
    /\ r'.down = (r.down \o u) \o <<Message("snapshot", 0, v)>>
    /\ r'.srv = [t \in Targets |-> IF r.srv[t].on THEN [on |-> TRUE, at |-> v, cur |-> TRUE]
                                   ELSE r.srv[t]]
    /\ Plain(u, Kinds(mode = "lossy"))
    /\ mode # "lossy" /\ (\A t \in Targets : r.srv[t].at \in 0..Len(history)) =>
         \A t \in Targets : Path(t, DocsAt(t, r.srv[t].at), u,
                                 DocsAt(t, IF r.srv[t].on THEN v ELSE r.srv[t].at))

\* ServerSnapshot() is only possible on an open stream.
LEMMA ServerSnapshotFacts ==
    ASSUME WatchInv, NEW v \in 1..Len(history), NEW odd, NEW mode \in {"delta", "reset", "lossy"},
           ServerSnapshot(v, odd, mode)
    PROVE  /\ \E u : Delivered(u, v, mode)
           /\ UNCHANGED <<cache, last, history, listens>>
  <1>1. PICK watched : watched = {t \in Targets : r.srv[t].on}
    OBVIOUS
  <1>2. PICK u : u = PartsOf(watched, v, odd, mode)
    OBVIOUS
  <1>3. /\ \E t \in watched : r.srv[t].at < v \/ ~r.srv[t].cur
        /\ r' = [r EXCEPT
                   !.down = @ \o u \o <<Message("snapshot", 0, v)>>,
                   !.read = v,
                   !.srv = [t \in Targets |->
                              IF t \in watched
                              THEN [on |-> TRUE, at |-> v, cur |-> TRUE]
                              ELSE @[t]]]
        /\ UNCHANGED <<cache, last, history, listens>>
    <2> DEFINE W == {t \in Targets : r.srv[t].on}
    <2>1. /\ \E t \in W : r.srv[t].at < v \/ ~r.srv[t].cur
          /\ r' = [r EXCEPT
                     !.down = @ \o PartsOf(W, v, odd, mode) \o <<Message("snapshot", 0, v)>>,
                     !.read = v,
                     !.srv = [t \in Targets |->
                                IF t \in W
                                THEN [on |-> TRUE, at |-> v, cur |-> TRUE]
                                ELSE @[t]]]
          /\ UNCHANGED <<cache, last, history, listens>>
      BY Zenon DEF ServerSnapshot, PartsOf
    <2>2. W = watched /\ PartsOf(W, v, odd, mode) = u
      BY <1>1, <1>2
    <2> HIDE DEF W
    <2> QED
      BY <2>1, <2>2
  <1>4. history \in Seq([Targets -> SUBSET Docs]) /\ r \in ClientType /\ Core(r)
    BY WatchFields
  <1>5. Arrives(u, NumTargets, v, mode)
    BY <1>1, <1>2, <1>4, PartsArrive
  <1>6. Plain(u, Kinds(mode = "lossy")) /\ u \in Seq(Response)
    BY <1>5 DEF Arrives, Plain
  <1>7. IsOpen(r)
    <2>1. PICK t \in Targets : r.srv[t].on
      BY <1>1, <1>3
    <2>2. r.srv # NothingWatched
      BY <2>1 DEF NothingWatched
    <2> QED
      BY <1>4, <2>2 DEF Core, StreamInv, Quiet
  <1>8. PICK d : d = (r.down \o u) \o <<Message("snapshot", 0, v)>>
    OBVIOUS
  <1>9. d \in Seq(Response) /\ v \in Nat
    <2>1. PICK m : m = Message("snapshot", 0, v)
      OBVIOUS
    <2>2. m \in Response
      BY <2>1, MessageFacts
    <2>3. r.down \in Seq(Response)
      BY <1>4, ClientFields
    <2> QED
      BY <1>6, <1>8, <2>1, <2>2, <2>3
  <1>10. PICK w : w = [t \in Targets |-> IF r.srv[t].on THEN [on |-> TRUE, at |-> v, cur |-> TRUE]
                                         ELSE r.srv[t]]
    OBVIOUS
  <1>11. w \in [Targets -> [on : BOOLEAN, at : Nat, cur : BOOLEAN]]
    <2>1. r.srv \in [Targets -> [on : BOOLEAN, at : Nat, cur : BOOLEAN]]
      BY <1>4, ClientFields
    <2> QED
      BY <1>9, <1>10, <2>1
  <1>12. PICK q : q = [r EXCEPT !.down = d, !.read = v, !.srv = w]
    OBVIOUS
  <1>13. r' = q
    <2>1. [t \in Targets |-> IF t \in watched THEN [on |-> TRUE, at |-> v, cur |-> TRUE]
                                              ELSE r.srv[t]] = w
      BY <1>1, <1>10
    <2> QED
      BY <1>3, <1>8, <1>12, <2>1
  <1>14. q \in ClientType
    BY <1>4, <1>9, <1>11, <1>12 DEF ClientType
  <1>15. /\ SameQueries(q, r) /\ q.state = r.state /\ q.ok = r.ok /\ q.net = r.net
         /\ q.closes = r.closes /\ q.auth = r.auth /\ q.exists = r.exists /\ q.idle = r.idle
         /\ q.backoff = r.backoff /\ q.agg = r.agg /\ q.up = r.up
         /\ q.online = r.online /\ q.failures = r.failures /\ q.timer = r.timer
         /\ q.down = d /\ q.read = v /\ q.srv = w
    BY <1>4, <1>12 DEF ClientType, SameQueries
  <1>16. IsOpen(q) /\ Core(q)
    BY <1>4, <1>7, <1>14, <1>15 DEF Core, StreamInv, TrackerInv, IsOpen, IsStarted, SameQueries
  <1>17. ASSUME mode # "lossy", \A t \in Targets : r.srv[t].at \in 0..Len(history), NEW t \in Targets
         PROVE  Path(t, DocsAt(t, r.srv[t].at), u, DocsAt(t, IF r.srv[t].on THEN v ELSE r.srv[t].at))
    <2>1. Path(t, DocsAt(t, r.srv[t].at), u,
               DocsAt(t, IF r.srv[t].on /\ t <= NumTargets THEN v ELSE r.srv[t].at))
      BY <1>5, <1>17 DEF Arrives
    <2>2. r.srv[t].on /\ t <= NumTargets <=> r.srv[t].on
      BY DEF Targets
    <2> QED
      BY <2>1, <2>2
  <1>18. Delivered(u, v, mode)
    BY <1>6, <1>7, <1>8, <1>10, <1>13, <1>15, <1>16, <1>17 DEF Delivered
  <1> QED
    BY <1>3, <1>18

-----------------------------------------------------------------------------
(* What the steps do                                                       *)

\* A step after which the connection is either as before or closed.
NeutralStep ==
    Core(r') /\ SameQueries(r', r) /\ Kept(r', r) /\ UNCHANGED <<cache, last, history>>

\* A new client.
RestartStep ==
    /\ Core(r') /\ ~IsOpen(r') /\ r'.on = {} /\ r'.views = {}
    /\ UNCHANGED <<cache, last, history>>

\* A request u for target t is written if the stream is open.
Requested(t, u) ==
    IsOpen(r') => /\ IsOpen(r) /\ r'.up = r.up \o <<u>> /\ r'.agg = Recorded(r.agg, t, 1)
                  /\ r'.down = r.down /\ r'.srv = r.srv /\ r'.read = r.read

ListenStep(t) ==
    /\ t \in Targets /\ t \notin r.on /\ Core(r')
    /\ r'.views = r.views \cup {t} /\ r'.on = r.on \cup {t}
    /\ r'.data = [r.data EXCEPT ![t] = cache[t].token]
    /\ r'.tokens = [r.tokens EXCEPT ![t] = cache[t].token]
    /\ Requested(t, WatchRequest(r', t)) /\ UNCHANGED <<cache, last, history>>

StopStep(t) ==
    /\ t \in Targets /\ t \in r.on /\ Core(r')
    /\ r'.views = r.views \ {t} /\ r'.on = r.on \ {t}
    /\ r'.data = r.data /\ r'.tokens = r.tokens
    /\ Requested(t, UnwatchRequest(t))
    /\ cache' = [cache EXCEPT ![t].token = r.data[t]] /\ UNCHANGED <<last, history>>

OpenStep ==
    /\ Core(r') /\ SameQueries(r', r) /\ IsOpen(r')
    /\ r'.down = <<>> /\ r'.srv = NothingWatched /\ r'.read = 0
    /\ WatchesAll(r'.up, r') /\ r'.agg.resets = {}
    /\ \A t \in Targets : r'.agg.states[t] =
          IF t \in r'.on THEN RecordPendingTargetRequests(NewTargetState, 1) ELSE NewTargetState
    /\ UNCHANGED <<cache, last, history>>

\* The first response is read.
ReadStep(m) ==
    /\ r.down # <<>> /\ m = Head(r.down) /\ m \in Response /\ Sound(m)
    /\ Core(r') /\ IsOpen(r) /\ IsOpen(r') /\ r'.down = Tail(r.down) /\ r'.srv = r.srv
    /\ r'.read = r.read

ChangeStep(m) ==
    /\ ReadStep(m) /\ SameQueries(r', r) /\ r'.up = r.up
    /\ m.kind \notin {"rejected", "snapshot"}
    /\ r.agg \in Agg /\ r'.agg \in Agg
    /\ Changed(r'.agg.states[m.t], r.agg.states[m.t], m.t, m)
    /\ \A u \in Targets : u # m.t => r'.agg.states[u] = r.agg.states[u]
    /\ m.kind # "filter" => r'.agg.resets = r.agg.resets
    /\ UNCHANGED <<cache, last, history>>

ErrorStep(m) ==
    /\ ReadStep(m) /\ r'.up = r.up /\ m.kind = "rejected"
    /\ \/ /\ m.t \notin r.on /\ SameQueries(r', r) /\ r'.agg = r.agg /\ UNCHANGED cache
       \/ /\ m.t \in r.on /\ r'.views = r.views \ {m.t} /\ r'.on = r.on \ {m.t}
          /\ r'.data = r.data /\ r'.tokens = r.tokens /\ r'.agg = RemoveTarget(r.agg, m.t)
          /\ cache' = [cache EXCEPT ![m.t].token = r.data[m.t]]
    /\ UNCHANGED <<last, history>>

SnapshotStep(m) ==
    ReadStep(m) /\ m.kind = "snapshot" /\ Snapshotted(m.v) /\ UNCHANGED history

CommitStep ==
    /\ UNCHANGED <<r, cache, last>>
    /\ \E h \in [Targets -> SUBSET Docs] : history' = Append(history, h)

\* What the backend does to an open connection.
BackendStep ==
    /\ Core(r') /\ IsOpen(r) /\ IsOpen(r') /\ SameQueries(r', r) /\ r'.agg = r.agg
    /\ UNCHANGED <<cache, last, history>>

AnswerStep(q) ==
    /\ BackendStep /\ q \in Request /\ r.up # <<>> /\ q = Head(r.up) /\ r'.up = Tail(r.up)
    /\ r'.read = r.read
    /\ r'.down = Append(r.down, Message(IF q.kind = "watch" THEN "added" ELSE "removed", q.t, 0))
    /\ r'.srv = [r.srv EXCEPT ![q.t] = [on |-> q.kind = "watch", at |-> q.token, cur |-> FALSE]]

RejectStep(t) ==
    /\ "rejected" \in Misfortunes /\ BackendStep /\ t \in Targets
    /\ \E v \in {0, 1} : r'.down = Append(r.down, Message("rejected", t, v))

DeliverStep(u, v, mode) ==
    /\ v \in 1..Len(history) /\ mode \in {"delta"} \cup Misfortunes
    /\ BackendStep /\ Delivered(u, v, mode)

WatchStep ==
    \/ NeutralStep \/ RestartStep
    \/ \E t \in Targets : ListenStep(t) \/ StopStep(t) \/ RejectStep(t)
    \/ OpenStep
    \/ \E m : ChangeStep(m) \/ ErrorStep(m) \/ SnapshotStep(m)
    \/ CommitStep
    \/ \E q : AnswerStep(q)
    \/ \E u, v, mode : DeliverStep(u, v, mode)

\* A closed stream is as good as a new one.
LEMMA KeptWhenClosed ==
    ASSUME NEW s, NEW q, ~IsOpen(s)
    PROVE  Kept(s, q)
  BY DEF Kept

\* The steps that keep or close the connection.
LEMMA NeutralSteps ==
    ASSUME WatchInv,
           \/ EnableNetwork \/ DisableNetwork \/ NetworkChange \/ BackoffElapsed \/ IdleTimeout
           \/ OnlineStateTimeout \/ (\E c \in r.auth : StaleCredentials(c))
           \/ CredentialsError \/ StreamFinish \/ UNCHANGED vars
    PROVE  NeutralStep
  <1>1. Core(r) /\ r \in ClientType
    BY WatchFields
  <1>2. CASE EnableNetwork
    BY <1>1, <1>2, EnableInv DEF EnableNetwork, NeutralStep
  <1>3. CASE DisableNetwork
    <2>1. r' = DisableNetworkOp(r) /\ UNCHANGED <<cache, last, history>>
      BY <1>3 DEF DisableNetwork
    <2>2. Core(r') /\ SameQueries(r', r) /\ ~IsOpen(r')
      BY <1>1, <2>1, DisableInv
    <2> QED
      BY <2>1, <2>2, KeptWhenClosed DEF NeutralStep
  <1>4. CASE NetworkChange
    <2>1. r' = RestartNetwork(r) /\ UNCHANGED <<cache, last, history>>
      BY <1>4 DEF NetworkChange
    <2>2. Core(r') /\ SameQueries(r', r) /\ ~IsOpen(r')
      BY <1>1, <2>1, RestartInv
    <2> QED
      BY <2>1, <2>2, KeptWhenClosed DEF NeutralStep
  <1>5. CASE BackoffElapsed
    <2>1. r.backoff /\ r' = RestartAfterBackoff(r) /\ UNCHANGED <<cache, last, history>>
      BY <1>5 DEF BackoffElapsed
    <2>2. Core(r') /\ SameQueries(r', r) /\ ~IsOpen(r')
      BY <1>1, <2>1, BackoffInv
    <2> QED
      BY <2>1, <2>2, KeptWhenClosed DEF NeutralStep
  <1>6. CASE IdleTimeout
    <2>1. r.idle /\ r' = Stop([r EXCEPT !.idle = FALSE]) /\ UNCHANGED <<cache, last, history>>
      BY <1>6 DEF IdleTimeout
    <2>2. Core(r') /\ SameQueries(r', r) /\ ~IsOpen(r')
      BY <1>1, <2>1, IdleInv
    <2> QED
      BY <2>1, <2>2, KeptWhenClosed DEF NeutralStep
  <1>7. CASE OnlineStateTimeout
    <2>1. r.timer /\ r' = HandleOnlineStateTimeout(r) /\ UNCHANGED <<cache, last, history>>
      BY <1>7 DEF OnlineStateTimeout
    <2>2. Core(r') /\ SameQueries(r', r) /\ SameWire(r', r)
      BY <1>1, <2>1, TimeoutInv
    <2> QED
      BY <2>1, <2>2 DEF NeutralStep, Kept
  <1>8. CASE \E c \in r.auth : StaleCredentials(c)
    <2>1. PICK c \in r.auth : StaleCredentials(c)
      BY <1>8
    <2>2. c # r.closes /\ r' = [r EXCEPT !.auth = @ \ {c}] /\ UNCHANGED <<cache, last, history>>
      BY <2>1 DEF StaleCredentials
    <2>3. Core(r') /\ SameQueries(r', r) /\ SameWire(r', r)
      BY <1>1, <2>2, StaleInv
    <2> QED
      BY <2>2, <2>3 DEF NeutralStep, Kept
  <1>9. CASE CredentialsError
    <2>1. /\ r.closes \in r.auth /\ UNCHANGED <<cache, last, history>>
          /\ r' = Close([HardAssert(r, r.state = "Starting") EXCEPT !.auth = @ \ {r.closes}], "error")
      BY <1>9 DEF CredentialsError
    <2>2. Core(r') /\ SameQueries(r', r) /\ ~IsOpen(r')
      BY <1>1, <2>1, NoTokenInv
    <2> QED
      BY <2>1, <2>2, KeptWhenClosed DEF NeutralStep
  <1>10. CASE StreamFinish
    <2>1. IsOpen(r) /\ r' = Close(r, "error") /\ UNCHANGED <<cache, last, history>>
      BY <1>10 DEF StreamFinish
    <2>2. Core(r') /\ SameQueries(r', r) /\ ~IsOpen(r')
      BY <1>1, <2>1, FinishInv
    <2> QED
      BY <2>1, <2>2, KeptWhenClosed DEF NeutralStep
  <1>11. CASE UNCHANGED vars
    BY <1>1, <1>11 DEF vars, NeutralStep, SameQueries, Kept, SameWire
  <1> QED
    BY <1>2, <1>3, <1>4, <1>5, <1>6, <1>7, <1>8, <1>9, <1>10, <1>11

\* The process dies.
LEMMA RestartSteps ==
    ASSUME WatchInv, Restart
    PROVE  RestartStep
  <1>1. r' = EnableNetworkOp(NewClient) /\ UNCHANGED <<cache, last, history>>
    BY DEF Restart
  <1>2. PICK n : n = NewClient
    OBVIOUS
  <1>3. Core(n) /\ ~IsOpen(n)
    BY <1>2, NewClientCore
  <1>4. Core(r') /\ SameQueries(r', n) /\ Kept(r', n)
    BY <1>1, <1>2, <1>3, EnableInv
  <1>5. n.on = {} /\ n.views = {}
    BY <1>2 DEF NewClient
  <1>6. ~IsOpen(r')
    BY <1>3, <1>4 DEF Kept, SameWire, IsOpen
  <1> QED
    BY <1>1, <1>4, <1>5, <1>6 DEF RestartStep, SameQueries

\* The user starts to listen.
LEMMA ListenSteps ==
    ASSUME WatchInv, NEW t \in Targets, Listen(t)
    PROVE  ListenStep(t)
  <1>1. /\ Core(r) /\ r \in ClientType /\ r.on = r.views /\ r.ok
        /\ cache \in [Targets -> [keys : SUBSET Docs, token : Nat]]
    BY WatchFields DEF Core
  <1>2. PICK token \in Nat : token = cache[t].token
    BY <1>1
  <1>3. PICK views, data, current : /\ views = r.views \cup {t}
                                    /\ data = [r.data EXCEPT ![t] = token]
                                    /\ current = [r.current EXCEPT ![t] = FALSE]
    OBVIOUS
  <1>4. PICK q : q = [r EXCEPT !.views = views, !.data = data, !.current = current]
    OBVIOUS
  <1>5. /\ t \notin r.on /\ r' = RemoteListen(q, t, token) /\ UNCHANGED <<cache, last, history>>
    BY <1>1, <1>2, <1>3, <1>4 DEF Listen
  <1>6. views \in SUBSET Targets /\ data \in [Targets -> Nat] /\ current \in [Targets -> BOOLEAN]
    BY <1>1, <1>2, <1>3, ClientFields
  <1>7. q \in ClientType
    BY <1>1, <1>4, <1>6 DEF ClientType
  <1>8. /\ q.views = views /\ q.data = data /\ q.on = r.on /\ q.tokens = r.tokens
        /\ q.state = r.state /\ q.ok = r.ok /\ q.net = r.net
        /\ q.closes = r.closes /\ q.auth = r.auth /\ q.exists = r.exists /\ q.idle = r.idle
        /\ q.backoff = r.backoff /\ q.agg = r.agg /\ q.up = r.up /\ q.down = r.down
        /\ q.srv = r.srv /\ q.read = r.read
        /\ q.online = r.online /\ q.failures = r.failures /\ q.timer = r.timer
    BY <1>1, <1>4 DEF ClientType
  <1>9. Core(q) /\ (IsOpen(q) <=> IsOpen(r))
    BY <1>1, <1>7, <1>8 DEF Core, StreamInv, TrackerInv, IsOpen, IsStarted, Quiet
  <1>10. /\ Core(r') /\ r'.views = q.views /\ r'.data = q.data /\ r'.on = q.on \cup {t}
         /\ r'.tokens = [q.tokens EXCEPT ![t] = token]
         /\ IsOpen(r') =>
              /\ IsOpen(q) /\ r'.up = q.up \o <<WatchRequest(r', t)>>
              /\ r'.agg = Recorded(q.agg, t, 1)
              /\ r'.down = q.down /\ r'.srv = q.srv /\ r'.read = q.read
    <2>1. t \notin q.on /\ Core(q) /\ r' = RemoteListen(q, t, token)
      BY <1>5, <1>8, <1>9
    <2>2. Listened(r', q, t, token)
      BY <2>1, ListenInv
    <2> QED
      BY <2>2 DEF Listened
  <1>11. Requested(t, WatchRequest(r', t))
    BY <1>8, <1>9, <1>10 DEF Requested
  <1> QED
    BY <1>2, <1>3, <1>5, <1>8, <1>10, <1>11 DEF ListenStep

\* The target data and the view of t are forgotten.
LEMMA CleanupFacts ==
    ASSUME NEW q, Core(q), NEW t \in Targets
    PROVE  LET s == RemoveAndCleanupTarget(q, t)
           IN  /\ Core(s) /\ s.views = q.views \ {t} /\ s.data = q.data /\ s.on = q.on
               /\ s.tokens = q.tokens /\ SameWire(s, q)
  <1>1. q \in ClientType /\ q.ok
    BY DEF Core
  <1>2. PICK views, current : views = q.views \ {t} /\ current = [q.current EXCEPT ![t] = FALSE]
    OBVIOUS
  <1>3. views \in SUBSET Targets /\ current \in [Targets -> BOOLEAN]
    BY <1>1, <1>2, ClientFields
  <1>4. PICK s : s = [q EXCEPT !.views = views, !.current = current]
    OBVIOUS
  <1>5. s \in ClientType
    BY <1>1, <1>3, <1>4 DEF ClientType
  <1>6. /\ s.views = views /\ s.data = q.data /\ s.on = q.on /\ s.tokens = q.tokens
        /\ s.ok = q.ok /\ s.net = q.net
        /\ s.closes = q.closes /\ s.auth = q.auth /\ s.exists = q.exists /\ s.idle = q.idle
        /\ s.backoff = q.backoff /\ SameWire(s, q)
        /\ s.online = q.online /\ s.failures = q.failures /\ s.timer = q.timer
    BY <1>1, <1>4 DEF ClientType, SameWire
  <1>7. Core(s)
    BY <1>5, <1>6 DEF Core, StreamInv, TrackerInv, IsOpen, IsStarted, Quiet, SameWire
  <1>8. RemoveAndCleanupTarget(q, t) = s
    BY <1>2, <1>4 DEF RemoveAndCleanupTarget
  <1> QED
    BY <1>2, <1>6, <1>7, <1>8

\* The user stops to listen.
LEMMA StopSteps ==
    ASSUME WatchInv, NEW t \in Targets, StopListening(t)
    PROVE  StopStep(t)
  <1>1. Core(r) /\ r \in ClientType /\ r.on = r.views
    BY WatchFields
  <1>2. PICK q : q = RemoteStopListening(r, t)
    OBVIOUS
  <1>3. /\ t \in r.on /\ cache' = [cache EXCEPT ![t].token = r.data[t]]
        /\ r' = RemoveAndCleanupTarget(q, t) /\ UNCHANGED <<last, history>>
    BY <1>1, <1>2 DEF StopListening
  <1>4. /\ Core(q) /\ q.views = r.views /\ q.data = r.data /\ q.on = r.on \ {t}
        /\ q.tokens = r.tokens
        /\ IsOpen(q) =>
             /\ IsOpen(r) /\ q.up = r.up \o <<UnwatchRequest(t)>>
             /\ q.agg = Recorded(r.agg, t, 1)
             /\ q.down = r.down /\ q.srv = r.srv /\ q.read = r.read
    BY <1>1, <1>2, <1>3, StopListeningInv
  <1>5. /\ Core(r') /\ r'.views = q.views \ {t} /\ r'.data = q.data /\ r'.on = q.on
        /\ r'.tokens = q.tokens /\ SameWire(r', q)
    BY <1>3, <1>4, CleanupFacts
  <1>6. Requested(t, UnwatchRequest(t))
    BY <1>4, <1>5 DEF Requested, SameWire, IsOpen
  <1> QED
    BY <1>3, <1>4, <1>5, <1>6 DEF StopStep

\* The token arrives.
LEMMA OpenSteps ==
    ASSUME WatchInv, ResumeStartWithCredentials
    PROVE  OpenStep
  <1>1. Core(r)
    BY WatchFields
  <1>2. /\ r.closes \in r.auth /\ UNCHANGED <<cache, last, history>>
        /\ r' = WatchAll([HardAssert(r, r.state = "Starting") EXCEPT
                            !.auth = @ \ {r.closes}, !.state = "Open"])
    BY DEF ResumeStartWithCredentials
  <1>3. /\ Core(r') /\ SameQueries(r', r) /\ IsOpen(r')
        /\ r'.down = <<>> /\ r'.srv = NothingWatched /\ r'.read = 0
        /\ WatchesAll(r'.up, r') /\ r'.agg.resets = {}
        /\ \A t \in Targets : r'.agg.states[t] =
             IF t \in r'.on THEN RecordPendingTargetRequests(NewTargetState, 1) ELSE NewTargetState
    BY <1>1, <1>2, OpenInv
  <1> QED
    BY <1>2, <1>3 DEF OpenStep

\* A target or document change is read.
LEMMA ChangeSteps ==
    ASSUME WatchInv, OnTargetOrDocumentChange
    PROVE  ChangeStep(Head(r.down))
  <1>1. PICK m : m = Head(r.down)
    OBVIOUS
  <1>2. r.down # <<>> /\ UNCHANGED <<cache, last, history>>
    BY DEF OnTargetOrDocumentChange
  <1>3. /\ Core(r') /\ IsOpen(r) /\ IsOpen(r') /\ SameQueries(r', r)
        /\ r'.down = Tail(r.down) /\ r'.up = r.up /\ r'.srv = r.srv /\ r'.read = r.read
        /\ r.agg \in Agg /\ r'.agg \in Agg
    BY ChangeFacts
  <1>4. /\ m \in Response /\ Sound(m) /\ m.kind \notin {"rejected", "snapshot"}
        /\ Changed(r'.agg.states[m.t], r.agg.states[m.t], m.t, m)
        /\ \A u \in Targets : u # m.t => r'.agg.states[u] = r.agg.states[u]
        /\ m.kind # "filter" => r'.agg.resets = r.agg.resets
    BY <1>1, ChangeFacts, Zenon
  <1>5. ReadStep(m)
    BY <1>1, <1>2, <1>3, <1>4 DEF ReadStep
  <1>6. ChangeStep(m)
    BY <1>2, <1>3, <1>4, <1>5 DEF ChangeStep
  <1> QED
    BY <1>1, <1>6

\* An error of a target is read.
LEMMA ErrorSteps ==
    ASSUME WatchInv, ProcessTargetError
    PROVE  ErrorStep(Head(r.down))
  <1>1. PICK m : m = Head(r.down)
    OBVIOUS
  <1>2. Core(r) /\ r \in ClientType /\ DownInv(r) /\ r.down # <<>> /\ m.kind = "rejected"
    BY <1>1, WatchFields DEF ProcessTargetError
  <1>3. m \in Response /\ Sound(m) /\ m.t \in Targets
    BY <1>1, <1>2, SoundTail DEF Sound
  <1>4. PICK t \in Targets : t = m.t
    BY <1>3
  <1>5. PICK q : q = ReadResponse
    OBVIOUS
  <1>6. /\ Core(q) /\ IsOpen(q) /\ IsOpen(r) /\ SameQueries(q, r)
        /\ q.down = Tail(r.down) /\ q.agg = r.agg /\ q.up = r.up /\ q.srv = r.srv
        /\ q.read = r.read
    BY <1>2, <1>5, ReadFacts
  <1>7. UNCHANGED <<last, history>>
    BY DEF ProcessTargetError
  <1>8. CASE t \notin r.on
    <2>1. r' = q /\ UNCHANGED cache
      BY <1>1, <1>4, <1>5, <1>8 DEF ProcessTargetError
    <2>2. ReadStep(m)
      BY <1>1, <1>2, <1>3, <1>6, <2>1 DEF ReadStep
    <2> QED
      BY <1>1, <1>2, <1>4, <1>6, <1>7, <1>8, <2>1, <2>2 DEF ErrorStep
  <1>9. CASE t \in r.on
    <2>1. PICK on, a : on = q.on \ {t} /\ a = RemoveTarget(q.agg, t)
      OBVIOUS
    <2>2. PICK e : e = [q EXCEPT !.on = on, !.agg = a]
      OBVIOUS
    <2>3. r' = RemoveAndCleanupTarget(e, t) /\ cache' = [cache EXCEPT ![t].token = r.data[t]]
      BY <1>1, <1>4, <1>5, <1>9, <2>1, <2>2 DEF ProcessTargetError
    <2>4. q \in ClientType /\ q.ok
      BY <1>6 DEF Core
    <2>5. on \in SUBSET Targets /\ a \in Agg
      <3>1. q.on \in SUBSET Targets /\ q.agg \in Agg
        BY <2>4, ClientFields DEF Agg
      <3> QED
        BY <2>1, <3>1, NewTypes DEF RemoveTarget, Agg
    <2>6. e \in ClientType
      BY <2>2, <2>4, <2>5 DEF ClientType, Agg
    <2>7. /\ e.views = q.views /\ e.data = q.data /\ e.on = on /\ e.tokens = q.tokens
          /\ e.state = q.state /\ e.ok = q.ok /\ e.net = q.net
          /\ e.closes = q.closes /\ e.auth = q.auth /\ e.exists = q.exists /\ e.idle = q.idle
          /\ e.backoff = q.backoff /\ e.agg = a /\ e.up = q.up /\ e.down = q.down
          /\ e.srv = q.srv /\ e.read = q.read
          /\ e.online = q.online /\ e.failures = q.failures /\ e.timer = q.timer
      BY <2>2, <2>4 DEF ClientType
    <2>8. q.idle => on = {}
      BY <1>6, <2>1 DEF Core, StreamInv
    <2>9. Core(e) /\ IsOpen(e)
      BY <1>6, <2>6, <2>7, <2>8 DEF Core, StreamInv, TrackerInv, IsOpen, IsStarted
    <2>10. /\ Core(r') /\ r'.views = e.views \ {t} /\ r'.data = e.data /\ r'.on = e.on
           /\ r'.tokens = e.tokens /\ SameWire(r', e)
      BY <2>3, <2>9, CleanupFacts
    <2>11. IsOpen(r')
      BY <2>9, <2>10 DEF SameWire, IsOpen
    <2>12. ReadStep(m)
      BY <1>1, <1>2, <1>3, <1>6, <2>7, <2>10, <2>11 DEF ReadStep, SameWire
    <2>13. /\ r'.views = r.views \ {t} /\ r'.on = r.on \ {t} /\ r'.up = r.up
           /\ r'.data = r.data /\ r'.tokens = r.tokens /\ r'.agg = RemoveTarget(r.agg, t)
      BY <1>6, <2>1, <2>7, <2>10 DEF SameQueries, SameWire
    <2> QED
      BY <1>1, <1>2, <1>4, <1>7, <1>9, <2>3, <2>12, <2>13 DEF ErrorStep
  <1> QED
    BY <1>8, <1>9

\* A snapshot is read.
LEMMA SnapshotSteps ==
    ASSUME WatchInv, OnSnapshot
    PROVE  SnapshotStep(Head(r.down))
  <1>1. PICK m : m = Head(r.down)
    OBVIOUS
  <1>2. r \in ClientType /\ DownInv(r) /\ r.down # <<>> /\ m.kind = "snapshot" /\ UNCHANGED history
    BY <1>1, WatchFields DEF OnSnapshot
  <1>3. m \in Response /\ Sound(m)
    BY <1>1, <1>2, SoundTail
  <1>4. Snapshotted(m.v)
    BY <1>1, SnapshotFacts
  <1>5. ReadStep(m)
    BY <1>1, <1>2, <1>3, <1>4 DEF ReadStep, Snapshotted
  <1> QED
    BY <1>1, <1>2, <1>4, <1>5 DEF SnapshotStep

\* The database changes.
LEMMA CommitSteps ==
    ASSUME WatchInv, NEW t \in Targets, NEW d \in Docs, Commit(t, d)
    PROVE  CommitStep
  <1>1. history \in Seq([Targets -> SUBSET Docs]) /\ history # <<>>
    BY WatchFields
  <1>2. PICK n \in Nat : n = Len(history) /\ n > 0
    BY <1>1, EmptySeq
  <1>3. PICK now \in [Targets -> SUBSET Docs] : now = history[n]
    BY <1>1, <1>2
  <1>4. PICK E : E = IF d \in now[t] THEN now[t] \ {d} ELSE now[t] \cup {d}
    OBVIOUS
  <1>5. PICK h : h = [now EXCEPT ![t] = E]
    OBVIOUS
  <1>6. h \in [Targets -> SUBSET Docs]
    BY <1>4, <1>5
  <1>7. history' = Append(history, h) /\ UNCHANGED <<r, cache, last>>
    BY <1>2, <1>3, <1>4, <1>5 DEF Commit
  <1> QED
    BY <1>6, <1>7 DEF CommitStep

\* The backend reads requests, sends responses and changes what it knows of targets.
LEMMA BackendSteps ==
    ASSUME WatchInv, IsOpen(r), NEW up \in Seq(Request), NEW down \in Seq(Response),
           NEW srv \in [Targets -> [on : BOOLEAN, at : Nat, cur : BOOLEAN]],
           r' = [r EXCEPT !.up = up, !.down = down, !.srv = srv],
           UNCHANGED <<cache, last, history>>
    PROVE  /\ BackendStep
           /\ r'.up = up /\ r'.down = down /\ r'.srv = srv /\ r'.read = r.read
  <1>1. r \in ClientType /\ Core(r)
    BY WatchFields
  <1>2. PICK q : q = [r EXCEPT !.up = up, !.down = down, !.srv = srv]
    OBVIOUS
  <1>3. q \in ClientType
    BY <1>1, <1>2 DEF ClientType
  <1>4. /\ SameQueries(q, r) /\ q.state = r.state /\ q.ok = r.ok /\ q.net = r.net
        /\ q.closes = r.closes /\ q.auth = r.auth /\ q.exists = r.exists /\ q.idle = r.idle
        /\ q.backoff = r.backoff /\ q.agg = r.agg /\ q.read = r.read
        /\ q.online = r.online /\ q.failures = r.failures /\ q.timer = r.timer
        /\ q.up = up /\ q.down = down /\ q.srv = srv
    BY <1>1, <1>2 DEF ClientType, SameQueries
  <1>5. Core(q) /\ IsOpen(q)
    BY <1>1, <1>3, <1>4 DEF Core, StreamInv, TrackerInv, IsOpen, IsStarted, SameQueries
  <1> QED
    BY <1>2, <1>4, <1>5 DEF BackendStep

\* The backend knows about requests and targets only on an open stream.
LEMMA OnlyWhenOpen ==
    ASSUME WatchInv
    PROVE  /\ r.up # <<>> => IsOpen(r)
           /\ \A t \in Targets : r.srv[t].on => IsOpen(r)
  <1>1. Core(r)
    BY WatchFields
  <1>2. ~IsOpen(r) => r.up = <<>> /\ r.srv = NothingWatched
    BY <1>1 DEF Core, StreamInv, Quiet
  <1> QED
    BY <1>2 DEF NothingWatched

\* The backend answers a request.
LEMMA AnswerSteps ==
    ASSUME WatchInv, ServerAnswer
    PROVE  AnswerStep(Head(r.up))
  <1>1. /\ r \in ClientType /\ r.up \in Seq(Request) /\ r.down \in Seq(Response)
        /\ r.srv \in [Targets -> [on : BOOLEAN, at : Nat, cur : BOOLEAN]]
    BY WatchFields, ClientFields
  <1>2. r.up # <<>> /\ UNCHANGED <<cache, last, history>>
    BY DEF ServerAnswer
  <1>3. PICK q : q = Head(r.up)
    OBVIOUS
  <1>4. q \in Request /\ Tail(r.up) \in Seq(Request)
    BY <1>1, <1>2, <1>3
  <1>5. q.t \in Targets /\ q.t \in Nat /\ q.token \in Nat
    BY <1>4 DEF Request, Targets
  <1>6. PICK m : m = Message(IF q.kind = "watch" THEN "added" ELSE "removed", q.t, 0)
    OBVIOUS
  <1>7. m \in Response
    BY <1>5, <1>6, MessageFacts
  <1>8. PICK x \in [on : BOOLEAN, at : Nat, cur : BOOLEAN] :
            x = [on |-> q.kind = "watch", at |-> q.token, cur |-> FALSE]
    <2>1. (q.kind = "watch") \in BOOLEAN /\ FALSE \in BOOLEAN
      BY Zenon
    <2> QED
      BY <1>5, <2>1, Zenon
  <1>9. PICK up, down, srv : /\ up = Tail(r.up) /\ down = Append(r.down, m)
                             /\ srv = [r.srv EXCEPT ![q.t] = x]
    OBVIOUS
  <1>10. /\ up \in Seq(Request) /\ down \in Seq(Response)
         /\ srv \in [Targets -> [on : BOOLEAN, at : Nat, cur : BOOLEAN]]
    BY <1>1, <1>4, <1>5, <1>7, <1>9
  <1>11. r' = [r EXCEPT !.up = up, !.down = down, !.srv = srv]
    BY <1>3, <1>6, <1>8, <1>9 DEF ServerAnswer
  <1>12. IsOpen(r)
    BY <1>2, OnlyWhenOpen
  <1>13. BackendStep /\ r'.up = up /\ r'.down = down /\ r'.srv = srv /\ r'.read = r.read
    BY <1>2, <1>10, <1>11, <1>12, BackendSteps
  <1> QED
    BY <1>2, <1>3, <1>4, <1>6, <1>8, <1>9, <1>13 DEF AnswerStep

\* The backend rejects a target.
LEMMA RejectSteps ==
    ASSUME WatchInv, NEW t \in Targets, ServerReject(t)
    PROVE  RejectStep(t)
  <1>1. /\ r \in ClientType /\ r.up \in Seq(Request) /\ r.down \in Seq(Response)
        /\ r.srv \in [Targets -> [on : BOOLEAN, at : Nat, cur : BOOLEAN]]
    BY WatchFields, ClientFields
  <1>2. UNCHANGED <<cache, last, history>> /\ "rejected" \in Misfortunes
    BY DEF ServerReject
  <1>3. t \in Nat
    BY DEF Targets
  <1>4. CASE /\ r.up # <<>>
             /\ r' = [r EXCEPT !.up = Tail(@), !.down = Append(@, Message("rejected", t, 1))]
    <2>1. PICK m : m = Message("rejected", t, 1)
      OBVIOUS
    <2>2. m \in Response
      BY <1>3, <2>1, MessageFacts
    <2>3. PICK up, down : up = Tail(r.up) /\ down = Append(r.down, m)
      OBVIOUS
    <2>4. up \in Seq(Request) /\ down \in Seq(Response)
      BY <1>1, <1>4, <2>2, <2>3
    <2>5. r' = [r EXCEPT !.up = up, !.down = down, !.srv = r.srv]
      BY <1>1, <1>4, <2>1, <2>3 DEF ClientType
    <2>6. IsOpen(r)
      BY <1>4, OnlyWhenOpen
    <2>7. BackendStep /\ r'.down = down
      BY <1>1, <1>2, <2>4, <2>5, <2>6, BackendSteps
    <2> QED
      BY <1>2, <2>1, <2>3, <2>7 DEF RejectStep
  <1>5. CASE /\ r.srv[t].on
             /\ r' = [r EXCEPT !.srv[t].on = FALSE, !.down = Append(@, Message("rejected", t, 0))]
    <2>1. PICK m : m = Message("rejected", t, 0)
      OBVIOUS
    <2>2. m \in Response
      BY <1>3, <2>1, MessageFacts
    <2>3. PICK down, srv : down = Append(r.down, m) /\ srv = [r.srv EXCEPT ![t].on = FALSE]
      OBVIOUS
    <2>4. down \in Seq(Response)
      BY <1>1, <2>2, <2>3
    <2>5. srv \in [Targets -> [on : BOOLEAN, at : Nat, cur : BOOLEAN]]
      BY <1>1, <2>3
    <2>6. r' = [r EXCEPT !.up = r.up, !.down = down, !.srv = srv]
      <3>1. r' = [r EXCEPT !.srv = srv, !.down = down]
        BY <1>5, <2>1, <2>3
      <3> QED
        BY <1>1, <3>1 DEF ClientType
    <2>7. IsOpen(r)
      BY <1>5, OnlyWhenOpen
    <2>8. BackendStep /\ r'.down = down
      BY <1>1, <1>2, <2>4, <2>5, <2>6, <2>7, BackendSteps
    <2> QED
      BY <1>2, <2>1, <2>3, <2>8 DEF RejectStep
  <1> QED
    BY <1>4, <1>5 DEF ServerReject

\* The backend sends a snapshot.
LEMMA DeliverSteps ==
    ASSUME WatchInv, NEW v \in 1..Len(history), NEW odd, NEW mode,
           mode \in {"delta"} \cup (Misfortunes \cap {"reset", "lossy"}), ServerSnapshot(v, odd, mode)
    PROVE  \E u : DeliverStep(u, v, mode)
  <1>1. mode \in {"delta", "reset", "lossy"} /\ mode \in {"delta"} \cup Misfortunes
    OBVIOUS
  <1>2. PICK u : Delivered(u, v, mode)
    BY <1>1, ServerSnapshotFacts
  <1>3. UNCHANGED <<cache, last, history>>
    BY <1>1, ServerSnapshotFacts
  <1>4. BackendStep
    BY <1>2, <1>3 DEF BackendStep, Delivered
  <1> QED
    BY <1>1, <1>2, <1>4 DEF DeliverStep

\* Every step is one of these.
LEMMA NextSteps ==
    ASSUME WatchInv, [Next]_vars
    PROVE  WatchStep
  <1>1. CASE \/ EnableNetwork \/ DisableNetwork \/ NetworkChange \/ BackoffElapsed \/ IdleTimeout
             \/ OnlineStateTimeout \/ (\E c \in r.auth : StaleCredentials(c))
             \/ CredentialsError \/ StreamFinish \/ UNCHANGED vars
    BY <1>1, NeutralSteps DEF WatchStep
  <1>2. CASE Restart
    BY <1>2, RestartSteps DEF WatchStep
  <1>3. CASE \E t \in Targets : Listen(t)
    BY <1>3, ListenSteps DEF WatchStep
  <1>4. CASE \E t \in Targets : StopListening(t)
    BY <1>4, StopSteps DEF WatchStep
  <1>5. CASE ResumeStartWithCredentials
    BY <1>5, OpenSteps DEF WatchStep
  <1>6. CASE OnTargetOrDocumentChange
    BY <1>6, ChangeSteps DEF WatchStep
  <1>7. CASE ProcessTargetError
    BY <1>7, ErrorSteps DEF WatchStep
  <1>8. CASE OnSnapshot
    BY <1>8, SnapshotSteps DEF WatchStep
  <1>9. CASE \E t \in Targets, d \in Docs : Commit(t, d)
    BY <1>9, CommitSteps DEF WatchStep
  <1>10. CASE ServerAnswer
    BY <1>10, AnswerSteps DEF WatchStep
  <1>11. CASE \E t \in Targets : ServerReject(t)
    BY <1>11, RejectSteps DEF WatchStep
  <1>12. CASE \E v \in 1..Len(history) : ServerSend(v)
    <2>1. PICK v \in 1..Len(history) : ServerSnapshot(v, 0, "delta")
      BY <1>12 DEF ServerSend
    <2>2. \E u : DeliverStep(u, v, "delta")
      BY <2>1, DeliverSteps
    <2> QED
      BY <2>2 DEF WatchStep
  <1>13. CASE \E v \in 1..Len(history), t \in Targets, mode \in Misfortunes :
                 ServerSendOddly(v, t, mode)
    <2>1. PICK v \in 1..Len(history), t \in Targets, mode \in Misfortunes :
              mode \in Misfortunes \cap {"reset", "lossy"} /\ ServerSnapshot(v, t, mode)
      BY <1>13 DEF ServerSendOddly
    <2>2. \E u : DeliverStep(u, v, mode)
      BY <2>1, DeliverSteps
    <2> QED
      BY <2>2 DEF WatchStep
  <1> QED
    BY <1>1, <1>2, <1>3, <1>4, <1>5, <1>6, <1>7, <1>8, <1>9, <1>10, <1>11, <1>12, <1>13 DEF Next

\* The bounds of the model count.
LEMMA CountTypes ==
    ASSUME listens \in Nat, faults \in Nat, [Next]_vars
    PROVE  listens' \in Nat /\ faults' \in Nat
  <1>1. (listens' = listens \/ listens' = listens + 1) /\ (faults' = faults \/ faults' = faults + 1)
    BY Zenon DEF Next, vars, Listen, StopListening, EnableNetwork, DisableNetwork, NetworkChange, Restart,
        BackoffElapsed, IdleTimeout, OnlineStateTimeout, StaleCredentials,
        ResumeStartWithCredentials, CredentialsError, StreamFinish, OnTargetOrDocumentChange,
        ProcessTargetError, OnSnapshot, Commit, ServerAnswer, ServerReject, ServerSend,
        ServerSendOddly, ServerSnapshot, Disrupt
  <1> QED
    BY <1>1

-----------------------------------------------------------------------------
(* The invariant is kept                                                   *)

CacheType == [Targets -> [keys : SUBSET Docs, token : Nat]]

\* WatchInv in the next state, but for the counters.
Preserved ==
    /\ Core(r') /\ r'.on = r'.views /\ DownInv(r') /\ FitsCache(r', cache')
    /\ cache' \in CacheType /\ last' \in Nat
    /\ history' \in Seq([Targets -> SUBSET Docs]) /\ history' # <<>>

\* Nothing is on its way on a closed stream.
LEMMA QuietFits ==
    ASSUME NEW s, Core(s), ~IsOpen(s), NEW c \in CacheType
    PROVE  DownInv(s) /\ FitsCache(s, c)
  <1>1. s.down = <<>> /\ s.agg = NewAggregator
    BY DEF Core, StreamInv, Quiet
  <1>2. Len(s.down) = 0 /\ 1..0 = {}
    BY <1>1
  <1>3. ASSUME NEW t \in Targets PROVE Fits(s.agg.states[t], c[t].keys)
    <2>1. s.agg.states[t] = NewTargetState /\ c[t].keys \in SUBSET Docs
      BY <1>1 DEF NewAggregator, CacheType
    <2> QED
      BY <2>1, NewTypes, ClearedFacts
  <1> QED
    BY <1>2, <1>3 DEF DownInv, FitsCache

\* The count of a recorded request.
LEMMA RecordedChanges ==
    ASSUME NEW a \in Agg, NEW t \in Targets, NEW n \in Nat
    PROVE  \A x \in Targets : Recorded(a, t, n).states[x].changes = a.states[x].changes
  <1>1. PICK b : b = Recorded(a, t, n)
    OBVIOUS
  <1>2. /\ b.states[t].changes = a.states[t].changes
        /\ \A u \in Targets : u # t => b.states[u] = a.states[u]
    BY <1>1, RecordedFacts DEF OnlyCounted
  <1>3. \A x \in Targets : b.states[x].changes = a.states[x].changes
    BY <1>2
  <1> QED
    BY <1>1, <1>3

\* The user's requests keep it.
LEMMA RequestedPreserves ==
    ASSUME WatchInv, NEW t \in Targets, NEW u, Requested(t, u), Core(r'), NEW c \in CacheType,
           \A x \in Targets : c[x].keys = cache[x].keys
    PROVE  DownInv(r') /\ FitsCache(r', c)
  <1>1. CASE ~IsOpen(r')
    BY <1>1, QuietFits
  <1>2. CASE IsOpen(r')
    <2>1. r'.agg = Recorded(r.agg, t, 1) /\ r'.down = r.down
      BY <1>2 DEF Requested
    <2>2. DownInv(r) /\ FitsCache(r, cache) /\ cache \in CacheType /\ r.agg \in Agg
      BY WatchFields, ClientFields DEF Agg, CacheType
    <2>3. \A x \in Targets : r'.agg.states[x].changes = r.agg.states[x].changes
      BY <2>1, <2>2, RecordedChanges
    <2>4. FitsCache(r', c)
      BY <2>2, <2>3 DEF FitsCache, Fits
    <2> QED
      BY <2>1, <2>2, <2>4 DEF DownInv
  <1> QED
    BY <1>1, <1>2

\* Steps of the client other than reading.
LEMMA ClientPreserves ==
    ASSUME WatchInv, \/ NeutralStep \/ RestartStep \/ OpenStep
                     \/ \E t \in Targets : ListenStep(t) \/ StopStep(t)
    PROVE  Preserved
  <1>1. /\ cache \in CacheType /\ last \in Nat /\ history \in Seq([Targets -> SUBSET Docs])
        /\ history # <<>> /\ r \in ClientType /\ r.on = r.views /\ DownInv(r) /\ FitsCache(r, cache)
    BY WatchFields DEF CacheType
  <1>2. CASE NeutralStep
    <2>1. Core(r') /\ SameQueries(r', r) /\ Kept(r', r) /\ UNCHANGED <<cache, last, history>>
      BY <1>2 DEF NeutralStep
    <2>2. DownInv(r') /\ FitsCache(r', cache)
      <3>1. CASE ~IsOpen(r')
        BY <1>1, <2>1, <3>1, QuietFits
      <3>2. CASE IsOpen(r')
        <4>1. r'.down = r.down /\ r'.agg = r.agg
          BY <2>1, <3>2 DEF Kept, SameWire
        <4> QED
          BY <1>1, <4>1 DEF DownInv, FitsCache
      <3> QED
        BY <3>1, <3>2
    <2> QED
      BY <1>1, <2>1, <2>2 DEF Preserved, SameQueries
  <1>3. CASE RestartStep
    <2>1. Core(r') /\ ~IsOpen(r') /\ r'.on = r'.views /\ UNCHANGED <<cache, last, history>>
      BY <1>3 DEF RestartStep
    <2>2. DownInv(r') /\ FitsCache(r', cache)
      BY <1>1, <2>1, QuietFits
    <2> QED
      BY <1>1, <2>1, <2>2 DEF Preserved
  <1>4. CASE OpenStep
    <2>1. /\ Core(r') /\ SameQueries(r', r) /\ UNCHANGED <<cache, last, history>> /\ r'.down = <<>>
          /\ \A t \in Targets : r'.agg.states[t] =
                IF t \in r'.on THEN RecordPendingTargetRequests(NewTargetState, 1) ELSE NewTargetState
      BY <1>4 DEF OpenStep
    <2>2. Len(r'.down) = 0 /\ 1..0 = {}
      BY <2>1
    <2>3. ASSUME NEW t \in Targets PROVE Fits(r'.agg.states[t], cache[t].keys)
      <3>1. Fits(NewTargetState, cache[t].keys)
        <4>1. cache[t].keys \in SUBSET Docs
          BY <1>1 DEF CacheType
        <4> QED
          BY <4>1, NewTypes, ClearedFacts
      <3>2. RecordPendingTargetRequests(NewTargetState, 1).changes = NewTargetState.changes
        BY DEF RecordPendingTargetRequests, NewTargetState
      <3>3. r'.agg.states[t].changes = NewTargetState.changes
        BY <2>1, <3>2
      <3> QED
        BY <3>1, <3>3 DEF Fits
    <2>4. DownInv(r') /\ FitsCache(r', cache)
      BY <2>2, <2>3 DEF DownInv, FitsCache
    <2> QED
      BY <1>1, <2>1, <2>4 DEF Preserved, SameQueries
  <1>5. ASSUME NEW t \in Targets, ListenStep(t) PROVE Preserved
    <2>1. /\ Core(r') /\ r'.views = r.views \cup {t} /\ r'.on = r.on \cup {t}
          /\ Requested(t, WatchRequest(r', t)) /\ UNCHANGED <<cache, last, history>>
      BY <1>5 DEF ListenStep
    <2>2. DownInv(r') /\ FitsCache(r', cache)
      BY <1>1, <2>1, RequestedPreserves
    <2> QED
      BY <1>1, <2>1, <2>2 DEF Preserved
  <1>6. ASSUME NEW t \in Targets, StopStep(t) PROVE Preserved
    <2>1. /\ Core(r') /\ r'.views = r.views \ {t} /\ r'.on = r.on \ {t}
          /\ Requested(t, UnwatchRequest(t)) /\ UNCHANGED <<last, history>>
          /\ cache' = [cache EXCEPT ![t].token = r.data[t]]
      BY <1>6 DEF StopStep
    <2>2. PICK token \in Nat : token = r.data[t]
      BY <1>1, ClientFields
    <2>3. cache' \in CacheType /\ \A x \in Targets : cache'[x].keys = cache[x].keys
      <3>1. PICK d : d = [cache EXCEPT ![t].token = token]
        OBVIOUS
      <3>2. d \in CacheType /\ \A x \in Targets : d[x].keys = cache[x].keys
        BY <1>1, <3>1 DEF CacheType
      <3> QED
        BY <2>1, <2>2, <3>1, <3>2
    <2>4. DownInv(r') /\ FitsCache(r', cache')
      BY <2>1, <2>3, RequestedPreserves
    <2> QED
      BY <1>1, <2>1, <2>3, <2>4 DEF Preserved
  <1> QED
    BY <1>2, <1>3, <1>4, <1>5, <1>6

\* Reading keeps it.
LEMMA ReadPreserves ==
    ASSUME WatchInv, NEW m, ChangeStep(m) \/ ErrorStep(m) \/ SnapshotStep(m)
    PROVE  Preserved
  <1>1. /\ cache \in CacheType /\ last \in Nat /\ history \in Seq([Targets -> SUBSET Docs])
        /\ history # <<>> /\ r \in ClientType /\ r.on = r.views /\ DownInv(r) /\ FitsCache(r, cache)
        /\ r.agg \in Agg
    BY WatchFields, ClientFields DEF CacheType, Agg
  <1>2. ReadStep(m)
    BY DEF ChangeStep, ErrorStep, SnapshotStep
  <1>3. /\ r.down # <<>> /\ m = Head(r.down) /\ m \in Response /\ Sound(m)
        /\ Core(r') /\ r'.down = Tail(r.down)
    BY <1>2 DEF ReadStep
  <1>4. DownInv(r')
    BY <1>1, <1>3, SoundTail DEF DownInv
  <1>5. CASE ChangeStep(m)
    <2>1. /\ SameQueries(r', r) /\ UNCHANGED <<cache, last, history>> /\ m.kind # "snapshot"
          /\ Changed(r'.agg.states[m.t], r.agg.states[m.t], m.t, m)
          /\ \A u \in Targets : u # m.t => r'.agg.states[u] = r.agg.states[u]
      BY <1>5 DEF ChangeStep
    <2>2. FitsCache(r', cache)
      BY <1>1, <2>1 DEF FitsCache, Changed
    <2> QED
      BY <1>1, <1>3, <1>4, <2>1, <2>2 DEF Preserved, SameQueries
  <1>6. CASE ErrorStep(m)
    <2>1. UNCHANGED <<last, history>> /\ m.t \in Targets
      BY <1>3, <1>6 DEF ErrorStep, Sound
    <2>2. CASE SameQueries(r', r) /\ r'.agg = r.agg /\ UNCHANGED cache
      BY <1>1, <1>3, <1>4, <2>1, <2>2 DEF Preserved, SameQueries, FitsCache
    <2>3. CASE /\ r'.views = r.views \ {m.t} /\ r'.on = r.on \ {m.t}
               /\ r'.agg = RemoveTarget(r.agg, m.t)
               /\ cache' = [cache EXCEPT ![m.t].token = r.data[m.t]]
      <3>1. PICK t \in Targets, token \in Nat : t = m.t /\ token = r.data[t]
        BY <1>1, <2>1, ClientFields
      <3>2. cache' \in CacheType /\ \A x \in Targets : cache'[x].keys = cache[x].keys
        <4>1. PICK d : d = [cache EXCEPT ![t].token = token]
          OBVIOUS
        <4>2. d \in CacheType /\ \A x \in Targets : d[x].keys = cache[x].keys
          BY <1>1, <4>1 DEF CacheType
        <4> QED
          BY <2>3, <3>1, <4>1, <4>2
      <3>3. r'.agg.states = [r.agg.states EXCEPT ![t] = NewTargetState]
        BY <1>1, <2>3, <3>1 DEF RemoveTarget, Agg
      <3>4. ASSUME NEW x \in Targets PROVE Fits(r'.agg.states[x], cache'[x].keys)
        <4>1. CASE x = t
          <5>1. cache'[x].keys \in SUBSET Docs
            BY <3>2 DEF CacheType
          <5>2. Fits(NewTargetState, cache'[x].keys)
            BY <5>1, NewTypes, ClearedFacts
          <5> QED
            BY <1>1, <3>3, <4>1, <5>2 DEF Agg
        <4>2. CASE x # t
          <5>1. r'.agg.states[x] = r.agg.states[x] /\ Fits(r.agg.states[x], cache[x].keys)
            BY <1>1, <3>3, <4>2 DEF Agg, FitsCache
          <5> QED
            BY <3>2, <5>1
        <4> QED
          BY <4>1, <4>2
      <3>5. FitsCache(r', cache')
        BY <3>4 DEF FitsCache
      <3> QED
        BY <1>1, <1>3, <1>4, <2>1, <2>3, <3>2, <3>5 DEF Preserved
    <2> QED
      BY <1>6, <2>2, <2>3 DEF ErrorStep
  <1>7. CASE SnapshotStep(m)
    <2>1. UNCHANGED history /\ Snapshotted(m.v)
      BY <1>7 DEF SnapshotStep
    <2>2. /\ r'.views = r.views /\ r'.on = r.on /\ cache' \in CacheType /\ last' \in Nat
          /\ FitsCache(r', cache')
      BY <2>1 DEF Snapshotted, CacheType
    <2> QED
      BY <1>1, <1>3, <1>4, <2>1, <2>2 DEF Preserved
  <1> QED
    BY <1>5, <1>6, <1>7

\* More responses that make sense.
LEMMA SoundMore ==
    ASSUME NEW d \in Seq(Response), \A i \in 1..Len(d) : Sound(d[i]), NEW m \in Response, Sound(m)
    PROVE  LET e == Append(d, m)
           IN  e \in Seq(Response) /\ \A i \in 1..Len(e) : Sound(e[i])
  <1>1. PICK n \in Nat : n = Len(d)
    OBVIOUS
  <1>2. PICK e : e = Append(d, m)
    OBVIOUS
  <1>3. e \in Seq(Response) /\ Len(e) = n + 1 /\ e[n + 1] = m /\ \A i \in 1..n : e[i] = d[i]
    BY <1>1, <1>2
  <1>4. \A i \in 1..(n + 1) : i \in 1..n \/ i = n + 1
    OBVIOUS
  <1>5. \A i \in 1..Len(e) : Sound(e[i])
    BY <1>1, <1>3, <1>4
  <1> QED
    BY <1>2, <1>3, <1>5

\* The backend's steps keep it.
LEMMA BackendPreserves ==
    ASSUME WatchInv, \/ CommitStep
                     \/ \E t \in Targets : RejectStep(t)
                     \/ \E q : AnswerStep(q)
                     \/ \E u, v, mode : DeliverStep(u, v, mode)
    PROVE  Preserved
  <1>1. /\ cache \in CacheType /\ last \in Nat /\ history \in Seq([Targets -> SUBSET Docs])
        /\ history # <<>> /\ r \in ClientType /\ r.on = r.views /\ DownInv(r) /\ FitsCache(r, cache)
        /\ r.down \in Seq(Response) /\ Core(r)
    BY WatchFields, ClientFields DEF CacheType
  <1>2. CASE CommitStep
    <2>1. PICK h \in [Targets -> SUBSET Docs] : history' = Append(history, h)
      BY <1>2 DEF CommitStep
    <2>2. r' = r /\ cache' = cache /\ last' = last
      BY <1>2 DEF CommitStep
    <2>3. history' \in Seq([Targets -> SUBSET Docs]) /\ history' # <<>>
      <3>1. Len(history') = Len(history) + 1 /\ Len(history) \in Nat
        BY <1>1, <2>1
      <3> QED
        BY <1>1, <2>1, <3>1
    <2> QED
      BY <1>1, <2>2, <2>3 DEF Preserved
  <1>3. ASSUME BackendStep, NEW m \in Response, Sound(m), r'.down = Append(r.down, m)
        PROVE  Preserved
    <2>1. DownInv(r')
      BY <1>1, <1>3, SoundMore DEF DownInv
    <2> QED
      BY <1>1, <1>3, <2>1 DEF Preserved, BackendStep, SameQueries, FitsCache
  <1>4. ASSUME NEW t \in Targets, RejectStep(t) PROVE Preserved
    <2>1. PICK v \in {0, 1} : r'.down = Append(r.down, Message("rejected", t, v))
      BY <1>4 DEF RejectStep
    <2>2. PICK m : m = Message("rejected", t, v)
      OBVIOUS
    <2>3. t \in Nat /\ v \in Nat
      BY DEF Targets
    <2>4. m \in Response /\ m.kind = "rejected" /\ m.t = t
      BY <2>2, <2>3, MessageFacts
    <2>5. Sound(m)
      BY <2>4 DEF Sound
    <2> QED
      BY <1>3, <1>4, <2>1, <2>2, <2>4, <2>5 DEF RejectStep
  <1>5. ASSUME NEW q, AnswerStep(q) PROVE Preserved
    <2>1. PICK kind \in {"added", "removed"} : kind = IF q.kind = "watch" THEN "added" ELSE "removed"
      OBVIOUS
    <2>2. PICK m : m = Message(kind, q.t, 0)
      OBVIOUS
    <2>3. r'.down = Append(r.down, m) /\ q \in Request /\ BackendStep
      BY <1>5, <2>1, <2>2 DEF AnswerStep
    <2>4. q.t \in Nat /\ q.t \in Targets
      BY <2>3 DEF Targets, Request
    <2>5. m \in Response /\ m.kind = kind /\ m.t = q.t
      BY <2>2, <2>4, MessageFacts
    <2>6. Sound(m)
      BY <2>4, <2>5 DEF Sound
    <2> QED
      BY <1>3, <2>3, <2>5, <2>6
  <1>6. ASSUME NEW u, NEW v, NEW mode, DeliverStep(u, v, mode) PROVE Preserved
    <2>1. /\ BackendStep /\ Plain(u, Kinds(mode = "lossy")) /\ v \in 1..Len(history)
          /\ r'.down = (r.down \o u) \o <<Message("snapshot", 0, v)>>
      BY <1>6 DEF DeliverStep, Delivered
    <2>2. PICK m : m = Message("snapshot", 0, v)
      OBVIOUS
    <2>3. v \in Nat /\ 0 \in Nat
      BY <2>1
    <2>4. m \in Response /\ m.kind = "snapshot"
      BY <2>2, <2>3, MessageFacts
    <2>5. Sound(m)
      BY <2>4 DEF Sound
    <2>6. PICK K : K = {x.kind : x \in Response}
      OBVIOUS
    <2>7. Plain(r.down, K)
      BY <1>1, <2>6 DEF Plain, DownInv
    <2>8. Plain(u, K) /\ u \in Seq(Response)
      BY <2>1, <2>6 DEF Plain
    <2>9. PICK d : d = r.down \o u
      OBVIOUS
    <2>10. d \in Seq(Response) /\ \A i \in 1..Len(d) : Sound(d[i])
      <3>1. Plain(d, K)
        BY <2>7, <2>8, <2>9, PlainConcat
      <3> QED
        BY <3>1 DEF Plain
    <2>11. PICK e : e = Append(d, m)
      OBVIOUS
    <2>12. r'.down = e
      BY <2>1, <2>2, <2>4, <2>9, <2>10, <2>11
    <2>13. e \in Seq(Response) /\ \A i \in 1..Len(e) : Sound(e[i])
      BY <2>4, <2>5, <2>10, <2>11, SoundMore
    <2>14. DownInv(r')
      BY <2>12, <2>13 DEF DownInv
    <2> QED
      BY <1>1, <2>1, <2>14 DEF Preserved, BackendStep, SameQueries, FitsCache
  <1> QED
    BY <1>2, <1>4, <1>5, <1>6

\* WatchInv is inductive.
LEMMA WatchInvInductive ==
    /\ Init => WatchInv
    /\ WatchInv /\ [Next]_vars => WatchInv'
  <1>1. ASSUME Init PROVE WatchInv
    <2>1. PICK n : n = NewClient
      OBVIOUS
    <2>2. Core(n) /\ ~IsOpen(n)
      BY <2>1, NewClientCore
    <2>3. r = EnableNetworkOp(n)
      BY <1>1, <2>1 DEF Init
    <2>4. Core(r) /\ SameQueries(r, n) /\ Kept(r, n)
      BY <2>2, <2>3, EnableInv
    <2>5. n.on = n.views
      BY <2>1 DEF NewClient
    <2>6. ~IsOpen(r)
      BY <2>2, <2>4 DEF Kept, SameWire, IsOpen
    <2>7. cache \in CacheType
      BY <1>1 DEF Init, CacheType
    <2>8. DownInv(r) /\ FitsCache(r, cache)
      BY <2>4, <2>6, <2>7, QuietFits
    <2>9. history \in Seq([Targets -> SUBSET Docs]) /\ history # <<>>
      BY <1>1 DEF Init
    <2>10. last \in Nat /\ listens \in Nat /\ faults \in Nat
      BY <1>1 DEF Init
    <2> QED
      BY <2>4, <2>5, <2>7, <2>8, <2>9, <2>10 DEF WatchInv, WatchTypeOK, CacheType, SameQueries, Core
  <1>2. ASSUME WatchInv, [Next]_vars PROVE WatchInv'
    <2>1. WatchStep
      BY <1>2, NextSteps
    <2>2. Preserved
      BY <1>2, <2>1, ClientPreserves, ReadPreserves, BackendPreserves DEF WatchStep
    <2>3. listens' \in Nat /\ faults' \in Nat
      BY <1>2, WatchFields, CountTypes
    <2>4. r' \in ClientType /\ WatchTypeOK'
      BY <2>2, <2>3 DEF Preserved, Core, WatchTypeOK, CacheType
    <2> QED
      BY <2>2, <2>4 DEF WatchInv, Preserved, Core, DownInv, FitsCache, StreamInv, TrackerInv, Quiet, IsOpen, IsStarted
  <1> QED
    BY <1>1, <1>2

-----------------------------------------------------------------------------
(* What holds whatever the backend does                                    *)

\* WatchInv is an invariant.
LEMMA WatchInvAlways == Spec => []WatchInv
  BY WatchInvInductive, PTL DEF Spec

\* Every variable keeps its type, however the stream, the backend and the
\* user behave.
THEOREM WatchTypes == Spec => []WatchTypeOK
  <1>1. WatchInv => WatchTypeOK
    BY DEF WatchInv
  <1> QED
    BY <1>1, WatchInvAlways, PTL

\* No HARD_ASSERT on the watch path fails: the backoff timer finds a stream in
\* Backoff and a token one in Starting, requests are written only to an open
\* stream with an aggregator, the stream is not closed regularly while it is
\* needed, and a document that a snapshot calls modified is in the view.
THEOREM WatchAssertsHold == Spec => []NoWatchAssertFails
  <1>1. WatchInv => NoWatchAssertFails
    BY DEF WatchInv, Core, NoWatchAssertFails
  <1> QED
    BY <1>1, WatchInvAlways, PTL

\* OnlineStateTracker calls the client online only while the watch stream is
\* open, and its timer runs only while the state is unknown and the stream is
\* started.
THEOREM OnlineStateFollowsStream == Spec => []OnlineStateMatchesStream
  <1>1. WatchInv => OnlineStateMatchesStream
    BY DEF WatchInv, Core, TrackerInv, OnlineStateMatchesStream
  <1> QED
    BY <1>1, WatchInvAlways, PTL

\* RemoteStore listens to exactly the targets with a view in SyncEngine, and
\* has an aggregator exactly while the stream is started.
THEOREM ListensFollowViews == Spec => []ListensMatchViews
  <1>1. WatchInv => ListensMatchViews
    BY DEF WatchInv, Core, StreamInv, ListensMatchViews
  <1> QED
    BY <1>1, WatchInvAlways, PTL

-----------------------------------------------------------------------------
(* Outstanding responses                                                   *)

\* The responses that answer a request for target t.
Answers(t) ==
    {m \in Response : /\ m.t = t
                      /\ \/ m.kind \in {"added", "removed"}
                         \/ m.kind = "rejected" /\ m.v = 1}

\* No target is rejected, and the requests that are not counted by the backlog
\* of the backend are counted by the responses on their way.
NoneRejected(s) == \A i \in 1..Len(s.down) : s.down[i].kind # "rejected"

CountInv(s) == NoneRejected(s) /\ \A t \in Targets : Owed(s, t) = Occ(s.down, Answers(t))

\* The counts are numbers.
LEMMA CountsType ==
    ASSUME NEW s \in ClientType, NEW t \in Targets
    PROVE  /\ s.agg.states[t].out \in Int /\ Occ(s.up, Asks(t)) \in Int
           /\ Occ(s.down, Answers(t)) \in Int
  <1>1. s.up \in Seq(Request) /\ s.down \in Seq(Response)
    BY ClientFields
  <1>2. s.agg.states[t] \in TargetState
    BY ClientFields
  <1>3. Occ(s.up, Asks(t)) \in Nat /\ Occ(s.down, Answers(t)) \in Nat
    BY <1>1, OccType
  <1> QED
    BY <1>2, <1>3 DEF TargetState

\* Nothing is outstanding on a closed stream.
LEMMA QuietCounts ==
    ASSUME NEW s, Core(s), ~IsOpen(s)
    PROVE  CountInv(s)
  <1>1. s.down = <<>> /\ s.up = <<>> /\ s.agg = NewAggregator
    BY DEF Core, StreamInv, Quiet
  <1>2. Len(s.down) = 0 /\ Len(s.up) = 0 /\ 1..0 = {}
    BY <1>1
  <1>3. ASSUME NEW t \in Targets PROVE Owed(s, t) = Occ(s.down, Answers(t))
    <2>1. s.agg.states[t].out = 0
      BY <1>1 DEF NewAggregator, NewTargetState
    <2>2. Occ(s.down, Answers(t)) = 0 /\ Occ(s.up, Asks(t)) = 0
      BY <1>2, OccNone
    <2> QED
      BY <2>1, <2>2 DEF Owed
  <1> QED
    BY <1>2, <1>3 DEF CountInv, NoneRejected

\* The counts depend on the connection alone.
LEMMA SameCounts ==
    ASSUME NEW s, NEW q, CountInv(q), s.down = q.down, \A t \in Targets : Owed(s, t) = Owed(q, t)
    PROVE  CountInv(s)
  BY DEF CountInv, NoneRejected

\* A request of the user is counted.
LEMMA RequestedCounts ==
    ASSUME WatchInv, CountInv(r), NEW t \in Targets, NEW u \in Asks(t), Requested(t, u), Core(r')
    PROVE  CountInv(r')
  <1>1. CASE ~IsOpen(r')
    BY <1>1, QuietCounts
  <1>2. CASE IsOpen(r')
    <2>1. r'.agg = Recorded(r.agg, t, 1) /\ r'.down = r.down /\ r'.up = r.up \o <<u>>
      BY <1>2 DEF Requested
    <2>2. r \in ClientType /\ r' \in ClientType
      BY WatchFields DEF Core
    <2>3. \A x \in Targets : Owed(r', x) = Owed(r, x)
      BY <2>1, <2>2, OwedSent, ZenonT(40)
    <2> QED
      BY <2>1, <2>3, SameCounts
  <1> QED
    BY <1>1, <1>2

\* Requests for target t.
LEMMA AsksFacts ==
    ASSUME NEW s \in ClientType, NEW t \in Targets
    PROVE  WatchRequest(s, t) \in Asks(t) /\ UnwatchRequest(t) \in Asks(t)
  <1>1. s.tokens[t] \in Nat
    BY ClientFields
  <1> QED
    BY <1>1 DEF WatchRequest, UnwatchRequest, Asks, Request

\* The requests of a stream that was just opened are counted.
LEMMA OpenCounts ==
    ASSUME OpenStep
    PROVE  CountInv(r')
  <1>1. /\ r' \in ClientType /\ r'.down = <<>> /\ WatchesAll(r'.up, r')
        /\ \A t \in Targets : r'.agg.states[t] =
             IF t \in r'.on THEN RecordPendingTargetRequests(NewTargetState, 1) ELSE NewTargetState
    BY DEF OpenStep, Core
  <1>2. Len(r'.down) = 0 /\ 1..0 = {}
    BY <1>1
  <1>3. PICK up \in Seq(Request) : up = r'.up
    BY <1>1, ClientFields
  <1>4. ASSUME NEW t \in Targets PROVE Owed(r', t) = Occ(r'.down, Answers(t))
    <2>1. Occ(r'.down, Answers(t)) = 0
      BY <1>2, OccNone
    <2>2. CASE t \notin r'.on
      <3>1. r'.agg.states[t].out = 0
        BY <1>1, <2>2 DEF NewTargetState
      <3>2. \A i \in 1..Len(up) : up[i] \notin Asks(t)
        BY <1>1, <1>3, <2>2 DEF WatchesAll, Asks
      <3>3. Occ(up, Asks(t)) = 0
        BY <3>2, OccNone
      <3> QED
        BY <1>3, <2>1, <3>1, <3>3 DEF Owed
    <2>3. CASE t \in r'.on
      <3>1. r'.agg.states[t].out = 1
        <4>1. PICK x \in TargetState : x = NewTargetState
          BY NewTypes
        <4>2. x.out = 0
          BY <4>1 DEF NewTargetState
        <4>3. RecordPendingTargetRequests(x, 1).out = x.out + 1
          BY DEF RecordPendingTargetRequests, TargetState
        <4> QED
          BY <1>1, <2>3, <4>1, <4>2, <4>3
      <3>2. PICK k \in 1..Len(up) : up[k].t = t
        BY <1>1, <1>3, <2>3 DEF WatchesAll
      <3>3. At(up, Asks(t)) = {k}
        <4>1. \A i \in 1..Len(up) : up[i] \in Asks(t) <=> up[i].t = t
          BY <1>3 DEF Asks
        <4>2. \A i \in 1..Len(up) : up[i].t = t => i = k
          BY <1>1, <1>3, <3>2 DEF WatchesAll
        <4> QED
          BY <3>2, <4>1, <4>2 DEF At
      <3>4. Occ(up, Asks(t)) = 1
        BY <3>3, FS_Singleton DEF Occ
      <3> QED
        BY <1>3, <2>1, <3>1, <3>4 DEF Owed
    <2> QED
      BY <2>2, <2>3
  <1> QED
    BY <1>2, <1>4 DEF CountInv, NoneRejected

\* The rest of the responses.
LEMMA RestFacts ==
    ASSUME NEW S, NEW s \in Seq(S), s # <<>>
    PROVE  /\ Head(s) \in S /\ Head(s) = s[1] /\ Tail(s) \in Seq(S)
           /\ Len(s) \in Nat /\ Len(s) > 0 /\ Len(Tail(s)) = Len(s) - 1
           /\ \A i \in 1..Len(Tail(s)) : i + 1 \in 1..Len(s) /\ Tail(s)[i] = s[i + 1]
  <1>1. PICK n \in Nat : n = Len(s) /\ n > 0
    BY EmptySeq
  <1>2. PICK t : t = Tail(s)
    OBVIOUS
  <1>3. t \in Seq(S) /\ Len(t) = n - 1 /\ \A i \in 1..(n - 1) : t[i] = s[i + 1]
    BY <1>1, <1>2
  <1>4. Head(s) = s[1] /\ s[1] \in S
    BY <1>1
  <1> QED
    BY <1>1, <1>2, <1>3, <1>4

\* Reading counts.
LEMMA ReadCounts ==
    ASSUME WatchInv, CountInv(r), NEW m, ChangeStep(m) \/ ErrorStep(m) \/ SnapshotStep(m)
    PROVE  CountInv(r')
  <1>1. r \in ClientType /\ r.down \in Seq(Response)
    BY WatchFields, ClientFields
  <1>2. ReadStep(m)
    BY DEF ChangeStep, ErrorStep, SnapshotStep
  <1>3. /\ r.down # <<>> /\ m = Head(r.down) /\ m \in Response /\ Sound(m)
        /\ r' \in ClientType /\ r'.down = Tail(r.down)
    BY <1>2 DEF ReadStep, Core
  <1>4. NoneRejected(r') /\ m.kind # "rejected"
    <2>1. /\ m = r.down[1] /\ 1 \in 1..Len(r.down)
          /\ \A i \in 1..Len(r'.down) : i + 1 \in 1..Len(r.down) /\ r'.down[i] = r.down[i + 1]
      BY <1>1, <1>3, RestFacts
    <2> QED
      BY <2>1 DEF CountInv, NoneRejected
  <1>5. \A t \in Targets : Occ(r.down, Answers(t)) =
            IF m \in Answers(t) THEN Occ(r'.down, Answers(t)) + 1 ELSE Occ(r'.down, Answers(t))
    BY <1>1, <1>3, OccTail
  <1>6. CASE ChangeStep(m)
    <2>1. /\ r'.up = r.up /\ m.kind # "snapshot"
          /\ Changed(r'.agg.states[m.t], r.agg.states[m.t], m.t, m)
          /\ \A u \in Targets : u # m.t => r'.agg.states[u] = r.agg.states[u]
      BY <1>6 DEF ChangeStep
    <2>2. m.t \in Targets
      BY <1>3, <2>1 DEF Sound
    <2>3. ASSUME NEW t \in Targets PROVE Owed(r', t) = Occ(r'.down, Answers(t))
      <3>1. m \in Answers(t) <=> IsAnswer(m, t)
        BY <1>3, <1>4 DEF Answers, IsAnswer
      <3>2. r'.agg.states[t].out = IF IsAnswer(m, t) THEN r.agg.states[t].out - 1
                                                     ELSE r.agg.states[t].out
        <4>1. CASE t = m.t
          BY <2>1, <4>1 DEF Changed
        <4>2. CASE t # m.t
          BY <2>1, <4>2 DEF IsAnswer
        <4> QED
          BY <4>1, <4>2
      <3>3. PICK b \in Int, c \in Int, d \in Int, e \in Int :
                /\ b = r.agg.states[t].out /\ c = r'.agg.states[t].out
                /\ d = Occ(r.down, Answers(t)) /\ e = Occ(r'.down, Answers(t))
        BY <1>1, <1>3, CountsType
      <3>4. PICK f \in Int : f = Occ(r.up, Asks(t))
        BY <1>1, CountsType
      <3>5. b - f = d
        BY <3>3, <3>4 DEF CountInv, Owed
      <3>6. (m \in Answers(t) => d = e + 1 /\ c = b - 1) /\ (m \notin Answers(t) => d = e /\ c = b)
        BY <1>5, <3>1, <3>2, <3>3
      <3>7. c - f = e
        BY <3>5, <3>6
      <3> QED
        BY <2>1, <3>3, <3>4, <3>7 DEF Owed
    <2> QED
      BY <1>4, <2>3 DEF CountInv
  <1>7. CASE ErrorStep(m)
    BY <1>4, <1>7 DEF ErrorStep
  <1>8. CASE SnapshotStep(m)
    <2>1. m.kind = "snapshot" /\ \A t \in Targets : Owed(r', t) = Owed(r, t)
      BY <1>8 DEF SnapshotStep, Snapshotted
    <2>2. \A t \in Targets : m \notin Answers(t)
      BY <2>1 DEF Answers
    <2>3. \A t \in Targets : Owed(r', t) = Occ(r'.down, Answers(t))
      BY <1>5, <2>1, <2>2 DEF CountInv
    <2> QED
      BY <1>4, <2>3 DEF CountInv
  <1> QED
    BY <1>6, <1>7, <1>8

\* An answer is counted as a response as soon as it is no request any more.
LEMMA AnswerCounts ==
    ASSUME WatchInv, CountInv(r), NEW q, AnswerStep(q)
    PROVE  CountInv(r')
  <1>1. r \in ClientType /\ r.down \in Seq(Response) /\ r.up \in Seq(Request)
    BY WatchFields, ClientFields
  <1>2. /\ r' \in ClientType /\ r'.agg = r.agg /\ q \in Request /\ r.up # <<>> /\ q = Head(r.up)
        /\ r'.up = Tail(r.up)
    BY DEF AnswerStep, BackendStep, Core
  <1>3. PICK kind \in {"added", "removed"} : kind = IF q.kind = "watch" THEN "added" ELSE "removed"
    OBVIOUS
  <1>4. PICK m : m = Message(kind, q.t, 0)
    OBVIOUS
  <1>5. r'.down = Append(r.down, m)
    BY <1>3, <1>4 DEF AnswerStep
  <1>6. q.t \in Nat /\ q.t \in Targets
    BY <1>2 DEF Targets, Request
  <1>7. m \in Response /\ m.kind = kind /\ m.t = q.t
    BY <1>4, <1>6, MessageFacts
  <1>8. NoneRejected(r')
    <2>1. PICK n \in Nat : n = Len(r.down)
      BY <1>1
    <2>2. /\ Len(r'.down) = n + 1 /\ r'.down[n + 1] = m /\ \A i \in 1..n : r'.down[i] = r.down[i]
      BY <1>1, <1>5, <1>7, <2>1
    <2>3. \A i \in 1..(n + 1) : i \in 1..n \/ i = n + 1
      OBVIOUS
    <2> QED
      BY <1>3, <1>7, <2>1, <2>2, <2>3 DEF CountInv, NoneRejected
  <1>9. ASSUME NEW t \in Targets PROVE Owed(r', t) = Occ(r'.down, Answers(t))
    <2>1. (q \in Asks(t) <=> q.t = t) /\ (m \in Answers(t) <=> q.t = t)
      BY <1>2, <1>3, <1>7 DEF Asks, Answers
    <2>2. PICK o \in Int, a \in Int, b \in Int : /\ o = r.agg.states[t].out
                                                 /\ a = Occ(r.up, Asks(t)) /\ b = Occ(r'.up, Asks(t))
      BY <1>1, <1>2, CountsType
    <2>3. PICK c \in Int, d \in Int : c = Occ(r.down, Answers(t)) /\ d = Occ(r'.down, Answers(t))
      BY <1>1, <1>2, CountsType
    <2>4. o - a = c
      BY <2>2, <2>3 DEF CountInv, Owed
    <2>5. a = IF q \in Asks(t) THEN b + 1 ELSE b
      BY <1>1, <1>2, <2>2, OccTail
    <2>6. d = IF m \in Answers(t) THEN c + 1 ELSE c
      BY <1>1, <1>5, <1>7, <2>3, OccAppend
    <2>7. o - b = d
      BY <2>1, <2>4, <2>5, <2>6
    <2> QED
      BY <1>2, <2>2, <2>3, <2>7 DEF Owed
  <1> QED
    BY <1>8, <1>9 DEF CountInv

\* A snapshot is no answer.
LEMMA DeliverCounts ==
    ASSUME WatchInv, CountInv(r), NEW u, NEW v, NEW mode, DeliverStep(u, v, mode)
    PROVE  CountInv(r')
  <1>1. r \in ClientType /\ r.down \in Seq(Response)
    BY WatchFields, ClientFields
  <1>2. /\ r'.agg = r.agg /\ r'.up = r.up /\ Plain(u, Kinds(mode = "lossy")) /\ v \in 1..Len(history)
        /\ r'.down = (r.down \o u) \o <<Message("snapshot", 0, v)>>
    BY DEF DeliverStep, Delivered
  <1>3. PICK m : m = Message("snapshot", 0, v)
    OBVIOUS
  <1>4. v \in Nat /\ 0 \in Nat
    BY <1>2
  <1>5. m \in Response /\ m.kind = "snapshot"
    BY <1>3, <1>4, MessageFacts
  <1>6. u \in Seq(Response) /\ \A i \in 1..Len(u) : u[i].kind \in {"put", "drop", "reset", "current", "filter"}
    BY <1>2 DEF Plain, Kinds
  <1>7. PICK d : d = r.down \o u
    OBVIOUS
  <1>8. d \in Seq(Response) /\ r'.down = Append(d, m)
    BY <1>1, <1>2, <1>3, <1>5, <1>6, <1>7
  <1>9. ASSUME NEW t \in Targets PROVE Occ(r'.down, Answers(t)) = Occ(r.down, Answers(t))
    <2>1. (\A i \in 1..Len(u) : u[i] \notin Answers(t)) /\ m \notin Answers(t)
      BY <1>5, <1>6 DEF Answers
    <2>2. Occ(d, Answers(t)) = Occ(r.down, Answers(t))
      BY <1>1, <1>6, <1>7, <2>1, OccConcat
    <2> QED
      BY <1>5, <1>8, <2>1, <2>2, OccAppend
  <1>10. NoneRejected(r')
    <2>1. PICK n \in Nat, k \in Nat : n = Len(r.down) /\ k = Len(u)
      BY <1>1, <1>6
    <2>2. /\ Len(d) = n + k /\ \A i \in 1..n : d[i] = r.down[i]
          /\ \A i \in (n + 1)..(n + k) : i - n \in 1..k /\ d[i] = u[i - n]
      BY <1>1, <1>6, <1>7, <2>1, ConcatElements
    <2>3. /\ Len(r'.down) = n + k + 1 /\ r'.down[n + k + 1] = m
          /\ \A i \in 1..(n + k) : r'.down[i] = d[i]
      BY <1>5, <1>8, <2>2
    <2>4. \A i \in 1..(n + k + 1) : i \in 1..n \/ i \in (n + 1)..(n + k) \/ i = n + k + 1
      OBVIOUS
    <2>5. \A i \in 1..n : i \in 1..(n + k) /\ r.down[i].kind # "rejected"
      BY <2>1 DEF CountInv, NoneRejected
    <2>6. \A i \in (n + 1)..(n + k) : i \in 1..(n + k) /\ d[i].kind # "rejected"
      BY <1>6, <2>1, <2>2
    <2>7. \A i \in 1..(n + k + 1) : r'.down[i].kind # "rejected"
      BY <1>5, <2>2, <2>3, <2>4, <2>5, <2>6
    <2> QED
      BY <2>3, <2>7 DEF NoneRejected
  <1>11. \A t \in Targets : Owed(r', t) = Owed(r, t)
    BY <1>2 DEF Owed
  <1> QED
    BY <1>9, <1>10, <1>11 DEF CountInv

\* The counts stay exact unless a target is rejected.
LEMMA CountsKept ==
    ASSUME "rejected" \notin Misfortunes, WatchInv, CountInv(r), WatchStep
    PROVE  CountInv(r')
  <1>1. r \in ClientType
    BY WatchFields
  <1>2. CASE NeutralStep
    <2>1. Core(r') /\ Kept(r', r)
      BY <1>2 DEF NeutralStep
    <2>2. CASE IsOpen(r')
      <3>1. r'.agg = r.agg /\ r'.up = r.up /\ r'.down = r.down
        BY <2>1, <2>2 DEF Kept, SameWire
      <3>2. \A t \in Targets : Owed(r', t) = Owed(r, t)
        BY <3>1 DEF Owed
      <3> QED
        BY <3>1, <3>2, SameCounts
    <2>3. CASE ~IsOpen(r')
      BY <2>1, <2>3, QuietCounts
    <2> QED
      BY <2>2, <2>3
  <1>3. CASE RestartStep
    BY <1>3, QuietCounts DEF RestartStep
  <1>4. ASSUME NEW t \in Targets, ListenStep(t) PROVE CountInv(r')
    <2>1. Core(r') /\ r' \in ClientType /\ Requested(t, WatchRequest(r', t))
      BY <1>4 DEF ListenStep, Core
    <2>2. WatchRequest(r', t) \in Asks(t)
      BY <2>1, AsksFacts
    <2> QED
      BY <2>1, <2>2, RequestedCounts
  <1>5. ASSUME NEW t \in Targets, StopStep(t) PROVE CountInv(r')
    <2>1. Core(r') /\ Requested(t, UnwatchRequest(t))
      BY <1>5 DEF StopStep
    <2>2. UnwatchRequest(t) \in Asks(t)
      BY <1>1, AsksFacts
    <2> QED
      BY <2>1, <2>2, RequestedCounts
  <1>6. ASSUME NEW t \in Targets, RejectStep(t) PROVE FALSE
    BY <1>6 DEF RejectStep
  <1>7. CASE OpenStep
    BY <1>7, OpenCounts
  <1>8. CASE CommitStep
    <2>1. r' = r
      BY <1>8 DEF CommitStep
    <2> QED
      BY <2>1
  <1> QED
    BY <1>2, <1>3, <1>4, <1>5, <1>6, <1>7, <1>8, ReadCounts, AnswerCounts, DeliverCounts DEF WatchStep

\* The invariant for a backend that rejects no target.
CountedInv == WatchInv /\ CountInv(r)

\* It holds from the start.
LEMMA CountedInvAlways ==
    ASSUME "rejected" \notin Misfortunes
    PROVE  Spec => []CountedInv
  <1>1. ASSUME Init PROVE CountedInv
    <2>1. WatchInv
      BY <1>1, WatchInvInductive
    <2>2. PICK n : n = NewClient
      OBVIOUS
    <2>3. Core(n) /\ ~IsOpen(n) /\ r = EnableNetworkOp(n)
      BY <1>1, <2>2, NewClientCore DEF Init
    <2>4. Core(r) /\ ~IsOpen(r)
      BY <2>3, EnableInv DEF Kept, SameWire, IsOpen
    <2> QED
      BY <2>1, <2>4, QuietCounts DEF CountedInv
  <1>2. ASSUME CountedInv, [Next]_vars PROVE CountedInv'
    <2>1. WatchInv /\ CountInv(r)
      BY <1>2 DEF CountedInv
    <2>2. WatchStep
      BY <1>2, <2>1, NextSteps
    <2>3. CountInv(r')
      BY <2>1, <2>2, CountsKept
    <2>4. WatchInv'
      BY <1>2, <2>1, WatchInvInductive
    <2> QED
      BY <2>3, <2>4 DEF CountedInv, CountInv, NoneRejected, Owed
  <1> QED
    BY <1>1, <1>2, PTL DEF Spec

\* outstanding_responses_ of every target is exact, on every connection and
\* for every order of listening and not listening, as long as the backend does
\* not end a target with an error.
THEOREM OutstandingCounts ==
    ASSUME "rejected" \notin Misfortunes
    PROVE  Spec => []OutstandingResponsesAreExact
  <1>1. ASSUME CountedInv PROVE OutstandingResponsesAreExact
    <2>1. WatchInv /\ CountInv(r)
      BY <1>1 DEF CountedInv
    <2>2. r \in ClientType /\ r.up \in Seq(Request) /\ r.down \in Seq(Response)
      BY <2>1, WatchFields, ClientFields
    <2>3. ASSUME NEW t \in Targets
          PROVE  r.agg.states[t].out =
                   Cardinality({i \in 1..Len(r.up) : r.up[i].t = t})
                   + Cardinality({i \in 1..Len(r.down) :
                          /\ r.down[i].t = t
                          /\ \/ r.down[i].kind \in {"added", "removed"}
                             \/ r.down[i].kind = "rejected" /\ r.down[i].v = 1})
      <3>1. At(r.up, Asks(t)) = {i \in 1..Len(r.up) : r.up[i].t = t}
        BY <2>2 DEF At, Asks
      <3>2. At(r.down, Answers(t)) = {i \in 1..Len(r.down) :
                          /\ r.down[i].t = t
                          /\ \/ r.down[i].kind \in {"added", "removed"}
                             \/ r.down[i].kind = "rejected" /\ r.down[i].v = 1}
        BY <2>2 DEF At, Answers
      <3>3. PICK o \in Int, a \in Int, b \in Int : /\ o = r.agg.states[t].out
                /\ a = Occ(r.up, Asks(t)) /\ b = Occ(r.down, Answers(t))
        BY <2>2, CountsType
      <3>4. o - a = b
        BY <2>1, <3>3 DEF CountInv, Owed
      <3>5. o = a + b
        BY <3>4
      <3> QED
        BY <3>1, <3>2, <3>3, <3>5 DEF Occ
    <2> QED
      BY <2>3 DEF OutstandingResponsesAreExact
  <1> QED
    BY <1>1, CountedInvAlways, PTL

-----------------------------------------------------------------------------
(* The responses on their way                                              *)

\* The documents of target t at version v of history h.
DocsIn(h, t, v) == IF v = 0 THEN {} ELSE h[v][t]

\* The responses of d after position p bring target t from W[p] to F: none
\* answers a request for it, and at every snapshot W is the result of the query
\* at the version of the snapshot.
Follows(W, p, t, d, F, h) ==
    /\ p \in 0..Len(d) /\ W[Len(d)] = F
    /\ \A i \in (p + 1)..Len(d) :
         /\ ~IsAnswer(d[i], t) /\ W[i] = Apply(t, W[i - 1], d[i])
         /\ d[i].kind = "snapshot" => W[i] = DocsIn(h, t, d[i].v)

Tracks(p, t, d, E, F, h) == \E W : Follows(W, p, t, d, F, h) /\ W[p] = E

\* Nothing is on its way.
LEMMA TracksStart ==
    ASSUME NEW S, NEW d \in Seq(S), NEW t, NEW E, NEW h
    PROVE  Tracks(Len(d), t, d, E, E, h)
  <1>1. PICK n \in Nat : n = Len(d)
    OBVIOUS
  <1>2. PICK W : W = [i \in 0..n |-> E]
    OBVIOUS
  <1>3. W[n] = E /\ n \in 0..n /\ (n + 1)..n = {}
    BY <1>2
  <1>4. Follows(W, n, t, d, E, h)
    BY <1>1, <1>3 DEF Follows
  <1> QED
    BY <1>1, <1>3, <1>4 DEF Tracks

\* A response before position p is read.
LEMMA TracksTail ==
    ASSUME NEW d \in Seq(Response), d # <<>>, NEW t, NEW E, NEW F, NEW h, NEW p \in Nat, p > 0,
           Tracks(p, t, d, E, F, h)
    PROVE  Tracks(p - 1, t, Tail(d), E, F, h)
  <1>1. PICK n \in Nat : n = Len(d) /\ n > 0
    BY RestFacts
  <1>2. PICK W : Follows(W, p, t, d, F, h) /\ W[p] = E
    BY DEF Tracks
  <1>3. PICK e : e = Tail(d)
    OBVIOUS
  <1>4. Len(e) = n - 1 /\ \A i \in 1..(n - 1) : e[i] = d[i + 1]
    BY <1>1, <1>3, RestFacts
  <1>5. PICK V : V = [i \in 0..(n - 1) |-> W[i + 1]]
    OBVIOUS
  <1>6. /\ p \in 0..n /\ W[n] = F
        /\ \A i \in (p + 1)..n :
             /\ ~IsAnswer(d[i], t) /\ W[i] = Apply(t, W[i - 1], d[i])
             /\ d[i].kind = "snapshot" => W[i] = DocsIn(h, t, d[i].v)
    BY <1>1, <1>2 DEF Follows
  <1>7. PICK k \in Nat : k = p - 1
    OBVIOUS
  <1>8. k \in 0..(n - 1) /\ k + 1 = p /\ V[k] = E /\ V[n - 1] = F
    BY <1>1, <1>2, <1>5, <1>6, <1>7
  <1>9. ASSUME NEW i \in (k + 1)..(n - 1)
        PROVE  /\ ~IsAnswer(e[i], t) /\ V[i] = Apply(t, V[i - 1], e[i])
               /\ e[i].kind = "snapshot" => V[i] = DocsIn(h, t, e[i].v)
    <2>1. PICK j \in Nat : j = i + 1
      OBVIOUS
    <2>2. j \in (p + 1)..n /\ i \in 0..(n - 1) /\ i \in 1..(n - 1) /\ i - 1 \in 0..(n - 1) /\ (i - 1) + 1 = j - 1
      BY <1>8, <2>1
    <2>3. V[i] = W[j] /\ V[i - 1] = W[j - 1] /\ e[i] = d[j]
      BY <1>4, <1>5, <2>1, <2>2
    <2> QED
      BY <1>6, <2>2, <2>3
  <1>10. Follows(V, k, t, e, F, h)
    BY <1>4, <1>8, <1>9 DEF Follows
  <1> QED
    BY <1>3, <1>7, <1>8, <1>10 DEF Tracks

\* The first response is read.
LEMMA TracksRead ==
    ASSUME NEW d \in Seq(Response), d # <<>>, NEW t, NEW E, NEW F, NEW h, Tracks(0, t, d, E, F, h),
           NEW m, m = Head(d)
    PROVE  /\ Tracks(0, t, Tail(d), Apply(t, E, m), F, h) /\ ~IsAnswer(m, t)
           /\ m.kind = "snapshot" => Apply(t, E, m) = DocsIn(h, t, m.v)
  <1>1. PICK n \in Nat : n = Len(d) /\ n > 0
    BY RestFacts
  <1>2. PICK W : Follows(W, 0, t, d, F, h) /\ W[0] = E
    BY DEF Tracks
  <1>3. PICK e : e = Tail(d)
    OBVIOUS
  <1>4. e \in Seq(Response) /\ Len(e) = n - 1 /\ (\A i \in 1..(n - 1) : e[i] = d[i + 1]) /\ m = d[1]
    BY <1>1, <1>3, RestFacts
  <1>5. /\ W[n] = F
        /\ \A i \in 1..n :
             /\ ~IsAnswer(d[i], t) /\ W[i] = Apply(t, W[i - 1], d[i])
             /\ d[i].kind = "snapshot" => W[i] = DocsIn(h, t, d[i].v)
    BY <1>1, <1>2 DEF Follows
  <1>6. /\ ~IsAnswer(m, t) /\ W[1] = Apply(t, E, m)
        /\ m.kind = "snapshot" => W[1] = DocsIn(h, t, m.v)
    <2>1. 1 \in 1..n /\ 1 - 1 = 0
      BY <1>1
    <2> QED
      BY <1>2, <1>4, <1>5, <2>1
  <1>7. Follows(W, 1, t, d, F, h)
    <2>1. 1 \in 0..n /\ \A i \in 2..n : i \in 1..n
      BY <1>1
    <2> QED
      BY <1>1, <1>5, <2>1 DEF Follows
  <1>8. Tracks(1, t, d, W[1], F, h)
    BY <1>7 DEF Tracks
  <1>9. Tracks(0, t, e, W[1], F, h)
    <2>1. Tracks(1 - 1, t, Tail(d), W[1], F, h)
      BY <1>8, TracksTail
    <2> QED
      BY <1>3, <2>1
  <1> QED
    BY <1>3, <1>6, <1>9

\* More responses are sent.
LEMMA TracksConcat ==
    ASSUME NEW d \in Seq(Response), NEW t, NEW E, NEW F, NEW G, NEW h, NEW p \in Nat,
           Tracks(p, t, d, E, F, h),
           NEW u \in Seq(Response), Path(t, F, u, G),
           \A i \in 1..Len(u) : /\ ~IsAnswer(u[i], t)
                                /\ u[i].kind = "snapshot" => u[i].t # t /\ F = DocsIn(h, t, u[i].v)
                                                              /\ Len(u) = 1
    PROVE  Tracks(p, t, d \o u, E, G, h)
  <1>1. PICK n \in Nat, k \in Nat : n = Len(d) /\ k = Len(u)
    OBVIOUS
  <1>2. PICK W : Follows(W, p, t, d, F, h) /\ W[p] = E
    BY DEF Tracks
  <1>3. PICK V : Walk(V, t, F, u, G)
    BY DEF Path
  <1>4. V[0] = F /\ V[k] = G /\ \A i \in 1..k : V[i] = Apply(t, V[i - 1], u[i])
    BY <1>1, <1>3 DEF Walk
  <1>5. PICK e : e = d \o u
    OBVIOUS
  <1>6. /\ Len(e) = n + k /\ \A i \in 1..n : e[i] = d[i]
        /\ \A i \in (n + 1)..(n + k) : i - n \in 1..k /\ e[i] = u[i - n]
    BY <1>1, <1>5, ConcatElements
  <1>7. /\ p \in 0..n /\ W[n] = F
        /\ \A i \in (p + 1)..n :
             /\ ~IsAnswer(d[i], t) /\ W[i] = Apply(t, W[i - 1], d[i])
             /\ d[i].kind = "snapshot" => W[i] = DocsIn(h, t, d[i].v)
    BY <1>1, <1>2 DEF Follows
  <1>8. PICK X : X = [i \in 0..(n + k) |-> IF i <= n THEN W[i] ELSE V[i - n]]
    OBVIOUS
  <1>9. /\ \A i \in 0..n : X[i] = W[i]
        /\ \A i \in n..(n + k) : X[i] = V[i - n]
    <2>1. \A i \in 0..n : i \in 0..(n + k) /\ i <= n
      OBVIOUS
    <2>2. ASSUME NEW i \in n..(n + k) PROVE X[i] = V[i - n]
      <3>1. CASE i = n
        <4>1. i \in 0..(n + k) /\ i <= n /\ i - n = 0
          BY <3>1
        <4> QED
          BY <1>4, <1>7, <1>8, <3>1, <4>1
      <3>2. CASE i # n
        <4>1. i \in 0..(n + k) /\ ~(i <= n)
          BY <3>2
        <4> QED
          BY <1>8, <4>1
      <3> QED
        BY <3>1, <3>2
    <2> QED
      BY <1>8, <2>1, <2>2
  <1>10. X[n + k] = G /\ X[p] = E
    <2>1. n + k \in n..(n + k) /\ (n + k) - n = k
      OBVIOUS
    <2> QED
      BY <1>2, <1>4, <1>7, <1>9, <2>1
  <1>11. ASSUME NEW i \in (p + 1)..(n + k)
         PROVE  /\ ~IsAnswer(e[i], t) /\ X[i] = Apply(t, X[i - 1], e[i])
                /\ e[i].kind = "snapshot" => X[i] = DocsIn(h, t, e[i].v)
    <2>1. CASE i <= n
      <3>1. i \in (p + 1)..n /\ i \in 1..n /\ i \in 0..n /\ i - 1 \in 0..n
        BY <1>7, <2>1
      <3>2. e[i] = d[i] /\ X[i] = W[i] /\ X[i - 1] = W[i - 1]
        BY <1>6, <1>9, <3>1
      <3> QED
        BY <1>7, <3>1, <3>2
    <2>2. CASE i > n
      <3>1. PICK j \in 1..k : j = i - n
        BY <2>2
      <3>2. i \in (n + 1)..(n + k) /\ i \in n..(n + k) /\ i - 1 \in n..(n + k) /\ (i - 1) - n = j - 1
        BY <2>2, <3>1
      <3>3. e[i] = u[j] /\ X[i] = V[j] /\ X[i - 1] = V[j - 1]
        BY <1>6, <1>9, <3>1, <3>2
      <3>4. X[i] = Apply(t, X[i - 1], e[i]) /\ ~IsAnswer(e[i], t)
        BY <1>1, <1>4, <3>3
      <3>5. ASSUME e[i].kind = "snapshot" PROVE X[i] = DocsIn(h, t, e[i].v)
        <4>1. k = 1 /\ F = DocsIn(h, t, u[j].v) /\ u[j].t # t
          BY <1>1, <3>3, <3>5
        <4>2. j = 1 /\ j - 1 = 0
          BY <4>1
        <4>3. V[j] = Apply(t, F, u[j])
          BY <1>4, <4>2
        <4>4. V[j] = F
          BY <4>1, <4>3 DEF Apply
        <4> QED
          BY <3>3, <4>1, <4>4
      <3> QED
        BY <3>4, <3>5
    <2> QED
      BY <1>7, <2>1, <2>2
  <1>12. p \in 0..(n + k)
    BY <1>7
  <1>13. Follows(X, p, t, e, G, h)
    BY <1>6, <1>10, <1>11, <1>12 DEF Follows
  <1> QED
    BY <1>5, <1>10, <1>13 DEF Tracks

\* A commit does not change earlier versions.
LEMMA DocsInAppend ==
    ASSUME NEW S, NEW h \in Seq(S), NEW x \in S, NEW t, NEW v \in 0..Len(h)
    PROVE  DocsIn(Append(h, x), t, v) = DocsIn(h, t, v)
  <1>1. CASE v = 0
    BY <1>1 DEF DocsIn
  <1>2. CASE v # 0
    <2>1. v \in 1..Len(h)
      BY <1>2
    <2>2. Append(h, x)[v] = h[v]
      BY <2>1
    <2> QED
      BY <1>2, <2>2 DEF DocsIn
  <1> QED
    BY <1>1, <1>2

\* ... and so the responses lead to the same documents.
LEMMA TracksCommit ==
    ASSUME NEW S, NEW h \in Seq(S), NEW x \in S, NEW d \in Seq(Response), NEW p \in Nat, NEW t,
           NEW E, NEW F, Tracks(p, t, d, E, F, h),
           \A i \in 1..Len(d) : d[i].kind = "snapshot" => d[i].v \in 1..Len(h)
    PROVE  Tracks(p, t, d, E, F, Append(h, x))
  <1>1. PICK n \in Nat : n = Len(d)
    OBVIOUS
  <1>2. PICK W : Follows(W, p, t, d, F, h) /\ W[p] = E
    BY DEF Tracks
  <1>3. PICK g : g = Append(h, x)
    OBVIOUS
  <1>4. /\ p \in 0..n /\ W[n] = F
        /\ \A i \in (p + 1)..n :
             /\ ~IsAnswer(d[i], t) /\ W[i] = Apply(t, W[i - 1], d[i])
             /\ d[i].kind = "snapshot" => W[i] = DocsIn(h, t, d[i].v)
    BY <1>1, <1>2 DEF Follows
  <1>5. ASSUME NEW i \in (p + 1)..n, d[i].kind = "snapshot" PROVE W[i] = DocsIn(g, t, d[i].v)
    <2>1. i \in 1..n
      OBVIOUS
    <2>2. d[i].v \in 0..Len(h)
      BY <1>1, <1>5, <2>1
    <2>3. DocsIn(g, t, d[i].v) = DocsIn(h, t, d[i].v)
      BY <1>3, <2>2, DocsInAppend
    <2> QED
      BY <1>4, <1>5, <2>3
  <1>6. Follows(W, p, t, d, F, g)
    BY <1>1, <1>4, <1>5 DEF Follows
  <1> QED
    BY <1>2, <1>3, <1>6 DEF Tracks

-----------------------------------------------------------------------------
(* The results of queries                                                  *)

\* What is on its way has versions of the database, and no existence filter.
WireVersions(s, h) ==
    /\ \A t \in Targets : s.srv[t].at \in 0..Len(h)
    /\ \A i \in 1..Len(s.up) : s.up[i].token \in 0..Len(h)
    /\ \A i \in 1..Len(s.down) : /\ s.down[i].kind # "filter"
                                 /\ s.down[i].kind = "snapshot" => s.down[i].v \in 1..Len(h)
    /\ s.agg.resets = {}

\* The documents of a target are those of its query at the version of the
\* stored token, and of the token in memory.
TokensFit(s, c, h) ==
    /\ \A t \in Targets : c[t].token \in 0..Len(h) /\ c[t].keys = DocsIn(h, t, c[t].token)
    /\ \A t \in s.on : /\ s.tokens[t] \in 0..Len(h) /\ s.data[t] = s.tokens[t]
                       /\ c[t].keys = DocsIn(h, t, s.tokens[t])

\* The last request for target t is the one that a listen with the present
\* token would send.
AsksFor(s, t) ==
    \E i \in 1..Len(s.up) : /\ s.up[i] = WatchRequest(s, t)
                            /\ \A j \in (i + 1)..Len(s.up) : s.up[j].t # t

\* The responses that the client has not read will bring target t to what the
\* backend has sent of it: from now on, or from the answer to its last request.
Arriving(s, c, h, t) ==
    \/ /\ s.agg.states[t].out = 0
       /\ Tracks(0, t, s.down, Result(s.agg.states[t], c[t].keys), DocsIn(h, t, s.srv[t].at), h)
    \/ \E p \in 1..Len(s.down) :
         /\ s.down[p].t = t /\ s.down[p].kind = "added"
         /\ Tracks(p, t, s.down, c[t].keys, DocsIn(h, t, s.srv[t].at), h)

Synced(s, c, h, t) ==
    \/ AsksFor(s, t)
    \/ (\A i \in 1..Len(s.up) : s.up[i].t # t) /\ s.srv[t].on /\ Arriving(s, c, h, t)

Exact(s, c, h) ==
    /\ WireVersions(s, h) /\ TokensFit(s, c, h)
    /\ IsOpen(s) => \A t \in s.on : Synced(s, c, h, t)

\* A closed stream has nothing on its way.
LEMMA ClosedExact ==
    ASSUME NEW s, Core(s), ~IsOpen(s), NEW c, NEW h, Len(h) \in Nat, TokensFit(s, c, h)
    PROVE  Exact(s, c, h)
  <1>1. s.down = <<>> /\ s.up = <<>> /\ s.srv = NothingWatched /\ s.agg = NewAggregator
    BY DEF Core, StreamInv, Quiet
  <1>2. Len(s.down) = 0 /\ Len(s.up) = 0 /\ 1..0 = {}
    BY <1>1
  <1>3. \A t \in Targets : s.srv[t].at = 0
    BY <1>1 DEF NothingWatched
  <1>4. 0 \in 0..Len(h) /\ s.agg.resets = {}
    BY <1>1 DEF NewAggregator
  <1>5. WireVersions(s, h)
    BY <1>2, <1>3, <1>4 DEF WireVersions
  <1> QED
    BY <1>5 DEF Exact

\* A counted element.
LEMMA OccSome ==
    ASSUME NEW S, NEW s \in Seq(S), NEW A, NEW i \in 1..Len(s), s[i] \in A
    PROVE  Occ(s, A) > 0
  <1>1. IsFiniteSet(At(s, A)) /\ Occ(s, A) \in Nat
    BY OccType
  <1>2. At(s, A) # {}
    BY DEF At
  <1>3. Occ(s, A) # 0
    BY <1>1, <1>2, FS_EmptySet DEF Occ
  <1> QED
    BY <1>1, <1>3

\* What the count of a target says about requests and answers.
LEMMA OutFacts ==
    ASSUME WatchInv, CountInv(r), NEW t \in Targets
    PROVE  /\ r.agg.states[t].out = 0 => /\ \A i \in 1..Len(r.up) : r.up[i].t # t
                                         /\ \A i \in 1..Len(r.down) : ~IsAnswer(r.down[i], t)
           /\ /\ \A i \in 1..Len(r.up) : r.up[i].t # t
              /\ r.down # <<>> /\ IsAnswer(Head(r.down), t)
              /\ \A i \in 2..Len(r.down) : ~IsAnswer(r.down[i], t)
              => r.agg.states[t].out = 1
  <1>1. r \in ClientType /\ r.up \in Seq(Request) /\ r.down \in Seq(Response)
    BY WatchFields, ClientFields
  <1>2. PICK o \in Int : o = r.agg.states[t].out
    BY <1>1, CountsType
  <1>3. PICK a \in Nat, b \in Nat : a = Occ(r.up, Asks(t)) /\ b = Occ(r.down, Answers(t))
    BY <1>1, OccType
  <1>4. o - a = b
    BY <1>2, <1>3 DEF CountInv, Owed
  <1>5. \A i \in 1..Len(r.up) : r.up[i] \in Asks(t) <=> r.up[i].t = t
    BY <1>1 DEF Asks
  <1>6. \A i \in 1..Len(r.down) : r.down[i] \in Answers(t) <=> IsAnswer(r.down[i], t)
    BY <1>1 DEF Answers, IsAnswer, CountInv, NoneRejected
  <1>7. ASSUME o = 0, NEW i \in 1..Len(r.up) PROVE r.up[i].t # t
    <2>1. a = 0
      BY <1>4, <1>7
    <2>2. r.up[i] \in Asks(t) => a > 0
      BY <1>1, <1>3, OccSome
    <2> QED
      BY <1>5, <2>1, <2>2
  <1>8. ASSUME o = 0, NEW i \in 1..Len(r.down) PROVE ~IsAnswer(r.down[i], t)
    <2>1. b = 0
      BY <1>4, <1>8
    <2>2. r.down[i] \in Answers(t) => b > 0
      BY <1>1, <1>3, OccSome
    <2> QED
      BY <1>6, <2>1, <2>2
  <1>9. ASSUME \A i \in 1..Len(r.up) : r.up[i].t # t, r.down # <<>>, IsAnswer(Head(r.down), t),
               \A i \in 2..Len(r.down) : ~IsAnswer(r.down[i], t)
        PROVE  o = 1
    <2>1. a = 0
      BY <1>3, <1>5, <1>9, OccNone
    <2>2. PICK n \in Nat : n = Len(r.down) /\ n > 0
      BY <1>1, <1>9, RestFacts
    <2>3. Head(r.down) = r.down[1]
      BY <1>1, <1>9, RestFacts
    <2>4. At(r.down, Answers(t)) = {1}
      <3>1. \A i \in 1..n : i = 1 \/ i \in 2..n
        OBVIOUS
      <3>2. \A i \in 1..n : r.down[i] \in Answers(t) <=> i = 1
        BY <1>6, <1>9, <2>2, <2>3, <3>1
      <3>3. 1 \in 1..n
        BY <2>2
      <3> QED
        BY <2>2, <3>2, <3>3 DEF At
    <2>5. b = 1
      BY <1>3, <2>4, FS_Singleton DEF Occ
    <2> QED
      BY <1>4, <2>1, <2>5
  <1> QED
    BY <1>2, <1>7, <1>8, <1>9

\* Steps that keep the connection or close it, and a new client.
LEMMA NeutralExact ==
    ASSUME WatchInv, Exact(r, cache, history), NeutralStep \/ RestartStep
    PROVE  Exact(r', cache', history')
  <1>1. history \in Seq([Targets -> SUBSET Docs]) /\ Len(history) \in Nat
    BY WatchFields
  <1>2. TokensFit(r, cache, history) /\ WireVersions(r, history)
    BY DEF Exact
  <1>3. CASE NeutralStep
    <2>1. Core(r') /\ SameQueries(r', r) /\ Kept(r', r) /\ cache' = cache /\ history' = history
      BY <1>3 DEF NeutralStep
    <2>2. TokensFit(r', cache, history)
      BY <1>2, <2>1 DEF TokensFit, SameQueries
    <2>3. CASE ~IsOpen(r')
      BY <1>1, <2>1, <2>2, <2>3, ClosedExact
    <2>4. CASE IsOpen(r')
      <3>1. SameWire(r', r)
        BY <2>1, <2>4 DEF Kept
      <3>2. WireVersions(r', history)
        BY <1>2, <3>1 DEF WireVersions, SameWire
      <3>3. IsOpen(r)
        BY <2>4, <3>1 DEF SameWire, IsOpen
      <3>4. ASSUME NEW t \in r'.on PROVE Synced(r', cache, history, t)
        <4>1. Synced(r, cache, history, t)
          BY <2>1, <3>3, <3>4 DEF Exact, SameQueries
        <4> QED
          BY <2>1, <3>1, <4>1 DEF Synced, AsksFor, Arriving, WatchRequest, SameWire, SameQueries
      <3> QED
        BY <2>1, <2>2, <3>2, <3>4 DEF Exact
    <2> QED
      BY <2>3, <2>4
  <1>4. CASE RestartStep
    <2>1. Core(r') /\ ~IsOpen(r') /\ r'.on = {} /\ cache' = cache /\ history' = history
      BY <1>4 DEF RestartStep
    <2>2. TokensFit(r', cache, history)
      BY <1>2, <2>1 DEF TokensFit
    <2> QED
      BY <1>1, <2>1, <2>2, ClosedExact
  <1> QED
    BY <1>3, <1>4

\* A request for target t does not disturb the others.
LEMMA RequestedWire ==
    ASSUME WatchInv, WireVersions(r, history), NEW t \in Targets, NEW u \in Asks(t),
           u.token \in 0..Len(history), Requested(t, u), IsOpen(r')
    PROVE  /\ WireVersions(r', history) /\ IsOpen(r)
           /\ \A x \in Targets : \A c :
                 /\ x # t /\ r'.tokens[x] = r.tokens[x] /\ c[x].keys = cache[x].keys
                 /\ Synced(r, cache, history, x)
                 => Synced(r', c, history, x)
  <1>1. r \in ClientType /\ r.up \in Seq(Request) /\ r.agg \in Agg
    BY WatchFields, ClientFields DEF Agg
  <1>2. /\ IsOpen(r) /\ r'.up = r.up \o <<u>> /\ r'.agg = Recorded(r.agg, t, 1)
        /\ r'.down = r.down /\ r'.srv = r.srv
    BY DEF Requested
  <1>3. PICK n \in Nat : n = Len(r.up)
    BY <1>1
  <1>4. u \in Request /\ u.t = t
    BY DEF Asks
  <1>5. Len(r'.up) = n + 1 /\ r'.up[n + 1] = u /\ \A i \in 1..n : r'.up[i] = r.up[i]
    BY <1>1, <1>2, <1>3, <1>4
  <1>6. \A i \in 1..(n + 1) : i \in 1..n \/ i = n + 1
    OBVIOUS
  <1>7. PICK b : b = r'.agg
    OBVIOUS
  <1>8. b.resets = r.agg.resets /\ \A x \in Targets : x # t => b.states[x] = r.agg.states[x]
    <2>1. PICK a \in Agg : a = r.agg
      BY <1>1
    <2>2. PICK k \in Nat : k = 1 /\ b = Recorded(a, t, k)
      BY <1>2, <1>7, <2>1
    <2>3. OnlyCounted(b, a, t, k)
      BY <2>2, RecordedFacts
    <2>4. b.resets = a.resets /\ \A x \in Targets : x # t => b.states[x] = a.states[x]
      BY <2>3, Zenon DEF OnlyCounted
    <2> QED
      BY <2>1, <2>4
  <1>9. WireVersions(r', history)
    BY <1>2, <1>3, <1>5, <1>6, <1>7, <1>8 DEF WireVersions
  <1>10. ASSUME NEW x \in Targets, NEW c, x # t, r'.tokens[x] = r.tokens[x],
                c[x].keys = cache[x].keys, Synced(r, cache, history, x)
         PROVE  Synced(r', c, history, x)
    <2>1. CASE AsksFor(r, x)
      <3>1. PICK i \in 1..n : /\ r.up[i] = WatchRequest(r, x)
                              /\ \A j \in (i + 1)..n : r.up[j].t # x
        BY <1>3, <2>1 DEF AsksFor
      <3>2. r'.up[i] = WatchRequest(r', x) /\ i \in 1..(n + 1)
        BY <1>5, <1>10, <3>1 DEF WatchRequest
      <3>3. ASSUME NEW j \in (i + 1)..(n + 1) PROVE r'.up[j].t # x
        <4>1. j = n + 1 \/ (j \in (i + 1)..n /\ j \in 1..n)
          OBVIOUS
        <4> QED
          BY <1>4, <1>5, <1>10, <3>1, <4>1
      <3> QED
        BY <1>5, <3>2, <3>3 DEF Synced, AsksFor
    <2>2. CASE (\A i \in 1..Len(r.up) : r.up[i].t # x) /\ r.srv[x].on /\ Arriving(r, cache, history, x)
      <3>1. \A i \in 1..Len(r'.up) : r'.up[i].t # x
        BY <1>3, <1>4, <1>5, <1>6, <1>10, <2>2
      <3>2. r'.agg.states[x] = r.agg.states[x]
        BY <1>7, <1>8, <1>10
      <3>3. Arriving(r', c, history, x)
        BY <1>2, <1>10, <2>2, <3>2 DEF Arriving
      <3> QED
        BY <1>2, <2>2, <3>1, <3>3 DEF Synced
    <2> QED
      BY <1>10, <2>1, <2>2 DEF Synced
  <1> QED
    BY <1>2, <1>9, <1>10

\* The user listens: the last request is the right one.
LEMMA ListenExact ==
    ASSUME WatchInv, Exact(r, cache, history), NEW t \in Targets, ListenStep(t)
    PROVE  Exact(r', cache', history')
  <1>1. /\ t \notin r.on /\ Core(r') /\ r'.on = r.on \cup {t}
        /\ r'.data = [r.data EXCEPT ![t] = cache[t].token]
        /\ r'.tokens = [r.tokens EXCEPT ![t] = cache[t].token]
        /\ Requested(t, WatchRequest(r', t)) /\ cache' = cache /\ history' = history
    BY DEF ListenStep
  <1>2. /\ r \in ClientType /\ r.on \in SUBSET Targets /\ r.data \in [Targets -> Nat]
        /\ r.tokens \in [Targets -> Nat] /\ Len(history) \in Nat
    BY WatchFields, ClientFields
  <1>3. /\ r'.data[t] = cache[t].token /\ r'.tokens[t] = cache[t].token
        /\ \A x \in Targets : x # t => r'.data[x] = r.data[x] /\ r'.tokens[x] = r.tokens[x]
    BY <1>1, <1>2
  <1>4. TokensFit(r', cache, history)
    BY <1>1, <1>2, <1>3 DEF Exact, TokensFit
  <1>5. CASE ~IsOpen(r')
    BY <1>1, <1>2, <1>4, <1>5, ClosedExact
  <1>6. CASE IsOpen(r')
    <2>1. PICK u : u = WatchRequest(r', t)
      OBVIOUS
    <2>2. r' \in ClientType /\ u \in Asks(t) /\ Requested(t, u)
      BY <1>1, <2>1, AsksFacts DEF Core
    <2>3. u.token \in 0..Len(history)
      BY <1>3, <2>1 DEF Exact, TokensFit, WatchRequest
    <2>4. /\ WireVersions(r', history) /\ IsOpen(r)
          /\ \A x \in Targets : \A c :
                /\ x # t /\ r'.tokens[x] = r.tokens[x] /\ c[x].keys = cache[x].keys
                /\ Synced(r, cache, history, x)
                => Synced(r', c, history, x)
      <3>1. WireVersions(r, history)
        BY DEF Exact
      <3> QED
        BY <1>6, <2>2, <2>3, <3>1, RequestedWire
    <2>5. ASSUME NEW x \in r'.on PROVE Synced(r', cache, history, x)
      <3>1. CASE x = t
        <4>1. PICK n \in Nat : n = Len(r.up)
          BY <1>2, ClientFields
        <4>2. r'.up = r.up \o <<u>> /\ r.up \in Seq(Request) /\ u \in Request
          BY <1>2, <1>6, <2>2, ClientFields DEF Requested, Asks
        <4>3. Len(r'.up) = n + 1 /\ r'.up[n + 1] = u /\ n + 1 \in 1..(n + 1) /\ (n + 1 + 1)..(n + 1) = {}
          BY <4>1, <4>2
        <4> QED
          BY <2>1, <3>1, <4>3 DEF Synced, AsksFor
      <3>2. CASE x # t
        <4>1. x \in Targets /\ Synced(r, cache, history, x)
          BY <1>1, <1>2, <2>4, <3>2 DEF Exact
        <4> QED
          BY <1>3, <2>4, <3>2, <4>1
      <3> QED
        BY <3>1, <3>2
    <2> QED
      BY <1>1, <1>4, <2>4, <2>5 DEF Exact
  <1> QED
    BY <1>5, <1>6

\* The user stops: the stored token is the one that the documents belong to.
LEMMA StopExact ==
    ASSUME WatchInv, Exact(r, cache, history), NEW t \in Targets, StopStep(t)
    PROVE  Exact(r', cache', history')
  <1>1. /\ t \in r.on /\ Core(r') /\ r'.on = r.on \ {t} /\ r'.data = r.data
        /\ r'.tokens = r.tokens /\ Requested(t, UnwatchRequest(t)) /\ history' = history
        /\ cache' = [cache EXCEPT ![t].token = r.data[t]]
    BY DEF StopStep
  <1>2. /\ r \in ClientType /\ r.on \in SUBSET Targets /\ Len(history) \in Nat
        /\ cache \in CacheType
    BY WatchFields, ClientFields DEF CacheType
  <1>3. PICK token \in Nat : token = r.data[t]
    BY <1>2, ClientFields
  <1>4. PICK d : d = [cache EXCEPT ![t].token = token]
    OBVIOUS
  <1>5. /\ d[t].token = token /\ \A x \in Targets : d[x].keys = cache[x].keys
        /\ \A x \in Targets : x # t => d[x].token = cache[x].token
    BY <1>2, <1>4 DEF CacheType
  <1>6. cache' = d
    BY <1>1, <1>3, <1>4
  <1>7. token \in 0..Len(history) /\ cache[t].keys = DocsIn(history, t, token)
    BY <1>1, <1>3 DEF Exact, TokensFit
  <1>8. TokensFit(r', d, history)
    BY <1>1, <1>2, <1>5, <1>7 DEF Exact, TokensFit
  <1>9. CASE ~IsOpen(r')
    BY <1>1, <1>2, <1>6, <1>8, <1>9, ClosedExact
  <1>10. CASE IsOpen(r')
    <2>1. PICK u : u = UnwatchRequest(t)
      OBVIOUS
    <2>2. u \in Asks(t) /\ Requested(t, u)
      BY <1>1, <1>2, <2>1, AsksFacts
    <2>3. u.token \in 0..Len(history)
      BY <1>2, <2>1 DEF UnwatchRequest
    <2>4. /\ WireVersions(r', history) /\ IsOpen(r)
          /\ \A x \in Targets : \A c :
                /\ x # t /\ r'.tokens[x] = r.tokens[x] /\ c[x].keys = cache[x].keys
                /\ Synced(r, cache, history, x)
                => Synced(r', c, history, x)
      <3>1. WireVersions(r, history)
        BY DEF Exact
      <3> QED
        BY <1>10, <2>2, <2>3, <3>1, RequestedWire
    <2>5. ASSUME NEW x \in r'.on PROVE Synced(r', d, history, x)
      <3>1. x \in Targets /\ x # t /\ Synced(r, cache, history, x)
        BY <1>1, <1>2, <2>4, <2>5 DEF Exact
      <3> QED
        BY <1>1, <1>5, <2>4, <3>1
    <2> QED
      BY <1>1, <1>6, <1>8, <2>4, <2>5 DEF Exact
  <1> QED
    BY <1>9, <1>10

\* A stream that was just opened asks for everything.
LEMMA OpenExact ==
    ASSUME WatchInv, Exact(r, cache, history), OpenStep
    PROVE  Exact(r', cache', history')
  <1>1. /\ Core(r') /\ SameQueries(r', r) /\ r'.down = <<>> /\ r'.srv = NothingWatched
        /\ WatchesAll(r'.up, r') /\ r'.agg.resets = {} /\ cache' = cache /\ history' = history
    BY DEF OpenStep
  <1>2. r \in ClientType /\ r.on \in SUBSET Targets /\ Len(history) \in Nat
    BY WatchFields, ClientFields
  <1>3. TokensFit(r', cache, history)
    BY <1>1 DEF Exact, TokensFit, SameQueries
  <1>4. PICK n \in Nat : n = Len(r'.up)
    BY <1>1, ClientFields DEF Core
  <1>5. WireVersions(r', history)
    <2>1. Len(r'.down) = 0 /\ 1..0 = {} /\ 0 \in 0..Len(history)
      BY <1>1, <1>2
    <2>2. \A t \in Targets : r'.srv[t].at = 0
      BY <1>1 DEF NothingWatched
    <2>3. ASSUME NEW i \in 1..n PROVE r'.up[i].token \in 0..Len(history)
      <3>1. PICK t : t = r'.up[i].t
        OBVIOUS
      <3>2. t \in r'.on /\ r'.up[i] = WatchRequest(r', t)
        BY <1>1, <1>4, <2>3, <3>1 DEF WatchesAll
      <3> QED
        BY <1>3, <3>2 DEF TokensFit, WatchRequest
    <2> QED
      BY <1>1, <1>4, <2>1, <2>2, <2>3 DEF WireVersions
  <1>6. ASSUME NEW t \in r'.on PROVE Synced(r', cache, history, t)
    <2>1. PICK i \in 1..n : r'.up[i].t = t
      BY <1>1, <1>4, <1>6 DEF WatchesAll
    <2>2. r'.up[i] = WatchRequest(r', t)
      BY <1>1, <1>4, <2>1 DEF WatchesAll
    <2>3. ASSUME NEW j \in (i + 1)..n PROVE r'.up[j].t # t
      <3>1. j \in 1..n /\ j # i
        OBVIOUS
      <3> QED
        BY <1>1, <1>4, <2>1, <3>1 DEF WatchesAll
    <2> QED
      BY <1>4, <2>2, <2>3 DEF Synced, AsksFor
  <1> QED
    BY <1>1, <1>3, <1>5, <1>6 DEF Exact

\* There is no answer for t after position p.
LEMMA TracksAnswers ==
    ASSUME NEW d, NEW p, NEW t, NEW E, NEW F, NEW h, Tracks(p, t, d, E, F, h)
    PROVE  p \in 0..Len(d) /\ \A i \in (p + 1)..Len(d) : ~IsAnswer(d[i], t)
  BY DEF Tracks, Follows

\* What is left after the first response was read.
LEMMA ReadWire ==
    ASSUME WatchInv, WireVersions(r, history), NEW m, ReadStep(m), r'.agg.resets = {},
           NEW n \in Nat, n = Len(history), r'.up = r.up
    PROVE  WireVersions(r', history) /\ m.kind # "filter" /\ (m.kind = "snapshot" => m.v \in 1..n)
  <1>1. r \in ClientType /\ r.down \in Seq(Response)
    BY WatchFields, ClientFields
  <1>2. r.down # <<>> /\ m = Head(r.down) /\ r'.down = Tail(r.down) /\ r'.srv = r.srv
    BY DEF ReadStep
  <1>3. /\ m = r.down[1] /\ 1 \in 1..Len(r.down)
        /\ \A i \in 1..Len(r'.down) : i + 1 \in 1..Len(r.down) /\ r'.down[i] = r.down[i + 1]
    BY <1>1, <1>2, RestFacts
  <1> QED
    BY <1>2, <1>3 DEF WireVersions

\* A target or document change is read.
LEMMA ChangeExact ==
    ASSUME WatchInv, CountInv(r), Exact(r, cache, history), NEW m, ChangeStep(m)
    PROVE  Exact(r', cache', history')
  <1>1. /\ r \in ClientType /\ r.down \in Seq(Response) /\ r.on \in SUBSET Targets
        /\ r.up \in Seq(Request)
    BY WatchFields, ClientFields
  <1>2. PICK n \in Nat : n = Len(history)
    BY WatchFields
  <1>3. /\ ReadStep(m) /\ SameQueries(r', r) /\ r'.up = r.up
        /\ m.kind \notin {"rejected", "snapshot"}
        /\ Changed(r'.agg.states[m.t], r.agg.states[m.t], m.t, m)
        /\ \A u \in Targets : u # m.t => r'.agg.states[u] = r.agg.states[u]
        /\ m.kind # "filter" => r'.agg.resets = r.agg.resets
        /\ cache' = cache /\ history' = history
    BY DEF ChangeStep
  <1>4. /\ r.down # <<>> /\ m = Head(r.down) /\ m \in Response /\ Sound(m) /\ IsOpen(r)
        /\ r'.down = Tail(r.down) /\ r'.srv = r.srv
    BY <1>3 DEF ReadStep
  <1>5. /\ m = r.down[1] /\ 1 \in 1..Len(r.down) /\ Len(r.down) \in Nat
        /\ Len(r'.down) = Len(r.down) - 1
        /\ \A i \in 1..Len(r'.down) : i + 1 \in 1..Len(r.down) /\ r'.down[i] = r.down[i + 1]
    BY <1>1, <1>4, RestFacts
  <1>6. m.kind # "filter" /\ r'.agg.resets = {}
    BY <1>3, <1>5 DEF Exact, WireVersions
  <1>7. WireVersions(r', history)
    BY <1>2, <1>3, <1>6, ReadWire DEF Exact
  <1>8. TokensFit(r', cache, history)
    BY <1>3 DEF Exact, TokensFit, SameQueries
  <1>9. ASSUME NEW t \in r'.on PROVE Synced(r', cache, history, t)
    <2>1. t \in Targets /\ t \in r.on /\ Synced(r, cache, history, t)
      BY <1>1, <1>3, <1>4, <1>9 DEF Exact, SameQueries
    <2>2. PICK x, y, keys, F : /\ x = r.agg.states[t] /\ y = r'.agg.states[t] /\ keys = cache[t].keys
                               /\ F = DocsIn(history, t, r.srv[t].at)
      OBVIOUS
    <2>3. CASE AsksFor(r, t)
      BY <1>3, <2>3 DEF Synced, AsksFor, WatchRequest, SameQueries
    <2>4. ASSUME \A i \in 1..Len(r.up) : r.up[i].t # t, r.srv[t].on, Arriving(r', cache, history, t)
          PROVE  Synced(r', cache, history, t)
      BY <1>3, <1>4, <2>4 DEF Synced
    <2>5. CASE /\ \A i \in 1..Len(r.up) : r.up[i].t # t
               /\ r.srv[t].on /\ x.out = 0 /\ Tracks(0, t, r.down, Result(x, keys), F, history)
      <3>1. PICK E : E = Result(x, keys)
        OBVIOUS
      <3>2. Tracks(0, t, r'.down, Apply(t, E, m), F, history) /\ ~IsAnswer(m, t)
        BY <1>1, <1>4, <2>5, <3>1, TracksRead
      <3>3. y.out = 0 /\ Result(y, keys) = Apply(t, E, m)
        <4>1. CASE m.t = t
          BY <1>3, <1>6, <2>1, <2>2, <2>5, <3>1, <3>2, <4>1 DEF Changed
        <4>2. CASE m.t # t
          BY <1>3, <2>1, <2>2, <2>5, <3>1, <4>2 DEF Apply
        <4> QED
          BY <4>1, <4>2
      <3>4. Arriving(r', cache, history, t)
        BY <1>4, <2>2, <3>2, <3>3 DEF Arriving
      <3> QED
        BY <2>4, <2>5, <3>4
    <2>6. ASSUME NEW p \in 1..Len(r.down), \A i \in 1..Len(r.up) : r.up[i].t # t, r.srv[t].on,
                 r.down[p].t = t, r.down[p].kind = "added", Tracks(p, t, r.down, keys, F, history)
          PROVE  Synced(r', cache, history, t)
      <3>1. PICK k \in Nat : k = p - 1
        BY <1>5
      <3>2. Tracks(k, t, r'.down, keys, F, history)
        <4>1. p \in Nat /\ p > 0
          BY <1>5
        <4>2. Tracks(p - 1, t, Tail(r.down), keys, F, history)
          BY <1>1, <1>4, <2>6, <4>1, TracksTail
        <4> QED
          BY <1>4, <3>1, <4>2
      <3>3. CASE p = 1
        <4>1. IsAnswer(m, t) /\ m.t = t /\ m.kind = "added"
          BY <1>5, <2>6, <3>3 DEF IsAnswer
        <4>2. \A i \in 2..Len(r.down) : ~IsAnswer(r.down[i], t)
          BY <2>6, <3>3, TracksAnswers
        <4>3. x.out = 1
          BY <1>4, <2>1, <2>2, <2>6, <4>1, <4>2, OutFacts
        <4>4. y.out = x.out - 1 /\ Result(y, keys) = keys
          BY <1>3, <2>2, <4>1, <4>3 DEF Changed
        <4>5. y.out = 0 /\ k = 0
          BY <3>1, <3>3, <4>3, <4>4
        <4>6. Arriving(r', cache, history, t)
          BY <1>4, <2>2, <3>2, <4>4, <4>5 DEF Arriving
        <4> QED
          BY <2>4, <2>6, <4>6
      <3>4. CASE p # 1
        <4>1. k \in 1..Len(r'.down) /\ k + 1 = p
          BY <1>5, <3>1, <3>4
        <4>2. r'.down[k] = r.down[p]
          BY <1>5, <4>1
        <4>3. Arriving(r', cache, history, t)
          BY <1>4, <2>2, <2>6, <3>2, <4>1, <4>2 DEF Arriving
        <4> QED
          BY <2>4, <2>6, <4>3
      <3> QED
        BY <3>3, <3>4
    <2> QED
      BY <2>1, <2>2, <2>3, <2>5, <2>6 DEF Synced, Arriving
  <1> QED
    BY <1>3, <1>7, <1>8, <1>9 DEF Exact

\* The documents of a target that takes part in a snapshot are those of its
\* query at the version of the snapshot.
LEMMA RenewedExact ==
    ASSUME WatchInv, CountInv(r), Exact(r, cache, history), NEW m, m.kind = "snapshot",
           r.down # <<>>, m = Head(r.down), IsOpen(r), NEW t \in Targets, t \in r.on,
           r.agg.states[t].out = 0
    PROVE  Result(r.agg.states[t], cache[t].keys) = DocsIn(history, t, m.v)
  <1>1. r \in ClientType /\ r.down \in Seq(Response)
    BY WatchFields, ClientFields
  <1>2. /\ \A i \in 1..Len(r.up) : r.up[i].t # t
        /\ \A i \in 1..Len(r.down) : ~IsAnswer(r.down[i], t)
    BY OutFacts
  <1>3. Synced(r, cache, history, t)
    BY DEF Exact
  <1>4. ~AsksFor(r, t)
    BY <1>2 DEF AsksFor, WatchRequest
  <1>5. Arriving(r, cache, history, t)
    BY <1>3, <1>4 DEF Synced
  <1>6. PICK E, F : E = Result(r.agg.states[t], cache[t].keys) /\ F = DocsIn(history, t, r.srv[t].at)
    OBVIOUS
  <1>7. Tracks(0, t, r.down, E, F, history)
    BY <1>2, <1>5, <1>6 DEF Arriving, IsAnswer
  <1>8. Apply(t, E, m) = DocsIn(history, t, m.v)
    BY <1>1, <1>7, TracksRead
  <1>9. Apply(t, E, m) = E
    BY DEF Apply
  <1> QED
    BY <1>6, <1>8, <1>9

\* A snapshot is read.
LEMMA SnapshotExact ==
    ASSUME WatchInv, CountInv(r), Exact(r, cache, history), NEW m, SnapshotStep(m)
    PROVE  Exact(r', cache', history')
  <1>1. /\ r \in ClientType /\ r.down \in Seq(Response) /\ r.on \in SUBSET Targets
        /\ r.up \in Seq(Request)
    BY WatchFields, ClientFields
  <1>2. PICK n \in Nat : n = Len(history)
    BY WatchFields
  <1>3. ReadStep(m) /\ m.kind = "snapshot" /\ Snapshotted(m.v) /\ history' = history
    BY DEF SnapshotStep
  <1>4. /\ r.down # <<>> /\ m = Head(r.down) /\ m \in Response /\ IsOpen(r)
        /\ r'.down = Tail(r.down) /\ r'.srv = r.srv
    BY <1>3 DEF ReadStep
  <1>5. /\ m = r.down[1] /\ Len(r.down) \in Nat /\ Len(r'.down) = Len(r.down) - 1
        /\ \A i \in 1..Len(r'.down) : i + 1 \in 1..Len(r.down) /\ r'.down[i] = r.down[i + 1]
    BY <1>1, <1>4, RestFacts
  <1>6. r.agg.resets = {}
    BY DEF Exact, WireVersions
  <1>7. /\ r'.on = r.on /\ r'.up = r.up /\ r'.agg.resets = {}
        /\ \A t \in Targets :
             /\ r'.agg.states[t].out = r.agg.states[t].out
             /\ Result(r'.agg.states[t], cache'[t].keys) = Result(r.agg.states[t], cache[t].keys)
             /\ m.v # 0 => Renewed(t, m.v) \/ Untouched(t)
    BY <1>3, <1>6 DEF Snapshotted
  <1>8. WireVersions(r', history) /\ m.v \in 1..n
    BY <1>2, <1>3, <1>7, ReadWire DEF Exact
  <1>9. ASSUME NEW t \in Targets PROVE Renewed(t, m.v) \/ Untouched(t)
    BY <1>7, <1>8
  <1>10. ASSUME NEW t \in Targets, Renewed(t, m.v)
         PROVE  /\ r.agg.states[t].out = 0 /\ t \in r.on
                /\ cache'[t].keys = DocsIn(history, t, m.v)
    <2>1. /\ t \in r.on /\ r.agg.states[t].out = 0
          /\ cache'[t].keys = Result(r.agg.states[t], cache[t].keys)
      BY <1>10 DEF Renewed
    <2> QED
      BY <1>3, <1>4, <2>1, RenewedExact
  <1>11. TokensFit(r', cache', history)
    <2>1. m.v \in 0..n
      BY <1>8
    <2>2. ASSUME NEW t \in Targets
          PROVE  cache'[t].token \in 0..n /\ cache'[t].keys = DocsIn(history, t, cache'[t].token)
      <3>1. cache[t].token \in 0..n /\ cache[t].keys = DocsIn(history, t, cache[t].token)
        BY <1>2 DEF Exact, TokensFit
      <3>2. CASE Untouched(t)
        BY <3>1, <3>2 DEF Untouched
      <3>3. CASE Renewed(t, m.v)
        <4>1. cache'[t].keys = DocsIn(history, t, m.v)
          BY <1>10, <3>3
        <4> QED
          BY <2>1, <3>1, <3>3, <4>1 DEF Renewed
      <3> QED
        BY <1>9, <3>2, <3>3
    <2>3. ASSUME NEW t \in r'.on
          PROVE  /\ r'.tokens[t] \in 0..n /\ r'.data[t] = r'.tokens[t]
                 /\ cache'[t].keys = DocsIn(history, t, r'.tokens[t])
      <3>1. /\ t \in Targets /\ r.tokens[t] \in 0..n /\ r.data[t] = r.tokens[t]
            /\ cache[t].keys = DocsIn(history, t, r.tokens[t])
        BY <1>1, <1>2, <1>7 DEF Exact, TokensFit
      <3>2. CASE Untouched(t)
        BY <3>1, <3>2 DEF Untouched
      <3>3. CASE Renewed(t, m.v)
        <4>1. cache'[t].keys = DocsIn(history, t, m.v)
          BY <1>10, <3>1, <3>3
        <4> QED
          BY <2>1, <3>3, <4>1 DEF Renewed
      <3> QED
        BY <1>9, <3>1, <3>2, <3>3
    <2> QED
      BY <1>2, <2>2, <2>3 DEF TokensFit
  <1>12. ASSUME NEW t \in r'.on PROVE Synced(r', cache', history, t)
    <2>1. t \in Targets /\ t \in r.on /\ Synced(r, cache, history, t)
      BY <1>1, <1>4, <1>7, <1>12 DEF Exact
    <2>2. PICK F, E : F = DocsIn(history, t, r.srv[t].at) /\ E = Result(r.agg.states[t], cache[t].keys)
      OBVIOUS
    <2>3. r.agg.states[t].out # 0 => Untouched(t)
      BY <1>9, <1>10, <2>1
    <2>4. r.agg.states[t].out = 0 => /\ \A i \in 1..Len(r.up) : r.up[i].t # t
                                     /\ \A i \in 1..Len(r.down) : ~IsAnswer(r.down[i], t)
      BY <2>1, OutFacts
    <2>5. CASE AsksFor(r, t)
      <3>1. r.agg.states[t].out # 0
        BY <2>4, <2>5 DEF AsksFor, WatchRequest
      <3>2. r'.tokens[t] = r.tokens[t]
        BY <2>3, <3>1 DEF Untouched
      <3> QED
        BY <1>7, <2>5, <3>2 DEF Synced, AsksFor, WatchRequest
    <2>6. ASSUME \A i \in 1..Len(r.up) : r.up[i].t # t, r.srv[t].on, Arriving(r', cache', history, t)
          PROVE  Synced(r', cache', history, t)
      BY <1>4, <1>7, <2>6 DEF Synced
    <2>7. CASE /\ \A i \in 1..Len(r.up) : r.up[i].t # t
               /\ r.srv[t].on /\ r.agg.states[t].out = 0 /\ Tracks(0, t, r.down, E, F, history)
      <3>1. Tracks(0, t, r'.down, Apply(t, E, m), F, history)
        BY <1>1, <1>4, <2>7, TracksRead
      <3>2. Apply(t, E, m) = E
        BY <1>3 DEF Apply
      <3>3. Arriving(r', cache', history, t)
        BY <1>4, <1>7, <2>1, <2>2, <2>7, <3>1, <3>2 DEF Arriving
      <3> QED
        BY <2>6, <2>7, <3>3
    <2>8. ASSUME NEW p \in 1..Len(r.down), \A i \in 1..Len(r.up) : r.up[i].t # t, r.srv[t].on,
                 r.down[p].t = t, r.down[p].kind = "added",
                 Tracks(p, t, r.down, cache[t].keys, F, history)
          PROVE  Synced(r', cache', history, t)
      <3>1. PICK k \in Nat : k = p - 1
        BY <1>5
      <3>2. r.agg.states[t].out # 0
        BY <2>4, <2>8 DEF IsAnswer
      <3>3. cache'[t].keys = cache[t].keys
        BY <2>3, <3>2 DEF Untouched
      <3>4. Tracks(k, t, r'.down, cache'[t].keys, F, history)
        <4>1. p \in Nat /\ p > 0
          BY <1>5
        <4>2. Tracks(p - 1, t, Tail(r.down), cache[t].keys, F, history)
          BY <1>1, <1>4, <2>8, <4>1, TracksTail
        <4> QED
          BY <1>4, <3>1, <3>3, <4>2
      <3>5. p # 1
        BY <1>3, <1>5, <2>8
      <3>6. k \in 1..Len(r'.down) /\ k + 1 = p
        BY <1>5, <3>1, <3>5
      <3>7. r'.down[k] = r.down[p]
        BY <1>5, <3>6
      <3>8. Arriving(r', cache', history, t)
        BY <1>4, <2>2, <2>8, <3>4, <3>6, <3>7 DEF Arriving
      <3> QED
        BY <2>6, <2>8, <3>8
    <2> QED
      BY <2>1, <2>2, <2>5, <2>7, <2>8 DEF Synced, Arriving
  <1> QED
    BY <1>3, <1>8, <1>11, <1>12 DEF Exact

\* The database changes.
LEMMA CommitExact ==
    ASSUME WatchInv, Exact(r, cache, history), CommitStep
    PROVE  Exact(r', cache', history')
  <1>1. r' = r /\ cache' = cache
    BY DEF CommitStep
  <1>2. PICK h \in [Targets -> SUBSET Docs] : history' = Append(history, h)
    BY DEF CommitStep
  <1>3. PICK g : g = history'
    OBVIOUS
  <1>4. history \in Seq([Targets -> SUBSET Docs])
    BY WatchFields
  <1>5. PICK n \in Nat : n = Len(history)
    BY <1>4
  <1>6. Len(g) = n + 1 /\ g = Append(history, h)
    BY <1>2, <1>3, <1>4, <1>5
  <1>7. (\A v \in 0..n : v \in 0..(n + 1)) /\ (\A v \in 1..n : v \in 1..(n + 1))
    OBVIOUS
  <1>8. \A v \in 0..n, t \in Targets : DocsIn(g, t, v) = DocsIn(history, t, v)
    BY <1>4, <1>5, <1>6, DocsInAppend
  <1>9. WireVersions(r, g)
    BY <1>5, <1>6, <1>7 DEF Exact, WireVersions
  <1>10. r \in ClientType /\ r.on \in SUBSET Targets /\ r.down \in Seq(Response)
    BY WatchFields, ClientFields
  <1>11. TokensFit(r, cache, g)
    BY <1>5, <1>6, <1>7, <1>8, <1>10 DEF Exact, TokensFit
  <1>12. ASSUME IsOpen(r), NEW t \in r.on PROVE Synced(r, cache, g, t)
    <2>1. t \in Targets /\ Synced(r, cache, history, t)
      BY <1>10, <1>12 DEF Exact
    <2>2. r.srv[t].at \in 0..n
      BY <1>5, <2>1 DEF Exact, WireVersions
    <2>3. PICK F : F = DocsIn(history, t, r.srv[t].at)
      OBVIOUS
    <2>4. F = DocsIn(g, t, r.srv[t].at)
      BY <1>8, <2>1, <2>2, <2>3
    <2>5. \A i \in 1..Len(r.down) : r.down[i].kind = "snapshot" => r.down[i].v \in 1..Len(history)
      BY DEF Exact, WireVersions
    <2>6. ASSUME NEW p \in Nat, NEW E, Tracks(p, t, r.down, E, F, history)
          PROVE  Tracks(p, t, r.down, E, F, g)
      BY <1>4, <1>6, <1>10, <2>5, <2>6, TracksCommit
    <2>7. ASSUME Arriving(r, cache, history, t) PROVE Arriving(r, cache, g, t)
      <3>1. 0 \in Nat /\ \A p \in 1..Len(r.down) : p \in Nat
        OBVIOUS
      <3> QED
        BY <2>3, <2>4, <2>6, <2>7, <3>1 DEF Arriving
    <2> QED
      BY <2>1, <2>7 DEF Synced
  <1> QED
    BY <1>1, <1>3, <1>9, <1>11, <1>12 DEF Exact

\* A response that does not concern target t is sent.
LEMMA TracksOther ==
    ASSUME NEW d \in Seq(Response), NEW t, NEW E, NEW F, NEW h, NEW p \in Nat,
           Tracks(p, t, d, E, F, h), NEW m \in Response, m.t # t,
           m.kind = "snapshot" => F = DocsIn(h, t, m.v)
    PROVE  Tracks(p, t, Append(d, m), E, F, h)
  <1>1. PICK u : u = <<m>>
    OBVIOUS
  <1>2. u \in Seq(Response) /\ Len(u) = 1 /\ u[1] = m /\ 1..1 = {1}
    BY <1>1
  <1>3. Path(t, F, u, F)
    <2>1. Apply(t, F, m) = F
      BY DEF Apply
    <2>2. Path(t, F, <<m>>, Apply(t, F, m))
      BY PathOne
    <2> QED
      BY <1>1, <2>1, <2>2
  <1>4. \A i \in 1..Len(u) : /\ ~IsAnswer(u[i], t)
                             /\ u[i].kind = "snapshot" => u[i].t # t /\ F = DocsIn(h, t, u[i].v)
                                                           /\ Len(u) = 1
    BY <1>2 DEF IsAnswer
  <1>5. Tracks(p, t, d \o u, E, F, h)
    BY <1>2, <1>3, <1>4, TracksConcat
  <1>6. d \o u = Append(d, m)
    BY <1>1
  <1> QED
    BY <1>5, <1>6

\* The backend answers a request.
LEMMA AnswerExact ==
    ASSUME WatchInv, Exact(r, cache, history), NEW q, AnswerStep(q)
    PROVE  Exact(r', cache', history')
  <1>1. /\ r \in ClientType /\ r.down \in Seq(Response) /\ r.on \in SUBSET Targets
        /\ r.up \in Seq(Request) /\ r.srv \in [Targets -> [on : BOOLEAN, at : Nat, cur : BOOLEAN]]
    BY WatchFields, ClientFields
  <1>2. /\ IsOpen(r) /\ SameQueries(r', r) /\ r'.agg = r.agg /\ cache' = cache /\ history' = history
        /\ q \in Request /\ r.up # <<>> /\ q = Head(r.up) /\ r'.up = Tail(r.up)
    BY DEF AnswerStep, BackendStep
  <1>3. PICK kind \in {"added", "removed"} : kind = IF q.kind = "watch" THEN "added" ELSE "removed"
    OBVIOUS
  <1>4. PICK m : m = Message(kind, q.t, 0)
    OBVIOUS
  <1>5. q.t \in Nat /\ q.t \in Targets
    BY <1>2 DEF Targets, Request
  <1>6. m \in Response /\ m.kind = kind /\ m.t = q.t
    BY <1>4, <1>5, MessageFacts
  <1>7. r'.down = Append(r.down, m)
    BY <1>3, <1>4 DEF AnswerStep
  <1>8. r'.srv = [r.srv EXCEPT ![q.t] = [on |-> q.kind = "watch", at |-> q.token, cur |-> FALSE]]
    BY DEF AnswerStep
  <1>9. /\ r'.srv[q.t].at = q.token /\ (q.kind = "watch" => r'.srv[q.t].on)
        /\ \A x \in Targets : x # q.t => r'.srv[x] = r.srv[x]
    <2>1. PICK x : x = [on |-> q.kind = "watch", at |-> q.token, cur |-> FALSE]
      OBVIOUS
    <2>2. x.at = q.token
      BY <2>1
    <2>3. q.kind = "watch" => x.on
      BY <2>1, Zenon
    <2>4. r'.srv[q.t] = x /\ \A y \in Targets : y # q.t => r'.srv[y] = r.srv[y]
      <3>1. r'.srv = [r.srv EXCEPT ![q.t] = x]
        BY <1>8, <2>1
      <3> QED
        BY <1>1, <1>5, <3>1
    <2> QED
      BY <2>2, <2>3, <2>4
  <1>10. PICK n \in Nat, k \in Nat : n = Len(r.down) /\ k = Len(r.up) /\ k > 0
    BY <1>1, <1>2, RestFacts
  <1>11. /\ Len(r'.down) = n + 1 /\ r'.down[n + 1] = m /\ \A i \in 1..n : r'.down[i] = r.down[i]
    BY <1>1, <1>6, <1>7, <1>10
  <1>12. /\ q = r.up[1] /\ Len(r'.up) = k - 1
         /\ \A i \in 1..(k - 1) : i + 1 \in 1..k /\ r'.up[i] = r.up[i + 1]
    BY <1>1, <1>2, <1>10, RestFacts
  <1>13. \A i \in 1..(n + 1) : i \in 1..n \/ i = n + 1
    OBVIOUS
  <1>14. WireVersions(r', history)
    <2>1. q.token \in 0..Len(history)
      BY <1>10, <1>12 DEF Exact, WireVersions
    <2>2. \A t \in Targets : r'.srv[t].at \in 0..Len(history)
      BY <1>9, <2>1 DEF Exact, WireVersions
    <2>3. \A i \in 1..Len(r'.up) : r'.up[i].token \in 0..Len(history)
      BY <1>10, <1>12 DEF Exact, WireVersions
    <2>4. \A i \in 1..Len(r'.down) :
             /\ r'.down[i].kind # "filter"
             /\ r'.down[i].kind = "snapshot" => r'.down[i].v \in 1..Len(history)
      BY <1>3, <1>6, <1>10, <1>11, <1>13 DEF Exact, WireVersions
    <2> QED
      BY <1>2, <2>2, <2>3, <2>4 DEF Exact, WireVersions
  <1>15. TokensFit(r', cache, history)
    BY <1>2 DEF Exact, TokensFit, SameQueries
  <1>16. ASSUME NEW t \in r'.on PROVE Synced(r', cache, history, t)
    <2>1. t \in Targets /\ t \in r.on /\ Synced(r, cache, history, t) /\ r'.tokens[t] = r.tokens[t]
      BY <1>1, <1>2, <1>16 DEF Exact, SameQueries
    <2>2. ASSUME AsksFor(r, t) PROVE Synced(r', cache, history, t)
      <3>1. PICK i \in 1..k : /\ r.up[i] = WatchRequest(r, t)
                              /\ \A j \in (i + 1)..k : r.up[j].t # t
        BY <1>10, <2>2 DEF AsksFor
      <3>2. CASE i = 1
        <4>1. q.kind = "watch" /\ q.t = t /\ q.token = r.tokens[t]
          BY <1>12, <3>1, <3>2 DEF WatchRequest
        <4>2. kind = "added"
          BY <1>3, <4>1
        <4>3. ASSUME NEW j \in 1..Len(r'.up) PROVE r'.up[j].t # t
          <5>1. j \in 1..(k - 1) /\ j + 1 \in 2..k
            BY <1>12
          <5> QED
            BY <1>12, <3>1, <3>2, <5>1
        <4>4. r'.srv[t].on /\ r'.srv[t].at = r.tokens[t]
          BY <1>9, <4>1
        <4>5. cache[t].keys = DocsIn(history, t, r'.srv[t].at)
          BY <2>1, <4>4 DEF Exact, TokensFit
        <4>6. Tracks(n + 1, t, r'.down, cache[t].keys, cache[t].keys, history)
          <5>1. r'.down \in Seq(Response)
            BY <1>1, <1>6, <1>7
          <5> QED
            BY <1>11, <5>1, TracksStart
        <4>7. n + 1 \in 1..Len(r'.down) /\ r'.down[n + 1].t = t /\ r'.down[n + 1].kind = "added"
          BY <1>6, <1>11, <4>1, <4>2
        <4>8. Arriving(r', cache, history, t)
          BY <4>5, <4>6, <4>7 DEF Arriving
        <4> QED
          BY <4>3, <4>4, <4>8 DEF Synced
      <3>3. CASE i # 1
        <4>1. PICK l \in Nat : l = i - 1
          OBVIOUS
        <4>2. l \in 1..(k - 1) /\ l + 1 = i
          BY <3>3, <4>1
        <4>3. r'.up[l] = WatchRequest(r', t)
          BY <1>12, <2>1, <3>1, <4>2 DEF WatchRequest
        <4>4. ASSUME NEW j \in (l + 1)..(k - 1) PROVE r'.up[j].t # t
          <5>1. j \in 1..(k - 1) /\ j + 1 \in (i + 1)..k
            BY <4>2
          <5> QED
            BY <1>12, <3>1, <5>1
        <4> QED
          BY <1>12, <4>2, <4>3, <4>4 DEF Synced, AsksFor
      <3> QED
        BY <3>2, <3>3
    <2>3. ASSUME \A i \in 1..Len(r.up) : r.up[i].t # t, r.srv[t].on, Arriving(r, cache, history, t)
          PROVE  Synced(r', cache, history, t)
      <3>1. q.t # t
        BY <1>10, <1>12, <2>3
      <3>2. \A i \in 1..Len(r'.up) : r'.up[i].t # t
        BY <1>10, <1>12, <2>3
      <3>3. r'.srv[t] = r.srv[t]
        BY <1>9, <2>1, <3>1
      <3>4. PICK F : F = DocsIn(history, t, r.srv[t].at)
        OBVIOUS
      <3>5. ASSUME NEW p \in Nat, NEW E, Tracks(p, t, r.down, E, F, history)
            PROVE  Tracks(p, t, r'.down, E, F, history)
        BY <1>1, <1>3, <1>6, <1>7, <3>1, <3>5, TracksOther
      <3>6. /\ 0 \in Nat /\ \A p \in 1..Len(r.down) : /\ p \in Nat /\ p \in 1..Len(r'.down)
                                                      /\ r'.down[p] = r.down[p]
        BY <1>10, <1>11
      <3>7. Arriving(r', cache, history, t)
        BY <1>2, <2>3, <3>3, <3>4, <3>5, <3>6 DEF Arriving
      <3> QED
        BY <2>3, <3>2, <3>3, <3>7 DEF Synced
    <2> QED
      BY <2>1, <2>2, <2>3 DEF Synced
  <1> QED
    BY <1>2, <1>14, <1>15, <1>16 DEF Exact

\* The backend sends a snapshot without an existence filter.
LEMMA DeliverExact ==
    ASSUME WatchInv, Exact(r, cache, history), NEW u, NEW v, NEW mode, mode # "lossy",
           DeliverStep(u, v, mode)
    PROVE  Exact(r', cache', history')
  <1>1. /\ r \in ClientType /\ r.down \in Seq(Response) /\ r.on \in SUBSET Targets
        /\ r.up \in Seq(Request) /\ r.srv \in [Targets -> [on : BOOLEAN, at : Nat, cur : BOOLEAN]]
    BY WatchFields, ClientFields
  <1>2. /\ IsOpen(r) /\ SameQueries(r', r) /\ r'.agg = r.agg /\ cache' = cache /\ history' = history
        /\ r'.up = r.up /\ v \in 1..Len(history)
        /\ r'.down = (r.down \o u) \o <<Message("snapshot", 0, v)>>
        /\ r'.srv = [t \in Targets |-> IF r.srv[t].on THEN [on |-> TRUE, at |-> v, cur |-> TRUE]
                                       ELSE r.srv[t]]
        /\ Plain(u, Kinds(mode = "lossy"))
        /\ (\A t \in Targets : r.srv[t].at \in 0..Len(history)) =>
             \A t \in Targets : Path(t, DocsAt(t, r.srv[t].at), u,
                                     DocsAt(t, IF r.srv[t].on THEN v ELSE r.srv[t].at))
    BY DEF DeliverStep, BackendStep, Delivered
  <1>3. \A t \in Targets : r.srv[t].at \in 0..Len(history)
    BY DEF Exact, WireVersions
  <1>4. PICK m : m = Message("snapshot", 0, v)
    OBVIOUS
  <1>5. v \in Nat /\ 0 \in Nat /\ v \in 0..Len(history) /\ v # 0
    BY <1>2
  <1>6. m \in Response /\ m.kind = "snapshot" /\ m.t = 0 /\ m.v = v
    BY <1>4, <1>5, MessageFacts
  <1>7. u \in Seq(Response) /\ \A i \in 1..Len(u) : u[i].kind \in {"put", "drop", "reset", "current"}
    BY <1>2 DEF Plain, Kinds
  <1>8. PICK d : d = r.down \o u
    OBVIOUS
  <1>9. d \in Seq(Response) /\ r'.down = Append(d, m)
    BY <1>1, <1>2, <1>4, <1>6, <1>7, <1>8
  <1>10. PICK n \in Nat, k \in Nat : n = Len(r.down) /\ k = Len(u)
    BY <1>1, <1>7
  <1>11. /\ Len(d) = n + k /\ \A i \in 1..n : d[i] = r.down[i]
         /\ \A i \in (n + 1)..(n + k) : i - n \in 1..k /\ d[i] = u[i - n]
    BY <1>1, <1>7, <1>8, <1>10, ConcatElements
  <1>12. /\ Len(r'.down) = n + k + 1 /\ r'.down[n + k + 1] = m
         /\ \A i \in 1..(n + k) : r'.down[i] = d[i]
    BY <1>6, <1>9, <1>11
  <1>13. ASSUME NEW i \in 1..Len(r'.down)
         PROVE  /\ r'.down[i].kind # "filter"
                /\ r'.down[i].kind = "snapshot" => r'.down[i].v \in 1..Len(history)
    <2>1. i \in 1..n \/ i \in (n + 1)..(n + k) \/ i = n + k + 1
      BY <1>12
    <2>2. CASE i \in 1..n
      <3>1. i \in 1..(n + k) /\ r'.down[i] = r.down[i]
        BY <1>11, <1>12, <2>2
      <3> QED
        BY <1>10, <2>2, <3>1 DEF Exact, WireVersions
    <2>3. CASE i \in (n + 1)..(n + k)
      <3>1. i \in 1..(n + k) /\ i - n \in 1..k /\ r'.down[i] = u[i - n]
        BY <1>11, <1>12, <2>3
      <3> QED
        BY <1>7, <1>10, <3>1
    <2>4. CASE i = n + k + 1
      BY <1>2, <1>6, <1>12, <2>4
    <2> QED
      BY <2>1, <2>2, <2>3, <2>4
  <1>14. ASSUME NEW t \in Targets
         PROVE  /\ r'.srv[t].at \in 0..Len(history)
                /\ r.srv[t].on => r'.srv[t].on /\ r'.srv[t].at = v
    BY <1>2, <1>3, <1>5
  <1>15. WireVersions(r', history)
    BY <1>2, <1>13, <1>14 DEF Exact, WireVersions
  <1>16. TokensFit(r', cache, history)
    BY <1>2 DEF Exact, TokensFit, SameQueries
  <1>17. ASSUME NEW t \in r'.on PROVE Synced(r', cache, history, t)
    <2>1. t \in Targets /\ t \in r.on /\ Synced(r, cache, history, t) /\ r'.tokens[t] = r.tokens[t]
      BY <1>1, <1>2, <1>17 DEF Exact, SameQueries
    <2>2. CASE AsksFor(r, t)
      BY <1>2, <2>1, <2>2 DEF Synced, AsksFor, WatchRequest
    <2>3. ASSUME \A i \in 1..Len(r.up) : r.up[i].t # t, r.srv[t].on, Arriving(r, cache, history, t)
          PROVE  Synced(r', cache, history, t)
      <3>1. PICK F, G : F = DocsIn(history, t, r.srv[t].at) /\ G = DocsIn(history, t, v)
        OBVIOUS
      <3>2. Path(t, F, u, G)
        <4>1. Path(t, DocsAt(t, r.srv[t].at), u, DocsAt(t, IF r.srv[t].on THEN v ELSE r.srv[t].at))
          BY <1>2, <1>3, <2>1
        <4>2. DocsAt(t, r.srv[t].at) = F /\ DocsAt(t, IF r.srv[t].on THEN v ELSE r.srv[t].at) = G
          BY <2>3, <3>1 DEF DocsAt, DocsIn
        <4> QED
          BY <4>1, <4>2
      <3>3. r'.srv[t].on /\ r'.srv[t].at = v
        BY <1>14, <2>1, <2>3
      <3>4. ASSUME NEW p \in Nat, NEW E, Tracks(p, t, r.down, E, F, history)
            PROVE  Tracks(p, t, r'.down, E, G, history)
        <4>1. \A i \in 1..Len(u) : ~IsAnswer(u[i], t) /\ u[i].kind # "snapshot"
          BY <1>7 DEF IsAnswer
        <4>2. Tracks(p, t, d, E, G, history)
          BY <1>1, <1>7, <1>8, <3>2, <3>4, <4>1, TracksConcat
        <4>3. m.t # t
          BY <1>6, <2>1 DEF Targets
        <4>4. m.kind = "snapshot" => G = DocsIn(history, t, m.v)
          BY <1>6, <3>1
        <4> QED
          BY <1>6, <1>9, <4>2, <4>3, <4>4, TracksOther
      <3>5. /\ 0 \in Nat /\ \A p \in 1..Len(r.down) : /\ p \in Nat /\ p \in 1..Len(r'.down)
                                                      /\ r'.down[p] = r.down[p]
        <4>1. \A p \in 1..n : p \in 1..(n + k) /\ p \in 1..(n + k + 1)
          OBVIOUS
        <4> QED
          BY <1>10, <1>11, <1>12, <4>1
      <3>6. Arriving(r', cache, history, t)
        <4>1. PICK x, E : x = r.agg.states[t] /\ E = Result(x, cache[t].keys)
          OBVIOUS
        <4>2. r'.agg.states[t] = x /\ G = DocsIn(history, t, r'.srv[t].at)
          BY <1>2, <3>1, <3>3, <4>1
        <4>3. CASE x.out = 0 /\ Tracks(0, t, r.down, E, F, history)
          <5>1. Tracks(0, t, r'.down, E, G, history)
            BY <3>4, <3>5, <4>3
          <5> QED
            BY <4>1, <4>2, <4>3, <5>1 DEF Arriving
        <4>4. ASSUME NEW p \in 1..Len(r.down), r.down[p].t = t, r.down[p].kind = "added",
                     Tracks(p, t, r.down, cache[t].keys, F, history)
              PROVE  Arriving(r', cache, history, t)
          <5>1. Tracks(p, t, r'.down, cache[t].keys, G, history)
            BY <3>4, <3>5, <4>4
          <5> QED
            BY <3>5, <4>2, <4>4, <5>1 DEF Arriving
        <4> QED
          BY <2>3, <3>1, <4>1, <4>3, <4>4 DEF Arriving
      <3> QED
        BY <1>2, <2>3, <3>3, <3>6 DEF Synced
    <2> QED
      BY <2>1, <2>2, <2>3 DEF Synced
  <1> QED
    BY <1>2, <1>15, <1>16, <1>17 DEF Exact

\* The invariant for a backend that does nothing worse than to reset targets.
ExactInv == CountedInv /\ Exact(r, cache, history)

\* It is kept by every step.
LEMMA ExactKept ==
    ASSUME Misfortunes \subseteq {"reset"}, WatchInv, CountInv(r), Exact(r, cache, history), WatchStep
    PROVE  Exact(r', cache', history')
  <1>1. CASE NeutralStep \/ RestartStep
    BY <1>1, NeutralExact
  <1>2. ASSUME NEW t \in Targets, ListenStep(t) PROVE Exact(r', cache', history')
    BY <1>2, ListenExact
  <1>3. ASSUME NEW t \in Targets, StopStep(t) PROVE Exact(r', cache', history')
    BY <1>3, StopExact
  <1>4. ASSUME NEW t \in Targets, RejectStep(t) PROVE FALSE
    BY <1>4 DEF RejectStep
  <1>5. CASE OpenStep
    BY <1>5, OpenExact
  <1>6. ASSUME NEW m, ChangeStep(m) PROVE Exact(r', cache', history')
    BY <1>6, ChangeExact
  <1>7. ASSUME NEW m, ErrorStep(m) PROVE FALSE
    <2>1. r \in ClientType /\ r.down \in Seq(Response)
      BY WatchFields, ClientFields
    <2>2. r.down # <<>> /\ m = Head(r.down) /\ m.kind = "rejected"
      BY <1>7 DEF ErrorStep, ReadStep
    <2>3. m = r.down[1] /\ 1 \in 1..Len(r.down)
      BY <2>1, <2>2, RestFacts
    <2> QED
      BY <2>2, <2>3 DEF CountInv, NoneRejected
  <1>8. ASSUME NEW m, SnapshotStep(m) PROVE Exact(r', cache', history')
    BY <1>8, SnapshotExact
  <1>9. CASE CommitStep
    BY <1>9, CommitExact
  <1>10. ASSUME NEW q, AnswerStep(q) PROVE Exact(r', cache', history')
    BY <1>10, AnswerExact
  <1>11. ASSUME NEW u, NEW v, NEW mode, DeliverStep(u, v, mode) PROVE Exact(r', cache', history')
    <2>1. mode # "lossy"
      BY <1>11 DEF DeliverStep
    <2> QED
      BY <1>11, <2>1, DeliverExact
  <1> QED
    BY <1>1, <1>2, <1>3, <1>4, <1>5, <1>6, <1>7, <1>8, <1>9, <1>10, <1>11 DEF WatchStep

\* It holds from the start.
LEMMA ExactInvAlways ==
    ASSUME Misfortunes \subseteq {"reset"}
    PROVE  Spec => []ExactInv
  <1>1. "rejected" \notin Misfortunes
    OBVIOUS
  <1>2. Spec => []CountedInv
    BY <1>1, CountedInvAlways
  <1>3. ASSUME Init PROVE Exact(r, cache, history)
    <2>1. PICK n : n = NewClient
      OBVIOUS
    <2>2. Core(n) /\ ~IsOpen(n) /\ r = EnableNetworkOp(n) /\ n.on = {}
      BY <1>3, <2>1, NewClientCore DEF Init, NewClient
    <2>3. Core(r) /\ ~IsOpen(r) /\ r.on = {}
      <3>1. Core(r) /\ SameQueries(r, n) /\ Kept(r, n)
        BY <2>2, EnableInv
      <3> QED
        BY <2>2, <3>1 DEF Kept, SameWire, IsOpen, SameQueries
    <2>4. Len(history) \in Nat
      <3>1. WatchInv
        BY <1>3, WatchInvInductive
      <3> QED
        BY <3>1, WatchFields
    <2>5. \A t \in Targets : cache[t].token = 0 /\ cache[t].keys = {}
      BY <1>3 DEF Init
    <2>6. TokensFit(r, cache, history)
      <3>1. 0 \in 0..Len(history) /\ \A t \in Targets : DocsIn(history, t, 0) = {}
        BY <2>4 DEF DocsIn
      <3>2. \A t \in Targets : /\ cache[t].token \in 0..Len(history)
                              /\ cache[t].keys = DocsIn(history, t, cache[t].token)
        BY <2>5, <3>1
      <3> QED
        BY <2>3, <3>2 DEF TokensFit
    <2> QED
      BY <2>3, <2>4, <2>6, ClosedExact
  <1>4. ASSUME CountedInv, Exact(r, cache, history), [Next]_vars PROVE Exact(r', cache', history')
    <2>1. WatchInv /\ CountInv(r)
      BY <1>4 DEF CountedInv
    <2>2. WatchStep
      BY <1>4, <2>1, NextSteps
    <2> QED
      BY <1>4, <2>1, <2>2, ExactKept
  <1>6. Exact(r, cache, history)' <=> Exact(r', cache', history')
    BY DEF Exact, WireVersions, TokensFit, Synced, AsksFor, Arriving, Tracks, Follows, IsOpen,
           WatchRequest, Result, DocumentsOf, DocsIn, Apply, IsAnswer
  <1>7. Init => Exact(r, cache, history)
    BY <1>3
  <1>8. CountedInv /\ Exact(r, cache, history) /\ [Next]_vars => Exact(r, cache, history)'
    BY <1>4, <1>6
  <1> QED
    BY <1>2, <1>7, <1>8, PTL DEF Spec, ExactInv

\* The documents that the target cache stores for a target are the result of
\* its query at the version of the stored resume token, through every crash,
\* reconnection, repeated listen and reset, for a backend that neither rejects
\* targets nor resumes them without removals: resuming from the token loses
\* nothing.
THEOREM CacheFollowsToken ==
    ASSUME Misfortunes \subseteq {"reset"}
    PROVE  Spec => []CacheMatchesResumeToken
  <1>1. ExactInv => CacheMatchesResumeToken
    BY DEF ExactInv, Exact, TokensFit, DocsIn, DocsAt, CacheMatchesResumeToken
  <1> QED
    BY <1>1, ExactInvAlways, PTL

\* A view that is current shows the result of its query at the version of the
\* resume token in memory, for the same backend.
THEOREM CurrentViewsAreExact ==
    ASSUME Misfortunes \subseteq {"reset"}
    PROVE  Spec => []CurrentViewIsExact
  <1>1. ASSUME ExactInv PROVE CurrentViewIsExact
    <2>1. WatchInv /\ TokensFit(r, cache, history)
      BY <1>1 DEF ExactInv, CountedInv, Exact
    <2>2. r.on = r.views
      BY <2>1, WatchFields
    <2> QED
      BY <2>1, <2>2 DEF TokensFit, DocsIn, DocsAt, CurrentViewIsExact
  <1> QED
    BY <1>1, ExactInvAlways, PTL

=============================================================================
