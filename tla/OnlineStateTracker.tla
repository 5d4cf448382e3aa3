------------------------- MODULE OnlineStateTracker -------------------------
(***************************************************************************)
(* Deciding whether the client is online (remote/online_state_tracker.cc). *)
(* The tracker is part of the RemoteStore record r:                        *)
(*                                                                         *)
(*   online    OnlineStateTracker::state_                                  *)
(*   failures  watch_stream_failures_                                      *)
(*   timer     online_state_timer_ is scheduled                            *)
(*   current   View::current_ of the view on every target                  *)
(*   ok        no HARD_ASSERT has failed                                   *)
(***************************************************************************)
EXTENDS Stream

OnlineStates == {"Unknown", "Online", "Offline"}

kMaxWatchStreamFailures == 1

\* The handler is SyncEngine::HandleOnlineStateChange(), which calls
\* View::ApplyOnlineStateChange() on every view.
SetAndBroadcast(r, state) ==
    IF state = r.online THEN r
    ELSE [r EXCEPT !.online = state,
                   !.current = IF state = "Offline"
                               THEN [t \in DOMAIN @ |-> FALSE] ELSE @]

ClearOnlineStateTimer(r) == [r EXCEPT !.timer = FALSE]

HandleWatchStreamStart(r) ==
    IF r.failures # 0 THEN r
    ELSE [HardAssert(SetAndBroadcast(r, "Unknown"), ~r.timer) EXCEPT
            !.timer = TRUE]

HandleWatchStreamFailure(r) ==
    LET failed == [r EXCEPT !.failures = @ + 1]
    IN  IF r.online = "Online"
        THEN HardAssert(SetAndBroadcast(r, "Unknown"),
                        r.failures = 0 /\ ~r.timer)
        ELSE IF failed.failures >= kMaxWatchStreamFailures
        THEN SetAndBroadcast(ClearOnlineStateTimer(failed), "Offline")
        ELSE failed

\* Mutant: the timer is left running.
UpdateStateKeepsTimer(r, state) ==
    SetAndBroadcast([r EXCEPT !.failures = 0], state)

UpdateState(r, state) ==
    SetAndBroadcast([ClearOnlineStateTimer(r) EXCEPT !.failures = 0], state)

\* The callback of the timer that HandleWatchStreamStart() schedules.
HandleOnlineStateTimeout(r) ==
    SetAndBroadcast([HardAssert(r, r.online = "Unknown") EXCEPT
                       !.timer = FALSE], "Offline")
=============================================================================
