------------------------------- MODULE Stream -------------------------------
(***************************************************************************)
(* The connection state machine that WatchStream and WriteStream inherit   *)
(* (remote/stream.cc).  A stream is part of the record r of the component  *)
(* that owns it, and every method is an operator from r to r of the same   *)
(* name.  The operators below use these fields of r:                       *)
(*                                                                         *)
(*   state    Stream::state_                                               *)
(*   idle     idleness_timer_ is scheduled                                 *)
(*   backoff  the timer of backoff_ is scheduled                           *)
(*   closes   close_count_                                                 *)
(*   auth     close counts captured by GetToken callbacks still to come    *)
(*   up       requests written and not yet handled by the backend          *)
(*   ok       no HARD_ASSERT has failed                                    *)
(*                                                                         *)
(* Close() notifies the owner and is therefore defined where r is.         *)
(***************************************************************************)
EXTENDS Integers, Sequences

StreamStates == {"Initial", "Starting", "Open", "Error", "Backoff"}

HardAssert(r, condition) == [r EXCEPT !.ok = @ /\ condition]

IsOpen(r) == r.state = "Open"

IsStarted(r) == r.state \in {"Starting", "Backoff", "Open"}

RequestCredentials(r) == [r EXCEPT !.auth = @ \cup {r.closes}]

BackoffAndTryRestarting(r) ==
    [HardAssert(r, r.state = "Error") EXCEPT !.state = "Backoff",
                                             !.backoff = TRUE]

Start(r) ==
    IF r.state = "Error"
    THEN BackoffAndTryRestarting(r)
    ELSE RequestCredentials(
            [HardAssert(r, r.state = "Initial") EXCEPT !.state = "Starting"])

InhibitBackoff(r) ==
    [HardAssert(r, ~IsStarted(r)) EXCEPT !.state = "Initial"]

MarkIdle(r) == IF IsOpen(r) THEN [r EXCEPT !.idle = TRUE] ELSE r

\* Stream::Write() for each of the requests.
Write(r, requests) ==
    IF requests = <<>> THEN r
    ELSE [HardAssert(r, IsOpen(r)) EXCEPT !.idle = FALSE,
                                          !.up = @ \o requests]

\* The callback of BackoffAndTryRestarting().
RestartAfterBackoff(r) ==
    LET initial == [HardAssert(r, r.state = "Backoff") EXCEPT
                      !.backoff = FALSE, !.state = "Initial"]
    IN  HardAssert(Start(initial), IsStarted(Start(initial)))
=============================================================================
