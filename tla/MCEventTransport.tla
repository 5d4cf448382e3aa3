-------------------------- MODULE MCEventTransport --------------------------
(***************************************************************************)
(* Small instances of EventTransport for TLC.                              *)
(***************************************************************************)
EXTENDS EventTransport

Event(id, target, qos) == [id |-> id, target |-> target, qos |-> qos]

TwoTargets == {"cct", "csh"}

\* A fast event, which forces an upload, and one of another target that is not
\* uploaded over a mobile network.
FastAndWifi == {Event(1, "cct", "fast"), Event(2, "csh", "wifi")}
=============================================================================
