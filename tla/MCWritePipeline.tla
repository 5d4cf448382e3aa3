-------------------------- MODULE MCWritePipeline --------------------------
(***************************************************************************)
(* Small instances of WritePipeline for TLC.                               *)
(***************************************************************************)
EXTENDS WritePipeline

CONSTANTS alice, bob, t1, t2

OneUser == {alice}
TwoUsers == {alice, bob}
OneToken == {t1}
TwoTokens == {t1, t2}

BothWireFaults == {"drop_unread", "malformed"}
NoWireFaults == {}
DropUnreadOnly == {"drop_unread"}
=============================================================================
