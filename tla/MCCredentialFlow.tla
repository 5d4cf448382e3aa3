-------------------------- MODULE MCCredentialFlow --------------------------
(***************************************************************************)
(* Small instances of CredentialFlow for TLC.                              *)
(***************************************************************************)
EXTENDS CredentialFlow

CONSTANTS alice, bob

OneUser == {alice}
TwoUsers == {alice, bob}
=============================================================================
