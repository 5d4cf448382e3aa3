------------------------- MODULE MCLimboResolution -------------------------
(***************************************************************************)
(* Small instances of LimboResolution for TLC.                             *)
(***************************************************************************)
EXTENDS LimboResolution
=============================================================================
