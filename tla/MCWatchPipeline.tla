-------------------------- MODULE MCWatchPipeline --------------------------
(***************************************************************************)
(* Small instances of WatchPipeline for TLC.                               *)
(***************************************************************************)
EXTENDS WatchPipeline

NoMisfortune == {}
Resets == {"reset"}
LossyResumes == {"lossy"}
Rejections == {"rejected"}
ResetsAndLossyResumes == {"reset", "lossy"}
AllMisfortunes == {"reset", "lossy", "rejected"}
=============================================================================
