--------------------------- MODULE MCWorkerQueue ---------------------------
(***************************************************************************)
(* Small instances of WorkerQueue for TLC.                                 *)
(***************************************************************************)
EXTENDS WorkerQueue

CONSTANTS a1, a2

TwoThreads == {a1, a2}
AllCalls == {"Enqueue", "TerminateAsync", "ClearPersistence",
             "EnsureClientConfigured", "Dispose"}
=============================================================================
