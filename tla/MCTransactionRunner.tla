------------------------ MODULE MCTransactionRunner ------------------------
(***************************************************************************)
(* Small instances of TransactionRunner for TLC.                           *)
(***************************************************************************)
EXTENDS TransactionRunner

CONSTANTS t1, doc1, doc2

OneTransaction == {t1}
TwoKeys == {doc1, doc2}
=============================================================================
