----------------------------- MODULE MCBatchWriter -----------------------------
(***************************************************************************)
(* Model values for BatchWriter.                                            *)
(***************************************************************************)
EXTENDS BatchWriterProps

CONSTANTS e1, e2

TwoEntries == {e1, e2}
OneBad == {e2}
=============================================================================
