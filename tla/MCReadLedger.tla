--------------------------- MODULE MCReadLedger ---------------------------
(* The ledger with two frame records and three reader records, so that the  *)
(* circular array wraps and both tables fill up.                            *)
EXTENDS ReadLedger
=============================================================================
