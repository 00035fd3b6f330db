--------------------------- MODULE MCPosixChannel ---------------------------
(* The channel under LiveSpec with allocations that may fail, for TLC. *)
EXTENDS PosixChannel
=============================================================================
