---------------------------- MODULE MCWinChannel ----------------------------
(* Model-checking instances of WinChannel. *)
EXTENDS WinChannel
=============================================================================
