------------------------------ MODULE MCAvBin ------------------------------
(***************************************************************************)
(* The A/V bins, for TLC: framelinkavsink, the producer's, or              *)
(* framelinkavsrc, as `producer' says, through its sessions with           *)
(* everything that may fail.                                               *)
(***************************************************************************)
EXTENDS Naturals

CONSTANTS BinTracks, MaxCalls, MaxSessions

VARIABLES
  producer,
  elem, sessions, sh, worker, drainer, calls, child, open, pad, passed, posting, heldEos,
  errored, peer, out, stale, pauses

bin ==
  <<elem, sessions, sh, worker, drainer, calls, child, open, pad, passed, posting, heldEos,
    errored, peer, out, stale, pauses>>
binVars == <<bin, producer>>

Bin(p) ==
  INSTANCE AvBin WITH
    Producer <- p, Tracks <- BinTracks, Faults <- TRUE, Stops <- TRUE

ASSUME BinAssumption == \A p \in BOOLEAN : Bin(p)!AvBinAssumption

BinInit == \E p \in BOOLEAN : producer = p /\ Bin(p)!Init

BinNext ==
  /\ \E p \in BOOLEAN : producer = p /\ Bin(p)!Next
  /\ UNCHANGED producer

BinFair(n) == \E p \in BOOLEAN : producer = p /\ Bin(p)!FairStep(n)

BinSpec == BinInit /\ [][BinNext]_binVars /\ \A n \in Bin(TRUE)!Fair : WF_bin(BinFair(n))

-----------------------------------------------------------------------------
(* Whatever fails or races, an open channel has exactly one owner, and no    *)
(* EOS and no report of a drain comes before it is true.  No media passes    *)
(* and ready is not reported before every inner element runs, until a bin    *)
(* went to NULL under a call of releaseMedia, which then releases media on   *)
(* the deleted Shared (gstframelinkavsink.cpp:166-170,                       *)
(* gstframelinkavsrc.cpp:152-155).                                           *)
BinSound ==
  \A p \in BOOLEAN : producer = p =>
    /\ Bin(p)!TypeOK /\ Bin(p)!OneOwner
    /\ IF p THEN Bin(p)!NoMediaBeforeReady /\ Bin(p)!EosAfterDrain
       ELSE Bin(p)!ReadyAfterStart /\ Bin(p)!DrainIsHonest

(* Stopping either bin gets through: held streaming threads, the worker and  *)
(* the drainer end, whatever they wait for (gstframelinkavsink.cpp,          *)
(* gstframelinkavsrc.cpp).                                                   *)
StopCompletes == Bin(TRUE)!StopCompletes

=============================================================================
