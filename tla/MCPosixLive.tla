---------------------------- MODULE MCPosixLive ----------------------------
(***************************************************************************)
(* What a POSIX channel must eventually do, for TLC: with two          *)
(* producers, with one that resizes the ring, and with a consumer that     *)
(* retires frames through read leases.  A behaviour runs one of the three, *)
(* the one `part' names.                                                   *)
(***************************************************************************)
EXTENDS Naturals

CONSTANTS Producers, None, PoolSize, Geometries, InitialGeometry, MaxValue, MaxGen

VARIABLES
  part,
  generation, geometry, hasPending, pendingSlot, pendingReady, frameHeld, heldSlot, heldReady,
  retiredValue, cReleases, ledger, peer, peerConnected, peerGone, stop, acc, serving, pc,
  pGeneration, slotSubmitValue, consumedValue, readyValue, submittingSlot, pReleases,
  bufferRefs, up, down, written, reads, image

posix ==
  <<generation, geometry, hasPending, pendingSlot, pendingReady, frameHeld, heldSlot, heldReady,
    retiredValue, cReleases, ledger, peer, peerConnected, peerGone, stop, acc, serving, pc,
    pGeneration, slotSubmitValue, consumedValue, readyValue, submittingSlot, pReleases,
    bufferRefs, up, down, written, reads, image>>
mcvars == <<posix, part>>

(* One producer, which may come back. *)
Alone == {CHOOSE p \in Producers : TRUE}

Default ==
  INSTANCE PosixChannel WITH GpuSync <- FALSE, Defer <- FALSE, Leases <- FALSE, Fences <- {FALSE},
    Geometries <- {InitialGeometry}, AllocMayFail <- FALSE, MaxReaders <- 1, MaxRefs <- 0
Resize ==
  INSTANCE PosixChannel WITH GpuSync <- FALSE, Defer <- FALSE, Leases <- FALSE, Fences <- {FALSE},
    Producers <- Alone, AllocMayFail <- FALSE, MaxReaders <- 1, MaxRefs <- 0
Lease ==
  INSTANCE PosixChannel WITH GpuSync <- FALSE, Defer <- TRUE, Leases <- TRUE, Fences <- {FALSE},
    Producers <- Alone, AllocMayFail <- FALSE, MaxReaders <- 1, MaxRefs <- 0

ASSUME Default!ChannelAssumption /\ Resize!ChannelAssumption /\ Lease!ChannelAssumption

MCInit == part \in {"default", "resize", "lease"} /\ Default!Init

MCNext ==
  /\ \/ part = "default" /\ Default!Next
     \/ part = "resize"  /\ Resize!Next
     \/ part = "lease"   /\ Lease!Next
  /\ UNCHANGED part

(* The fairness of each LiveSpec; where it does not depend on the mode, *)
(* that of Default says it for all.                                     *)
MCSpec ==
  /\ MCInit /\ [][MCNext]_mcvars
  /\ WF_posix(Default!Serve) /\ WF_posix(Default!AcceptEnds)
  /\ WF_posix(IF part = "lease" THEN Lease!Gpu ELSE Default!Gpu)
  /\ WF_posix(IF part = "lease" THEN Lease!Consume ELSE Default!Consume)
  /\ \A p \in Producers :
       /\ SF_posix(Default!Accept(p) \/ Default!RefuseExtra(p))
       /\ WF_posix(Default!Answered(p))

-----------------------------------------------------------------------------
(* In every mode a producer that keeps asking gets a buffer: "a slow         *)
(* consumer must not stall the producer" (framelink_linux.cpp:392).          *)
ProducerNotStarved == Default!ProducerNotStarved

(* In every mode flOpenProducer is answered, with the ring or with Busy,     *)
(* while another producer is attached too (framelink_linux.cpp:347).         *)
OpenAnswered == Default!OpenAnswered

(* In every mode the last frames of a producer that left are retired, so     *)
(* that the ring can be given to the next one (framelink_linux.cpp:325).     *)
RingRecovers ==
  /\ part # "lease"   => Default!RingRecovers
  /\ part = "lease"   => Lease!RingRecovers

(* In every mode flClose of the consumer returns: it joins the accept        *)
(* thread (framelink_linux.cpp:921).                                         *)
CloseReturns == Default!CloseReturns

=============================================================================
