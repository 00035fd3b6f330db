----------------------------- MODULE MCChannels -----------------------------
(***************************************************************************)
(* The channel in its modes, for TLC: on POSIX by default, with sync-file  *)
(* fences, with FL_GPU_SYNC and with read leases, and on Windows with      *)
(* FL_GPU_SYNC and with producers that follow one another.  A behaviour    *)
(* runs one of them, the one `part' names.                                 *)
(***************************************************************************)
EXTENDS Naturals, TLC

CONSTANTS Producers, None, PoolSize, Geometries, InitialGeometry, MaxValue, MaxGen

VARIABLES
  part,
  generation, geometry, hasPending, pendingSlot, pendingReady, frameHeld, heldSlot, heldReady,
  retiredValue, cReleases, ledger, peer, peerConnected, peerGone, stop, acc, serving, pc,
  pGeneration, slotSubmitValue, consumedValue, readyValue, submittingSlot, pReleases,
  bufferRefs, up, down, written, reads, image,
  wGeneration, wGeometry, images, wHasPending, wPendingSlot, wPendingReady, wFrameHeld,
  wHeldSlot, wHeldReady, wConsumedValue, releasing, wAcc, wPc, wPGeneration, pImages, pFences,
  slotReadyValue, wReadyValue, wSubmittingSlot, wUp, wDown, fences, wWritten, consumed, signals,
  owed, drawn, wReads, wImage

posix ==
  <<generation, geometry, hasPending, pendingSlot, pendingReady, frameHeld, heldSlot, heldReady,
    retiredValue, cReleases, ledger, peer, peerConnected, peerGone, stop, acc, serving, pc,
    pGeneration, slotSubmitValue, consumedValue, readyValue, submittingSlot, pReleases,
    bufferRefs, up, down, written, reads, image>>
win ==
  <<wGeneration, wGeometry, images, wHasPending, wPendingSlot, wPendingReady, wFrameHeld,
    wHeldSlot, wHeldReady, wConsumedValue, releasing, wAcc, wPc, wPGeneration, pImages, pFences,
    slotReadyValue, wReadyValue, wSubmittingSlot, wUp, wDown, fences, wWritten, consumed,
    signals, owed, drawn, wReads, wImage>>
mcvars == <<posix, win, part>>

Default ==
  INSTANCE PosixChannel WITH GpuSync <- FALSE, Defer <- FALSE, Leases <- FALSE, Fences <- {FALSE},
    AllocMayFail <- TRUE, MaxValue <- MaxValue + 1, MaxReaders <- 1, MaxRefs <- 0
Fenced ==
  INSTANCE PosixChannel WITH GpuSync <- FALSE, Defer <- FALSE, Leases <- FALSE, Fences <- BOOLEAN,
    Geometries <- {InitialGeometry}, AllocMayFail <- FALSE, MaxReaders <- 1, MaxRefs <- 1
Gpu ==
  INSTANCE PosixChannel WITH GpuSync <- TRUE, Defer <- FALSE, Leases <- FALSE, Fences <- {TRUE},
    Geometries <- {InitialGeometry}, AllocMayFail <- FALSE, MaxReaders <- 1, MaxRefs <- 0
Lease ==
  INSTANCE PosixChannel WITH GpuSync <- FALSE, Defer <- TRUE, Leases <- TRUE, Fences <- {FALSE},
    AllocMayFail <- FALSE, MaxValue <- MaxValue + 1, MaxReaders <- 2, MaxRefs <- 0
WinGpu ==
  INSTANCE WinChannel WITH GpuSync <- TRUE, Defer <- FALSE, AllocMayFail <- TRUE, Reattach <- FALSE,
    generation <- wGeneration, geometry <- wGeometry, hasPending <- wHasPending,
    pendingSlot <- wPendingSlot, pendingReady <- wPendingReady, frameHeld <- wFrameHeld,
    heldSlot <- wHeldSlot, heldReady <- wHeldReady, consumedValue <- wConsumedValue, acc <- wAcc,
    pc <- wPc, pGeneration <- wPGeneration, readyValue <- wReadyValue,
    submittingSlot <- wSubmittingSlot, up <- wUp, down <- wDown, written <- wWritten, reads <- wReads,
    image <- wImage
Follow ==
  INSTANCE WinChannel WITH GpuSync <- FALSE, Defer <- FALSE, AllocMayFail <- TRUE, Reattach <- TRUE,
    generation <- wGeneration, geometry <- wGeometry, hasPending <- wHasPending,
    pendingSlot <- wPendingSlot, pendingReady <- wPendingReady, frameHeld <- wFrameHeld,
    heldSlot <- wHeldSlot, heldReady <- wHeldReady, consumedValue <- wConsumedValue, acc <- wAcc,
    pc <- wPc, pGeneration <- wPGeneration, readyValue <- wReadyValue,
    submittingSlot <- wSubmittingSlot, up <- wUp, down <- wDown, written <- wWritten, reads <- wReads,
    image <- wImage

ASSUME ModesAssumption ==
  /\ Default!ChannelAssumption /\ Fenced!ChannelAssumption /\ Gpu!ChannelAssumption /\ Lease!ChannelAssumption
  /\ WinGpu!WinAssumption /\ Follow!WinAssumption

Symmetry == Permutations(Producers)

MCInit ==
  /\ part \in {"default", "fenced", "gpu", "lease", "win gpu", "win follow"}
  /\ Fenced!Init /\ WinGpu!Init

MCNext ==
  /\ \/ part = "default"    /\ Default!Next /\ UNCHANGED win
     \/ part = "fenced"     /\ Fenced!Next /\ UNCHANGED win
     \/ part = "gpu"        /\ Gpu!Next    /\ UNCHANGED win
     \/ part = "lease"      /\ Lease!Next  /\ UNCHANGED win
     \/ part = "win gpu"    /\ WinGpu!Next /\ UNCHANGED posix
     \/ part = "win follow" /\ Follow!Next /\ UNCHANGED posix
  /\ UNCHANGED part

MCSpec == MCInit /\ [][MCNext]_mcvars

-----------------------------------------------------------------------------
(* On POSIX, in every mode of fences and leases, no image is overwritten     *)
(* while it waits to be read or is read, and no release of an earlier        *)
(* timeline reaches a producer (framelink_linux.cpp, framelink_android.cpp). *)
PosixIntact ==
  /\ part = "default" => Default!PosixIntact
  /\ part = "fenced"  => Fenced!PosixIntact
  /\ part = "gpu"     => Gpu!PosixIntact
  /\ part = "lease"   => Lease!PosixIntact

(* On POSIX at most one producer holds the ring, and it is refused only      *)
(* while storage is in use (framelink_linux.cpp:321-386).                    *)
HandedOutWell ==
  /\ part = "default" => Default!HandedOutWell
  /\ part = "fenced"  => Fenced!HandedOutWell
  /\ part = "gpu"     => Gpu!HandedOutWell
  /\ part = "lease"   => Lease!HandedOutWell

Drawing ==
  CASE part = "default" -> Default!Drawing
    [] part = "lease"   -> Lease!Drawing
    [] OTHER            -> Fenced!Drawing

Ring ==
  INSTANCE FrameRing WITH Slots <- 0 .. PoolSize - 1, MaxValue <- MaxValue + 1,
    drawing <- Drawing, reading <- reads, taken <- heldReady

(* On POSIX, in every mode, whatever the threads, the link and the GPU do,   *)
(* the channel is the abstract ring of FrameRing: complete frames are taken  *)
(* in increasing order and read undisturbed, and the ring changes hands only *)
(* between reads (framelink_linux.cpp, framelink_android.cpp).               *)
ImplementsFrameRing == Ring!Spec

(* The frame in hand can always be leased, and a leased frame is not retired *)
(* (fl_read_api.inc, framelink_android.cpp:370).                             *)
LeasesHold == part = "lease" => Lease!LeasesHold

(* On POSIX a timeline starts over only when no read is outstanding, and a   *)
(* ring is handed to a producer that attaches only when the taken and the    *)
(* pending frame have been drawn; of frames that were replaced unread it     *)
(* says nothing (framelink_linux.cpp:321-386).                               *)
QuietHandover == Gpu!QuietHandover

(* On Windows with FL_GPU_SYNC no image is overwritten while it waits to be  *)
(* read or is read, and with producers that follow one another no fence      *)
(* reports a frame complete before it is (framelink_win.cpp).                *)
WinIntact ==
  /\ part = "win gpu"    => WinGpu!TypeOK /\ WinGpu!NoOverwrite /\ WinGpu!PendingIntact
  /\ part = "win follow" => Follow!TypeOK /\ Follow!NoUseBeforeWrite

(* On Windows with FL_GPU_SYNC the ring is rebuilt only when no frame of it  *)
(* is held or read (framelink_win.cpp).                                      *)
WinResizeIdle == [][part = "win gpu" => WinGpu!RebuiltIdle]_win

=============================================================================
