--------------------------- MODULE ChannelsProofs ---------------------------
(***************************************************************************)
(* What the channel promises in each of the modes that MCChannels runs: on *)
(* POSIX by default, with sync-file fences, with FL_GPU_SYNC and with read *)
(* leases, on Windows with FL_GPU_SYNC and with producers that follow one  *)
(* another.  The arguments are those of PosixChannelProofs and             *)
(* WinChannelProofs, instantiated once for each mode; what is left to show *)
(* here is that a run of a mode is a run of its channel, and that the      *)
(* other parts of a run leave the channel alone.                           *)
(***************************************************************************)
EXTENDS MCChannels, TLAPS

DefaultP ==
  INSTANCE PosixChannelProofs WITH GpuSync <- FALSE, Defer <- FALSE, Leases <- FALSE, Fences <- {FALSE},
    AllocMayFail <- TRUE, MaxValue <- MaxValue + 1, MaxReaders <- 1, MaxRefs <- 0
FencedP ==
  INSTANCE PosixChannelProofs WITH GpuSync <- FALSE, Defer <- FALSE, Leases <- FALSE, Fences <- BOOLEAN,
    Geometries <- {InitialGeometry}, AllocMayFail <- FALSE, MaxReaders <- 1, MaxRefs <- 1
GpuP ==
  INSTANCE PosixChannelProofs WITH GpuSync <- TRUE, Defer <- FALSE, Leases <- FALSE, Fences <- {TRUE},
    Geometries <- {InitialGeometry}, AllocMayFail <- FALSE, MaxReaders <- 1, MaxRefs <- 0
LeaseP ==
  INSTANCE PosixChannelProofs WITH GpuSync <- FALSE, Defer <- TRUE, Leases <- TRUE, Fences <- {FALSE},
    AllocMayFail <- FALSE, MaxValue <- MaxValue + 1, MaxReaders <- 2, MaxRefs <- 0
WinGpuP ==
  INSTANCE WinChannelProofs WITH GpuSync <- TRUE, Defer <- FALSE, AllocMayFail <- TRUE, Reattach <- FALSE,
    generation <- wGeneration, geometry <- wGeometry, hasPending <- wHasPending,
    pendingSlot <- wPendingSlot, pendingReady <- wPendingReady, frameHeld <- wFrameHeld,
    heldSlot <- wHeldSlot, heldReady <- wHeldReady, consumedValue <- wConsumedValue, acc <- wAcc,
    pc <- wPc, pGeneration <- wPGeneration, readyValue <- wReadyValue,
    submittingSlot <- wSubmittingSlot, up <- wUp, down <- wDown, written <- wWritten, reads <- wReads,
    image <- wImage
FollowP ==
  INSTANCE WinChannelProofs WITH GpuSync <- FALSE, Defer <- FALSE, AllocMayFail <- TRUE, Reattach <- TRUE,
    generation <- wGeneration, geometry <- wGeometry, hasPending <- wHasPending,
    pendingSlot <- wPendingSlot, pendingReady <- wPendingReady, frameHeld <- wFrameHeld,
    heldSlot <- wHeldSlot, heldReady <- wHeldReady, consumedValue <- wConsumedValue, acc <- wAcc,
    pc <- wPc, pGeneration <- wPGeneration, readyValue <- wReadyValue,
    submittingSlot <- wSubmittingSlot, up <- wUp, down <- wDown, written <- wWritten, reads <- wReads,
    image <- wImage

-----------------------------------------------------------------------------
(* The inductive invariant of the mode that runs. *)
ChannelInv ==
  /\ part = "default" => DefaultP!Sound
  /\ part = "fenced"  => FencedP!Sound
  /\ part = "gpu"     => GpuP!Sound
  /\ part = "lease"   => LeaseP!Sound

(* What a step may do to the timeline and to the ring. *)
Timeline ==
  generation' # generation =>
    /\ reads = {}
    /\ acc = "hello" => Gpu!PendingSignalled /\ (heldReady > 0 => Gpu!Drawn(heldReady))

RingStep == [Ring!Next]_(Ring!vars)

-----------------------------------------------------------------------------
(* The mode "default": its assumptions and its initial states. *)
LEMMA DefaultInit == ASSUME MCInit PROVE DefaultP!ChannelAssumption /\ DefaultP!Init
<1>1. DefaultP!ChannelAssumption
  BY ModesAssumption DEF Default!ChannelAssumption, DefaultP!ChannelAssumption
<1>2. DefaultP!Init
  BY DEF MCInit, Fenced!Init, Fenced!Slots, Fenced!NoSlot, Fenced!Blank, DefaultP!Init, DefaultP!Slots, DefaultP!NoSlot, DefaultP!Blank
<1> QED BY <1>1, <1>2

(* A step of a run of the mode "default" is a step of its channel. *)
LEMMA DefaultNext ==
  ASSUME Default!Next PROVE DefaultP!Next
  BY DEF Default!Next, Default!AcceptThread, Default!Consumer, Default!Gpu, Default!Producer, Default!Accept,
         Default!RefuseExtra, Default!HelloFails, Default!AttachBusy, Default!AttachRing, Default!Adopt,
         Default!PumpEnds, Default!PumpFrame, Default!PumpGeometrySame, Default!PumpGeometryRefused,
         Default!PumpGeometryRealloc, Default!AcceptEnds, Default!AcquireFrame, Default!ReleaseSyncFd,
         Default!ReleaseDeferred, Default!Values, Default!SignalConsumed, Default!LeaseStep,
         Default!CloseConsumer, Default!GpuWriteDone, Default!GpuReadDone, Default!GpuLeaseDone,
         Default!Connect, Default!OpenGreeted, Default!OpenBusy, Default!OpenRing, Default!AcquireBuffer,
         Default!Slots, Default!CancelBuffer, Default!BeginSubmit, Default!EndSubmit,
         Default!RetainBufferReference, Default!ReleaseBufferReference, Default!SendRequestGeometry,
         Default!GeometryRelease, Default!GeometryReply, Default!Leave, Default!Hello, Default!consumerVars,
         Default!producerVars, Default!gpuVars, Default!Busy, Default!acceptVars, Default!Alive,
         Default!linkVars, Default!Advances, Default!StorageBusy, Default!Rest, Default!Received,
         Default!ringVars, Default!pendingVars, Default!heldVars, Default!peerVars, Default!RingDesc,
         Default!Blank, Default!retireVars, Default!Incoming, Default!ReplyRing, Default!PendingSignalled,
         Default!Drawn, Default!HeldRead, Default!Covered, Default!FrameReleased, Default!SendPeer,
         Default!LeaseFrame, Default!CollectReadLeases, Default!RetainReadLease, Default!CompleteReadLease,
         Default!CompleteReadLeaseSyncFd, Default!Announced, Default!ReadsAfter, Default!ledgerOnly,
         Default!slotVars, Default!Arrived, Default!Taken, Default!ImportRing, Default!NoSlot, Default!Free,
         Default!Reserved, Default!slotOnly, Default!FrameReady, Default!Attached, Default!RequestGeometry,
         Default!Bye, Default!Signalled, Default!Leasable, Default!Readers, Default!Finished,
         DefaultP!Next, DefaultP!AcceptThread, DefaultP!Consumer, DefaultP!Gpu, DefaultP!Producer,
         DefaultP!Accept, DefaultP!RefuseExtra, DefaultP!HelloFails, DefaultP!AttachBusy, DefaultP!AttachRing,
         DefaultP!Adopt, DefaultP!PumpEnds, DefaultP!PumpFrame, DefaultP!PumpGeometrySame,
         DefaultP!PumpGeometryRefused, DefaultP!PumpGeometryRealloc, DefaultP!AcceptEnds,
         DefaultP!AcquireFrame, DefaultP!ReleaseSyncFd, DefaultP!ReleaseDeferred, DefaultP!Values,
         DefaultP!SignalConsumed, DefaultP!LeaseStep, DefaultP!CloseConsumer, DefaultP!GpuWriteDone,
         DefaultP!GpuReadDone, DefaultP!GpuLeaseDone, DefaultP!Connect, DefaultP!OpenGreeted,
         DefaultP!OpenBusy, DefaultP!OpenRing, DefaultP!AcquireBuffer, DefaultP!Slots, DefaultP!CancelBuffer,
         DefaultP!BeginSubmit, DefaultP!EndSubmit, DefaultP!RetainBufferReference,
         DefaultP!ReleaseBufferReference, DefaultP!SendRequestGeometry, DefaultP!GeometryRelease,
         DefaultP!GeometryReply, DefaultP!Leave, DefaultP!Hello, DefaultP!consumerVars, DefaultP!producerVars,
         DefaultP!gpuVars, DefaultP!Busy, DefaultP!acceptVars, DefaultP!Alive, DefaultP!linkVars,
         DefaultP!Advances, DefaultP!StorageBusy, DefaultP!Rest, DefaultP!Received, DefaultP!ringVars,
         DefaultP!pendingVars, DefaultP!heldVars, DefaultP!peerVars, DefaultP!RingDesc, DefaultP!Blank,
         DefaultP!retireVars, DefaultP!Incoming, DefaultP!ReplyRing, DefaultP!PendingSignalled,
         DefaultP!Drawn, DefaultP!HeldRead, DefaultP!Covered, DefaultP!FrameReleased, DefaultP!SendPeer,
         DefaultP!LeaseFrame, DefaultP!CollectReadLeases, DefaultP!RetainReadLease,
         DefaultP!CompleteReadLease, DefaultP!CompleteReadLeaseSyncFd, DefaultP!Announced,
         DefaultP!ReadsAfter, DefaultP!ledgerOnly, DefaultP!slotVars, DefaultP!Arrived, DefaultP!Taken,
         DefaultP!ImportRing, DefaultP!NoSlot, DefaultP!Free, DefaultP!Reserved, DefaultP!slotOnly,
         DefaultP!FrameReady, DefaultP!Attached, DefaultP!RequestGeometry, DefaultP!Bye, DefaultP!Signalled,
         DefaultP!Leasable, DefaultP!Readers, DefaultP!Finished

LEMMA DefaultRuns ==
  ASSUME part = "default", [MCNext]_mcvars
  PROVE  part' = part /\ [DefaultP!Next]_(DefaultP!vars)
<1>1. part' = part /\ (Default!Next \/ UNCHANGED posix)
  BY DEF MCNext, mcvars
<1>2. UNCHANGED posix => UNCHANGED DefaultP!vars
  BY DEF posix, DefaultP!vars, DefaultP!consumerVars, DefaultP!acceptVars, DefaultP!producerVars, DefaultP!linkVars,
         DefaultP!gpuVars, DefaultP!ringVars, DefaultP!pendingVars, DefaultP!heldVars, DefaultP!retireVars,
         DefaultP!peerVars, DefaultP!slotVars
<1> QED BY <1>1, <1>2, DefaultNext

(* What the invariant of the channel says in the terms of this mode. *)
LEMMA DefaultSays ==
  ASSUME DefaultP!ChannelAssumption, DefaultP!Sound
  PROVE  Default!PosixIntact /\ Default!HandedOutWell
<1>1. DefaultP!PosixIntact /\ DefaultP!HandedOutWell
  BY DefaultP!SoundIntact, DefaultP!SoundHandedOut
<1> QED
  BY <1>1
  DEF Default!PosixIntact, Default!TypeOK, Default!NoOverwrite, Default!PendingIntact,
      Default!ReleasesOnOwnTimeline, Default!RingTypes, Default!PendingTypes, Default!HeldTypes,
      Default!RetireTypes, Default!PeerTypes, Default!AcceptTypes, Default!SlotTypes, Default!ProducerTypes,
      Default!LinkTypes, Default!GpuTypes, Default!ImageTypes, Default!Slots, Default!Values,
      Default!ReleaseMessage, Default!LeasedFrame, Default!Reserved, Default!NoSlot, Default!UpMessage,
      Default!DownMessage, Default!Read, Default!Hello, Default!Bye, Default!Busy, Default!HandedOutWell,
      Default!OneProducer, Default!BusyHasCause, Default!Attached,
      DefaultP!PosixIntact, DefaultP!TypeOK, DefaultP!NoOverwrite, DefaultP!PendingIntact,
      DefaultP!ReleasesOnOwnTimeline, DefaultP!RingTypes, DefaultP!PendingTypes, DefaultP!HeldTypes,
      DefaultP!RetireTypes, DefaultP!PeerTypes, DefaultP!AcceptTypes, DefaultP!SlotTypes,
      DefaultP!ProducerTypes, DefaultP!LinkTypes, DefaultP!GpuTypes, DefaultP!ImageTypes, DefaultP!Slots,
      DefaultP!Values, DefaultP!ReleaseMessage, DefaultP!LeasedFrame, DefaultP!Reserved, DefaultP!NoSlot,
      DefaultP!UpMessage, DefaultP!DownMessage, DefaultP!Read, DefaultP!Hello, DefaultP!Bye, DefaultP!Busy,
      DefaultP!HandedOutWell, DefaultP!OneProducer, DefaultP!BusyHasCause, DefaultP!Attached

(* A step of this mode restarts the timeline only when it is quiet, and is a *)
(* step of the abstract ring.                                                *)
LEMMA DefaultStep ==
  ASSUME DefaultP!ChannelAssumption, DefaultP!Sound, part = "default", [MCNext]_mcvars
  PROVE  DefaultP!Sound' /\ Timeline /\ RingStep
<1>1. part' = part /\ [DefaultP!Next]_(DefaultP!vars)
  BY DefaultRuns
<1>2. DefaultP!Sound' /\ (generation' # generation => reads = {})
  BY <1>1, DefaultP!NextSound
<1>3. Timeline
  BY <1>1, <1>2, DefaultP!ReattachStep DEF Timeline, Gpu!PendingSignalled, Gpu!Drawn, DefaultP!PendingSignalled, DefaultP!Drawn
<1>4. DefaultP!RingStep
  BY <1>1, <1>2, DefaultP!RingMoves
<1>5. Drawing = DefaultP!Drawing /\ Drawing' = DefaultP!Drawing'
  BY <1>1 DEF Drawing, Default!Drawing, Default!Slots, Default!Attached, Default!Reserved, DefaultP!Drawing, DefaultP!Slots, DefaultP!Attached, DefaultP!Reserved
<1>6. RingStep
  BY <1>4, <1>5
  DEF RingStep, DefaultP!RingStep, DefaultP!Slots, Ring!Next, Ring!Draw, Ring!Take, Ring!Publish, Ring!Abandon, Ring!Finish, Ring!Restart, Ring!Blank,
      Ring!vars,
      DefaultP!Ring!Next, DefaultP!Ring!Draw, DefaultP!Ring!Take, DefaultP!Ring!Publish,
      DefaultP!Ring!Abandon, DefaultP!Ring!Finish, DefaultP!Ring!Restart, DefaultP!Ring!Blank,
      DefaultP!Ring!vars
<1> QED BY <1>2, <1>3, <1>6

-----------------------------------------------------------------------------
(* The mode "fenced": its assumptions and its initial states. *)
LEMMA FencedInit == ASSUME MCInit PROVE FencedP!ChannelAssumption /\ FencedP!Init
<1>1. FencedP!ChannelAssumption
  BY ModesAssumption DEF Fenced!ChannelAssumption, FencedP!ChannelAssumption
<1>2. FencedP!Init
  BY DEF MCInit, Fenced!Init, Fenced!Slots, Fenced!NoSlot, Fenced!Blank, FencedP!Init, FencedP!Slots, FencedP!NoSlot, FencedP!Blank
<1> QED BY <1>1, <1>2

(* A step of a run of the mode "fenced" is a step of its channel. *)
LEMMA FencedNext ==
  ASSUME Fenced!Next PROVE FencedP!Next
  BY DEF Fenced!Next, Fenced!AcceptThread, Fenced!Consumer, Fenced!Gpu, Fenced!Producer, Fenced!Accept,
         Fenced!RefuseExtra, Fenced!HelloFails, Fenced!AttachBusy, Fenced!AttachRing, Fenced!Adopt,
         Fenced!PumpEnds, Fenced!PumpFrame, Fenced!PumpGeometrySame, Fenced!PumpGeometryRefused,
         Fenced!PumpGeometryRealloc, Fenced!AcceptEnds, Fenced!AcquireFrame, Fenced!ReleaseSyncFd,
         Fenced!ReleaseDeferred, Fenced!Values, Fenced!SignalConsumed, Fenced!LeaseStep, Fenced!CloseConsumer,
         Fenced!GpuWriteDone, Fenced!GpuReadDone, Fenced!GpuLeaseDone, Fenced!Connect, Fenced!OpenGreeted,
         Fenced!OpenBusy, Fenced!OpenRing, Fenced!AcquireBuffer, Fenced!Slots, Fenced!CancelBuffer,
         Fenced!BeginSubmit, Fenced!EndSubmit, Fenced!RetainBufferReference, Fenced!ReleaseBufferReference,
         Fenced!SendRequestGeometry, Fenced!GeometryRelease, Fenced!GeometryReply, Fenced!Leave, Fenced!Hello,
         Fenced!consumerVars, Fenced!producerVars, Fenced!gpuVars, Fenced!Busy, Fenced!acceptVars,
         Fenced!Alive, Fenced!linkVars, Fenced!Advances, Fenced!StorageBusy, Fenced!Rest, Fenced!Received,
         Fenced!ringVars, Fenced!pendingVars, Fenced!heldVars, Fenced!peerVars, Fenced!RingDesc, Fenced!Blank,
         Fenced!retireVars, Fenced!Incoming, Fenced!ReplyRing, Fenced!PendingSignalled, Fenced!Drawn,
         Fenced!HeldRead, Fenced!Covered, Fenced!FrameReleased, Fenced!SendPeer, Fenced!LeaseFrame,
         Fenced!CollectReadLeases, Fenced!RetainReadLease, Fenced!CompleteReadLease,
         Fenced!CompleteReadLeaseSyncFd, Fenced!Announced, Fenced!ReadsAfter, Fenced!ledgerOnly,
         Fenced!slotVars, Fenced!Arrived, Fenced!Taken, Fenced!ImportRing, Fenced!NoSlot, Fenced!Free,
         Fenced!Reserved, Fenced!slotOnly, Fenced!FrameReady, Fenced!Attached, Fenced!RequestGeometry,
         Fenced!Bye, Fenced!Signalled, Fenced!Leasable, Fenced!Readers, Fenced!Finished,
         FencedP!Next, FencedP!AcceptThread, FencedP!Consumer, FencedP!Gpu, FencedP!Producer, FencedP!Accept,
         FencedP!RefuseExtra, FencedP!HelloFails, FencedP!AttachBusy, FencedP!AttachRing, FencedP!Adopt,
         FencedP!PumpEnds, FencedP!PumpFrame, FencedP!PumpGeometrySame, FencedP!PumpGeometryRefused,
         FencedP!PumpGeometryRealloc, FencedP!AcceptEnds, FencedP!AcquireFrame, FencedP!ReleaseSyncFd,
         FencedP!ReleaseDeferred, FencedP!Values, FencedP!SignalConsumed, FencedP!LeaseStep,
         FencedP!CloseConsumer, FencedP!GpuWriteDone, FencedP!GpuReadDone, FencedP!GpuLeaseDone,
         FencedP!Connect, FencedP!OpenGreeted, FencedP!OpenBusy, FencedP!OpenRing, FencedP!AcquireBuffer,
         FencedP!Slots, FencedP!CancelBuffer, FencedP!BeginSubmit, FencedP!EndSubmit,
         FencedP!RetainBufferReference, FencedP!ReleaseBufferReference, FencedP!SendRequestGeometry,
         FencedP!GeometryRelease, FencedP!GeometryReply, FencedP!Leave, FencedP!Hello, FencedP!consumerVars,
         FencedP!producerVars, FencedP!gpuVars, FencedP!Busy, FencedP!acceptVars, FencedP!Alive,
         FencedP!linkVars, FencedP!Advances, FencedP!StorageBusy, FencedP!Rest, FencedP!Received,
         FencedP!ringVars, FencedP!pendingVars, FencedP!heldVars, FencedP!peerVars, FencedP!RingDesc,
         FencedP!Blank, FencedP!retireVars, FencedP!Incoming, FencedP!ReplyRing, FencedP!PendingSignalled,
         FencedP!Drawn, FencedP!HeldRead, FencedP!Covered, FencedP!FrameReleased, FencedP!SendPeer,
         FencedP!LeaseFrame, FencedP!CollectReadLeases, FencedP!RetainReadLease, FencedP!CompleteReadLease,
         FencedP!CompleteReadLeaseSyncFd, FencedP!Announced, FencedP!ReadsAfter, FencedP!ledgerOnly,
         FencedP!slotVars, FencedP!Arrived, FencedP!Taken, FencedP!ImportRing, FencedP!NoSlot, FencedP!Free,
         FencedP!Reserved, FencedP!slotOnly, FencedP!FrameReady, FencedP!Attached, FencedP!RequestGeometry,
         FencedP!Bye, FencedP!Signalled, FencedP!Leasable, FencedP!Readers, FencedP!Finished

LEMMA FencedRuns ==
  ASSUME part = "fenced", [MCNext]_mcvars
  PROVE  part' = part /\ [FencedP!Next]_(FencedP!vars)
<1>1. part' = part /\ (Fenced!Next \/ UNCHANGED posix)
  BY DEF MCNext, mcvars
<1>2. UNCHANGED posix => UNCHANGED FencedP!vars
  BY DEF posix, FencedP!vars, FencedP!consumerVars, FencedP!acceptVars, FencedP!producerVars, FencedP!linkVars,
         FencedP!gpuVars, FencedP!ringVars, FencedP!pendingVars, FencedP!heldVars, FencedP!retireVars,
         FencedP!peerVars, FencedP!slotVars
<1> QED BY <1>1, <1>2, FencedNext

(* What the invariant of the channel says in the terms of this mode. *)
LEMMA FencedSays ==
  ASSUME FencedP!ChannelAssumption, FencedP!Sound
  PROVE  Fenced!PosixIntact /\ Fenced!HandedOutWell
<1>1. FencedP!PosixIntact /\ FencedP!HandedOutWell
  BY FencedP!SoundIntact, FencedP!SoundHandedOut
<1> QED
  BY <1>1
  DEF Fenced!PosixIntact, Fenced!TypeOK, Fenced!NoOverwrite, Fenced!PendingIntact,
      Fenced!ReleasesOnOwnTimeline, Fenced!RingTypes, Fenced!PendingTypes, Fenced!HeldTypes,
      Fenced!RetireTypes, Fenced!PeerTypes, Fenced!AcceptTypes, Fenced!SlotTypes, Fenced!ProducerTypes,
      Fenced!LinkTypes, Fenced!GpuTypes, Fenced!ImageTypes, Fenced!Slots, Fenced!Values,
      Fenced!ReleaseMessage, Fenced!LeasedFrame, Fenced!Reserved, Fenced!NoSlot, Fenced!UpMessage,
      Fenced!DownMessage, Fenced!Read, Fenced!Hello, Fenced!Bye, Fenced!Busy, Fenced!HandedOutWell,
      Fenced!OneProducer, Fenced!BusyHasCause, Fenced!Attached,
      FencedP!PosixIntact, FencedP!TypeOK, FencedP!NoOverwrite, FencedP!PendingIntact,
      FencedP!ReleasesOnOwnTimeline, FencedP!RingTypes, FencedP!PendingTypes, FencedP!HeldTypes,
      FencedP!RetireTypes, FencedP!PeerTypes, FencedP!AcceptTypes, FencedP!SlotTypes, FencedP!ProducerTypes,
      FencedP!LinkTypes, FencedP!GpuTypes, FencedP!ImageTypes, FencedP!Slots, FencedP!Values,
      FencedP!ReleaseMessage, FencedP!LeasedFrame, FencedP!Reserved, FencedP!NoSlot, FencedP!UpMessage,
      FencedP!DownMessage, FencedP!Read, FencedP!Hello, FencedP!Bye, FencedP!Busy, FencedP!HandedOutWell,
      FencedP!OneProducer, FencedP!BusyHasCause, FencedP!Attached

(* A step of this mode restarts the timeline only when it is quiet, and is a *)
(* step of the abstract ring.                                                *)
LEMMA FencedStep ==
  ASSUME FencedP!ChannelAssumption, FencedP!Sound, part = "fenced", [MCNext]_mcvars
  PROVE  FencedP!Sound' /\ Timeline /\ RingStep
<1>1. part' = part /\ [FencedP!Next]_(FencedP!vars)
  BY FencedRuns
<1>2. FencedP!Sound' /\ (generation' # generation => reads = {})
  BY <1>1, FencedP!NextSound
<1>3. Timeline
  BY <1>1, <1>2, FencedP!ReattachStep DEF Timeline, Gpu!PendingSignalled, Gpu!Drawn, FencedP!PendingSignalled, FencedP!Drawn
<1>4. FencedP!RingStep
  BY <1>1, <1>2, FencedP!RingMoves
<1>5. Drawing = FencedP!Drawing /\ Drawing' = FencedP!Drawing'
  BY <1>1 DEF Drawing, Fenced!Drawing, Fenced!Slots, Fenced!Attached, Fenced!Reserved, FencedP!Drawing, FencedP!Slots, FencedP!Attached, FencedP!Reserved
<1>6. RingStep
  <2>1. \A v \in 1 .. MaxValue : v \in 1 .. MaxValue + 1
    BY ModesAssumption DEF Fenced!ChannelAssumption
  <2> QED
    BY <1>4, <1>5, <2>1
    DEF RingStep, FencedP!RingStep, FencedP!Slots, Ring!Next, Ring!Draw, Ring!Take, Ring!Publish, Ring!Abandon, Ring!Finish, Ring!Restart, Ring!Blank,
        Ring!vars,
        FencedP!Ring!Next, FencedP!Ring!Draw, FencedP!Ring!Take, FencedP!Ring!Publish, FencedP!Ring!Abandon,
        FencedP!Ring!Finish, FencedP!Ring!Restart, FencedP!Ring!Blank, FencedP!Ring!vars
<1> QED BY <1>2, <1>3, <1>6

-----------------------------------------------------------------------------
(* The mode "gpu": its assumptions and its initial states. *)
LEMMA GpuInit == ASSUME MCInit PROVE GpuP!ChannelAssumption /\ GpuP!Init
<1>1. GpuP!ChannelAssumption
  BY ModesAssumption DEF Gpu!ChannelAssumption, GpuP!ChannelAssumption
<1>2. GpuP!Init
  BY DEF MCInit, Fenced!Init, Fenced!Slots, Fenced!NoSlot, Fenced!Blank, GpuP!Init, GpuP!Slots, GpuP!NoSlot, GpuP!Blank
<1> QED BY <1>1, <1>2

(* A step of a run of the mode "gpu" is a step of its channel. *)
LEMMA GpuNext ==
  ASSUME Gpu!Next PROVE GpuP!Next
  BY DEF Gpu!Next, Gpu!AcceptThread, Gpu!Consumer, Gpu!Gpu, Gpu!Producer, Gpu!Accept, Gpu!RefuseExtra,
         Gpu!HelloFails, Gpu!AttachBusy, Gpu!AttachRing, Gpu!Adopt, Gpu!PumpEnds, Gpu!PumpFrame,
         Gpu!PumpGeometrySame, Gpu!PumpGeometryRefused, Gpu!PumpGeometryRealloc, Gpu!AcceptEnds,
         Gpu!AcquireFrame, Gpu!ReleaseSyncFd, Gpu!ReleaseDeferred, Gpu!Values, Gpu!SignalConsumed,
         Gpu!LeaseStep, Gpu!CloseConsumer, Gpu!GpuWriteDone, Gpu!GpuReadDone, Gpu!GpuLeaseDone, Gpu!Connect,
         Gpu!OpenGreeted, Gpu!OpenBusy, Gpu!OpenRing, Gpu!AcquireBuffer, Gpu!Slots, Gpu!CancelBuffer,
         Gpu!BeginSubmit, Gpu!EndSubmit, Gpu!RetainBufferReference, Gpu!ReleaseBufferReference,
         Gpu!SendRequestGeometry, Gpu!GeometryRelease, Gpu!GeometryReply, Gpu!Leave, Gpu!Hello,
         Gpu!consumerVars, Gpu!producerVars, Gpu!gpuVars, Gpu!Busy, Gpu!acceptVars, Gpu!Alive, Gpu!linkVars,
         Gpu!Advances, Gpu!StorageBusy, Gpu!Rest, Gpu!Received, Gpu!ringVars, Gpu!pendingVars, Gpu!heldVars,
         Gpu!peerVars, Gpu!RingDesc, Gpu!Blank, Gpu!retireVars, Gpu!Incoming, Gpu!ReplyRing,
         Gpu!PendingSignalled, Gpu!Drawn, Gpu!HeldRead, Gpu!Covered, Gpu!FrameReleased, Gpu!SendPeer,
         Gpu!LeaseFrame, Gpu!CollectReadLeases, Gpu!RetainReadLease, Gpu!CompleteReadLease,
         Gpu!CompleteReadLeaseSyncFd, Gpu!Announced, Gpu!ReadsAfter, Gpu!ledgerOnly, Gpu!slotVars,
         Gpu!Arrived, Gpu!Taken, Gpu!ImportRing, Gpu!NoSlot, Gpu!Free, Gpu!Reserved, Gpu!slotOnly,
         Gpu!FrameReady, Gpu!Attached, Gpu!RequestGeometry, Gpu!Bye, Gpu!Signalled, Gpu!Leasable, Gpu!Readers,
         Gpu!Finished,
         GpuP!Next, GpuP!AcceptThread, GpuP!Consumer, GpuP!Gpu, GpuP!Producer, GpuP!Accept, GpuP!RefuseExtra,
         GpuP!HelloFails, GpuP!AttachBusy, GpuP!AttachRing, GpuP!Adopt, GpuP!PumpEnds, GpuP!PumpFrame,
         GpuP!PumpGeometrySame, GpuP!PumpGeometryRefused, GpuP!PumpGeometryRealloc, GpuP!AcceptEnds,
         GpuP!AcquireFrame, GpuP!ReleaseSyncFd, GpuP!ReleaseDeferred, GpuP!Values, GpuP!SignalConsumed,
         GpuP!LeaseStep, GpuP!CloseConsumer, GpuP!GpuWriteDone, GpuP!GpuReadDone, GpuP!GpuLeaseDone,
         GpuP!Connect, GpuP!OpenGreeted, GpuP!OpenBusy, GpuP!OpenRing, GpuP!AcquireBuffer, GpuP!Slots,
         GpuP!CancelBuffer, GpuP!BeginSubmit, GpuP!EndSubmit, GpuP!RetainBufferReference,
         GpuP!ReleaseBufferReference, GpuP!SendRequestGeometry, GpuP!GeometryRelease, GpuP!GeometryReply,
         GpuP!Leave, GpuP!Hello, GpuP!consumerVars, GpuP!producerVars, GpuP!gpuVars, GpuP!Busy,
         GpuP!acceptVars, GpuP!Alive, GpuP!linkVars, GpuP!Advances, GpuP!StorageBusy, GpuP!Rest,
         GpuP!Received, GpuP!ringVars, GpuP!pendingVars, GpuP!heldVars, GpuP!peerVars, GpuP!RingDesc,
         GpuP!Blank, GpuP!retireVars, GpuP!Incoming, GpuP!ReplyRing, GpuP!PendingSignalled, GpuP!Drawn,
         GpuP!HeldRead, GpuP!Covered, GpuP!FrameReleased, GpuP!SendPeer, GpuP!LeaseFrame,
         GpuP!CollectReadLeases, GpuP!RetainReadLease, GpuP!CompleteReadLease, GpuP!CompleteReadLeaseSyncFd,
         GpuP!Announced, GpuP!ReadsAfter, GpuP!ledgerOnly, GpuP!slotVars, GpuP!Arrived, GpuP!Taken,
         GpuP!ImportRing, GpuP!NoSlot, GpuP!Free, GpuP!Reserved, GpuP!slotOnly, GpuP!FrameReady,
         GpuP!Attached, GpuP!RequestGeometry, GpuP!Bye, GpuP!Signalled, GpuP!Leasable, GpuP!Readers,
         GpuP!Finished

LEMMA GpuRuns ==
  ASSUME part = "gpu", [MCNext]_mcvars
  PROVE  part' = part /\ [GpuP!Next]_(GpuP!vars)
<1>1. part' = part /\ (Gpu!Next \/ UNCHANGED posix)
  BY DEF MCNext, mcvars
<1>2. UNCHANGED posix => UNCHANGED GpuP!vars
  BY DEF posix, GpuP!vars, GpuP!consumerVars, GpuP!acceptVars, GpuP!producerVars, GpuP!linkVars, GpuP!gpuVars,
         GpuP!ringVars, GpuP!pendingVars, GpuP!heldVars, GpuP!retireVars, GpuP!peerVars, GpuP!slotVars
<1> QED BY <1>1, <1>2, GpuNext

(* What the invariant of the channel says in the terms of this mode. *)
LEMMA GpuSays ==
  ASSUME GpuP!ChannelAssumption, GpuP!Sound
  PROVE  Gpu!PosixIntact /\ Gpu!HandedOutWell
<1>1. GpuP!PosixIntact /\ GpuP!HandedOutWell
  BY GpuP!SoundIntact, GpuP!SoundHandedOut
<1> QED
  BY <1>1
  DEF Gpu!PosixIntact, Gpu!TypeOK, Gpu!NoOverwrite, Gpu!PendingIntact, Gpu!ReleasesOnOwnTimeline,
      Gpu!RingTypes, Gpu!PendingTypes, Gpu!HeldTypes, Gpu!RetireTypes, Gpu!PeerTypes, Gpu!AcceptTypes,
      Gpu!SlotTypes, Gpu!ProducerTypes, Gpu!LinkTypes, Gpu!GpuTypes, Gpu!ImageTypes, Gpu!Slots, Gpu!Values,
      Gpu!ReleaseMessage, Gpu!LeasedFrame, Gpu!Reserved, Gpu!NoSlot, Gpu!UpMessage, Gpu!DownMessage, Gpu!Read,
      Gpu!Hello, Gpu!Bye, Gpu!Busy, Gpu!HandedOutWell, Gpu!OneProducer, Gpu!BusyHasCause, Gpu!Attached,
      GpuP!PosixIntact, GpuP!TypeOK, GpuP!NoOverwrite, GpuP!PendingIntact, GpuP!ReleasesOnOwnTimeline,
      GpuP!RingTypes, GpuP!PendingTypes, GpuP!HeldTypes, GpuP!RetireTypes, GpuP!PeerTypes, GpuP!AcceptTypes,
      GpuP!SlotTypes, GpuP!ProducerTypes, GpuP!LinkTypes, GpuP!GpuTypes, GpuP!ImageTypes, GpuP!Slots,
      GpuP!Values, GpuP!ReleaseMessage, GpuP!LeasedFrame, GpuP!Reserved, GpuP!NoSlot, GpuP!UpMessage,
      GpuP!DownMessage, GpuP!Read, GpuP!Hello, GpuP!Bye, GpuP!Busy, GpuP!HandedOutWell, GpuP!OneProducer,
      GpuP!BusyHasCause, GpuP!Attached

(* A step of this mode restarts the timeline only when it is quiet, and is a *)
(* step of the abstract ring.                                                *)
LEMMA GpuStep ==
  ASSUME GpuP!ChannelAssumption, GpuP!Sound, part = "gpu", [MCNext]_mcvars
  PROVE  GpuP!Sound' /\ Timeline /\ RingStep
<1>1. part' = part /\ [GpuP!Next]_(GpuP!vars)
  BY GpuRuns
<1>2. GpuP!Sound' /\ (generation' # generation => reads = {})
  BY <1>1, GpuP!NextSound
<1>3. Timeline
  BY <1>1, <1>2, GpuP!ReattachStep DEF Timeline, Gpu!PendingSignalled, Gpu!Drawn, GpuP!PendingSignalled, GpuP!Drawn
<1>4. GpuP!RingStep
  BY <1>1, <1>2, GpuP!RingMoves
<1>5. Drawing = GpuP!Drawing /\ Drawing' = GpuP!Drawing'
  BY <1>1 DEF Drawing, Fenced!Drawing, Fenced!Slots, Fenced!Attached, Fenced!Reserved, GpuP!Drawing, GpuP!Slots, GpuP!Attached, GpuP!Reserved
<1>6. RingStep
  <2>1. \A v \in 1 .. MaxValue : v \in 1 .. MaxValue + 1
    BY ModesAssumption DEF Gpu!ChannelAssumption
  <2> QED
    BY <1>4, <1>5, <2>1
    DEF RingStep, GpuP!RingStep, GpuP!Slots, Ring!Next, Ring!Draw, Ring!Take, Ring!Publish, Ring!Abandon, Ring!Finish, Ring!Restart, Ring!Blank,
        Ring!vars,
        GpuP!Ring!Next, GpuP!Ring!Draw, GpuP!Ring!Take, GpuP!Ring!Publish, GpuP!Ring!Abandon,
        GpuP!Ring!Finish, GpuP!Ring!Restart, GpuP!Ring!Blank, GpuP!Ring!vars
<1> QED BY <1>2, <1>3, <1>6

-----------------------------------------------------------------------------
(* The mode "lease": its assumptions and its initial states. *)
LEMMA LeaseInit == ASSUME MCInit PROVE LeaseP!ChannelAssumption /\ LeaseP!Init
<1>1. LeaseP!ChannelAssumption
  BY ModesAssumption DEF Lease!ChannelAssumption, LeaseP!ChannelAssumption
<1>2. LeaseP!Init
  BY DEF MCInit, Fenced!Init, Fenced!Slots, Fenced!NoSlot, Fenced!Blank, LeaseP!Init, LeaseP!Slots, LeaseP!NoSlot, LeaseP!Blank
<1> QED BY <1>1, <1>2

(* A step of a run of the mode "lease" is a step of its channel. *)
LEMMA LeaseNext ==
  ASSUME Lease!Next PROVE LeaseP!Next
  BY DEF Lease!Next, Lease!AcceptThread, Lease!Consumer, Lease!Gpu, Lease!Producer, Lease!Accept,
         Lease!RefuseExtra, Lease!HelloFails, Lease!AttachBusy, Lease!AttachRing, Lease!Adopt, Lease!PumpEnds,
         Lease!PumpFrame, Lease!PumpGeometrySame, Lease!PumpGeometryRefused, Lease!PumpGeometryRealloc,
         Lease!AcceptEnds, Lease!AcquireFrame, Lease!ReleaseSyncFd, Lease!ReleaseDeferred, Lease!Values,
         Lease!SignalConsumed, Lease!LeaseStep, Lease!CloseConsumer, Lease!GpuWriteDone, Lease!GpuReadDone,
         Lease!GpuLeaseDone, Lease!Connect, Lease!OpenGreeted, Lease!OpenBusy, Lease!OpenRing,
         Lease!AcquireBuffer, Lease!Slots, Lease!CancelBuffer, Lease!BeginSubmit, Lease!EndSubmit,
         Lease!RetainBufferReference, Lease!ReleaseBufferReference, Lease!SendRequestGeometry,
         Lease!GeometryRelease, Lease!GeometryReply, Lease!Leave, Lease!Hello, Lease!consumerVars,
         Lease!producerVars, Lease!gpuVars, Lease!Busy, Lease!acceptVars, Lease!Alive, Lease!linkVars,
         Lease!Advances, Lease!StorageBusy, Lease!Rest, Lease!Received, Lease!ringVars, Lease!pendingVars,
         Lease!heldVars, Lease!peerVars, Lease!RingDesc, Lease!Blank, Lease!retireVars, Lease!Incoming,
         Lease!ReplyRing, Lease!PendingSignalled, Lease!Drawn, Lease!HeldRead, Lease!Covered,
         Lease!FrameReleased, Lease!SendPeer, Lease!LeaseFrame, Lease!CollectReadLeases,
         Lease!RetainReadLease, Lease!CompleteReadLease, Lease!CompleteReadLeaseSyncFd, Lease!Announced,
         Lease!ReadsAfter, Lease!ledgerOnly, Lease!slotVars, Lease!Arrived, Lease!Taken, Lease!ImportRing,
         Lease!NoSlot, Lease!Free, Lease!Reserved, Lease!slotOnly, Lease!FrameReady, Lease!Attached,
         Lease!RequestGeometry, Lease!Bye, Lease!Signalled, Lease!Leasable, Lease!Readers, Lease!Finished,
         LeaseP!Next, LeaseP!AcceptThread, LeaseP!Consumer, LeaseP!Gpu, LeaseP!Producer, LeaseP!Accept,
         LeaseP!RefuseExtra, LeaseP!HelloFails, LeaseP!AttachBusy, LeaseP!AttachRing, LeaseP!Adopt,
         LeaseP!PumpEnds, LeaseP!PumpFrame, LeaseP!PumpGeometrySame, LeaseP!PumpGeometryRefused,
         LeaseP!PumpGeometryRealloc, LeaseP!AcceptEnds, LeaseP!AcquireFrame, LeaseP!ReleaseSyncFd,
         LeaseP!ReleaseDeferred, LeaseP!Values, LeaseP!SignalConsumed, LeaseP!LeaseStep, LeaseP!CloseConsumer,
         LeaseP!GpuWriteDone, LeaseP!GpuReadDone, LeaseP!GpuLeaseDone, LeaseP!Connect, LeaseP!OpenGreeted,
         LeaseP!OpenBusy, LeaseP!OpenRing, LeaseP!AcquireBuffer, LeaseP!Slots, LeaseP!CancelBuffer,
         LeaseP!BeginSubmit, LeaseP!EndSubmit, LeaseP!RetainBufferReference, LeaseP!ReleaseBufferReference,
         LeaseP!SendRequestGeometry, LeaseP!GeometryRelease, LeaseP!GeometryReply, LeaseP!Leave, LeaseP!Hello,
         LeaseP!consumerVars, LeaseP!producerVars, LeaseP!gpuVars, LeaseP!Busy, LeaseP!acceptVars,
         LeaseP!Alive, LeaseP!linkVars, LeaseP!Advances, LeaseP!StorageBusy, LeaseP!Rest, LeaseP!Received,
         LeaseP!ringVars, LeaseP!pendingVars, LeaseP!heldVars, LeaseP!peerVars, LeaseP!RingDesc, LeaseP!Blank,
         LeaseP!retireVars, LeaseP!Incoming, LeaseP!ReplyRing, LeaseP!PendingSignalled, LeaseP!Drawn,
         LeaseP!HeldRead, LeaseP!Covered, LeaseP!FrameReleased, LeaseP!SendPeer, LeaseP!LeaseFrame,
         LeaseP!CollectReadLeases, LeaseP!RetainReadLease, LeaseP!CompleteReadLease,
         LeaseP!CompleteReadLeaseSyncFd, LeaseP!Announced, LeaseP!ReadsAfter, LeaseP!ledgerOnly,
         LeaseP!slotVars, LeaseP!Arrived, LeaseP!Taken, LeaseP!ImportRing, LeaseP!NoSlot, LeaseP!Free,
         LeaseP!Reserved, LeaseP!slotOnly, LeaseP!FrameReady, LeaseP!Attached, LeaseP!RequestGeometry,
         LeaseP!Bye, LeaseP!Signalled, LeaseP!Leasable, LeaseP!Readers, LeaseP!Finished

LEMMA LeaseRuns ==
  ASSUME part = "lease", [MCNext]_mcvars
  PROVE  part' = part /\ [LeaseP!Next]_(LeaseP!vars)
<1>1. part' = part /\ (Lease!Next \/ UNCHANGED posix)
  BY DEF MCNext, mcvars
<1>2. UNCHANGED posix => UNCHANGED LeaseP!vars
  BY DEF posix, LeaseP!vars, LeaseP!consumerVars, LeaseP!acceptVars, LeaseP!producerVars, LeaseP!linkVars,
         LeaseP!gpuVars, LeaseP!ringVars, LeaseP!pendingVars, LeaseP!heldVars, LeaseP!retireVars,
         LeaseP!peerVars, LeaseP!slotVars
<1> QED BY <1>1, <1>2, LeaseNext

(* What the invariant of the channel says in the terms of this mode. *)
LEMMA LeaseSays ==
  ASSUME LeaseP!ChannelAssumption, LeaseP!Sound
  PROVE  Lease!PosixIntact /\ Lease!HandedOutWell /\ Lease!LeasesHold
<1>1. LeaseP!PosixIntact /\ LeaseP!HandedOutWell /\ LeaseP!LeasesHold
  BY LeaseP!SoundIntact, LeaseP!SoundHandedOut, LeaseP!SoundLeases
<1> QED
  BY <1>1
  DEF Lease!PosixIntact, Lease!TypeOK, Lease!NoOverwrite, Lease!PendingIntact, Lease!ReleasesOnOwnTimeline,
      Lease!RingTypes, Lease!PendingTypes, Lease!HeldTypes, Lease!RetireTypes, Lease!PeerTypes,
      Lease!AcceptTypes, Lease!SlotTypes, Lease!ProducerTypes, Lease!LinkTypes, Lease!GpuTypes,
      Lease!ImageTypes, Lease!Slots, Lease!Values, Lease!ReleaseMessage, Lease!LeasedFrame, Lease!Reserved,
      Lease!NoSlot, Lease!UpMessage, Lease!DownMessage, Lease!Read, Lease!Hello, Lease!Bye, Lease!Busy,
      Lease!HandedOutWell, Lease!OneProducer, Lease!BusyHasCause, Lease!Attached, Lease!LeasesHold,
      Lease!HeldFrameLeasable, Lease!LeasedMeansUnretired, Lease!Leasable,
      LeaseP!PosixIntact, LeaseP!TypeOK, LeaseP!NoOverwrite, LeaseP!PendingIntact,
      LeaseP!ReleasesOnOwnTimeline, LeaseP!RingTypes, LeaseP!PendingTypes, LeaseP!HeldTypes,
      LeaseP!RetireTypes, LeaseP!PeerTypes, LeaseP!AcceptTypes, LeaseP!SlotTypes, LeaseP!ProducerTypes,
      LeaseP!LinkTypes, LeaseP!GpuTypes, LeaseP!ImageTypes, LeaseP!Slots, LeaseP!Values,
      LeaseP!ReleaseMessage, LeaseP!LeasedFrame, LeaseP!Reserved, LeaseP!NoSlot, LeaseP!UpMessage,
      LeaseP!DownMessage, LeaseP!Read, LeaseP!Hello, LeaseP!Bye, LeaseP!Busy, LeaseP!HandedOutWell,
      LeaseP!OneProducer, LeaseP!BusyHasCause, LeaseP!Attached, LeaseP!LeasesHold, LeaseP!HeldFrameLeasable,
      LeaseP!LeasedMeansUnretired, LeaseP!Leasable

(* A step of this mode restarts the timeline only when it is quiet, and is a *)
(* step of the abstract ring.                                                *)
LEMMA LeaseStep ==
  ASSUME LeaseP!ChannelAssumption, LeaseP!Sound, part = "lease", [MCNext]_mcvars
  PROVE  LeaseP!Sound' /\ Timeline /\ RingStep
<1>1. part' = part /\ [LeaseP!Next]_(LeaseP!vars)
  BY LeaseRuns
<1>2. LeaseP!Sound' /\ (generation' # generation => reads = {})
  BY <1>1, LeaseP!NextSound
<1>3. Timeline
  BY <1>1, <1>2, LeaseP!ReattachStep DEF Timeline, Gpu!PendingSignalled, Gpu!Drawn, LeaseP!PendingSignalled, LeaseP!Drawn
<1>4. LeaseP!RingStep
  BY <1>1, <1>2, LeaseP!RingMoves
<1>5. Drawing = LeaseP!Drawing /\ Drawing' = LeaseP!Drawing'
  BY <1>1 DEF Drawing, Lease!Drawing, Lease!Slots, Lease!Attached, Lease!Reserved, LeaseP!Drawing, LeaseP!Slots, LeaseP!Attached, LeaseP!Reserved
<1>6. RingStep
  BY <1>4, <1>5
  DEF RingStep, LeaseP!RingStep, LeaseP!Slots, Ring!Next, Ring!Draw, Ring!Take, Ring!Publish, Ring!Abandon, Ring!Finish, Ring!Restart, Ring!Blank,
      Ring!vars,
      LeaseP!Ring!Next, LeaseP!Ring!Draw, LeaseP!Ring!Take, LeaseP!Ring!Publish, LeaseP!Ring!Abandon,
      LeaseP!Ring!Finish, LeaseP!Ring!Restart, LeaseP!Ring!Blank, LeaseP!Ring!vars
<1> QED BY <1>2, <1>3, <1>6

-----------------------------------------------------------------------------
(* The assumptions of the four modes, as the lemmas use them. *)
LEMMA ModesAssumed ==
  DefaultP!ChannelAssumption /\ FencedP!ChannelAssumption /\ GpuP!ChannelAssumption /\ LeaseP!ChannelAssumption
  BY ModesAssumption
  DEF Default!ChannelAssumption, DefaultP!ChannelAssumption, Fenced!ChannelAssumption, FencedP!ChannelAssumption,
      Gpu!ChannelAssumption, GpuP!ChannelAssumption, Lease!ChannelAssumption, LeaseP!ChannelAssumption

(* Every mode begins with its invariant. *)
LEMMA ChannelInvInit == ASSUME MCInit PROVE ChannelInv
  BY DefaultInit, FencedInit, GpuInit, LeaseInit, DefaultP!InitSound, FencedP!InitSound, GpuP!InitSound,
     LeaseP!InitSound
  DEF ChannelInv

(* Every step of a run preserves the invariant, keeps the timeline and is a  *)
(* step of the abstract ring.                                                *)
LEMMA ChannelInvStep ==
  ASSUME ChannelInv, [MCNext]_mcvars
  PROVE  ChannelInv' /\ Timeline /\ RingStep
<1> USE ModesAssumed
<1>0. part' = part
  BY DEF MCNext, mcvars
<1>1. CASE part = "default"
  BY <1>0, <1>1, DefaultStep DEF ChannelInv
<1>2. CASE part = "fenced"
  BY <1>0, <1>2, FencedStep DEF ChannelInv
<1>3. CASE part = "gpu"
  BY <1>0, <1>3, GpuStep DEF ChannelInv
<1>4. CASE part = "lease"
  BY <1>0, <1>4, LeaseStep DEF ChannelInv
<1>5. CASE part \notin {"default", "fenced", "gpu", "lease"}
  <2>1. UNCHANGED posix
    BY <1>5 DEF MCNext, mcvars
  <2>2. Timeline
    BY <2>1 DEF Timeline, posix
  <2>3. Drawing' = Drawing
    BY <1>0, <1>5, <2>1 DEF posix, Drawing, Fenced!Drawing, Fenced!Slots, Fenced!Attached, Fenced!Reserved
  <2>4. RingStep
    BY <2>1, <2>3 DEF posix, RingStep, Ring!vars
  <2> QED BY <1>0, <1>5, <2>2, <2>4 DEF ChannelInv
<1> QED BY <1>1, <1>2, <1>3, <1>4, <1>5

(* A run begins with an empty ring. *)
LEMMA RingBegins == ASSUME MCInit PROVE Ring!Init
<1>1. image = Ring!Blank /\ reads = {} /\ heldReady = 0 /\ \A p \in Producers : pc[p] = "new"
  BY DEF MCInit, Fenced!Init, Fenced!Blank, Fenced!Slots, Ring!Blank
<1>2. Default!Drawing = {} /\ Lease!Drawing = {} /\ Fenced!Drawing = {}
  BY <1>1 DEF Default!Drawing, Lease!Drawing, Fenced!Drawing, Default!Attached, Lease!Attached, Fenced!Attached
<1>3. Drawing = {}
  BY <1>2 DEF Drawing
<1> QED BY <1>1, <1>3 DEF Ring!Init

(* The invariant holds throughout a run. *)
LEMMA ChannelInvHolds == MCSpec => []ChannelInv
  BY ChannelInvInit, ChannelInvStep, PTL DEF MCSpec

(* In every mode of fences and leases, for every ring size, any number of    *)
(* producers and any length of the timeline: no image is overwritten while   *)
(* it waits to be read or is read, and no release of an earlier timeline     *)
(* reaches a producer (framelink_linux.cpp, framelink_android.cpp).          *)
THEOREM ChannelsIntact == MCSpec => []PosixIntact
<1>1. ChannelInv => PosixIntact
  BY ModesAssumed, DefaultSays, FencedSays, GpuSays, LeaseSays DEF ChannelInv, PosixIntact
<1> QED BY <1>1, ChannelInvHolds, PTL

(* In every mode at most one producer holds the ring, and a producer is      *)
(* refused only while storage is in use (framelink_linux.cpp:321-386).       *)
THEOREM ChannelsHandedOutWell == MCSpec => []HandedOutWell
<1>1. ChannelInv => HandedOutWell
  BY ModesAssumed, DefaultSays, FencedSays, GpuSays, LeaseSays DEF ChannelInv, HandedOutWell
<1> QED BY <1>1, ChannelInvHolds, PTL

(* With read leases the frame in hand can always be leased, and a leased     *)
(* frame is not retired (fl_read_api.inc, framelink_android.cpp:370).        *)
THEOREM ChannelsLeasesHold == MCSpec => []LeasesHold
<1>1. ChannelInv => LeasesHold
  BY ModesAssumed, LeaseSays DEF ChannelInv, LeasesHold
<1> QED BY <1>1, ChannelInvHolds, PTL

(* In every mode a timeline starts over only when no read is outstanding,    *)
(* and a ring is handed to a producer that attaches only when the taken and  *)
(* the pending frame have been drawn (framelink_linux.cpp:321-386).          *)
THEOREM ChannelsQuietHandover == MCSpec => QuietHandover
<1>1. ChannelInv /\ [MCNext]_mcvars => [generation' # generation => reads = {}]_(Gpu!vars)
  BY ChannelInvStep DEF Timeline
<1>2. ChannelInv /\ [MCNext]_mcvars =>
        [generation' # generation /\ acc = "hello" =>
           Gpu!PendingSignalled /\ (heldReady > 0 => Gpu!Drawn(heldReady))]_(Gpu!vars)
  BY ChannelInvStep DEF Timeline
<1> QED BY <1>1, <1>2, ChannelInvHolds, PTL
        DEF MCSpec, QuietHandover, Gpu!QuietHandover, Gpu!NewTimelineOnlyWhenQuiet, Gpu!ReattachAfterWrites

(* In every mode, whatever the threads, the link and the GPU do, the channel *)
(* is the abstract ring of FrameRing: complete frames are taken in           *)
(* increasing order and read undisturbed, and the ring changes hands only    *)
(* between reads.                                                            *)
THEOREM ChannelsImplementFrameRing == MCSpec => ImplementsFrameRing
<1>1. ChannelInv /\ [MCNext]_mcvars => [Ring!Next]_(Ring!vars)
  BY ChannelInvStep DEF RingStep
<1>2. MCInit => Ring!Init
  BY RingBegins
<1> QED BY <1>1, <1>2, ChannelInvHolds, PTL DEF MCSpec, ImplementsFrameRing, Ring!Spec

-----------------------------------------------------------------------------
(* The Windows modes: FL_GPU_SYNC with one producer, and producers that      *)
(* follow one another.                                                       *)
LEMMA WinAssumed == WinGpuP!WinAssumption /\ FollowP!WinAssumption
  BY ModesAssumption
  DEF WinGpu!WinAssumption, Follow!WinAssumption, WinGpuP!WinAssumption, FollowP!WinAssumption

LEMMA WinInit == ASSUME MCInit PROVE WinGpuP!Init /\ FollowP!Init
<1>1. WinGpuP!Init
  BY DEF MCInit, WinGpu!Init, WinGpu!Blank, WinGpu!NoSlot, WinGpu!Slots,
                 WinGpuP!Init, WinGpuP!Blank, WinGpuP!NoSlot, WinGpuP!Slots
<1>2. FollowP!Init
  BY DEF MCInit, WinGpu!Init, WinGpu!Blank, WinGpu!NoSlot, WinGpu!Slots,
                 FollowP!Init, FollowP!Blank, FollowP!NoSlot, FollowP!Slots
<1> QED BY <1>1, <1>2

(* A step of a run of either mode is a step of its channel. *)
LEMMA WinGpuNext ==
  ASSUME WinGpu!Next PROVE WinGpuP!Next
  BY DEF WinGpu!Next, WinGpu!AcceptThread, WinGpu!Consumer, WinGpu!Gpu, WinGpu!Producer,
         WinGpu!HelloFails, WinGpu!AttachBusy, WinGpu!AttachChecked, WinGpu!ResetFences, WinGpu!ResetFails,
         WinGpu!ResetPending, WinGpu!HandOver, WinGpu!PumpEnds, WinGpu!PumpFrame,
         WinGpu!PumpGeometryKept, WinGpu!PumpGeometryChecked, WinGpu!Realloc, WinGpu!ReallocFails,
         WinGpu!AcquireFrame, WinGpu!Release, WinGpu!ReleaseSignal, WinGpu!Values,
         WinGpu!SignalConsumed, WinGpu!GpuWriteDone, WinGpu!GpuSignal, WinGpu!GpuReadDone, WinGpu!Dial,
         WinGpu!OpenBusy, WinGpu!OpenRing, WinGpu!Slots, WinGpu!AcquireBuffer, WinGpu!CancelBuffer,
         WinGpu!BeginSubmit, WinGpu!EndSubmit, WinGpu!SendRequestGeometry, WinGpu!GeometryReply,
         WinGpu!Leave, WinGpu!Alive, WinGpu!consumerVars, WinGpu!producerVars, WinGpu!fenceVars,
         WinGpu!pixelVars, WinGpu!StorageBusy, WinGpu!Busy, WinGpu!linkVars, WinGpu!ringVars,
         WinGpu!pendingVars, WinGpu!heldVars, WinGpu!RingDesc, WinGpu!Incoming, WinGpu!ResizeBusy,
         WinGpu!Blank, WinGpu!Announced, WinGpu!Arrived, WinGpu!ImportRing, WinGpu!NoSlot, WinGpu!Free,
         WinGpu!Reserved, WinGpu!FrameReady, WinGpu!RequestGeometry, WinGpu!Bye,
         WinGpuP!Next, WinGpuP!AcceptThread, WinGpuP!Consumer, WinGpuP!Gpu, WinGpuP!Producer,
         WinGpuP!HelloFails, WinGpuP!AttachBusy, WinGpuP!AttachChecked, WinGpuP!ResetFences, WinGpuP!ResetFails,
         WinGpuP!ResetPending, WinGpuP!HandOver, WinGpuP!PumpEnds, WinGpuP!PumpFrame,
         WinGpuP!PumpGeometryKept, WinGpuP!PumpGeometryChecked, WinGpuP!Realloc, WinGpuP!ReallocFails,
         WinGpuP!AcquireFrame, WinGpuP!Release, WinGpuP!ReleaseSignal, WinGpuP!Values,
         WinGpuP!SignalConsumed, WinGpuP!GpuWriteDone, WinGpuP!GpuSignal, WinGpuP!GpuReadDone,
         WinGpuP!Dial, WinGpuP!OpenBusy, WinGpuP!OpenRing, WinGpuP!Slots, WinGpuP!AcquireBuffer,
         WinGpuP!CancelBuffer, WinGpuP!BeginSubmit, WinGpuP!EndSubmit, WinGpuP!SendRequestGeometry,
         WinGpuP!GeometryReply, WinGpuP!Leave, WinGpuP!Alive, WinGpuP!consumerVars,
         WinGpuP!producerVars, WinGpuP!fenceVars, WinGpuP!pixelVars, WinGpuP!StorageBusy, WinGpuP!Busy,
         WinGpuP!linkVars, WinGpuP!ringVars, WinGpuP!pendingVars, WinGpuP!heldVars, WinGpuP!RingDesc,
         WinGpuP!Incoming, WinGpuP!ResizeBusy, WinGpuP!Blank, WinGpuP!Announced, WinGpuP!Arrived,
         WinGpuP!ImportRing, WinGpuP!NoSlot, WinGpuP!Free, WinGpuP!Reserved, WinGpuP!FrameReady,
         WinGpuP!RequestGeometry, WinGpuP!Bye

LEMMA FollowNext ==
  ASSUME Follow!Next PROVE FollowP!Next
  BY DEF Follow!Next, Follow!AcceptThread, Follow!Consumer, Follow!Gpu, Follow!Producer,
         Follow!HelloFails, Follow!AttachBusy, Follow!AttachChecked, Follow!ResetFences, Follow!ResetFails,
         Follow!ResetPending, Follow!HandOver, Follow!PumpEnds, Follow!PumpFrame,
         Follow!PumpGeometryKept, Follow!PumpGeometryChecked, Follow!Realloc, Follow!ReallocFails,
         Follow!AcquireFrame, Follow!Release, Follow!ReleaseSignal, Follow!Values,
         Follow!SignalConsumed, Follow!GpuWriteDone, Follow!GpuSignal, Follow!GpuReadDone, Follow!Dial,
         Follow!OpenBusy, Follow!OpenRing, Follow!Slots, Follow!AcquireBuffer, Follow!CancelBuffer,
         Follow!BeginSubmit, Follow!EndSubmit, Follow!SendRequestGeometry, Follow!GeometryReply,
         Follow!Leave, Follow!Alive, Follow!consumerVars, Follow!producerVars, Follow!fenceVars,
         Follow!pixelVars, Follow!StorageBusy, Follow!Busy, Follow!linkVars, Follow!ringVars,
         Follow!pendingVars, Follow!heldVars, Follow!RingDesc, Follow!Incoming, Follow!ResizeBusy,
         Follow!Blank, Follow!Announced, Follow!Arrived, Follow!ImportRing, Follow!NoSlot, Follow!Free,
         Follow!Reserved, Follow!FrameReady, Follow!RequestGeometry, Follow!Bye,
         FollowP!Next, FollowP!AcceptThread, FollowP!Consumer, FollowP!Gpu, FollowP!Producer,
         FollowP!HelloFails, FollowP!AttachBusy, FollowP!AttachChecked, FollowP!ResetFences, FollowP!ResetFails,
         FollowP!ResetPending, FollowP!HandOver, FollowP!PumpEnds, FollowP!PumpFrame,
         FollowP!PumpGeometryKept, FollowP!PumpGeometryChecked, FollowP!Realloc, FollowP!ReallocFails,
         FollowP!AcquireFrame, FollowP!Release, FollowP!ReleaseSignal, FollowP!Values,
         FollowP!SignalConsumed, FollowP!GpuWriteDone, FollowP!GpuSignal, FollowP!GpuReadDone,
         FollowP!Dial, FollowP!OpenBusy, FollowP!OpenRing, FollowP!Slots, FollowP!AcquireBuffer,
         FollowP!CancelBuffer, FollowP!BeginSubmit, FollowP!EndSubmit, FollowP!SendRequestGeometry,
         FollowP!GeometryReply, FollowP!Leave, FollowP!Alive, FollowP!consumerVars,
         FollowP!producerVars, FollowP!fenceVars, FollowP!pixelVars, FollowP!StorageBusy, FollowP!Busy,
         FollowP!linkVars, FollowP!ringVars, FollowP!pendingVars, FollowP!heldVars, FollowP!RingDesc,
         FollowP!Incoming, FollowP!ResizeBusy, FollowP!Blank, FollowP!Announced, FollowP!Arrived,
         FollowP!ImportRing, FollowP!NoSlot, FollowP!Free, FollowP!Reserved, FollowP!FrameReady,
         FollowP!RequestGeometry, FollowP!Bye

LEMMA WinRests == ASSUME UNCHANGED win PROVE UNCHANGED WinGpuP!vars /\ UNCHANGED FollowP!vars
  BY DEF win, WinGpuP!vars, WinGpuP!consumerVars, WinGpuP!producerVars, WinGpuP!linkVars,
              WinGpuP!fenceVars, WinGpuP!pixelVars, WinGpuP!ringVars, WinGpuP!pendingVars,
              WinGpuP!heldVars,
              FollowP!vars, FollowP!consumerVars, FollowP!producerVars, FollowP!linkVars,
              FollowP!fenceVars, FollowP!pixelVars, FollowP!ringVars, FollowP!pendingVars,
              FollowP!heldVars

(* What the invariants say in the terms of the modes. *)
LEMMA WinGpuSays ==
  ASSUME WinGpuP!TypeOK, WinGpuP!Pipe, WinGpuP!Timeline
  PROVE  WinGpu!TypeOK /\ WinGpu!NoOverwrite /\ WinGpu!PendingIntact /\ WinGpu!RebuiltIdle
<1>1. WinGpuP!NoOverwrite /\ WinGpuP!PendingIntact /\ WinGpuP!RebuiltIdle
  BY WinGpuP!Claims, WinGpuP!RebuiltQuiet
<1>2. WinGpu!NoOverwrite /\ WinGpu!PendingIntact /\ WinGpu!RebuiltIdle
  BY <1>1
  DEF WinGpu!NoOverwrite, WinGpu!PendingIntact, WinGpu!RebuiltIdle,
      WinGpuP!NoOverwrite, WinGpuP!PendingIntact, WinGpuP!RebuiltIdle
<1>3. WinGpu!TypeOK
  BY DEF WinGpu!TypeOK, WinGpu!RingTypes, WinGpu!PendingTypes, WinGpu!HeldTypes, WinGpu!ThreadTypes,
         WinGpu!ProducerTypes, WinGpu!LinkTypes, WinGpu!FenceTypes, WinGpu!PixelTypes, WinGpu!Slots,
         WinGpu!Values, WinGpu!Reserved, WinGpu!NoSlot, WinGpu!UpMessage, WinGpu!DownMessage,
         WinGpu!Bye, WinGpu!Busy,
         WinGpuP!TypeOK, WinGpuP!RingTypes, WinGpuP!PendingTypes, WinGpuP!HeldTypes,
         WinGpuP!ThreadTypes, WinGpuP!ProducerTypes, WinGpuP!LinkTypes, WinGpuP!FenceTypes,
         WinGpuP!PixelTypes, WinGpuP!Slots, WinGpuP!Values, WinGpuP!Reserved, WinGpuP!NoSlot,
         WinGpuP!UpMessage, WinGpuP!DownMessage, WinGpuP!Bye, WinGpuP!Busy
<1> QED BY <1>2, <1>3

LEMMA FollowSays ==
  ASSUME FollowP!TypeOK, FollowP!Pipe PROVE Follow!TypeOK /\ Follow!NoUseBeforeWrite
<1>1. FollowP!NoUseBeforeWrite BY FollowP!Claims
<1>2. Follow!NoUseBeforeWrite
  BY <1>1 DEF Follow!NoUseBeforeWrite, FollowP!NoUseBeforeWrite
<1>3. Follow!TypeOK
  BY DEF Follow!TypeOK, Follow!RingTypes, Follow!PendingTypes, Follow!HeldTypes, Follow!ThreadTypes,
         Follow!ProducerTypes, Follow!LinkTypes, Follow!FenceTypes, Follow!PixelTypes, Follow!Slots,
         Follow!Values, Follow!Reserved, Follow!NoSlot, Follow!UpMessage, Follow!DownMessage,
         Follow!Bye, Follow!Busy,
         FollowP!TypeOK, FollowP!RingTypes, FollowP!PendingTypes, FollowP!HeldTypes,
         FollowP!ThreadTypes, FollowP!ProducerTypes, FollowP!LinkTypes, FollowP!FenceTypes,
         FollowP!PixelTypes, FollowP!Slots, FollowP!Values, FollowP!Reserved, FollowP!NoSlot,
         FollowP!UpMessage, FollowP!DownMessage, FollowP!Bye, FollowP!Busy
<1> QED BY <1>2, <1>3

(* The invariant of the Windows mode that runs. *)
WinInv ==
  /\ part = "win gpu"    => WinGpuP!TypeOK /\ WinGpuP!Pipe /\ WinGpuP!Timeline
  /\ part = "win follow" => FollowP!TypeOK /\ FollowP!Pipe

LEMMA WinInvStep == ASSUME WinInv, [MCNext]_mcvars PROVE WinInv'
<1>1. part' = part /\ (UNCHANGED win \/ (part = "win gpu" /\ WinGpu!Next) \/ (part = "win follow" /\ Follow!Next))
  BY DEF MCNext, mcvars
<1>2. CASE part = "win gpu"
  <2>1. [WinGpuP!Next]_(WinGpuP!vars)
    BY <1>1, <1>2, WinGpuNext, WinRests
  <2>2. WinGpuP!TypeOK /\ WinGpuP!Pipe /\ WinGpuP!Timeline
    BY <1>2 DEF WinInv
  <2>3. WinGpuP!TypeOK' /\ WinGpuP!Pipe' /\ WinGpuP!Timeline'
    BY <2>1, <2>2, WinAssumed, WinGpuP!TypesKept, WinGpuP!PipeKept, WinGpuP!TimelineKept
  <2> QED BY <1>1, <1>2, <2>3 DEF WinInv
<1>3. CASE part = "win follow"
  <2>1. [FollowP!Next]_(FollowP!vars)
    BY <1>1, <1>3, FollowNext, WinRests
  <2>2. FollowP!TypeOK /\ FollowP!Pipe
    BY <1>3 DEF WinInv
  <2>3. FollowP!TypeOK' /\ FollowP!Pipe'
    BY <2>1, <2>2, WinAssumed, FollowP!TypesKept, FollowP!PipeKept
  <2> QED BY <1>1, <1>3, <2>3 DEF WinInv
<1> QED BY <1>1, <1>2, <1>3 DEF WinInv

LEMMA WinInvHolds == MCSpec => []WinInv
<1>1. MCInit => WinInv
  BY WinInit, WinAssumed, WinGpuP!Begins, FollowP!Begins DEF WinInv
<1> QED BY <1>1, WinInvStep, PTL DEF MCSpec

(* On Windows, for every ring size and any length of the timeline: with      *)
(* FL_GPU_SYNC no image is overwritten while it waits to be read or is read, *)
(* and with producers that follow one another no fence reports a frame       *)
(* complete before it is (framelink_win.cpp:222, 904).                       *)
THEOREM WinChannelsIntact == MCSpec => []WinIntact
<1>1. WinInv => WinIntact
  BY WinGpuSays, FollowSays DEF WinInv, WinIntact
<1> QED BY <1>1, WinInvHolds, PTL

(* On Windows with FL_GPU_SYNC the ring is rebuilt only when no frame of it  *)
(* is held or read (framelink_win.cpp).                                      *)
THEOREM WinRebuiltIdle == MCSpec => WinResizeIdle
<1>1. WinInv => [part = "win gpu" => WinGpu!RebuiltIdle]_win
  BY WinGpuSays DEF WinInv
<1> QED BY <1>1, WinInvHolds, PTL DEF WinResizeIdle

=============================================================================
