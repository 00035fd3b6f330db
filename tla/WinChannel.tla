----------------------------- MODULE WinChannel -----------------------------
(***************************************************************************)
(* One FrameLink channel on Windows (src/src/framelink_win.cpp,            *)
(* src/src/fl_ipc_win32.cpp): the consumer's calling thread, its accept    *)
(* thread and the producer at the other end of the pipe.  The consumer     *)
(* serves one pipe instance at a time, so one producer's state suffices: a *)
(* second one dials only when the first one's link is closed.              *)
(*                                                                         *)
(* Releases are not messages here: both sides share two D3D11 fences.      *)
(* written and consumed are the completed values of readyFence and         *)
(* consumedFence; signals holds the Signal calls on a consumed fence that  *)
(* the GPU has not executed.  Unlike the POSIX channel, the critical       *)
(* sections of the accept thread and of flRelease end before all they      *)
(* decided has been done, so each is split where it unlocks.               *)
(***************************************************************************)
EXTENDS Naturals, Sequences

CONSTANTS
  PoolSize,         \* number of ring slots
  Geometries,       \* the ring geometries a producer may ask for
  InitialGeometry,  \* the one flCreateChannel was given
  GpuSync,          \* FL_GPU_SYNC
  Defer,            \* FL_DEFER_RELEASE
  AllocMayFail,     \* may allocateRing or resetSync fail?
  Reattach,         \* may another producer dial after the first one left?
  MaxValue,         \* UINT64_MAX - 1: the last value flBeginSubmit hands out
  MaxGen            \* bound: at this generation no attach or resize starts; fences lost are as few

WinAssumption ==
  /\ PoolSize \in Nat \ {0}
  /\ InitialGeometry \in Geometries
  /\ {GpuSync, Defer, AllocMayFail, Reattach} \subseteq BOOLEAN
  /\ MaxValue \in Nat \ {0}
  /\ MaxGen \in Nat \ {0}

Slots    == 0 .. PoolSize - 1
NoSlot   == PoolSize       \* submittingSlot = UINT32_MAX
Reserved == MaxValue + 1   \* UINT64_MAX: slot acquired, not yet submitted
Values   == 0 .. MaxValue

VARIABLES
  \* struct flChannel of the consumer
  generation, geometry,
  images,            \* images.size(): slots 0 .. images - 1 exist
  hasPending, pendingSlot, pendingReady,
  frameHeld, heldSlot, heldReady,
  consumedValue,
  releasing,         \* value of the frame flRelease has unlocked with, or 0
  \* the accept thread
  acc,
  \* the producer: its handle, and the fences it imported
  pc, pGeneration, pImages, pFences, slotReadyValue, readyValue, submittingSlot,
  \* the pipe
  up, down,
  \* the fences: identity of the current pair, completed values, queued signals
  fences, written, consumed, signals,
  \* acquired frames that an FL_GPU_SYNC or FL_DEFER_RELEASE consumer has yet to signal
  owed,
  \* values the producer's GPU has really finished drawing
  drawn,
  \* reads the consumer's GPU has not finished, and the frame each slot shows
  reads, image

pendingVars  == <<hasPending, pendingSlot, pendingReady>>
heldVars     == <<frameHeld, heldSlot, heldReady>>
ringVars     == <<generation, geometry, images>>
consumerVars == <<ringVars, pendingVars, heldVars, consumedValue, releasing>>
producerVars == <<pc, pGeneration, pImages, pFences, slotReadyValue, readyValue, submittingSlot>>
linkVars     == <<up, down>>
fenceVars    == <<fences, written, consumed, signals, owed>>
pixelVars    == <<drawn, reads, image>>
vars == <<consumerVars, acc, producerVars, linkVars, fenceVars, pixelVars>>

Blank == [s \in Slots |-> 0]
Alive == pc \notin {"new", "gone"}

(* Messages (fl_protocol.h) after the greeting. *)
Busy               == [type |-> "Busy"]
Bye                == [type |-> "Bye"]
RingDesc           == [type |-> "RingDesc", gen |-> generation, size |-> images, fences |-> fences]
FrameReady(s, v)   == [type |-> "FrameReady", slot |-> s, val |-> v]
RequestGeometry(w) == [type |-> "RequestGeometry", geo |-> w]

UpMessage ==
  {Bye} \union [type : {"FrameReady"}, slot : Slots, val : Values]
        \union [type : {"RequestGeometry"}, geo : Geometries]
DownMessage == {Busy} \union [type : {"RingDesc"}, gen : Nat, size : 0 .. PoolSize, fences : Nat]

Init ==
  /\ generation = 1 /\ geometry = InitialGeometry /\ images = PoolSize
  /\ hasPending = FALSE /\ pendingSlot = 0 /\ pendingReady = 0
  /\ frameHeld = FALSE /\ heldSlot = 0 /\ heldReady = 0
  /\ consumedValue = 0 /\ releasing = 0
  /\ acc = "listen"
  /\ pc = "new" /\ pGeneration = 0 /\ pImages = 0 /\ pFences = 0
  /\ slotReadyValue = Blank /\ readyValue = 0 /\ submittingSlot = NoSlot
  /\ up = <<>> /\ down = <<>>
  /\ fences = 1 /\ written = 0 /\ consumed = 0 /\ signals = <<>> /\ owed = {}
  /\ drawn = 0 /\ reads = {} /\ image = Blank

-----------------------------------------------------------------------------
(* The accept thread (acceptLoop). *)

(* Under the lock: is old storage still in use?  The lock is then released. *)
StorageBusy == frameHeld \/ consumed < heldReady \/ (hasPending /\ written < pendingReady)

(* The dialled producer left before its Hello arrived. *)
HelloFails ==
  /\ acc = "hello" /\ ~Alive
  /\ acc' = "listen" /\ up' = <<>>
  /\ UNCHANGED <<consumerVars, producerVars, down, fenceVars, pixelVars>>

AttachBusy ==
  /\ acc = "hello" /\ Alive /\ StorageBusy
  /\ acc' = "listen"
  /\ down' = Append(down, Busy)
  /\ UNCHANGED <<consumerVars, producerVars, up, fenceVars, pixelVars>>

AttachChecked ==
  /\ acc = "hello" /\ Alive /\ ~StorageBusy
  /\ acc' = "fences"
  /\ UNCHANGED <<consumerVars, producerVars, linkVars, fenceVars, pixelVars>>

(* Mutant: the ready fence outlives its producer. *)
BugFenceKept ==
  /\ acc = "fences"
  /\ consumed' = 0 /\ consumedValue' = 0
  /\ acc' = "pending"
  /\ UNCHANGED <<ringVars, pendingVars, heldVars, releasing, producerVars, linkVars,
                 fences, written, signals, owed, pixelVars>>

(* resetSync: fresh fences and counters, without the lock ... *)
ResetFences ==
  /\ acc = "fences"
  /\ fences' = fences + 1 /\ written' = 0 /\ consumed' = 0
  /\ consumedValue' = 0
  /\ acc' = "pending"
  /\ UNCHANGED <<ringVars, pendingVars, heldVars, releasing, producerVars, linkVars,
                 signals, owed, pixelVars>>

(* resetSync found no handle to share the new fences by: they are in place, *)
(* the counters are not reset, and the link is closed.  (Without the fences *)
(* themselves the next use of the null consumedFence ends the process.)     *)
ResetFails ==
  /\ acc = "fences" /\ AllocMayFail /\ fences < MaxGen
  /\ fences' = fences + 1 /\ written' = 0 /\ consumed' = 0
  /\ acc' = "listen" /\ up' = <<>>
  /\ pc' = "gone"
  /\ UNCHANGED <<consumerVars, pGeneration, pImages, pFences, slotReadyValue, readyValue,
                 submittingSlot, down, signals, owed, pixelVars>>

(* ... then, under the lock, what was announced against the old ones. *)
ResetPending ==
  /\ acc = "pending"
  /\ hasPending' = FALSE /\ heldReady' = 0
  /\ generation' = generation + 1
  /\ acc' = "hand"
  /\ UNCHANGED <<geometry, images, pendingSlot, pendingReady, frameHeld, heldSlot,
                 consumedValue, releasing, producerVars, linkVars, fenceVars, pixelVars>>

(* handOverRing; without a peer process it fails and the link is closed.    *)
HandOver ==
  /\ acc = "hand"
  /\ IF Alive THEN acc' = "pump" /\ down' = Append(down, RingDesc) /\ UNCHANGED up
              ELSE acc' = "listen" /\ up' = <<>> /\ UNCHANGED down
  /\ UNCHANGED <<consumerVars, producerVars, fenceVars, pixelVars>>

Incoming(type) == acc = "pump" /\ up # <<>> /\ Head(up).type = type

PumpEnds ==
  /\ acc = "pump"
  /\ Incoming("Bye") \/ (up = <<>> /\ ~Alive)
  /\ up' = <<>>
  /\ acc' = "listen"
  /\ UNCHANGED <<consumerVars, producerVars, down, fenceVars, pixelVars>>

PumpFrame ==
  /\ Incoming("FrameReady")
  /\ up' = Tail(up)
  /\ hasPending' = TRUE
  /\ pendingSlot' = Head(up).slot /\ pendingReady' = Head(up).val
  /\ UNCHANGED <<ringVars, heldVars, consumedValue, releasing, acc, producerVars, down,
                 fenceVars, pixelVars>>

(* Mutant: the consumed fence is never consulted. *)
BugResizeIgnoresFence == frameHeld

(* The consumed fence is consulted only when the consumer signals it itself.*)
ResizeBusy == frameHeld \/ ((GpuSync \/ Defer) /\ consumed < heldReady)

(* Unchanged geometry, or a refusal: the present ring is confirmed. *)
PumpGeometryKept ==
  /\ Incoming("RequestGeometry")
  /\ Head(up).geo = geometry \/ ResizeBusy
  /\ up' = Tail(up)
  /\ acc' = "hand"
  /\ UNCHANGED <<consumerVars, producerVars, down, fenceVars, pixelVars>>

PumpGeometryChecked ==
  /\ Incoming("RequestGeometry")
  /\ Head(up).geo # geometry /\ ~ResizeBusy
  /\ hasPending' = FALSE
  /\ geometry' = Head(up).geo
  /\ up' = Tail(up)
  /\ acc' = "realloc"
  /\ UNCHANGED <<generation, images, pendingSlot, pendingReady, heldVars, consumedValue,
                 releasing, producerVars, down, fenceVars, pixelVars>>

(* As many images as there were.  The old textures live on, unreachable, as *)
(* long as the GPU reads them.                                              *)
Realloc ==
  /\ acc = "realloc"
  /\ image' = Blank /\ reads' = {}
  /\ acc' = "fences"
  /\ UNCHANGED <<ringVars, pendingVars, heldVars, consumedValue, releasing,
                 producerVars, linkVars, fenceVars, drawn>>

(* allocateRing stopped half way: the link is closed over a shorter ring,   *)
(* and the producer's recv fails.                                           *)
ReallocFails ==
  /\ acc = "realloc" /\ AllocMayFail
  /\ images' \in {n \in 0 .. PoolSize : n < images}
  /\ image' = Blank /\ reads' = {}
  /\ acc' = "listen" /\ up' = <<>>
  /\ pc' = "gone"
  /\ UNCHANGED <<generation, geometry, pendingVars, heldVars, consumedValue, releasing,
                 pGeneration, pImages, pFences, slotReadyValue, readyValue, submittingSlot,
                 down, fenceVars, drawn>>

-----------------------------------------------------------------------------
(* The consumer's calling thread: one call at a time. *)

AcquireFrame ==
  /\ releasing = 0
  /\ hasPending /\ ~frameHeld
  /\ GpuSync \/ written >= pendingReady
  /\ frameHeld' = TRUE /\ heldSlot' = pendingSlot /\ heldReady' = pendingReady
  /\ hasPending' = FALSE
  /\ reads' = reads \union {[slot |-> pendingSlot, val |-> pendingReady]}
  /\ owed' = IF GpuSync \/ Defer THEN owed \union {pendingReady} ELSE owed
  /\ UNCHANGED <<ringVars, pendingSlot, pendingReady, consumedValue, releasing, acc,
                 producerVars, linkVars, fences, written, consumed, signals, drawn, image>>

(* flRelease: the frame is let go under the lock ... *)
Release ==
  /\ releasing = 0
  /\ frameHeld /\ heldReady > 0 /\ heldSlot < images
  /\ frameHeld' = FALSE
  /\ releasing' = heldReady
  /\ UNCHANGED <<ringVars, pendingVars, heldSlot, heldReady, consumedValue, acc,
                 producerVars, linkVars, fenceVars, pixelVars>>

(* ... and signalled after it, on whatever consumedFence then is.           *)
ReleaseSignal ==
  /\ releasing > 0
  /\ consumedValue' = IF releasing > consumedValue THEN releasing ELSE consumedValue
  /\ signals' = IF ~GpuSync /\ ~Defer /\ releasing > consumedValue
                THEN Append(signals, [fences |-> fences, val |-> releasing]) ELSE signals
  /\ releasing' = 0
  /\ UNCHANGED <<ringVars, pendingVars, heldVars, acc, producerVars, linkVars,
                 fences, written, consumed, owed, pixelVars>>

(* An FL_GPU_SYNC or FL_DEFER_RELEASE consumer queues the signal itself,    *)
(* ordered after its reads: a watermark, so earlier frames are covered.     *)
SignalConsumed(v) ==
  /\ releasing = 0
  /\ v \in owed
  /\ owed' = {u \in owed : u > v}
  /\ signals' = Append(signals, [fences |-> fences, val |-> v])
  /\ UNCHANGED <<consumerVars, acc, producerVars, linkVars, fences, written, consumed,
                 pixelVars>>

-----------------------------------------------------------------------------
(* The GPU. *)
Announced == IF submittingSlot = NoSlot THEN readyValue ELSE readyValue - 1

GpuWriteDone ==
  /\ drawn < Announced
  /\ drawn' = drawn + 1
  /\ written' = IF pFences = fences THEN drawn' ELSE written
  /\ UNCHANGED <<consumerVars, acc, producerVars, linkVars, fences, consumed, signals,
                 owed, reads, image>>

(* A read ends once the frame was let go and its writes are complete. *)
GpuReadDone(x) ==
  /\ ~(frameHeld /\ x.slot = heldSlot) /\ x.val <= drawn
  /\ reads' = reads \ {x}
  /\ UNCHANGED <<consumerVars, acc, producerVars, linkVars, fenceVars, drawn, image>>

(* A queued signal executes after the reads queued before it.               *)
GpuSignal ==
  /\ signals # <<>>
  /\ \A x \in reads : x.val > Head(signals).val
  /\ signals' = Tail(signals)
  /\ consumed' = IF Head(signals).fences = fences THEN Head(signals).val ELSE consumed
  /\ UNCHANGED <<consumerVars, acc, producerVars, linkVars, fences, written, owed, pixelVars>>

-----------------------------------------------------------------------------
(* The producer. *)

(* flOpenProducer finds the listening pipe instance and answers Hello. *)
Dial ==
  /\ acc = "listen" /\ generation < MaxGen
  /\ pc = "new" \/ (Reattach /\ pc = "gone")
  /\ pc' = "dialled" /\ acc' = "hello"
  /\ down' = <<>>
  /\ UNCHANGED <<consumerVars, pGeneration, pImages, pFences, slotReadyValue, readyValue,
                 submittingSlot, up, fenceVars, pixelVars>>

Arrived(type) == down # <<>> /\ Head(down).type = type

OpenBusy ==
  /\ pc = "dialled" /\ Arrived("Busy")
  /\ pc' = "gone"
  /\ down' = Tail(down)
  /\ UNCHANGED <<consumerVars, acc, pGeneration, pImages, pFences, slotReadyValue,
                 readyValue, submittingSlot, up, fenceVars, pixelVars>>

(* importRing; an empty ring is refused. *)
ImportRing(m) ==
  /\ pGeneration' = m.gen /\ pImages' = m.size /\ pFences' = m.fences
  /\ slotReadyValue' = Blank /\ readyValue' = 0 /\ drawn' = 0

OpenRing ==
  /\ pc = "dialled" /\ Arrived("RingDesc")
  /\ down' = Tail(down)
  /\ IF Head(down).size > 0
     THEN pc' = "idle" /\ ImportRing(Head(down)) /\ submittingSlot' = NoSlot
     ELSE /\ pc' = "gone"
          /\ UNCHANGED <<pGeneration, pImages, pFences, slotReadyValue, readyValue, drawn,
                         submittingSlot>>
  /\ UNCHANGED <<consumerVars, acc, up, fenceVars, reads, image>>

Free(s) == s < pImages /\ slotReadyValue[s] <= consumed

AcquireBuffer(s) ==
  /\ pc = "idle"
  /\ Free(s) /\ \A t \in Slots : t < s => ~Free(t)
  /\ slotReadyValue' = [slotReadyValue EXCEPT ![s] = Reserved]
  /\ image' = [image EXCEPT ![s] = 0]
  /\ UNCHANGED <<consumerVars, acc, pc, pGeneration, pImages, pFences, readyValue,
                 submittingSlot, linkVars, fenceVars, drawn, reads>>

CancelBuffer(s) ==
  /\ pc = "idle" /\ slotReadyValue[s] = Reserved /\ submittingSlot # s
  /\ slotReadyValue' = [slotReadyValue EXCEPT ![s] = 0]
  /\ UNCHANGED <<consumerVars, acc, pc, pGeneration, pImages, pFences, readyValue,
                 submittingSlot, linkVars, fenceVars, pixelVars>>

BeginSubmit(s) ==
  /\ pc = "idle" /\ slotReadyValue[s] = Reserved
  /\ submittingSlot = NoSlot /\ readyValue < MaxValue
  /\ submittingSlot' = s /\ readyValue' = readyValue + 1
  /\ UNCHANGED <<consumerVars, acc, pc, pGeneration, pImages, pFences, slotReadyValue,
                 linkVars, fenceVars, pixelVars>>

EndSubmit ==
  /\ pc = "idle" /\ submittingSlot # NoSlot
  /\ slotReadyValue' = [slotReadyValue EXCEPT ![submittingSlot] = readyValue]
  /\ submittingSlot' = NoSlot
  /\ up' = Append(up, FrameReady(submittingSlot, readyValue))
  /\ image' = [image EXCEPT ![submittingSlot] = readyValue]
  /\ UNCHANGED <<consumerVars, acc, pc, pGeneration, pImages, pFences, readyValue, down,
                 fenceVars, drawn, reads>>

SendRequestGeometry(w) ==
  /\ pc = "idle" /\ generation < MaxGen
  /\ \A s \in Slots : slotReadyValue[s] # Reserved
  /\ pc' = "geometry"
  /\ up' = Append(up, RequestGeometry(w))
  /\ UNCHANGED <<consumerVars, acc, pGeneration, pImages, pFences, slotReadyValue,
                 readyValue, submittingSlot, down, fenceVars, pixelVars>>

GeometryReply ==
  /\ pc = "geometry" /\ Arrived("RingDesc")
  /\ pc' = "idle"
  /\ down' = Tail(down)
  /\ IF Head(down).gen = pGeneration
     THEN UNCHANGED <<pGeneration, pImages, pFences, slotReadyValue, readyValue, drawn>>
     ELSE ImportRing(Head(down))
  /\ UNCHANGED <<consumerVars, acc, submittingSlot, up, fenceVars, reads, image>>

(* flClose says Bye, a crash does not.  What it sent stays readable. *)
Leave ==
  /\ Alive
  /\ pc' = "gone"
  /\ \/ pc = "idle" /\ up' = Append(up, Bye)
     \/ UNCHANGED up
  /\ down' = <<>>
  /\ UNCHANGED <<consumerVars, acc, pGeneration, pImages, pFences, slotReadyValue,
                 readyValue, submittingSlot, fenceVars, pixelVars>>

-----------------------------------------------------------------------------
AcceptThread ==
  \/ HelloFails \/ AttachBusy \/ AttachChecked
  \/ ResetFences \/ ResetFails \/ ResetPending \/ HandOver
  \/ PumpEnds \/ PumpFrame \/ PumpGeometryKept \/ PumpGeometryChecked
  \/ Realloc \/ ReallocFails

Consumer ==
  \/ AcquireFrame \/ Release \/ ReleaseSignal
  \/ \E v \in Values : SignalConsumed(v)

Gpu == GpuWriteDone \/ GpuSignal \/ \E x \in reads : GpuReadDone(x)

Producer ==
  \/ Dial \/ OpenBusy \/ OpenRing
  \/ \E s \in Slots : AcquireBuffer(s) \/ CancelBuffer(s) \/ BeginSubmit(s)
  \/ EndSubmit
  \/ \E w \in Geometries : SendRequestGeometry(w)
  \/ GeometryReply
  \/ Leave

Next == AcceptThread \/ Consumer \/ Gpu \/ Producer

Spec == Init /\ [][Next]_vars

-----------------------------------------------------------------------------
(* Types. *)
RingTypes    == generation \in Nat /\ geometry \in Geometries /\ images \in 0 .. PoolSize
PendingTypes == hasPending \in BOOLEAN /\ pendingSlot \in Slots /\ pendingReady \in Values
HeldTypes ==
  /\ frameHeld \in BOOLEAN /\ heldSlot \in Slots /\ heldReady \in Values
  /\ consumedValue \in Values /\ releasing \in Values
ThreadTypes ==
  /\ acc \in {"listen", "hello", "fences", "pending", "hand", "pump", "realloc"}
  /\ pc \in {"new", "dialled", "idle", "geometry", "gone"}
ProducerTypes ==
  /\ pGeneration \in Nat /\ pImages \in 0 .. PoolSize /\ pFences \in Nat
  /\ slotReadyValue \in [Slots -> 0 .. Reserved]
  /\ readyValue \in Values /\ submittingSlot \in 0 .. NoSlot
LinkTypes  == up \in Seq(UpMessage) /\ down \in Seq(DownMessage)
FenceTypes ==
  /\ fences \in Nat /\ written \in Values /\ consumed \in Values
  /\ signals \in Seq([fences : Nat, val : Values]) /\ owed \in SUBSET Values
PixelTypes ==
  /\ drawn \in Values /\ reads \in SUBSET [slot : Slots, val : Values]
  /\ image \in [Slots -> Values]

TypeOK ==
  /\ RingTypes /\ PendingTypes /\ HeldTypes /\ ThreadTypes
  /\ ProducerTypes /\ LinkTypes /\ FenceTypes /\ PixelTypes

(* No producer draws into a slot whose frame the consumer, or its GPU, is   *)
(* still reading: flRelease must never "tell the producer the slot is free  *)
(* while the consumer's GPU is still sampling it" (framelink_win.cpp:904).  *)
NoOverwrite == \A x \in reads : image[x.slot] = x.val

(* The pending frame is the announced one until flAcquireFrame takes it: no *)
(* stale value of consumedFence made its slot look free to the producer.    *)
PendingIntact == hasPending => image[pendingSlot] = pendingReady

(* A pending frame that readyFence reports complete really is: a fence that *)
(* outlived its producer would report "ready 1" of the next one at once     *)
(* ("a use-before-write on both sides", framelink_win.cpp:222).             *)
NoUseBeforeWrite == hasPending /\ written >= pendingReady => drawn >= pendingReady

(* A ring is rebuilt only when no frame of it is held, nor, if the consumer *)
(* signals its own reads, read by the GPU.                                  *)
RebuiltIdle == acc = "realloc" /\ acc' # acc => ~frameHeld /\ (GpuSync \/ Defer => reads = {})
ResizeIdle  == [][RebuiltIdle]_vars

(* A ring changes hands only when no frame of it is held or read: FL_BUSY   *)
(* answers while "old frame storage is still held / awaiting GPU            *)
(* retirement" (framelink.h).                                               *)
HandedOverIdle == [][pc = "dialled" /\ acc = "hand" => ~frameHeld /\ reads = {}]_vars
=============================================================================
