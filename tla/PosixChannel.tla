---------------------------- MODULE PosixChannel ----------------------------
(***************************************************************************)
(* One FrameLink channel on Linux and Android: the consumer that owns the  *)
(* ring, its accept thread, the producers that dial in, and the two-way    *)
(* SEQPACKET link each producer has (src/src/framelink_linux.cpp,          *)
(* src/src/framelink_android.cpp, src/src/fl_ipc_posix.cpp,                *)
(* src/src/fl_sync_fd.hpp, src/src/fl_read_api.inc).                       *)
(*                                                                         *)
(* A region under pendingMutex is one action; the accept thread, the       *)
(* consumer's caller and each producer's calling thread interleave between *)
(* actions.  A call that the code refuses without changing state (FL_BUSY, *)
(* FL_INVALID, FL_TIMEOUT) is a stuttering step.                           *)
(*                                                                         *)
(* GPU work is visible only through its completion.  The ready fence of    *)
(* value v of producer p is signalled iff v <= written[p]; the consumed    *)
(* fence of value v is signalled iff no read of a value <= v is            *)
(* outstanding in reads.  Both follow framelink_sync_fd.h: a fence covers  *)
(* all prior work on the channel, as with a timeline.                      *)
(***************************************************************************)
EXTENDS Naturals, Sequences, FiniteSets

CONSTANTS
  Producers,     \* producer handles; one that left may be opened again
  None,          \* no producer
  PoolSize,      \* number of ring slots
  Geometries,    \* the ring geometries a producer may ask for
  InitialGeometry, \* the one flCreateChannel was given
  GpuSync,       \* FL_GPU_SYNC
  Defer,         \* FL_DEFER_RELEASE
  Leases,        \* the consumer retires frames through read leases
  Fences,        \* subset of BOOLEAN: may work be handed over with a fence?
  AllocMayFail,  \* may reallocRing fail?
  MaxValue,      \* UINT64_MAX - 1: the last value flBeginSubmit hands out
  MaxGen,        \* bound: no new attach or resize is started at this generation
  MaxReaders,    \* ReadLedger::MaxReaders
  MaxRefs        \* bound on the local references to one buffer

ChannelAssumption ==
  /\ None \notin Producers
  /\ PoolSize \in Nat \ {0}
  /\ InitialGeometry \in Geometries
  /\ {GpuSync, Defer, Leases, AllocMayFail} \subseteq BOOLEAN
  /\ Leases => Defer /\ ~GpuSync      \* flLeaseFrame refuses anything else
  /\ Fences \subseteq BOOLEAN
  /\ MaxValue \in Nat \ {0}
  /\ MaxGen \in Nat \ {0}
  /\ MaxReaders \in Nat \ {0}
  /\ MaxRefs \in Nat

Slots    == 0 .. PoolSize - 1
NoSlot   == PoolSize       \* submittingSlot = UINT32_MAX
Reserved == MaxValue + 1   \* UINT64_MAX: slot acquired, not yet submitted
Values   == 0 .. MaxValue

VARIABLES
  \* struct flChannel of the consumer
  generation, geometry,
  hasPending, pendingSlot, pendingReady,
  frameHeld, heldSlot, heldReady, retiredValue,
  cReleases,       \* sync.releases of the consumer
  ledger,          \* readers: leased frames, oldest first
  peer, peerConnected, peerGone, stop,
  \* the accept thread: where it is, and the producer its link leads to
  acc, serving,
  \* struct flChannel of each producer
  pc, pGeneration, slotSubmitValue, consumedValue, readyValue, submittingSlot,
  pReleases,       \* sync.releases of the producer
  bufferRefs,      \* BufferReferences: local pins per slot
  \* the link of each producer
  up, down,
  \* GPU progress: values written, and reads of slots not finished yet
  written, reads,
  \* the pixels: value of the frame a slot shows, 0 while it is drawn or blank
  image

ringVars     == <<generation, geometry>>
pendingVars  == <<hasPending, pendingSlot, pendingReady>>
heldVars     == <<frameHeld, heldSlot, heldReady>>
retireVars   == <<retiredValue, cReleases, ledger>>
peerVars     == <<peer, peerConnected, peerGone>>
consumerVars == <<ringVars, pendingVars, heldVars, retireVars, peerVars, stop>>
acceptVars   == <<acc, serving>>
slotVars     == <<slotSubmitValue, consumedValue, readyValue, submittingSlot, pReleases>>
producerVars == <<pc, pGeneration, slotVars, bufferRefs>>
linkVars     == <<up, down>>
gpuVars      == <<written, reads>>
vars == <<consumerVars, acceptVars, producerVars, linkVars, gpuVars, image>>

-----------------------------------------------------------------------------
(* Messages (fl_protocol.h); attachments and payload layout are left out. *)
Hello           == [type |-> "Hello"]
Busy            == [type |-> "Busy"]
Bye             == [type |-> "Bye"]
RingDesc(g, w)  == [type |-> "RingDesc", gen |-> g, geo |-> w]
FrameReady(s, v)    == [type |-> "FrameReady", slot |-> s, val |-> v]
FrameReleased(v, f) == [type |-> "FrameReleased", val |-> v, fence |-> f]
RequestGeometry(w)  == [type |-> "RequestGeometry", geo |-> w]

UpMessage ==
  {Hello, Bye} \union [type : {"FrameReady"}, slot : Slots, val : Values]
               \union [type : {"RequestGeometry"}, geo : Geometries]
ReleaseMessage == [type : {"FrameReleased"}, val : Values, fence : BOOLEAN]
DownMessage ==
  {Hello, Busy} \union [type : {"RingDesc"}, gen : Nat, geo : Geometries] \union ReleaseMessage

LeasedFrame == [slot : Slots, val : Values, live : Nat, gpu : Nat, done : Nat]
Read        == [slot : Slots, val : Values]

(* The producer's end of its link is open. *)
Alive(p) == pc[p] \notin {"new", "gone"}
(* flOpenProducer returned this handle and nobody closed it. *)
Attached(p) == pc[p] \in {"idle", "geometry"}

Blank == [s \in Slots |-> 0]

Init ==
  /\ generation = 1 /\ geometry = InitialGeometry    \* reallocRing at creation
  /\ hasPending = FALSE /\ pendingSlot = 0 /\ pendingReady = 0
  /\ frameHeld = FALSE /\ heldSlot = 0 /\ heldReady = 0
  /\ retiredValue = 0 /\ cReleases = <<>> /\ ledger = <<>>
  /\ peer = None /\ peerConnected = FALSE /\ peerGone = FALSE /\ stop = FALSE
  /\ acc = "accept" /\ serving = None
  /\ pc = [p \in Producers |-> "new"]
  /\ pGeneration = [p \in Producers |-> 0]
  /\ slotSubmitValue = [p \in Producers |-> [s \in Slots |-> 0]]
  /\ consumedValue = [p \in Producers |-> 0]
  /\ readyValue = [p \in Producers |-> 0]
  /\ submittingSlot = [p \in Producers |-> NoSlot]
  /\ pReleases = [p \in Producers |-> <<>>]
  /\ bufferRefs = [p \in Producers |-> [s \in Slots |-> 0]]
  /\ up = [p \in Producers |-> <<>>]
  /\ down = [p \in Producers |-> <<>>]
  /\ written = [p \in Producers |-> 0]
  /\ reads = {}
  /\ image = Blank

-----------------------------------------------------------------------------
(* Mutant: any fence passes for signalled. *)
BugFenceIgnored(r) == TRUE

(* fenceReady on a consumed fence, and on the fence of the pending frame.   *)
Signalled(r) == r.fence => \A x \in reads : x.val > r.val
Drawn(v) == peer # None /\ v <= written[peer]
PendingSignalled == hasPending => Drawn(pendingReady)

(* Mutant: signalled releases are dropped without raising the watermark. *)
BugWatermarkLost(q, watermark, n, w) ==
  /\ \A i \in 1 .. n : Signalled(q[i])
  /\ n < Len(q) => ~Signalled(q[n + 1])
  /\ w = watermark

(* SyncFds::advance: the n oldest releases have signalled, the next has     *)
(* not; the watermark becomes the largest value among them.                 *)
Advances(q, watermark, n, w) ==
  /\ \A i \in 1 .. n : Signalled(q[i])
  /\ n < Len(q) => ~Signalled(q[n + 1])
  /\ w \in {watermark} \union {q[i].val : i \in 1 .. n}
  /\ w >= watermark
  /\ \A i \in 1 .. n : q[i].val <= w

(* Mutant: one element too many is kept. *)
BugKeepsLast(q, n) == SubSeq(q, IF n = 0 THEN 1 ELSE n, Len(q))
Rest(q, n) == SubSeq(q, n + 1, Len(q))

(* The consumer sends to ch->peer; a failed send marks the link.            *)
SendPeer(m) ==
  IF peerConnected /\ Alive(peer)
  THEN /\ down' = [down EXCEPT ![peer] = Append(@, m)]
       /\ UNCHANGED peerConnected
  ELSE /\ peerConnected' = FALSE
       /\ UNCHANGED down

Received(p) == up' = [up EXCEPT ![p] = Tail(@)]
Taken(p)    == down' = [down EXCEPT ![p] = Tail(@)]

-----------------------------------------------------------------------------
(* The accept thread (acceptLoop). *)

(* A connection is taken from the listener and greeted. *)
Accept(p) ==
  /\ acc = "accept" /\ ~stop
  /\ pc[p] = "connecting" /\ down[p] = <<>>
  /\ acc' = "hello" /\ serving' = p
  /\ down' = [down EXCEPT ![p] = Append(@, Hello)]
  /\ UNCHANGED <<consumerVars, producerVars, up, gpuVars, image>>

(* The greeted producer left before it answered: recv fails, continue. *)
HelloFails ==
  /\ acc = "hello" /\ ~Alive(serving) /\ up[serving] = <<>>
  /\ acc' = "accept" /\ serving' = None
  /\ UNCHANGED <<consumerVars, producerVars, linkVars, gpuVars, image>>

(* Mutants: the attach check forgets frames in use, or the pending frame. *)
BugOnlyPending(retired) == ~PendingSignalled
BugNotPending(retired)  == ledger # <<>> \/ frameHeld \/ retired < heldReady

(* One critical section: collect finished reads; old storage that is leased,*)
(* held, not retired or still being written refuses the producer.           *)
StorageBusy(retired) ==
  ledger # <<>> \/ frameHeld \/ retired < heldReady \/ ~PendingSignalled

AttachBusy ==
  /\ acc = "hello" /\ up[serving] # <<>>
  /\ \E n \in 0 .. Len(cReleases), w \in Values :
       /\ Advances(cReleases, retiredValue, n, w)
       /\ StorageBusy(w)
       /\ cReleases' = Rest(cReleases, n)
       /\ retiredValue' = w
  /\ Received(serving)
  /\ down' = IF Alive(serving) THEN [down EXCEPT ![serving] = Append(@, Busy)] ELSE down
  /\ acc' = "accept" /\ serving' = None
  /\ UNCHANGED <<ringVars, pendingVars, heldVars, ledger, peerVars, stop, producerVars, gpuVars, image>>

(* Otherwise, in the same critical section, a new timeline starts and the   *)
(* ring is handed over.  The thread goes back to accept when that fails.    *)
AttachRing ==
  /\ acc = "hello" /\ up[serving] # <<>>
  /\ \E n \in 0 .. Len(cReleases), w \in Values :
       Advances(cReleases, retiredValue, n, w) /\ ~StorageBusy(w)
  /\ hasPending' = FALSE
  /\ cReleases' = <<>> /\ heldReady' = 0 /\ retiredValue' = 0
  /\ generation' = generation + 1
  /\ Received(serving)
  /\ IF Alive(serving)
     THEN /\ down' = [down EXCEPT ![serving] = Append(@, RingDesc(generation', geometry))]
          /\ acc' = "handed" /\ UNCHANGED serving
     ELSE /\ acc' = "accept" /\ serving' = None /\ UNCHANGED down
  /\ image' = Blank
  /\ UNCHANGED <<geometry, pendingSlot, pendingReady, frameHeld, heldSlot, ledger,
                 peerVars, stop, producerVars, gpuVars>>

(* peerGone = false, ch->peer = link. *)
Adopt ==
  /\ acc = "handed"
  /\ acc' = "pump"
  /\ peerGone' = FALSE /\ peer' = serving /\ peerConnected' = TRUE
  /\ UNCHANGED <<ringVars, pendingVars, heldVars, retireVars, stop, serving,
                 producerVars, linkVars, gpuVars, image>>

(* Mutant: only the attached producer is polled. *)
BugExtraIgnored(p) == FALSE

(* "A second producer must be told Busy NOW." *)
RefuseExtra(p) ==
  /\ acc = "pump" /\ ~stop
  /\ p # serving /\ pc[p] = "connecting" /\ down[p] = <<>>
  /\ down' = [down EXCEPT ![p] = Append(@, Busy)]
  /\ UNCHANGED <<consumerVars, acceptVars, producerVars, up, gpuVars, image>>

Incoming(type) == acc = "pump" /\ up[serving] # <<>> /\ Head(up[serving]).type = type

(* Mutant: an interrupted poll() ends the session. *)
BugPollInterrupted ==
  /\ acc = "pump"
  /\ peerGone' = TRUE
  /\ acc' = "accept" /\ serving' = None
  /\ UNCHANGED <<ringVars, pendingVars, heldVars, retireVars, peer, peerConnected, stop,
                 producerVars, linkVars, gpuVars, image>>

(* Bye, or a hang-up once everything queued was read: back to accept. *)
PumpEnds ==
  /\ acc = "pump"
  /\ \/ /\ Incoming("Bye")
        /\ Received(serving)
        /\ UNCHANGED peerConnected
     \/ /\ up[serving] = <<>> /\ ~Alive(serving)
        /\ peerConnected' = FALSE
        /\ UNCHANGED up
  /\ peerGone' = TRUE
  /\ acc' = "accept" /\ serving' = None
  /\ UNCHANGED <<ringVars, pendingVars, heldVars, retireVars, peer, stop,
                 producerVars, down, gpuVars, image>>

(* FrameReady: the newest frame replaces one nobody took. *)
PumpFrame ==
  /\ Incoming("FrameReady")
  /\ Received(serving)
  /\ hasPending' = TRUE
  /\ pendingSlot' = Head(up[serving]).slot
  /\ pendingReady' = Head(up[serving]).val
  /\ UNCHANGED <<ringVars, heldVars, retireVars, peerVars, stop, acceptVars,
                 producerVars, down, gpuVars, image>>

(* RequestGeometry.  The reply is always the ring as it then is. *)
ReplyRing == down' = IF Alive(serving)
                     THEN [down EXCEPT ![serving] = Append(@, RingDesc(generation', geometry'))]
                     ELSE down

(* The geometry is the present one: nothing to do. *)
PumpGeometrySame ==
  /\ Incoming("RequestGeometry") /\ Head(up[serving]).geo = geometry
  /\ Received(serving)
  /\ UNCHANGED ringVars
  /\ ReplyRing
  /\ UNCHANGED <<pendingVars, heldVars, retireVars, peerVars, stop, acceptVars,
                 producerVars, gpuVars, image>>

(* Frames of the old ring are in use: refused, old ring confirmed. *)
PumpGeometryRefused ==
  /\ Incoming("RequestGeometry") /\ Head(up[serving]).geo # geometry
  /\ \E n \in 0 .. Len(cReleases), w \in Values :
       /\ Advances(cReleases, retiredValue, n, w)
       /\ ledger # <<>> \/ frameHeld \/ w < heldReady
       /\ cReleases' = Rest(cReleases, n)
       /\ retiredValue' = w
  /\ Received(serving)
  /\ UNCHANGED ringVars
  /\ ReplyRing
  /\ UNCHANGED <<pendingVars, heldVars, ledger, peerVars, stop, acceptVars,
                 producerVars, gpuVars, image>>

(* The old ring is idle: the pending frame is dropped, then the ring is     *)
(* reallocated and a new timeline starts; if the allocation fails the old   *)
(* ring stays.                                                              *)
PumpGeometryRealloc ==
  /\ Incoming("RequestGeometry") /\ Head(up[serving]).geo # geometry
  /\ \E n \in 0 .. Len(cReleases), w \in Values :
       /\ Advances(cReleases, retiredValue, n, w)
       /\ ledger = <<>> /\ ~frameHeld /\ w >= heldReady
       /\ \/ /\ generation' = generation + 1 /\ geometry' = Head(up[serving]).geo
             /\ heldReady' = 0 /\ retiredValue' = 0 /\ cReleases' = <<>>
             /\ image' = Blank
          \/ /\ AllocMayFail
             /\ retiredValue' = w /\ cReleases' = Rest(cReleases, n)
             /\ UNCHANGED <<ringVars, heldReady, image>>
  /\ hasPending' = FALSE
  /\ Received(serving)
  /\ ReplyRing
  /\ UNCHANGED <<pendingSlot, pendingReady, frameHeld, heldSlot, ledger, peerVars, stop,
                 acceptVars, producerVars, gpuVars>>

(* Mutant: stop is looked at only when no producer is attached. *)
BugEndsOnlyWhenIdle ==
  /\ stop /\ acc = "accept"
  /\ acc' = "ended"
  /\ UNCHANGED <<consumerVars, serving, producerVars, linkVars, gpuVars, image>>

(* flClose woke the thread: it checks stop after accept() and after poll(). *)
AcceptEnds ==
  /\ stop /\ acc \in {"accept", "pump"}
  /\ acc' = "ended"
  /\ UNCHANGED <<consumerVars, serving, producerVars, linkVars, gpuVars, image>>

-----------------------------------------------------------------------------
(* The consumer's calling thread. *)

AcquireFrame ==
  /\ ~stop
  /\ hasPending /\ ~frameHeld
  /\ GpuSync \/ PendingSignalled
  /\ frameHeld' = TRUE /\ heldSlot' = pendingSlot /\ heldReady' = pendingReady
  /\ hasPending' = FALSE
  /\ reads' = reads \union {[slot |-> pendingSlot, val |-> pendingReady]}
  /\ UNCHANGED <<ringVars, pendingSlot, pendingReady, retireVars, peerVars, stop,
                 acceptVars, producerVars, linkVars, written, image>>

HeldRead == [slot |-> heldSlot, val |-> heldReady]

(* A read handed over to a fence that the producer will wait for. *)
Covered(x) == \E i \in 1 .. Len(cReleases) : cReleases[i].fence /\ x.val <= cReleases[i].val

(* flReleaseSyncFd, and flRelease of a default channel (no fence).  Without *)
(* a fence the caller has finished reading this and every earlier frame     *)
(* that it did not hand over to a fence.                                    *)
ReleaseSyncFd(fence) ==
  /\ ~stop /\ ~Leases
  /\ ledger = <<>> /\ frameHeld
  /\ fence \/ (Drawn(heldReady) /\ \A x \in reads \ {HeldRead} : Covered(x))
  /\ reads' = IF fence THEN reads ELSE reads \ {HeldRead}
  /\ LET q == Append(cReleases, FrameReleased(heldReady, fence))
     IN  \E n \in 0 .. Len(q), w \in Values :
           /\ Advances(q, retiredValue, n, w)
           /\ cReleases' = Rest(q, n)
           /\ retiredValue' = w
  /\ frameHeld' = FALSE
  /\ SendPeer(FrameReleased(heldReady, fence))
  /\ UNCHANGED <<ringVars, pendingVars, heldSlot, heldReady, ledger, peer, peerGone, stop,
                 acceptVars, producerVars, up, written, image>>

(* flRelease of a GPU_SYNC or DEFER_RELEASE channel is bookkeeping. *)
ReleaseDeferred ==
  /\ ~stop /\ ~Leases
  /\ GpuSync \/ Defer
  /\ ledger = <<>> /\ frameHeld
  /\ frameHeld' = FALSE
  /\ UNCHANGED <<ringVars, pendingVars, heldSlot, heldReady, retireVars, peerVars, stop,
                 acceptVars, producerVars, linkVars, gpuVars, image>>

(* flSignalConsumedSyncFd: a monotonic watermark over the acquired frames.  *)
(* Without a fence the caller has finished every read up to it.             *)
SignalConsumed(v, fence) ==
  /\ ~stop /\ ~Leases
  /\ GpuSync \/ Defer
  /\ ledger = <<>> /\ v <= heldReady
  /\ fence \/ Drawn(v)
  /\ v > retiredValue /\ \A i \in 1 .. Len(cReleases) : v > cReleases[i].val
  /\ reads' = IF fence THEN reads ELSE {x \in reads : x.val > v}
  /\ LET q == Append(cReleases, FrameReleased(v, fence))
     IN  \E n \in 0 .. Len(q), w \in Values :
           /\ Advances(q, retiredValue, n, w)
           /\ cReleases' = Rest(q, n)
           /\ retiredValue' = w
  /\ SendPeer(FrameReleased(v, fence))
  /\ UNCHANGED <<ringVars, pendingVars, heldVars, ledger, peer, peerGone, stop,
                 acceptVars, producerVars, up, written, image>>

(* Read leases (fl_read_api.inc); the ledger itself is module ReadLedger.   *)
(* A frame has live tokens, tokens handed to a fence that is not signalled  *)
(* (gpu), and tokens whose fence signalled but was not polled yet (done).   *)
Readers == LET f[i \in 0 .. Len(ledger)] ==
                 IF i = 0 THEN 0
                 ELSE f[i - 1] + ledger[i].live + ledger[i].gpu + ledger[i].done
           IN  f[Len(ledger)]

(* ReadLedger::acquire accepts the held frame. *)
Leasable ==
  /\ \A i \in 1 .. Len(ledger) : ledger[i].slot # heldSlot /\ ledger[i].val < heldReady

LeaseFrame ==
  /\ ~stop /\ Leases
  /\ frameHeld /\ Leasable /\ Readers < MaxReaders
  /\ frameHeld' = FALSE
  /\ ledger' = Append(ledger, [slot |-> heldSlot, val |-> heldReady,
                               live |-> 1, gpu |-> 0, done |-> 0])
  /\ UNCHANGED <<ringVars, pendingVars, heldSlot, heldReady, retiredValue, cReleases,
                 peerVars, stop, acceptVars, producerVars, linkVars, gpuVars, image>>

ledgerOnly == <<ringVars, pendingVars, heldVars, retiredValue, cReleases, peerVars, stop,
                acceptVars, producerVars, linkVars, written, image>>

RetainReadLease(i) ==
  /\ ~stop /\ ledger[i].live > 0 /\ Readers < MaxReaders
  /\ ledger' = [ledger EXCEPT ![i].live = @ + 1]
  /\ UNCHANGED <<ledgerOnly, reads>>

(* The read of the i-th leased frame ends with its last reader. *)
ReadsAfter(i, left) ==
  IF left = 0 THEN reads \ {[slot |-> ledger[i].slot, val |-> ledger[i].val]} ELSE reads

CompleteReadLease(i) ==
  /\ ~stop /\ ledger[i].live > 0
  /\ ledger' = [ledger EXCEPT ![i].live = @ - 1]
  /\ reads' = ReadsAfter(i, ledger[i].live - 1 + ledger[i].gpu)
  /\ UNCHANGED ledgerOnly

CompleteReadLeaseSyncFd(i) ==
  /\ ~stop /\ ledger[i].live > 0
  /\ ledger' = [ledger EXCEPT ![i].live = @ - 1, ![i].gpu = @ + 1]
  /\ UNCHANGED <<ledgerOnly, reads>>

(* The fence of a deferred reader signals. *)
GpuLeaseDone(i) ==
  /\ ledger[i].gpu > 0
  /\ ledger' = [ledger EXCEPT ![i].gpu = @ - 1, ![i].done = @ + 1]
  /\ reads' = ReadsAfter(i, ledger[i].live + ledger[i].gpu - 1)
  /\ UNCHANGED ledgerOnly

(* flCollectReadLeases: poll the fences, then publish the finished prefix   *)
(* of n frames.  A failed send leaves the retirement to the next call.      *)

Finished(f) == f.live + f.gpu = 0
CollectReadLeases ==
  /\ ~stop /\ ledger # <<>>
  /\ LET polled == [i \in 1 .. Len(ledger) |-> [ledger[i] EXCEPT !.done = 0]]
     IN  \E n \in 0 .. Len(ledger) :
           /\ \A i \in 1 .. n : Finished(ledger[i])
           /\ n < Len(ledger) => ~Finished(ledger[n + 1])
           /\ IF n = 0
              THEN ledger' = polled /\ UNCHANGED <<retiredValue, peerConnected, down>>
              ELSE /\ SendPeer(FrameReleased(ledger[n].val, FALSE))
                   /\ IF peerConnected /\ ~Alive(peer)
                      THEN ledger' = polled /\ UNCHANGED retiredValue
                      ELSE ledger' = Rest(polled, n) /\ retiredValue' = ledger[n].val
  /\ UNCHANGED <<ringVars, pendingVars, heldVars, cReleases, peer, peerGone, stop,
                 acceptVars, producerVars, up, gpuVars, image>>

(* flClose of the consumer; its contract: all leases are collected first.   *)
CloseConsumer ==
  /\ ~stop /\ ledger = <<>>
  /\ stop' = TRUE
  /\ UNCHANGED <<ringVars, pendingVars, heldVars, retireVars, peerVars, acceptVars,
                 producerVars, linkVars, gpuVars, image>>

-----------------------------------------------------------------------------
(* The GPU: a submitted write completes, a read of a released frame ends.   *)
Announced(p) == IF submittingSlot[p] = NoSlot THEN readyValue[p] ELSE readyValue[p] - 1

GpuWriteDone(p) ==
  /\ written[p] < Announced(p)
  /\ written' = [written EXCEPT ![p] = @ + 1]
  /\ UNCHANGED <<consumerVars, acceptVars, producerVars, linkVars, reads, image>>

GpuReadDone(x) ==
  /\ ~Leases /\ ~(frameHeld /\ x.val = heldReady) /\ Drawn(x.val)
  /\ reads' = reads \ {x}
  /\ UNCHANGED <<consumerVars, acceptVars, producerVars, linkVars, written, image>>

-----------------------------------------------------------------------------
(* A producer's calling thread. *)

(* flOpenProducer reaches the listener.  A handle that left is opened again *)
(* only once the consumer no longer refers to its old link.                 *)
Connect(p) ==
  /\ acc # "ended" /\ generation < MaxGen
  /\ pc[p] = "new" \/ (pc[p] = "gone" /\ p # peer /\ p # serving)
  /\ pc' = [pc EXCEPT ![p] = "connecting"]
  /\ up' = [up EXCEPT ![p] = <<>>]
  /\ UNCHANGED <<consumerVars, acceptVars, pGeneration, slotVars, bufferRefs, down, gpuVars, image>>

Arrived(p, type) == down[p] # <<>> /\ Head(down[p]).type = type

OpenGreeted(p) ==
  /\ pc[p] = "connecting" /\ Arrived(p, "Hello")
  /\ pc' = [pc EXCEPT ![p] = "greeted"]
  /\ Taken(p)
  /\ up' = [up EXCEPT ![p] = Append(@, Hello)]
  /\ UNCHANGED <<consumerVars, acceptVars, pGeneration, slotVars, bufferRefs, gpuVars, image>>

OpenBusy(p) ==
  /\ pc[p] \in {"connecting", "greeted"} /\ Arrived(p, "Busy")
  /\ pc' = [pc EXCEPT ![p] = "new"]
  /\ Taken(p)
  /\ UNCHANGED <<consumerVars, acceptVars, pGeneration, slotVars, bufferRefs, up, gpuVars, image>>

(* importRing: every slot is free, the timeline starts over. *)
ImportRing(p, m) ==
  /\ pGeneration' = [pGeneration EXCEPT ![p] = m.gen]
  /\ slotSubmitValue' = [slotSubmitValue EXCEPT ![p] = [s \in Slots |-> 0]]
  /\ consumedValue' = [consumedValue EXCEPT ![p] = 0]
  /\ readyValue' = [readyValue EXCEPT ![p] = 0]
  /\ written' = [written EXCEPT ![p] = 0]
  /\ pReleases' = [pReleases EXCEPT ![p] = <<>>]

OpenRing(p) ==
  /\ pc[p] = "greeted" /\ Arrived(p, "RingDesc")
  /\ pc' = [pc EXCEPT ![p] = "idle"]
  /\ Taken(p)
  /\ ImportRing(p, Head(down[p]))
  /\ submittingSlot' = [submittingSlot EXCEPT ![p] = NoSlot]
  /\ UNCHANGED <<consumerVars, acceptVars, bufferRefs, up, reads, image>>

(* Mutant: off by one in the test of a free slot. *)
BugFreeTooLate(p, s, consumed) ==
  slotSubmitValue[p][s] < consumed /\ bufferRefs[p][s] = 0

(* flAcquireBuffer: drain the queued releases, advance, reserve the first   *)
(* slot whose last submission is consumed and that has no local reference.  *)
Free(p, s, consumed) == slotSubmitValue[p][s] <= consumed /\ bufferRefs[p][s] = 0

AcquireBuffer(p) ==
  /\ pc[p] = "idle"
  /\ LET q == pReleases[p] \o down[p]
     IN  \E n \in 0 .. Len(q), w \in Values :
           /\ Advances(q, consumedValue[p], n, w)
           /\ pReleases' = [pReleases EXCEPT ![p] = Rest(q, n)]
           /\ consumedValue' = [consumedValue EXCEPT ![p] = w]
           /\ \/ \E s \in Slots :
                   /\ Free(p, s, w)
                   /\ \A t \in Slots : t < s => ~Free(p, t, w)
                   /\ slotSubmitValue' = [slotSubmitValue EXCEPT ![p][s] = Reserved]
                   /\ image' = [image EXCEPT ![s] = 0]
              \/ /\ \A s \in Slots : ~Free(p, s, w)
                 /\ UNCHANGED <<slotSubmitValue, image>>
  /\ down' = [down EXCEPT ![p] = <<>>]
  /\ UNCHANGED <<consumerVars, acceptVars, pc, pGeneration, readyValue, submittingSlot,
                 bufferRefs, up, gpuVars>>

slotOnly == <<consumerVars, acceptVars, pc, pGeneration, consumedValue, pReleases,
              bufferRefs, down, reads>>

CancelBuffer(p, s) ==
  /\ pc[p] = "idle" /\ slotSubmitValue[p][s] = Reserved /\ submittingSlot[p] # s
  /\ slotSubmitValue' = [slotSubmitValue EXCEPT ![p][s] = 0]
  /\ UNCHANGED <<slotOnly, readyValue, submittingSlot, up, written, image>>

BeginSubmit(p, s) ==
  /\ pc[p] = "idle" /\ slotSubmitValue[p][s] = Reserved
  /\ submittingSlot[p] = NoSlot /\ readyValue[p] < MaxValue
  /\ submittingSlot' = [submittingSlot EXCEPT ![p] = s]
  /\ readyValue' = [readyValue EXCEPT ![p] = @ + 1]
  /\ UNCHANGED <<slotOnly, slotSubmitValue, up, written, image>>

(* flEndSubmit and the tail of flSubmitSyncFd.  Without a fence the writes  *)
(* are complete.                                                            *)
EndSubmit(p, fence) ==
  /\ pc[p] = "idle" /\ submittingSlot[p] # NoSlot
  /\ slotSubmitValue' = [slotSubmitValue EXCEPT ![p][submittingSlot[p]] = readyValue[p]]
  /\ submittingSlot' = [submittingSlot EXCEPT ![p] = NoSlot]
  /\ up' = [up EXCEPT ![p] = Append(@, FrameReady(submittingSlot[p], readyValue[p]))]
  /\ written' = IF fence THEN written ELSE [written EXCEPT ![p] = readyValue[p]]
  /\ image' = [image EXCEPT ![submittingSlot[p]] = readyValue[p]]
  /\ UNCHANGED <<slotOnly, readyValue>>

RetainBufferReference(p, s) ==
  /\ pc[p] = "idle" /\ slotSubmitValue[p][s] = Reserved /\ bufferRefs[p][s] < MaxRefs
  /\ bufferRefs' = [bufferRefs EXCEPT ![p][s] = @ + 1]
  /\ UNCHANGED <<consumerVars, acceptVars, pc, pGeneration, slotVars, linkVars, gpuVars, image>>

(* Any thread, at any time. *)
ReleaseBufferReference(p, s) ==
  /\ Attached(p) /\ bufferRefs[p][s] > 0
  /\ bufferRefs' = [bufferRefs EXCEPT ![p][s] = @ - 1]
  /\ UNCHANGED <<consumerVars, acceptVars, pc, pGeneration, slotVars, linkVars, gpuVars, image>>

(* flRequestGeometry: refused while a buffer is reserved or referenced.     *)
SendRequestGeometry(p, w) ==
  /\ pc[p] = "idle" /\ generation < MaxGen
  /\ \A s \in Slots : bufferRefs[p][s] = 0 /\ slotSubmitValue[p][s] # Reserved
  /\ pc' = [pc EXCEPT ![p] = "geometry"]
  /\ up' = [up EXCEPT ![p] = Append(@, RequestGeometry(w))]
  /\ UNCHANGED <<consumerVars, acceptVars, pGeneration, slotVars, bufferRefs, down, gpuVars, image>>

(* Its receive loop applies releases inline ... *)
GeometryRelease(p) ==
  /\ pc[p] = "geometry" /\ Arrived(p, "FrameReleased")
  /\ LET q == Append(pReleases[p], Head(down[p]))
     IN  \E n \in 0 .. Len(q), w \in Values :
           /\ Advances(q, consumedValue[p], n, w)
           /\ pReleases' = [pReleases EXCEPT ![p] = Rest(q, n)]
           /\ consumedValue' = [consumedValue EXCEPT ![p] = w]
  /\ Taken(p)
  /\ UNCHANGED <<consumerVars, acceptVars, pc, pGeneration, slotSubmitValue, readyValue,
                 submittingSlot, bufferRefs, up, gpuVars, image>>

(* ... until the ring arrives: the old one keeps slot ownership, a new one  *)
(* is imported.                                                             *)
GeometryReply(p) ==
  /\ pc[p] = "geometry" /\ Arrived(p, "RingDesc")
  /\ pc' = [pc EXCEPT ![p] = "idle"]
  /\ Taken(p)
  /\ IF Head(down[p]).gen = pGeneration[p]
     THEN UNCHANGED <<pGeneration, slotSubmitValue, consumedValue, readyValue, written, pReleases>>
     ELSE ImportRing(p, Head(down[p]))
  /\ UNCHANGED <<consumerVars, acceptVars, submittingSlot, bufferRefs, up, reads, image>>

(* flClose of a producer says Bye; a crash, or a consumer that closed, does *)
(* not.  The kernel may drop what the peer has not read yet when the        *)
(* process leaves with unread messages of its own.  Its handle is forgotten,*)
(* the values its GPU work still has to signal are not.                     *)
Leave(p) ==
  /\ Alive(p)
  /\ pc' = [pc EXCEPT ![p] = "gone"]
  /\ down' = [down EXCEPT ![p] = <<>>]
  /\ \/ pc[p] = "idle" /\ up' = [up EXCEPT ![p] = Append(@, Bye)]
     \/ UNCHANGED up
     \/ down[p] # <<>> /\ up' = [up EXCEPT ![p] = <<>>]
  /\ pGeneration' = [pGeneration EXCEPT ![p] = 0]
  /\ slotSubmitValue' = [slotSubmitValue EXCEPT ![p] = [s \in Slots |-> 0]]
  /\ consumedValue' = [consumedValue EXCEPT ![p] = 0]
  /\ pReleases' = [pReleases EXCEPT ![p] = <<>>]
  /\ bufferRefs' = [bufferRefs EXCEPT ![p] = [s \in Slots |-> 0]]
  /\ UNCHANGED <<consumerVars, acceptVars, readyValue, submittingSlot, gpuVars, image>>

-----------------------------------------------------------------------------
AcceptThread ==
  \/ \E p \in Producers : Accept(p) \/ RefuseExtra(p)
  \/ HelloFails \/ AttachBusy \/ AttachRing \/ Adopt
  \/ PumpEnds \/ PumpFrame
  \/ PumpGeometrySame \/ PumpGeometryRefused \/ PumpGeometryRealloc
  \/ AcceptEnds

LeaseStep ==
  \/ LeaseFrame \/ CollectReadLeases
  \/ \E i \in 1 .. Len(ledger) :
       RetainReadLease(i) \/ CompleteReadLease(i) \/ CompleteReadLeaseSyncFd(i)

Consumer ==
  \/ AcquireFrame
  \/ \E f \in Fences : ReleaseSyncFd(f)
  \/ ReleaseDeferred
  \/ \E v \in Values, f \in Fences : SignalConsumed(v, f)
  \/ LeaseStep
  \/ CloseConsumer

Gpu ==
  \/ \E p \in Producers : GpuWriteDone(p)
  \/ \E x \in reads : GpuReadDone(x)
  \/ \E i \in 1 .. Len(ledger) : GpuLeaseDone(i)

Producer(p) ==
  \/ Connect(p) \/ OpenGreeted(p) \/ OpenBusy(p) \/ OpenRing(p)
  \/ AcquireBuffer(p)
  \/ \E s \in Slots : CancelBuffer(p, s) \/ BeginSubmit(p, s)
  \/ \E f \in Fences : EndSubmit(p, f)
  \/ \E s \in Slots : RetainBufferReference(p, s) \/ ReleaseBufferReference(p, s)
  \/ \E w \in Geometries : SendRequestGeometry(p, w)
  \/ GeometryRelease(p) \/ GeometryReply(p)
  \/ Leave(p)

Next == AcceptThread \/ Consumer \/ Gpu \/ \E p \in Producers : Producer(p)

Spec == Init /\ [][Next]_vars

-----------------------------------------------------------------------------
(* Types, one part for each group of variables. *)
RingTypes    == generation \in Nat /\ geometry \in Geometries
PendingTypes == hasPending \in BOOLEAN /\ pendingSlot \in Slots /\ pendingReady \in Values
HeldTypes    == frameHeld \in BOOLEAN /\ heldSlot \in Slots /\ heldReady \in Values
RetireTypes  ==
  retiredValue \in Values /\ cReleases \in Seq(ReleaseMessage) /\ ledger \in Seq(LeasedFrame)
PeerTypes ==
  /\ peer \in Producers \union {None}
  /\ peerConnected \in BOOLEAN /\ peerGone \in BOOLEAN /\ stop \in BOOLEAN
AcceptTypes ==
  /\ acc \in {"accept", "hello", "handed", "pump", "ended"}
  /\ serving \in Producers \union {None}
SlotTypes ==
  /\ slotSubmitValue \in [Producers -> [Slots -> 0 .. Reserved]]
  /\ consumedValue \in [Producers -> Values]
  /\ readyValue \in [Producers -> Values]
  /\ submittingSlot \in [Producers -> 0 .. NoSlot]
  /\ pReleases \in [Producers -> Seq(ReleaseMessage)]
ProducerTypes ==
  /\ pc \in [Producers -> {"new", "connecting", "greeted", "idle", "geometry", "gone"}]
  /\ pGeneration \in [Producers -> Nat]
  /\ bufferRefs \in [Producers -> [Slots -> Nat]]
LinkTypes  == up \in [Producers -> Seq(UpMessage)] /\ down \in [Producers -> Seq(DownMessage)]
GpuTypes   == written \in [Producers -> Values] /\ reads \in SUBSET Read
ImageTypes == image \in [Slots -> Values]

TypeOK ==
  /\ RingTypes /\ PendingTypes /\ HeldTypes /\ RetireTypes /\ PeerTypes /\ AcceptTypes
  /\ SlotTypes /\ ProducerTypes /\ LinkTypes /\ GpuTypes /\ ImageTypes

-----------------------------------------------------------------------------
(* Safety. *)

(* The central promise of the ring: no producer may draw into a slot whose  *)
(* contents the consumer, or a GPU on its behalf, is still reading          *)
(* ("the producer would overwrite a frame mid-read", framelink.h).          *)
NoOverwrite == \A x \in reads : image[x.slot] = x.val

(* The frame that the next flAcquireFrame will return is still the one that *)
(* was announced: its slot was not reserved or submitted again behind the   *)
(* consumer's back, however releases and announcements crossed on the link. *)
PendingIntact == hasPending => image[pendingSlot] = pendingReady

(* One channel, one producer: at most one handle holds the ring, and the    *)
(* accept thread serves it.                                                 *)
OneProducer ==
  \A p \in Producers : Attached(p) => acc \in {"handed", "pump", "ended"} /\ p = serving

(* "Old release values must never authorize reuse on the replacement        *)
(* timeline": what a producer has consumed, or has queued, never exceeds    *)
(* what it submitted on its own timeline.                                   *)
ReleasesOnOwnTimeline ==
  \A p \in Producers : pc[p] = "idle" =>
    /\ consumedValue[p] <= readyValue[p]
    /\ \A i \in 1 .. Len(pReleases[p]) : pReleases[p][i].val <= readyValue[p]
    /\ \A i \in 1 .. Len(down[p]) :
         down[p][i].type = "FrameReleased" /\ down[p][i].val <= readyValue[p]

(* A timeline starts over only when no read of the old one is outstanding,  *)
(* although the two events come from different threads and processes.       *)
NewTimelineOnlyWhenQuiet == [][generation' # generation => reads = {}]_vars

(* A producer is given the ring only when the GPU has finished every frame  *)
(* of the previous one that is taken or pending, so that nothing is read    *)
(* while it is still drawn.                                                 *)
ReattachAfterWrites ==
  [][generation' # generation /\ acc = "hello" =>
       PendingSignalled /\ (heldReady > 0 => Drawn(heldReady))]_vars

(* flLeaseFrame never refuses a held frame for its slot or its value: the   *)
(* producer cannot have been given a slot that a lease still pins.          *)
HeldFrameLeasable == Leases /\ frameHeld => Leasable

(* While frames are leased, the newest acquired frame is not retired.  The  *)
(* Android backend relies on it: its RequestGeometry check does not look at *)
(* the ledger (framelink_android.cpp:370), the Linux one does.              *)
LeasedMeansUnretired == ledger # <<>> => retiredValue < heldReady

(* A default channel refuses a producer only while storage is really in     *)
(* use: once nothing is held, read or written, FL_BUSY cannot be returned.  *)
BusyHasCause ==
  ~GpuSync /\ ~Defer /\ ~frameHeld /\ reads = {} /\ ~hasPending =>
    \/ retiredValue = heldReady
    \/ cReleases # <<>> /\ cReleases[Len(cReleases)].val = heldReady

(* In every mode of fences and leases no image is overwritten while it waits *)
(* to be read or is read, and no release of an earlier timeline reaches a   *)
(* producer (framelink_linux.cpp, framelink_android.cpp).                   *)
PosixIntact == TypeOK /\ NoOverwrite /\ PendingIntact /\ ReleasesOnOwnTimeline

(* At most one producer holds the ring, and it is refused only while        *)
(* storage is in use (framelink_linux.cpp:321-386).                         *)
HandedOutWell == OneProducer /\ BusyHasCause

(* The frame in hand can always be leased, and a leased frame is not        *)
(* retired (fl_read_api.inc, framelink_android.cpp:370).                    *)
LeasesHold == HeldFrameLeasable /\ LeasedMeansUnretired

(* A timeline starts over, and a ring changes hands, only when no read is   *)
(* outstanding and every write the next producer could meet has ended       *)
(* (framelink_linux.cpp:321-386).                                           *)
QuietHandover == NewTimelineOnlyWhenQuiet /\ ReattachAfterWrites

-----------------------------------------------------------------------------
(* The channel implements the abstract ring of module FrameRing. *)
Drawing == {s \in Slots : \E p \in Producers : Attached(p) /\ slotSubmitValue[p][s] = Reserved}

Ring == INSTANCE FrameRing WITH drawing <- Drawing, reading <- reads, taken <- heldReady

(* Whatever the threads, the link and the GPU do, the consumer takes        *)
(* complete frames in increasing order and reads each undisturbed, and the  *)
(* ring changes hands only between reads.                                   *)
ImplementsFrameRing == Ring!Spec

-----------------------------------------------------------------------------
(* Liveness.  acceptLoop looks at the peer and at the listener in every     *)
(* round, and the listener's backlog is a queue: a waiting connection is    *)
(* eventually taken.  The consumer's thread goes on taking frames and       *)
(* releasing them, or completing and collecting their leases; a producer    *)
(* waits for the answer to what it sent and goes on asking for buffers.     *)
Serve ==
  \/ HelloFails \/ AttachBusy \/ AttachRing \/ Adopt
  \/ PumpEnds \/ PumpFrame
  \/ PumpGeometrySame \/ PumpGeometryRefused \/ PumpGeometryRealloc

Consume ==
  \/ AcquireFrame \/ ReleaseSyncFd(FALSE)
  \/ LeaseFrame \/ CollectReadLeases
  \/ \E i \in 1 .. Len(ledger) : CompleteReadLease(i)

Answered(p) ==
  \/ OpenGreeted(p) \/ OpenBusy(p) \/ OpenRing(p)
  \/ GeometryRelease(p) \/ GeometryReply(p)
  \/ AcquireBuffer(p)

LiveSpec ==
  /\ Spec
  /\ WF_vars(Serve) /\ WF_vars(AcceptEnds) /\ WF_vars(Consume) /\ WF_vars(Gpu)
  /\ \A p \in Producers : SF_vars(Accept(p) \/ RefuseExtra(p)) /\ WF_vars(Answered(p))

(* A producer that keeps asking gets a buffer: "a slow consumer must not    *)
(* stall the producer" (framelink_linux.cpp:392).                           *)
ProducerNotStarved ==
  \A p \in Producers :
    pc[p] = "idle" ~> \/ \E s \in Slots : slotSubmitValue[p][s] = Reserved
                     \/ pc[p] # "idle" \/ stop

(* flOpenProducer is answered, with the ring or with Busy, while another    *)
(* producer is attached too: "an idle producer would leave the walker       *)
(* blocked indefinitely otherwise" (framelink_linux.cpp:347).               *)
OpenAnswered ==
  \A p \in Producers :
    pc[p] \in {"connecting", "greeted"} ~> pc[p] \notin {"connecting", "greeted"} \/ stop

(* After a producer left, its last frames are eventually retired and the    *)
(* ring can be given to the next one.                                       *)
RingRecovers == acc = "accept" ~> acc # "accept" \/ stop \/ ~StorageBusy(retiredValue)

(* flClose of the consumer returns: it joins the accept thread.             *)
CloseReturns == stop ~> acc = "ended"
=============================================================================
