----------------------------- MODULE VideoPlain -----------------------------
(***************************************************************************)
(* The video elements outside a coordinated session                        *)
(* (src/gst/gstframelink.cpp): framelinksink dials its consumer, once a    *)
(* second, and drops frames until it is there; framelinksrc owns the ring, *)
(* which a producer may join, leave and resize.  Or both adopt the ends of *)
(* a channel a broker opened (Delegated), and never dial.                  *)
(*                                                                         *)
(* The ring is one record: attaching a producer and honouring a geometry   *)
(* request each start a new generation, neither while a frame is held.     *)
(* Its slots are counted, not named (PosixChannel has them); pixels are    *)
(* left out, a frame is its identity and the geometry it was written with. *)
(***************************************************************************)
EXTENDS Naturals, Sequences

CONSTANTS
  Sizes,          \* geometries a stream can have
  Pool,           \* images of the ring
  Delegated,      \* are the channel ends adopted?
  Policy,         \* may an authenticated memory policy be applied after adoption?
  ConnectTimeout, \* is connect-timeout-ms set: connect before streaming?
  Metadata,       \* preserve-frame-metadata (else preserve-timestamps)
  ErrorOnFull,    \* error-on-ring-full
  D3D11,          \* the Windows build, which repacks NV12 planes
  Discards,       \* does a pause discard what create() returned?
  Faults,         \* may maps, copies, submissions and negotiations fail?
  MaxFrames,      \* bound: frames submitted to one ring
  MaxStarts,      \* bound: starts of the source
  MaxRing,        \* bound: generations of the ring
  MaxStream       \* the last stream generation (2^64 - 1 in the code)

PlainAssumption ==
  /\ {Pool, MaxFrames, MaxStarts, MaxRing, MaxStream} \subseteq Nat \ {0}
  /\ {Delegated, Policy, ConnectTimeout, Metadata, ErrorOnFull, D3D11, Discards, Faults} \subseteq BOOLEAN
  /\ Policy => Delegated
  /\ Delegated => MaxRing > 1
  /\ Sizes \subseteq Nat \ {0} /\ Sizes # {}

VARIABLES
  sink,       \* "null", "connecting", "started", "failed", "ended"
  ch,         \* the consumer's start the sink's channel belongs to, 0: no channel
  cinfo,      \* geometry of the ring, as the sink last queried it
  vinfo,      \* geometry of the stream's caps, 0: none yet
  mayDial,    \* is nextConnectUs past?
  stream,     \* streamGeneration of the sink
  pts,        \* timestamp of the last frame submitted
  unaccounted,\* received - submitted - dropped, since the sink was started
  agreed,     \* memoryPoolGeneration, 0: no policy
  src,        \* "null", "adopted", "running", "reading", "failed"
  starts,     \* starts of the source so far
  ring,       \* the consumer's ring
  held,       \* the frame create() has acquired
  known,      \* generation of the ring the source last saw
  caps,       \* geometry negotiated downstream
  last,       \* timestamp state: the last frame stamped, or NoFrame
  out         \* the two buffers pushed last, each with what was discarded after it

sinkVars == <<sink, ch, cinfo, vinfo, mayDial, stream, pts, unaccounted, agreed>>
srcVars  == <<src, starts, held, known, caps, last, out>>
vars     == <<sinkVars, srcVars, ring>>

NoFrame == [seq |-> 0, pts |-> 0, stream |-> 0, ring |-> 0, size |-> 0]

Width == CHOOSE s \in Sizes : TRUE   \* the geometry the source is configured with

NoRing == [gen |-> 0, size |-> 0, seq |-> 0, retired |-> 0, pending |-> NoFrame]

NewRing(gen) == [gen |-> gen, size |-> Width, seq |-> 0, retired |-> 0, pending |-> NoFrame]

Init ==
  /\ sink = "null" /\ ch = 0 /\ cinfo = 0 /\ vinfo = 0 /\ mayDial = TRUE /\ stream = 0 /\ pts = 0
  /\ unaccounted = 0 /\ agreed = 0
  /\ src = "null" /\ starts = 0 /\ held = NoFrame /\ known = 0 /\ caps = 0 /\ last = NoFrame
  /\ out = <<>> /\ ring = NoRing

Open     == src # "null"
Attached == ch # 0 /\ ch = starts /\ Open

-----------------------------------------------------------------------------
(* The ring, external to the elements: the consumer's library thread gives   *)
(* a producer, or a new geometry, a generation of its own.  A held frame     *)
(* refuses both, and frames still pending are dropped.                       *)
Renewed(r) == [r EXCEPT !.gen = @ + 1, !.pending = NoFrame, !.retired = r.seq]

Resized(r, size) ==
  IF size = r.size \/ held # NoFrame \/ r.gen = MaxRing THEN r ELSE [Renewed(r) EXCEPT !.size = size]

Release == [ring EXCEPT !.retired = held.seq]

Full == ring.seq - ring.retired >= Pool

-----------------------------------------------------------------------------
(* The sink's channel. *)

(* A broker opens a channel and both elements adopt their ends in NULL; a    *)
(* policy may then fix the generation of the pool, for good.                 *)
Adopt ==
  /\ Delegated /\ sink = "null" /\ src = "null" /\ ch = 0 /\ agreed = 0 /\ starts < MaxStarts
  /\ starts' = starts + 1 /\ ch' = starts' /\ src' = "adopted"
  /\ ring' = Renewed(NewRing(1)) /\ cinfo' = Width
  /\ agreed' \in IF Policy THEN {0, ring'.gen} ELSE {0}
  /\ UNCHANGED <<sink, vinfo, mayDial, stream, pts, unaccounted, held, known, caps, last, out>>

(* sinkTryConnect, at most once a second and never for an adopted channel:   *)
(* attach, ask for the geometry of the caps, and query what was granted.     *)
DialOk ==
  /\ ch = 0 /\ ~Delegated /\ mayDial /\ Open /\ held = NoFrame /\ ring.gen < MaxRing
  /\ ch' = starts /\ mayDial' = FALSE
  /\ ring' = IF vinfo = 0 THEN Renewed(ring) ELSE Resized(Renewed(ring), vinfo)
  /\ cinfo' = ring'.size

(* No consumer (not found), or one that holds a frame (busy). *)
DialFails ==
  /\ ch = 0 /\ ~Delegated /\ mayDial /\ (~Open \/ held # NoFrame \/ ring.gen = MaxRing)
  /\ mayDial' = FALSE /\ UNCHANGED <<ch, cinfo, ring>>

Second == ~mayDial /\ sink \in {"connecting", "started"} /\ mayDial' = TRUE
          /\ UNCHANGED <<sink, ch, cinfo, vinfo, stream, pts, unaccounted, agreed, srcVars, ring>>

Disconnect == ch' = 0

-----------------------------------------------------------------------------
(* Starting and stopping the sink. *)

(* An adopted channel must be there, in the generation agreed on; with       *)
(* connect-timeout-ms the previous stream's caps are forgotten and the       *)
(* connection made first; otherwise streaming starts at once.                *)
SinkStart ==
  /\ sink = "null"
  /\ IF Delegated
       THEN /\ ch # 0 /\ (agreed = 0 \/ ring.gen = agreed)
            /\ sink' = "started" /\ UNCHANGED <<vinfo, mayDial>>
       ELSE IF ConnectTimeout THEN sink' = "connecting" /\ vinfo' = 0 /\ mayDial' = TRUE
                              ELSE sink' = "started" /\ UNCHANGED <<vinfo, mayDial>>
  /\ unaccounted' = 0 /\ UNCHANGED <<ch, cinfo, stream, pts, agreed, srcVars, ring>>

Connect ==
  /\ sink = "connecting" /\ (DialOk \/ DialFails)
  /\ sink' = IF ch' = 0 THEN "connecting" ELSE "started"
  /\ UNCHANGED <<vinfo, stream, pts, unaccounted, agreed, srcVars>>

ConnectDeadline ==
  /\ sink = "connecting" /\ sink' = "null" /\ Disconnect
  /\ UNCHANGED <<cinfo, vinfo, mayDial, stream, pts, unaccounted, agreed, srcVars, ring>>

SinkStop ==
  /\ sink \in {"started", "failed", "ended"} /\ sink' = "null" /\ Disconnect
  /\ UNCHANGED <<cinfo, vinfo, mayDial, stream, pts, unaccounted, agreed, srcVars, ring>>

-----------------------------------------------------------------------------
(* Events and caps. *)

(* Each stream has a generation of its own; the last one is never reused. *)
StreamStart ==
  /\ sink = "started" /\ stream < MaxStream
  /\ stream' = stream + 1
  /\ UNCHANGED <<sink, ch, cinfo, vinfo, mayDial, pts, unaccounted, agreed, srcVars, ring>>

Eos ==
  /\ sink = "started" /\ sink' = "ended"
  /\ UNCHANGED <<ch, cinfo, vinfo, mayDial, stream, pts, unaccounted, agreed, srcVars, ring>>

SinkFails == sink' = "failed"

(* New caps ask the consumer for their geometry; what it granted is queried. *)
(* Under a policy only the geometry of the agreed pool is accepted.          *)
SetCaps(size) ==
  /\ sink = "started" /\ stream > 0 /\ size # vinfo
  /\ vinfo' = size
  /\ IF agreed # 0 /\ size # cinfo
       THEN SinkFails /\ UNCHANGED <<ring, cinfo>>
       ELSE /\ sink' = sink
            /\ ring' = IF Attached THEN Resized(ring, size) ELSE ring
            /\ cinfo' = IF Attached THEN ring'.size ELSE cinfo
  /\ UNCHANGED <<ch, mayDial, stream, pts, unaccounted, agreed, srcVars>>

-----------------------------------------------------------------------------
(* render: one frame is received and then submitted or dropped. *)

Rendering == sink = "started" /\ stream > 0

Dropped == UNCHANGED <<unaccounted, stream, pts, vinfo, agreed, srcVars>>

(* The pool is not the one agreed on any more: a fresh session is needed. *)
PolicyBroken == agreed # 0 /\ (~Attached \/ ring.gen # agreed)

RenderPolicy == Rendering /\ PolicyBroken /\ SinkFails /\ Dropped /\ UNCHANGED <<ch, cinfo, mayDial, ring>>

(* No caps, or no consumer (yet): the frame is dropped, the pipeline lives. *)
RenderNoCaps == Rendering /\ ~PolicyBroken /\ vinfo = 0 /\ Dropped /\ UNCHANGED <<sink, ch, cinfo, mayDial, ring>>

RenderNoConsumer ==
  /\ Rendering /\ vinfo # 0 /\ ch = 0
  /\ \/ DialFails
     \/ (~mayDial \/ Delegated) /\ UNCHANGED <<ch, cinfo, mayDial, ring>>
  /\ Dropped /\ UNCHANGED sink

(* The dial succeeds: the frame goes on with the ring it was granted. *)
RenderDials ==
  /\ Rendering /\ ~PolicyBroken /\ vinfo # 0 /\ DialOk
  /\ UNCHANGED <<sink, vinfo, stream, pts, unaccounted, agreed, srcVars>>

Ready == Rendering /\ ~PolicyBroken /\ vinfo # 0 /\ ch # 0

Fits == cinfo = vinfo

RenderMismatch == Ready /\ ~Fits /\ SinkFails /\ Dropped /\ UNCHANGED <<ch, cinfo, mayDial, ring>>

(* No image within buffer-wait-ms. *)
RenderFull ==
  /\ Ready /\ Fits /\ Attached /\ Full
  /\ IF ErrorOnFull THEN SinkFails ELSE UNCHANGED sink
  /\ Dropped /\ UNCHANGED <<ch, cinfo, mayDial, ring>>

(* Mutant: the channel of a lost consumer is kept. *)
BugRenderLost ==
  /\ Ready /\ Fits /\ ~Attached
  /\ UNCHANGED <<sink, ch>>
  /\ Dropped /\ UNCHANGED <<cinfo, mayDial, ring>>

(* The consumer is gone: disconnect, and dial again with a later frame; an   *)
(* adopted channel cannot be had again.                                      *)
RenderLost ==
  /\ Ready /\ Fits /\ ~Attached
  /\ Disconnect /\ (IF Delegated THEN SinkFails ELSE UNCHANGED sink)
  /\ Dropped /\ UNCHANGED <<cinfo, mayDial, ring>>

(* Metadata is refused and the image cancelled, or the map, the copy or the  *)
(* timestamp fails: never a partial image, the channel is closed instead.    *)
RenderFails ==
  /\ Faults /\ Ready /\ Fits /\ Attached /\ ~Full
  /\ SinkFails /\ (Disconnect \/ (Metadata /\ UNCHANGED ch))
  /\ Dropped /\ UNCHANGED <<cinfo, mayDial, ring>>

(* The Windows build finds a plane's pitch too small while repacking NV12:   *)
(* an error like the others, but `dropped' is not incremented.               *)
RenderPitch ==
  /\ D3D11 /\ Ready /\ Fits /\ Attached /\ ~Full
  /\ SinkFails /\ Disconnect /\ unaccounted' = unaccounted + 1
  /\ UNCHANGED <<stream, pts, vinfo, agreed, srcVars, cinfo, mayDial, ring>>

(* The submission fails: redial, or report it when metadata was promised. *)
RenderSubmitFails ==
  /\ Faults /\ Ready /\ Fits /\ Attached /\ ~Full
  /\ Disconnect /\ (IF Metadata THEN SinkFails ELSE UNCHANGED sink)
  /\ Dropped /\ UNCHANGED <<cinfo, mayDial, ring>>

(* The consumer numbers what it receives; the newest frame replaces one that *)
(* was not read.                                                             *)
RenderSubmit(stamp) ==
  /\ Ready /\ Fits /\ Attached /\ ~Full /\ ring.seq < MaxFrames
  /\ pts' = stamp
  /\ ring' = [ring EXCEPT !.seq = @ + 1,
               !.pending = [seq |-> ring.seq + 1, pts |-> stamp, stream |-> stream,
                            ring |-> ring.gen, size |-> cinfo]]
  /\ UNCHANGED <<sink, ch, cinfo, vinfo, mayDial, stream, unaccounted, agreed, srcVars>>

-----------------------------------------------------------------------------
(* The source. *)

(* A buffer downstream; then `lost' buffers were discarded, of which one had *)
(* the flag if `mark'.                                                       *)
Pushed(f, discont, size) == [frame |-> f, discont |-> discont, caps |-> size, lost |-> 0, mark |-> FALSE]

SrcStart ==
  /\ IF Delegated THEN src = "adopted" /\ (agreed = 0 \/ ring.gen = agreed) /\ UNCHANGED <<starts, ring>>
                  ELSE /\ src = "null" /\ starts < MaxStarts
                       /\ starts' = starts + 1 /\ ring' = NewRing(1)
  /\ src' = "running" /\ known' = ring'.gen
  /\ caps' = ring'.size /\ last' = NoFrame /\ out' = <<Pushed(NoFrame, TRUE, 0)>>
  /\ UNCHANGED <<sinkVars, held>>

SrcStop ==
  /\ src \in {"running", "failed"} /\ src' = "null" /\ ring' = NoRing
  /\ UNCHANGED <<sinkVars, starts, held, known, caps, last, out>>

SrcFails == src' = "failed"

(* create: wait for a frame; a producer that left is waited for too, unless  *)
(* the channel was adopted.                                                  *)
SrcAcquire ==
  /\ src = "running" /\ ring.pending # NoFrame
  /\ src' = "reading" /\ held' = ring.pending /\ ring' = [ring EXCEPT !.pending = NoFrame]
  /\ UNCHANGED <<sinkVars, starts, known, caps, last, out>>

SrcLost ==
  /\ Delegated /\ src = "running" /\ ring.pending = NoFrame /\ ~Attached
  /\ SrcFails /\ UNCHANGED <<sinkVars, starts, held, known, caps, last, out, ring>>

(* Older than max-queue-age-ms: released and counted, and the next awaited. *)
SrcExpire ==
  /\ src = "reading" /\ src' = "running" /\ held' = NoFrame /\ ring' = Release
  /\ UNCHANGED <<sinkVars, starts, known, caps, last, out>>

(* Metadata missing, an agreed pool replaced, the new geometry refused       *)
(* downstream or the pixels unreadable: the frame is released first.         *)
SrcReadFails ==
  /\ src = "reading" /\ (Faults \/ (agreed # 0 /\ ring.gen # known))
  /\ SrcFails /\ held' = NoFrame /\ ring' = Release
  /\ UNCHANGED <<sinkVars, starts, known, caps, last, out>>

(* Mutant: a hole in the sequence is not looked for. *)
BugFresh(f) ==
  \/ ring.gen # known \/ last = NoFrame
  \/ f.pts <= last.pts
  \/ Metadata /\ f.stream # last.stream

(* Does f not follow the frame stamped before it?  A new generation of the   *)
(* ring forgets that frame.                                                  *)
Fresh(f) ==
  \/ ring.gen # known \/ last = NoFrame
  \/ f.pts <= last.pts \/ f.seq # last.seq + 1
  \/ Metadata /\ f.stream # last.stream

(* The caps that go with the frame: those of its ring. *)
Renegotiated == IF ring.gen # known THEN ring.size ELSE caps

(* What follows b downstream misses the frame held. *)
Skipped(b) == [b EXCEPT !.lost = @ + 1, !.mark = @ \/ Fresh(held)]

(* Renegotiate when the ring is new, copy, release, stamp and push.  With    *)
(* Discards the base class may drop the buffer after create() returned it:   *)
(* only a session keeps it (pendingDelivery), here it is gone.               *)
SrcPush(discarded) ==
  /\ src = "reading" /\ ~(agreed # 0 /\ ring.gen # known)
  /\ caps' = Renegotiated
  /\ known' = ring.gen
  /\ last' = held
  /\ out' = IF discarded THEN [out EXCEPT ![Len(out)] = Skipped(@)]
            ELSE <<out[Len(out)], Pushed(held, Fresh(held), caps')>>
  /\ src' = "running" /\ held' = NoFrame /\ ring' = Release
  /\ UNCHANGED <<sinkVars, starts>>

-----------------------------------------------------------------------------
Render ==
  \/ RenderPolicy \/ RenderNoCaps \/ RenderNoConsumer \/ RenderDials \/ RenderMismatch
  \/ RenderFull \/ RenderLost \/ RenderFails \/ RenderPitch \/ RenderSubmitFails
  \/ \E stamp \in {pts, pts + 1} : RenderSubmit(stamp)

Source == SrcAcquire \/ SrcLost \/ SrcPush(FALSE)

Next ==
  \/ Adopt \/ Second \/ SinkStart \/ Connect \/ ConnectDeadline \/ SinkStop
  \/ StreamStart \/ Eos \/ \E size \in Sizes : SetCaps(size)
  \/ Render \/ SrcStart \/ SrcStop \/ Source \/ SrcExpire \/ SrcReadFails
  \/ Discards /\ SrcPush(TRUE)

Spec == Init /\ [][Next]_vars

(* The second passes and the readiness deadline comes; upstream keeps        *)
(* delivering frames, and the source's task keeps running.                   *)
Fair == {"Second", "ConnectDeadline", "Render", "Source"}

FairStep(n) ==
  \/ n = "Second" /\ Second
  \/ n = "ConnectDeadline" /\ ConnectDeadline
  \/ n = "Render" /\ Render
  \/ n = "Source" /\ Source

LiveSpec == Spec /\ \A n \in Fair : WF_vars(FairStep(n))

-----------------------------------------------------------------------------
(* Properties. *)

Frame == [seq : 0..MaxFrames, pts : Nat, stream : 0..MaxStream,
          ring : 0..MaxRing, size : Sizes \union {0}]

TypeOK ==
  /\ sink \in {"null", "connecting", "started", "failed", "ended"}
  /\ src \in {"null", "adopted", "running", "reading", "failed"}
  /\ ch \in 0..starts /\ starts \in 0..MaxStarts /\ {cinfo, vinfo, caps} \subseteq Sizes \union {0}
  /\ {agreed, known} \subseteq 0..MaxRing /\ stream \in 0..MaxStream
  /\ mayDial \in BOOLEAN /\ {held, last, ring.pending} \subseteq Frame
  /\ (held # NoFrame) = (src = "reading") /\ ring.retired <= ring.seq

(* In the statistics the sink posts, "received" is "submitted" plus          *)
(* "dropped" as long as it has not failed; after a failure at most one frame *)
(* is in neither, and only on Windows (gstframelink.cpp:526-750, 784-793).   *)
Balanced ==
  unaccounted # 0 => unaccounted = 1 /\ D3D11 /\ sink \in {"failed", "null"}

(* What is pushed downstream goes with caps that describe it: the geometry   *)
(* of the ring the frame was written in, although producers come, go and     *)
(* resize that ring at any time (gstframelink.cpp:1381-1411).                *)
CapsDescribe == \A i \in DOMAIN out : out[i].caps = out[i].frame.size

(* A buffer without DISCONT continues the one pushed before it: same ring,   *)
(* later timestamp, same stream, and of the frames received in between only  *)
(* those are missing that a pause discarded after create(), which downstream *)
(* is not told; unless the flag was on a buffer discarded there.  The first  *)
(* buffer create() returns after a start has the flag                        *)
(* (gstframelink.cpp:1523-1529).                                             *)
BreaksMarked ==
  Len(out) = 2 /\ ~out[2].discont /\ ~out[1].mark =>
    LET a == out[1].frame
        b == out[2].frame
    IN  /\ a.ring = b.ring /\ b.seq = a.seq + out[1].lost + 1 /\ b.pts > a.pts
        /\ Metadata => a.stream = b.stream

(* Under an authenticated policy the pool both elements agreed on is never   *)
(* replaced by the sink's own caps, and a lost lease is never dialled again  *)
(* by name (gstframelink.cpp:304, 481-482, 531-538).                         *)
AgreementKept == agreed # 0 /\ Attached => ring.gen = agreed

NoRedial == Delegated /\ ch = 0 /\ ch' # 0 => sink = "null" /\ src = "null"

LeaseNotRedialled == [][NoRedial]_vars

(* start with connect-timeout-ms returns, whether the consumer comes or not  *)
(* (gstframelink.cpp:366-378).                                               *)
StartReturns == sink = "connecting" ~> sink # "connecting"

(* A sink that dials by name survives its consumer restarting: as long as    *)
(* the source runs and frames arrive, it is attached again                   *)
(* (gstframelink.cpp:300-304, 594-601).                                      *)
Reattaches ==
  <>[](Rendering /\ vinfo # 0 /\ src \in {"running", "reading"} /\ ring.gen < MaxRing) => []<>Attached

=============================================================================
