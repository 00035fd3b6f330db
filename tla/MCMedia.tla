------------------------------ MODULE MCMedia ------------------------------
(***************************************************************************)
(* The tracks of the GStreamer elements with every fault, for TLC: video   *)
(* and audio of a session, video outside one, and the memory the elements  *)
(* hand out.  A behaviour runs one of the parts, the one `part' names, and *)
(* leaves the others in their initial state.                               *)
(***************************************************************************)
EXTENDS Naturals

CONSTANTS Images, MaxGaps, MaxInput, MaxGapEvents, MaxPauses, Slots, Mems, MaxSubmits,
  Sizes, MaxFrames, MaxStarts, MaxRing, MaxStream

VARIABLES
  part,
  sink, src, cancelled, input, gapEvents, sFrames, sLast, gapPending, mark, ended, attached,
  ring, events, cFrames, cLast, cSeq, gaps, frame, delivery, known, flushing, pauses, sent, out,
  pSink, ch, cinfo, vinfo, mayDial, stream, pts, unaccounted, agreed, pSrc, starts, pRing, held,
  pKnown, caps, last, pOut,
  active, pool, waiting, checked, late, res, sub, submits, consumed, pOpen, pending, leases, source, cOpen,
  closes,
  aSink, aSrc, startup, aCancelled, segment, origin, samples, blocks, total, queue, wire, chunk,
  parser, partial, cSegment, cBlocks, cTotal, aFlushing, aPauses, videoEnd, aSent, aOut

video ==
  <<sink, src, cancelled, input, gapEvents, sFrames, sLast, gapPending, mark, ended, attached,
    ring, events, cFrames, cLast, cSeq, gaps, frame, delivery, known, flushing, pauses, sent,
    out>>
plain ==
  <<pSink, ch, cinfo, vinfo, mayDial, stream, pts, unaccounted, agreed, pSrc, starts, pRing,
    held, pKnown, caps, last, pOut>>
native ==
  <<active, pool, waiting, checked, late, res, sub, submits, consumed, pOpen, pending, leases, source, cOpen,
    closes>>
audio ==
  <<aSink, aSrc, startup, aCancelled, segment, origin, samples, blocks, total, queue, wire,
    chunk, parser, partial, cSegment, cBlocks, cTotal, aFlushing, aPauses, videoEnd, aSent, aOut>>
mcvars == <<video, plain, native, audio, part>>

(* A video track: its pool, has it an audio track or an age limit, and the   *)
(* gaps collected at a time.  Video alone, and the video of an A/V session.  *)
Track(c) ==
  INSTANCE VideoTrack WITH
    Pool <- c.pool, HasAudio <- c.audio, MaxQueueAge <- ~c.audio, MaxGaps <- c.most, Paced <- FALSE,
    Faults <- TRUE

Lone   == [pool |-> Images, audio |-> FALSE, most |-> MaxGaps]
Paired == [pool |-> Images + 1, audio |-> TRUE, most |-> MaxGaps + 1]

(* A sink that dials by name, on Windows, or both ends of a brokered channel, *)
(* on a POSIX system.                                                        *)
Plain(delegated) ==
  INSTANCE VideoPlain WITH
    Pool <- Images, Delegated <- delegated, Policy <- delegated, ConnectTimeout <- FALSE,
    Metadata <- ~delegated, ErrorOnFull <- delegated, D3D11 <- ~delegated, Discards <- TRUE, Faults <- TRUE,
    sink <- pSink, src <- pSrc, ring <- pRing, known <- pKnown, out <- pOut

Native == INSTANCE NativeMemory WITH Fenced <- TRUE, Faults <- TRUE

(* Audio alone, and the audio track of an A/V session. *)
Alone ==
  INSTANCE AudioTrack WITH
    Budget <- 2, HasVideo <- FALSE, Local <- TRUE, Header <- 2, Room <- 0, Shift <- 3, Faults <- TRUE,
    MaxTime <- 1, MaxItems <- 2, MaxPauses <- 1, sink <- aSink, src <- aSrc, cancelled <- aCancelled,
    flushing <- aFlushing, pauses <- aPauses, sent <- aSent, out <- aOut
Audio ==
  INSTANCE AudioTrack WITH
    Budget <- 1, HasVideo <- TRUE, Local <- FALSE, Header <- 2, Room <- 0, Shift <- 3, Faults <- TRUE,
    MaxTime <- 1, MaxItems <- 2, MaxPauses <- 1, sink <- aSink, src <- aSrc, cancelled <- aCancelled,
    flushing <- aFlushing, pauses <- aPauses, sent <- aSent, out <- aOut

ASSUME MediaAssumption ==
  /\ Track(Lone)!VideoAssumption /\ Track(Paired)!VideoAssumption
  /\ \A d \in BOOLEAN : Plain(d)!PlainAssumption
  /\ Native!NativeAssumption /\ Alone!AudioAssumption /\ Audio!AudioAssumption

MCInit ==
  /\ part \in {"video", "both", "plain", "leased", "native", "alone", "audio"}
  /\ IF part = "both" THEN Track(Paired)!Init ELSE Track(Lone)!Init
  /\ IF part = "leased" THEN Plain(TRUE)!Init ELSE Plain(FALSE)!Init
  /\ Native!Init
  /\ IF part = "audio" THEN Audio!Init ELSE Alone!Init

MCNext ==
  /\ \/ part = "video"  /\ Track(Lone)!Next /\ UNCHANGED <<plain, native, audio>>
     \/ part = "both"   /\ Track(Paired)!Next /\ UNCHANGED <<plain, native, audio>>
     \/ part = "plain"  /\ Plain(FALSE)!Next /\ UNCHANGED <<video, native, audio>>
     \/ part = "leased" /\ Plain(TRUE)!Next /\ UNCHANGED <<video, native, audio>>
     \/ part = "native" /\ Native!Next /\ UNCHANGED <<video, plain, audio>>
     \/ part = "alone"  /\ Alone!Next /\ UNCHANGED <<video, plain, native>>
     \/ part = "audio"  /\ Audio!Next /\ UNCHANGED <<video, plain, native>>
  /\ UNCHANGED part

MCSpec == MCInit /\ [][MCNext]_mcvars

-----------------------------------------------------------------------------
(* VideoTrack: however frames are dropped, replaced or expired, deliveries   *)
(* interrupted and elements stopped, the source delivers a prefix of what    *)
(* the sink sent, and a frame that starts anew never waits for a barrier     *)
(* that cannot come (gstframelink.cpp).                                      *)
VideoDelivered ==
  /\ part = "video" => Track(Lone)!TypeOK /\ Track(Lone)!DeliveryIsPrefix /\ Track(Lone)!BarrierComes
  /\ part = "both"  => Track(Paired)!TypeOK /\ Track(Paired)!DeliveryIsPrefix /\ Track(Paired)!BarrierComes

(* VideoPlain: every way out of render counts its frame once, but for the    *)
(* one that fails a Windows sink; a frame goes with caps that describe it; a *)
(* break in the stream is marked, but for the frames a pause discards; and   *)
(* the pool of an authenticated policy is never replaced, nor a lost lease   *)
(* of it dialled again (gstframelink.cpp).                                   *)
PlainSound ==
  /\ [](part = "plain"  => /\ Plain(FALSE)!TypeOK /\ Plain(FALSE)!Balanced
                           /\ Plain(FALSE)!CapsDescribe /\ Plain(FALSE)!BreaksMarked)
  /\ [](part = "leased" => /\ Plain(TRUE)!TypeOK /\ Plain(TRUE)!Balanced
                           /\ Plain(TRUE)!AgreementKept)
  /\ [][part = "leased" => Plain(TRUE)!NoRedial]_plain

(* NativeMemory: an image that may be written is handed out once, an image   *)
(* that is read stays as it is, each end of the channel is closed once, by   *)
(* its last user, and a stopped sink hands out at most the image it had      *)
(* begun to (fl_gst_dmabuf_producer.hpp, gstframelink.cpp).                  *)
NativeSound ==
  part = "native" => /\ Native!TypeOK /\ Native!WritableIsExclusive /\ Native!ReadIntact
                     /\ Native!ClosedByLast /\ Native!Revoked

(* AudioTrack: however the socket cuts the packets, downstream gets a prefix *)
(* of what went in, and an end of the audio that knows the end of the video  *)
(* (gstframelinkaudio.cpp).                                                  *)
AudioDelivered ==
  /\ part = "alone" => Alone!TypeOK /\ Alone!DeliveryIsPrefix
  /\ part = "audio" => Audio!TypeOK /\ Audio!DeliveryIsPrefix /\ Audio!EndCarriesVideo

=============================================================================
