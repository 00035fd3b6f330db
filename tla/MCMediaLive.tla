---------------------------- MODULE MCMediaLive ----------------------------
(***************************************************************************)
(* What the elements of MCMedia must eventually do, for TLC.  A behaviour  *)
(* runs one of the parts, the one `part' names, and leaves the others in   *)
(* their initial state.                                                    *)
(***************************************************************************)
EXTENDS Naturals

CONSTANTS Slots, Mems

VARIABLES
  part,
  sink, src, cancelled, input, gapEvents, sFrames, sLast, gapPending, mark, ended, attached,
  ring, events, cFrames, cLast, cSeq, gaps, frame, delivery, known, flushing, pauses, sent, out,
  pSink, ch, cinfo, vinfo, mayDial, stream, pts, unaccounted, agreed, pSrc, starts, pRing, held,
  pKnown, caps, last, pOut,
  active, pool, waiting, checked, late, res, sub, submits, consumed, pOpen, pending, leases, source, cOpen,
  closes,
  aSink, aSrc, startup, aCancelled, segment, origin, samples, blocks, total, queue, wire, chunk,
  parser, partial, cSegment, cBlocks, cTotal, aFlushing, aPauses, videoEnd, aSent, aOut

video ==
  <<sink, src, cancelled, input, gapEvents, sFrames, sLast, gapPending, mark, ended, attached,
    ring, events, cFrames, cLast, cSeq, gaps, frame, delivery, known, flushing, pauses, sent,
    out>>
plain ==
  <<pSink, ch, cinfo, vinfo, mayDial, stream, pts, unaccounted, agreed, pSrc, starts, pRing,
    held, pKnown, caps, last, pOut>>
native ==
  <<active, pool, waiting, checked, late, res, sub, submits, consumed, pOpen, pending, leases, source, cOpen,
    closes>>
audio ==
  <<aSink, aSrc, startup, aCancelled, segment, origin, samples, blocks, total, queue, wire,
    chunk, parser, partial, cSegment, cBlocks, cTotal, aFlushing, aPauses, videoEnd, aSent, aOut>>
mcvars == <<video, plain, native, audio, part>>

Video ==
  INSTANCE VideoTrack WITH
    Pool <- 2, HasAudio <- FALSE, MaxQueueAge <- FALSE, MaxGaps <- 2, Paced <- TRUE, Faults <- FALSE,
    MaxInput <- 4, MaxGapEvents <- 2, MaxPauses <- 2
LostVideo ==
  INSTANCE VideoTrack WITH
    Pool <- 2, HasAudio <- TRUE, MaxQueueAge <- FALSE, MaxGaps <- 2, Paced <- FALSE, Faults <- TRUE,
    MaxInput <- 2, MaxGapEvents <- 1, MaxPauses <- 0
Plain ==
  INSTANCE VideoPlain WITH
    Sizes <- {1}, Pool <- 2, Delegated <- FALSE, Policy <- FALSE, ConnectTimeout <- TRUE,
    Metadata <- FALSE, ErrorOnFull <- FALSE, D3D11 <- TRUE, Discards <- TRUE, Faults <- FALSE,
    MaxFrames <- 2, MaxStarts <- 2, MaxRing <- 3, MaxStream <- 1, sink <- pSink, src <- pSrc,
    ring <- pRing, known <- pKnown, out <- pOut
Native ==
  INSTANCE NativeMemory WITH
    Slots <- Slots, Mems <- Mems, Fenced <- FALSE, Faults <- TRUE, MaxSubmits <- 2
Audio ==
  INSTANCE AudioTrack WITH
    Budget <- 2, HasVideo <- FALSE, Local <- TRUE, Header <- 2, Room <- 0, Shift <- 3, Faults <- FALSE,
    MaxTime <- 1, MaxItems <- 2, MaxPauses <- 1, sink <- aSink, src <- aSrc, cancelled <- aCancelled,
    flushing <- aFlushing, pauses <- aPauses, sent <- aSent, out <- aOut
PairedAudio ==
  INSTANCE AudioTrack WITH
    Budget <- 2, HasVideo <- TRUE, Local <- FALSE, Header <- 2, Room <- 1, Shift <- 3, Faults <- FALSE,
    MaxTime <- 1, MaxItems <- 1, MaxPauses <- 1, sink <- aSink, src <- aSrc, cancelled <- aCancelled,
    flushing <- aFlushing, pauses <- aPauses, sent <- aSent, out <- aOut
LostAudio ==
  INSTANCE AudioTrack WITH
    Budget <- 2, HasVideo <- FALSE, Local <- TRUE, Header <- 2, Room <- 0, Shift <- 3, Faults <- TRUE,
    MaxTime <- 1, MaxItems <- 1, MaxPauses <- 0, sink <- aSink, src <- aSrc, cancelled <- aCancelled,
    flushing <- aFlushing, pauses <- aPauses, sent <- aSent, out <- aOut

ASSUME
  /\ Video!VideoAssumption /\ LostVideo!VideoAssumption /\ Audio!AudioAssumption /\ LostAudio!AudioAssumption
  /\ PairedAudio!AudioAssumption /\ Plain!PlainAssumption /\ Native!NativeAssumption

MCInit ==
  /\ part \in {"video", "lost video", "plain", "native", "audio", "paired audio", "lost audio"}
  /\ IF part = "lost video" THEN LostVideo!Init ELSE Video!Init
  /\ Plain!Init /\ Native!Init
  /\ Audio!Init

MCNext ==
  /\ \/ part = "video"      /\ Video!Next     /\ UNCHANGED <<plain, native, audio>>
     \/ part = "lost video" /\ LostVideo!Next /\ UNCHANGED <<plain, native, audio>>
     \/ part = "plain"      /\ Plain!Next     /\ UNCHANGED <<video, native, audio>>
     \/ part = "native"     /\ Native!Next    /\ UNCHANGED <<video, plain, audio>>
     \/ part = "audio"      /\ Audio!Next     /\ UNCHANGED <<video, plain, native>>
     \/ part = "paired audio" /\ PairedAudio!Next /\ UNCHANGED <<video, plain, native>>
     \/ part = "lost audio" /\ LostAudio!Next /\ UNCHANGED <<video, plain, native>>
  /\ UNCHANGED part

MCSpec ==
  /\ MCInit /\ [][MCNext]_mcvars
  /\ \A n \in Video!Fair :
       WF_video((part = "video" /\ Video!FairStep(n)) \/ (part = "lost video" /\ LostVideo!FairStep(n)))
  /\ SF_video((part = "video" /\ Video!Push) \/ (part = "lost video" /\ LostVideo!Push))
  /\ \A n \in Plain!Fair  : WF_plain(part = "plain" /\ Plain!FairStep(n))
  /\ \A n \in Native!Fair \ Mems : WF_native(part = "native" /\ Native!FairStep(n))
  /\ \A m \in Mems : SF_native(part = "native" /\ Native!FairStep(m))
  /\ \A n \in Audio!Fair :
       WF_audio(\/ part = "audio" /\ Audio!FairStep(n)
                \/ part = "paired audio" /\ PairedAudio!FairStep(n)
                \/ part = "lost audio" /\ LostAudio!FairStep(n))

-----------------------------------------------------------------------------
(* VideoTrack, AudioTrack: with nothing failing a stream is delivered to its *)
(* end, through pauses too, and its audio has no unmarked hole: the empty    *)
(* one of a session included, while a standalone audio source refuses the    *)
(* end of a stream without a block; and a source whose producer failed or    *)
(* stopped does not wait for ever (gstframelink.cpp, gstframelinkaudio.cpp). *)
StreamsComplete ==
  /\ part = "video"      => Video!PacedCompletes
  /\ part = "lost video" => LostVideo!ProducerLossNoticed
  /\ part = "audio"      => Audio!AudioCompletes /\ []Audio!TimelineMarked
  /\ part = "paired audio" => PairedAudio!AudioCompletes /\ []PairedAudio!TimelineMarked
  /\ part = "lost audio" => LostAudio!LossNoticed

(* VideoPlain: start with a deadline returns, and a sink that dials by name  *)
(* is attached again after its consumer restarted.  NativeMemory: a thread   *)
(* that waits for an image returns, and no slot is lost (gstframelink.cpp,   *)
(* fl_gst_dmabuf_producer.hpp).                                              *)
ElementsRecover ==
  /\ part = "plain"  => Plain!StartReturns /\ Plain!Reattaches
  /\ part = "native" => Native!AcquireReturns /\ Native!SlotsReturn

=============================================================================
