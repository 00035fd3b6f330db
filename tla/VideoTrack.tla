----------------------------- MODULE VideoTrack -----------------------------
(***************************************************************************)
(* The video track of a coordinated session (src/gst/gstframelink.cpp):    *)
(* framelinksink on the producer's side P, framelinksrc on the consumer's  *)
(* side C.  Frames travel through the ring, which keeps only the newest    *)
(* unread one; GAP, BARRIER, FLUSH and END records travel, in order,       *)
(* through the event stream (EventChannel).  What the consumer pushes      *)
(* downstream must be what the producer put in, or the session fails.      *)
(*                                                                         *)
(* Pixels, formats and clocks are abstracted: a buffer is its PTS, the     *)
(* copy into or out of the ring succeeds or fails.                         *)
(***************************************************************************)
EXTENDS Naturals, Sequences

CONSTANTS
  Pool,         \* images of the ring
  HasAudio,     \* does the session have an audio track too?
  MaxQueueAge,  \* is max-queue-age-ms set?
  MaxGaps,      \* gaps the source collects before a frame (32 in the code)
  Paced,        \* does the producer wait until a frame was read?
  Faults,       \* may steps fail, deadlines pass, elements stop?
  MaxInput,     \* bound: buffers that reach the sink
  MaxGapEvents, \* bound: GAP events that reach the sink
  MaxPauses     \* bound: times the source is paused

VideoAssumption ==
  /\ Pool \in Nat \ {0} /\ {MaxGaps, MaxInput, MaxGapEvents, MaxPauses} \subseteq Nat
  /\ {HasAudio, MaxQueueAge, Paced, Faults} \subseteq BOOLEAN

VARIABLES
  sink, src,                           \* stage of each element
  cancelled,                           \* cancelled[s]: the coordinator of side s
  input, gapEvents,                    \* buffers and GAPs fed to the sink
  sFrames, sLast, gapPending, mark,    \* the sink: sessionFrames, -LastPts, -GapPending, -MarkDiscont
  ended,                               \* <<frames, pts>> of the producer's EOS, or <<>>
  attached,                            \* does the producer's end of the channel exist?
  ring,                                \* submitted frames not yet read
  events,                              \* event records on their way
  cFrames, cLast, cSeq,                \* the source: sessionFrames, -LastPts, -Sequence
  gaps, frame, delivery,               \* pendingGaps, the frame in create(), pendingDelivery
  known,                               \* the end as the consumer's coordinator knows it
  flushing, pauses,
  sent, out                            \* history: what entered the track, what left it

sinkVars == <<sink, input, gapEvents, sFrames, sLast, gapPending, mark, ended, attached, sent>>
srcVars  == <<src, cFrames, cLast, cSeq, gaps, frame, delivery, known, flushing, pauses, out>>
vars     == <<sinkVars, srcVars, cancelled, ring, events>>

None == [seq |-> 0, pts |-> 0, discont |-> FALSE]

Init ==
  /\ sink = "adopted" /\ src = "adopted" /\ cancelled = [s \in {"P", "C"} |-> FALSE]
  /\ input = 0 /\ gapEvents = 0 /\ sFrames = 0 /\ sLast = 0 /\ gapPending = FALSE /\ mark = FALSE
  /\ ended = <<>> /\ attached = TRUE /\ ring = <<>> /\ events = <<>>
  /\ cFrames = 0 /\ cLast = 0 /\ cSeq = 0 /\ gaps = <<>> /\ frame = None /\ delivery = None
  /\ known = <<>> /\ flushing = FALSE /\ pauses = 0 /\ sent = <<>> /\ out = <<>>

-----------------------------------------------------------------------------
(* The sink. *)

(* start: the session is configured and the channel adopted; the counters    *)
(* are reset and the track reports ready.                                    *)
SinkStart ==
  /\ sink = "adopted" /\ ~cancelled["P"] /\ attached
  /\ sink' = "running"
  /\ sFrames' = 0 /\ sLast' = 0 /\ gapPending' = FALSE
  /\ UNCHANGED <<input, gapEvents, mark, ended, attached, sent, srcVars, cancelled, ring, events>>

(* A negative flow return or a refused event cancels the session. *)
SinkFails ==
  /\ sink' = "failed" /\ cancelled' = [cancelled EXCEPT !["P"] = TRUE]
  /\ UNCHANGED <<input, gapEvents, sFrames, sLast, gapPending, mark, ended, sent, srcVars, ring, events>>

(* A record sent to a consumer that is gone is lost. *)
Send(kind, pts) ==
  /\ ~cancelled["P"]
  /\ events' = IF cancelled["C"] THEN events ELSE Append(events, <<kind, pts>>)

(* render, first half: wait for the session, and announce a frame that       *)
(* starts anew with a BARRIER.                                               *)
RenderBegin(discont) ==
  /\ sink = "running" /\ src # "adopted" /\ input < MaxInput /\ (Paced => ring = <<>>)
  /\ input' = input + 1
  /\ LET marked == gapPending \/ sFrames = 0 \/ discont
     IN  /\ mark' = marked /\ gapPending' = (gapPending \/ marked)
         /\ IF marked THEN Send("BARRIER", input') ELSE ~cancelled["P"] /\ events' = events
  /\ sink' = "rendering"
  /\ UNCHANGED <<gapEvents, sFrames, sLast, ended, attached, sent, srcVars, cancelled, ring>>

(* The session is cancelled or the event stream broken. *)
RenderRefused ==
  /\ sink = "running" /\ (cancelled["P"] \/ cancelled["C"])
  /\ SinkFails /\ UNCHANGED attached

Reading == IF src \in {"barrier", "finish"} THEN 1 ELSE 0

RingFull == Len(ring) + Reading >= Pool

(* render, second half: no image within buffer-wait-ms, so the frame is      *)
(* dropped, or the overload reported.                                        *)
RenderDrop ==
  /\ sink = "rendering" /\ RingFull
  /\ sink' = "running"
  /\ UNCHANGED <<input, gapEvents, sFrames, sLast, gapPending, mark, ended, attached, sent, srcVars, cancelled, ring, events>>

RenderOverload == Faults /\ sink = "rendering" /\ RingFull /\ SinkFails /\ UNCHANGED attached

(* Invalid metadata cancels the buffer; a lost channel, or a failed map,     *)
(* copy or submit, disconnects: nothing partial is ever published.           *)
RenderFails ==
  /\ Faults /\ sink = "rendering"
  /\ SinkFails /\ attached' \in {attached, FALSE}

RenderSubmit ==
  /\ sink = "rendering" /\ ~RingFull /\ attached
  /\ ring' = Append(ring, [seq |-> sFrames + 1, pts |-> input, discont |-> mark])
  /\ sFrames' = sFrames + 1 /\ sLast' = input /\ gapPending' = FALSE
  /\ sent' = Append(sent, <<"frame", input>>)
  /\ sink' = "running"
  /\ UNCHANGED <<input, gapEvents, mark, ended, attached, srcVars, cancelled, events>>

SinkGap ==
  /\ sink = "running" /\ gapEvents < MaxGapEvents
  /\ gapEvents' = gapEvents + 1 /\ Send("GAP", gapEvents') /\ gapPending' = TRUE
  /\ sent' = Append(sent, <<"gap", gapEvents'>>)
  /\ UNCHANGED <<sink, input, sFrames, sLast, mark, ended, attached, srcVars, cancelled, ring>>

(* A flush ends the session, here and, through its record, at the consumer. *)
SinkFlush ==
  /\ Faults /\ sink = "running" /\ Send("FLUSH", 0)
  /\ cancelled' = [cancelled EXCEPT !["P"] = TRUE]
  /\ UNCHANGED <<sinkVars, srcVars, ring>>

(* EOS: the end is recorded with the coordinator, then sent. *)
SinkEos ==
  /\ sink = "running" /\ ended = <<>>
  /\ ended' = <<sFrames, sLast>> /\ Send("END", sLast) /\ sink' = "ended"
  /\ sent' = Append(sent, <<"eos", 0>>)
  /\ UNCHANGED <<input, gapEvents, sFrames, sLast, gapPending, mark, attached, srcVars, cancelled, ring>>

SinkStop ==
  /\ Faults /\ sink # "stopped"
  /\ sink' = "stopped" /\ attached' = FALSE /\ cancelled' = [cancelled EXCEPT !["P"] = TRUE]
  /\ UNCHANGED <<input, gapEvents, sFrames, sLast, gapPending, mark, ended, sent, srcVars, ring, events>>

-----------------------------------------------------------------------------
(* The source.  create() runs from "loop" to "push", the pad probe follows.  *)

Running == {"loop", "acquire", "barrier", "finish", "push", "ending"}

SrcStart ==
  /\ src = "adopted" /\ ~cancelled["C"] /\ src' = "idle"
  /\ cFrames' = 0 /\ cLast' = 0 /\ cSeq' = 0 /\ gaps' = <<>>
  /\ UNCHANGED <<sinkVars, frame, delivery, known, flushing, pauses, out, cancelled, ring, events>>

SrcFails ==
  /\ src' = "failed" /\ cancelled' = [cancelled EXCEPT !["C"] = TRUE] /\ frame' = None
  /\ UNCHANGED <<sinkVars, cFrames, cLast, cSeq, gaps, delivery, known, flushing, pauses, out>>

SrcStep(stage) == src' = stage /\ UNCHANGED <<sinkVars, cancelled, flushing, pauses>>

(* A frame whose push was discarded by a pause is delivered again. *)
CreateBegin ==
  /\ src = "idle" /\ ~flushing
  /\ SrcStep(IF delivery # None THEN "push" ELSE "loop")
  /\ UNCHANGED <<cFrames, cLast, cSeq, gaps, frame, delivery, known, out, ring, events>>

LoopFlushing ==
  /\ src = "loop" /\ flushing /\ SrcStep("idle")
  /\ UNCHANGED <<cFrames, cLast, cSeq, gaps, frame, delivery, known, out, ring, events>>

(* A video-only source learns the end from the END record in the queue, the  *)
(* frames it counts and its PTS; with audio, from the audio source.          *)
PeekEnd ==
  IF ~HasAudio /\ known = <<>> /\ (\E i \in DOMAIN events : events[i][1] = "END")
  THEN ended ELSE known

Reached(end) == end # <<>> /\ cFrames >= end[1]

LoopEnd ==
  /\ src = "loop" /\ ~cancelled["C"] /\ ~flushing
  /\ known' = PeekEnd
  /\ Reached(PeekEnd) => <<cFrames, cLast>> = PeekEnd
  /\ SrcStep(IF Reached(PeekEnd) THEN "ending" ELSE "acquire")
  /\ UNCHANGED <<cFrames, cLast, cSeq, gaps, frame, delivery, out, ring, events>>

(* The session was cancelled, the idle deadline passed, or the accounting    *)
(* does not match.                                                           *)
LoopFails ==
  /\ src = "loop"
  /\ cancelled["C"] \/ Faults \/ (Reached(PeekEnd) /\ <<cFrames, cLast>> # PeekEnd)
  /\ SrcFails /\ UNCHANGED <<ring, events>>

AcquireTimeout ==
  /\ src = "acquire" /\ ring = <<>> /\ attached /\ SrcStep("loop")
  /\ UNCHANGED <<cFrames, cLast, cSeq, gaps, frame, delivery, known, out, ring, events>>

AcquireLost ==
  /\ src = "acquire" /\ ~attached
  /\ SrcFails /\ UNCHANGED <<ring, events>>

(* The newest frame is taken, the ones before it are gone. *)
Latest == ring[Len(ring)]

AcquireExpired ==
  /\ MaxQueueAge /\ src = "acquire" /\ ring # <<>>
  /\ ring' = <<>> /\ SrcStep("loop")
  /\ UNCHANGED <<cFrames, cLast, cSeq, gaps, frame, delivery, known, out, events>>

AcquireFrame ==
  /\ src = "acquire" /\ ring # <<>> /\ Latest.seq = cSeq + 1
  /\ ring' = <<>> /\ frame' = Latest /\ cSeq' = cSeq + 1
  /\ SrcStep(IF Latest.discont THEN "barrier" ELSE "finish")
  /\ UNCHANGED <<cFrames, cLast, gaps, delivery, known, out, events>>

(* "coordinated video frame replaced before it was read" *)
AcquireReplaced ==
  /\ src = "acquire" /\ ring # <<>> /\ Latest.seq # cSeq + 1
  /\ ring' = <<>> /\ SrcFails /\ UNCHANGED events

(* srcVideoEvents: gaps are collected and old barriers skipped until the     *)
(* record that belongs to the frame, or to the end, comes.                   *)
Awaited == IF src = "barrier" THEN <<"BARRIER", frame.pts>> ELSE <<"END", known[2]>>

EventSkipped ==
  /\ src \in {"barrier", "ending"} /\ ~cancelled["C"] /\ events # <<>>
  /\ LET e == Head(events)
     IN  \/ e[1] = "GAP" /\ Len(gaps) < MaxGaps /\ gaps' = Append(gaps, e[2])
         \/ e[1] = "BARRIER" /\ e # Awaited /\ gaps' = gaps
  /\ events' = Tail(events) /\ SrcStep(src)
  /\ UNCHANGED <<cFrames, cLast, cSeq, frame, delivery, known, out, ring>>

EventsFail ==
  /\ src \in {"barrier", "ending"}
  /\ \/ Faults \/ cancelled["C"] \/ (events = <<>> /\ cancelled["P"])
     \/ events # <<>> /\ LET e == Head(events)
                         IN  \/ e[1] = "GAP" /\ Len(gaps) >= MaxGaps
                             \/ e[1] \in {"FLUSH", "END"} /\ e # Awaited
  /\ events' = (IF events = <<>> THEN events ELSE Tail(events))
  /\ SrcFails /\ UNCHANGED ring

BarrierFound ==
  /\ src = "barrier" /\ ~cancelled["C"] /\ events # <<>> /\ Head(events) = Awaited
  /\ events' = Tail(events) /\ SrcStep("finish")
  /\ UNCHANGED <<cFrames, cLast, cSeq, gaps, frame, delivery, known, out, ring>>

GapItems == [i \in DOMAIN gaps |-> <<"gap", gaps[i]>>]

EndFound ==
  /\ src = "ending" /\ ~cancelled["C"] /\ events # <<>> /\ Head(events) = Awaited
  /\ events' = Tail(events) /\ SrcStep("eos")
  /\ out' = (out \o GapItems) \o <<<<"eos", 0>>>> /\ gaps' = <<>>
  /\ UNCHANGED <<cFrames, cLast, cSeq, frame, delivery, known, ring>>

(* The image is read and released, the frame accounted for and mapped.       *)
FinishFrame ==
  /\ src = "finish" /\ ~cancelled["C"]
  /\ cFrames' = cFrames + 1 /\ cLast' = frame.pts /\ delivery' = frame /\ frame' = None
  /\ SrcStep("push")
  /\ UNCHANGED <<cSeq, gaps, known, out, ring, events>>

FinishFails ==
  /\ src = "finish" /\ (Faults \/ cancelled["C"])
  /\ SrcFails /\ UNCHANGED <<ring, events>>

(* The pad probe: the gaps collected before the frame, then the frame. *)
Push ==
  /\ src = "push" /\ (gaps = <<>> \/ ~cancelled["C"])
  /\ out' = (out \o GapItems) \o <<<<"frame", delivery.pts>>>> /\ gaps' = <<>> /\ delivery' = None
  /\ SrcStep("idle")
  /\ UNCHANGED <<cFrames, cLast, cSeq, frame, known, ring, events>>

(* A gap cannot be mapped, or downstream refuses its event: an error is      *)
(* posted and the buffer dropped, but the gaps and pendingDelivery are kept, *)
(* and create() returns the buffer again.                                    *)
PushFails ==
  /\ src = "push" /\ gaps # <<>> /\ (Faults \/ cancelled["C"]) /\ SrcStep("idle")
  /\ UNCHANGED <<cFrames, cLast, cSeq, gaps, frame, delivery, known, out, ring, events>>

(* Mutant: the discarded buffer is forgotten. *)
BugPushDiscarded ==
  /\ src = "push" /\ flushing /\ SrcStep("idle") /\ delivery' = None
  /\ UNCHANGED <<cFrames, cLast, cSeq, gaps, frame, known, out, ring, events>>

(* GstBaseSrc throws create()'s buffer away when a pause races its return.   *)
PushDiscarded ==
  /\ src = "push" /\ flushing /\ SrcStep("idle")
  /\ UNCHANGED <<cFrames, cLast, cSeq, gaps, frame, delivery, known, out, ring, events>>

Unlock ==
  /\ src \in Running \union {"idle"} /\ ~flushing /\ pauses < MaxPauses
  /\ flushing' = TRUE /\ pauses' = pauses + 1
  /\ UNCHANGED <<sinkVars, src, cFrames, cLast, cSeq, gaps, frame, delivery, known, out, cancelled, ring, events>>

UnlockStop ==
  /\ src = "idle" /\ flushing /\ flushing' = FALSE
  /\ UNCHANGED <<sinkVars, src, cFrames, cLast, cSeq, gaps, frame, delivery, known, pauses, out, cancelled, ring, events>>

(* The audio source reports the end it read from the terminal record. *)
AudioTerminal ==
  /\ HasAudio /\ known = <<>> /\ ended # <<>> /\ ~cancelled["C"] /\ src # "adopted"
  /\ known' = ended
  /\ UNCHANGED <<sinkVars, src, cFrames, cLast, cSeq, gaps, frame, delivery, flushing, pauses, out, cancelled, ring, events>>

SrcStop ==
  /\ Faults /\ src \in {"idle", "eos", "failed"}
  /\ src' = "stopped" /\ delivery' = None /\ cancelled' = [cancelled EXCEPT !["C"] = TRUE]
  /\ UNCHANGED <<sinkVars, cFrames, cLast, cSeq, gaps, frame, known, flushing, pauses, out, ring, events>>

(* The application or the audio track cancels the session of a side. *)
CancelSession(s) ==
  /\ Faults /\ ~cancelled[s] /\ cancelled' = [cancelled EXCEPT ![s] = TRUE]
  /\ UNCHANGED <<sinkVars, srcVars, ring, events>>

-----------------------------------------------------------------------------
Sink == SinkStart \/ (\E d \in BOOLEAN : RenderBegin(d)) \/ RenderRefused \/ RenderDrop
        \/ RenderOverload \/ RenderFails \/ RenderSubmit \/ SinkGap \/ SinkFlush \/ SinkEos \/ SinkStop

Create == CreateBegin \/ LoopFlushing \/ LoopEnd \/ AcquireTimeout \/ AcquireLost
          \/ AcquireExpired \/ AcquireFrame \/ AcquireReplaced \/ EventSkipped \/ BarrierFound \/ EndFound
          \/ FinishFrame \/ Push \/ PushFails \/ PushDiscarded

(* What ends a create() that cannot go on. *)
CreateFails == (LoopFails \/ EventsFail \/ FinishFails)

Next == Sink \/ SrcStart \/ Create \/ CreateFails \/ Unlock \/ UnlockStop \/ AudioTerminal \/ SrcStop
        \/ \E s \in {"P", "C"} : CancelSession(s)

Spec == Init /\ [][Next]_vars

(* GStreamer keeps calling create(), a paused pipeline resumes, the          *)
(* producer's application feeds the sink to the end of its stream, and       *)
(* downstream does not refuse a GAP for ever (Push, strongly fair).          *)
Fair ==
  {"SrcStart", "Create", "CreateFails", "EventsFail", "UnlockStop", "AudioTerminal", "SinkStart", "Render", "SinkEos"}

FairStep(n) ==
  \/ n = "SrcStart" /\ SrcStart
  \/ n = "Create" /\ Create
  \/ n = "CreateFails" /\ CreateFails /\ cancelled["C"]
  \/ n = "EventsFail" /\ EventsFail /\ events = <<>> /\ cancelled["P"]
  \/ n = "UnlockStop" /\ UnlockStop
  \/ n = "AudioTerminal" /\ AudioTerminal
  \/ n = "SinkStart" /\ SinkStart
  \/ n = "Render" /\ (RenderDrop \/ RenderSubmit)
  \/ n = "SinkEos" /\ SinkEos

LiveSpec == Spec /\ (\A n \in Fair : WF_vars(FairStep(n))) /\ SF_vars(Push)

-----------------------------------------------------------------------------
(* Properties. *)

TypeOK ==
  /\ sink \in {"adopted", "running", "rendering", "ended", "failed", "stopped"}
  /\ src \in {"adopted", "idle", "eos", "failed", "stopped"} \union Running
  /\ cancelled \in [{"P", "C"} -> BOOLEAN]
  /\ {sFrames, sLast, cFrames, cLast, cSeq} \subseteq 0 .. MaxInput
  /\ {gapPending, mark, attached, flushing} \subseteq BOOLEAN
  /\ Len(ring) <= Pool /\ Len(gaps) <= MaxGaps

(* What leaves the source is a prefix of what entered the sink: every        *)
(* submitted frame and every gap once and in its place, however frames are   *)
(* dropped, replaced or expired, deliveries paused and repeated, or the end  *)
(* overtakes them; and EOS only after all of it.  GAPs that went out before  *)
(* downstream refused one of the same frame go out again with it: they are   *)
(* counted here with the attempt that succeeds.                              *)
DeliveryIsPrefix == Len(out) <= Len(sent) /\ out = SubSeq(sent, 1, Len(out))

(* A frame that starts anew never waits for a barrier that cannot come: as   *)
(* long as the event stream lives, its BARRIER is on the way whenever the    *)
(* frame can be read.                                                        *)
BarrierComes ==
  ~cancelled["P"] /\ ~cancelled["C"] =>
    /\ \A i \in DOMAIN ring : ring[i].discont => \E j \in DOMAIN events : events[j] = <<"BARRIER", ring[i].pts>>
    /\ src = "barrier" => \E j \in DOMAIN events : events[j] = Awaited

(* A paced producer's stream is delivered to its end. *)
PacedCompletes == <>(src = "eos")

(* The session is cancelled and a frame's gaps can no longer be mapped: the  *)
(* source posts an error each time it returns the frame.                     *)
Refused == src = "push" /\ gaps # <<>> /\ cancelled["C"]

(* A producer that stops is noticed, whatever the source was doing: it ends, *)
(* fails or reports the frame it can no longer deliver.                      *)
ProducerLossNoticed ==
  (sink = "stopped") ~> (src \in {"eos", "failed", "stopped", "adopted"} \/ Refused)
=============================================================================
