----------------------------- MODULE AudioTrack -----------------------------
(***************************************************************************)
(* The audio track: framelinkaudiosink (src/gst/gstframelinkaudio.cpp) on  *)
(* side P checks PCM blocks and GAPs and writes them, as GDP packets, to   *)
(* the session's socket; framelinkaudiosrc (gstframelinkaudiosrc.cpp) on   *)
(* side C reads the socket in chunks of any size, depayloads, checks again *)
(* and maps the timestamps.  A private terminal record with the totals of  *)
(* both tracks ends the stream; a closed socket alone never does.          *)
(*                                                                         *)
(* Time is counted in sample frames, and a block is its position and       *)
(* length: formats, channel masks and the PCM bytes are left out.  The     *)
(* session's coordinator is GstSession; here it is `cancelled` and the     *)
(* video track's end.                                                      *)
(***************************************************************************)
EXTENDS Naturals, Sequences, SequencesExt

CONSTANTS
  Budget,       \* frames that audio-queue-ms allows in a block
  HasVideo,     \* a coordinated session with a video track
  Local,        \* a standalone element, which opens its session itself
  Header,       \* units of a GDP header
  Room,         \* units that may be in the socket when a packet is written
  Shift,        \* the clock mapping: consumer time minus producer time
  Faults,       \* may elements fail, deadlines pass, the session be cancelled?
  MaxTime,      \* bound: positions
  MaxItems,     \* bound: blocks and GAPs that reach the sink
  MaxPauses     \* bound: times the source is paused

AudioAssumption ==
  /\ {Budget, Header} \subseteq Nat \ {0} /\ {Room, Shift, MaxTime, MaxItems, MaxPauses} \subseteq Nat
  /\ {HasVideo, Local, Faults} \subseteq BOOLEAN /\ ~(HasVideo /\ Local)

VARIABLES
  sink, src,                     \* stage of each element
  startup,                       \* startup[s]: stage of FlAudioStartup's worker
  cancelled,                     \* cancelled[s]: the coordinator of side s
  segment, origin, samples,      \* the sink: haveSegment, origin, samples
  blocks, total,                 \* the sink: blocks, totalSamples (and so bytes)
  queue,                         \* the sink's queue element
  wire,                          \* units in the socket
  chunk,                         \* the reader's pendingDelivery
  parser,                        \* boundedWire: headerUsed, payloadRemaining
  partial,                       \* units gdpdepay holds
  cSegment, cBlocks, cTotal,     \* the source: segment, blocks, bytes
  flushing, pauses,
  videoEnd,                      \* videoEnd[s]: the video track's end, as side s knows it
  sent, out                      \* history: items accepted and delivered

sinkVars == <<sink, segment, origin, samples, blocks, total, queue, sent>>
srcVars  == <<src, chunk, parser, partial, cSegment, cBlocks, cTotal, out>>
vars     == <<sinkVars, srcVars, startup, cancelled, wire, flushing, pauses, videoEnd>>

Sides == {"P", "C"}
None  == 999
Item(kind, pts, n, discont) == [kind |-> kind, pts |-> pts, n |-> n, discont |-> discont]
Segment == Item("segment", 0, 0, FALSE)

Init ==
  /\ sink = "null" /\ src = "null" /\ startup = [s \in Sides |-> "none"]
  /\ cancelled = [s \in Sides |-> FALSE] /\ videoEnd = [s \in Sides |-> 0]
  /\ segment = FALSE /\ origin = None /\ samples = 0 /\ blocks = 0 /\ total = 0
  /\ queue = <<>> /\ wire = <<>> /\ chunk = <<>> /\ parser = [used |-> 0, left |-> 0, ok |-> TRUE]
  /\ partial = <<>> /\ cSegment = FALSE /\ cBlocks = 0 /\ cTotal = 0
  /\ flushing = FALSE /\ pauses = 0 /\ sent = <<>> /\ out = <<>>

-----------------------------------------------------------------------------
(* Startup. *)

(* NULL to READY: claim the session's stream, or start the worker that opens *)
(* a session; the counters start from nothing.                               *)
SinkStart ==
  /\ sink = "null" /\ ~cancelled["P"] /\ sink' = "running"
  /\ startup' = [startup EXCEPT !["P"] = IF Local THEN "opening" ELSE @]
  /\ segment' = FALSE /\ origin' = None /\ samples' = 0 /\ blocks' = 0 /\ total' = 0
  /\ UNCHANGED <<queue, sent, srcVars, cancelled, wire, flushing, pauses, videoEnd>>

SrcStart ==
  /\ src = "null" /\ ~cancelled["C"] /\ src' = "running"
  /\ startup' = [startup EXCEPT !["C"] = IF Local THEN "opening" ELSE @]
  /\ parser' = [used |-> 0, left |-> 0, ok |-> TRUE] /\ cSegment' = FALSE /\ cBlocks' = 0 /\ cTotal' = 0
  /\ UNCHANGED <<chunk, partial, out, sinkVars, cancelled, wire, flushing, pauses, videoEnd>>

(* FlAudioStartup's worker: the session is open, or opening it failed. *)
StartupEnds(s, ok) ==
  /\ startup[s] = "opening"
  /\ IF ok THEN \A r \in Sides : startup[r] # "none" /\ ~cancelled[r] ELSE Faults \/ \E r \in Sides : cancelled[r]
  /\ startup' = [startup EXCEPT ![s] = IF ok THEN "open" ELSE "failed"]
  /\ UNCHANGED <<sinkVars, srcVars, cancelled, wire, flushing, pauses, videoEnd>>

Opened(s) == Local => startup[s] = "open"

-----------------------------------------------------------------------------
(* The sink's probe: inspect. *)

(* reject: post one error, cancel the session and drop the item. *)
Reject ==
  /\ sink' = "failed" /\ cancelled' = [cancelled EXCEPT !["P"] = TRUE]
  /\ UNCHANGED <<segment, origin, samples, blocks, total, queue, sent, srcVars, startup, wire, flushing, pauses, videoEnd>>

Accept(item) == queue' = Append(queue, item) /\ sent' = Append(sent, item)

SinkSegment ==
  /\ sink = "running" /\ ~segment /\ segment' = TRUE /\ queue' = Append(queue, Segment)
  /\ UNCHANGED <<sink, origin, samples, blocks, total, sent, srcVars, startup, cancelled, wire, flushing, pauses, videoEnd>>

(* A block continues the timeline, or starts it anew. *)
Continues(item) == origin = None \/ item.discont \/ item.pts = origin + samples

Fits(item) == item.n \in 1..Budget

SinkBlock(item) ==
  /\ sink = "running" /\ Opened("P") /\ ~cancelled["P"] /\ segment /\ Len(sent) < MaxItems
  /\ Fits(item) /\ Continues(item) /\ Accept(item)
  /\ IF origin = None \/ item.discont THEN origin' = item.pts /\ samples' = item.n
     ELSE origin' = origin /\ samples' = samples + item.n
  /\ blocks' = blocks + 1 /\ total' = total + item.n
  /\ UNCHANGED <<sink, segment, srcVars, startup, cancelled, wire, flushing, pauses, videoEnd>>

(* A GAP moves the timeline to its end. *)
SinkGap(item) ==
  /\ sink = "running" /\ segment /\ Len(sent) < MaxItems /\ Accept(item)
  /\ origin' = item.pts + item.n /\ samples' = 0
  /\ UNCHANGED <<sink, segment, blocks, total, srcVars, startup, cancelled, wire, flushing, pauses, videoEnd>>

(* Refused: a block without segment, of no or too many frames, off the       *)
(* timeline, or after startup or the session failed.                         *)
SinkRejects(item) ==
  /\ sink = "running"
  /\ \/ startup["P"] = "failed" \/ cancelled["P"]
     \/ Faults /\ Opened("P") /\ (~segment \/ ~Fits(item) \/ ~Continues(item))
  /\ Reject

(* A flush, an unsupported segment, or an error of an inner element. *)
SinkFails == Faults /\ sink \in {"running", "eos"} /\ Reject

SinkEos ==
  /\ sink = "running" /\ sink' = "eos"
  /\ queue' = Append(queue, Item("eos", 0, 0, FALSE)) /\ sent' = Append(sent, Item("eos", 0, 0, FALSE))
  /\ UNCHANGED <<segment, origin, samples, blocks, total, srcVars, startup, cancelled, wire, flushing, pauses, videoEnd>>

-----------------------------------------------------------------------------
(* The sink's writer: gdppay, the terminal probe, and the socket. *)

Units(item) == IF item.kind = "pcm" THEN item.n ELSE 1

Packet(item) == [i \in 1..(Header + Units(item)) |-> [item |-> item, part |-> i]]

(* A packet goes out once the stream is open; a packet is only written when  *)
(* the socket has room.                                                      *)
MayWrite ==
  /\ sink \in {"running", "eos"} /\ Opened("P") /\ ~cancelled["P"] /\ Len(wire) <= Room
  /\ queue # <<>> /\ Head(queue).kind # "eos"

Write ==
  /\ MayWrite /\ wire' = wire \o Packet(Head(queue)) /\ queue' = Tail(queue)
  /\ UNCHANGED <<sink, segment, origin, samples, blocks, total, sent, srcVars, startup, cancelled, flushing, pauses, videoEnd>>

(* The write fails or the process dies in the middle of a packet: what was   *)
(* written of it stays in the socket.                                        *)
WriteCut(k) ==
  /\ Faults /\ MayWrite /\ k \in 1..(Len(Packet(Head(queue))) - 1)
  /\ wire' = wire \o SubSeq(Packet(Head(queue)), 1, k)
  /\ sink' = "failed" /\ cancelled' = [cancelled EXCEPT !["P"] = TRUE]
  /\ UNCHANGED <<segment, origin, samples, blocks, total, queue, sent, srcVars, startup, flushing, pauses, videoEnd>>

AtEos == sink = "eos" /\ Opened("P") /\ Len(wire) <= Room /\ queue # <<>> /\ Head(queue).kind = "eos"

(* config.generation.  A standalone sink learns the session's when it        *)
(* inspects its first block; until then it is zero.                          *)
Generation == IF Local /\ blocks = 0 THEN 0 ELSE 1

(* The terminal record: how many blocks and frames, and the video's end. *)
Terminal ==
  [kind |-> "end", generation |-> Generation, pts |-> blocks, n |-> total, discont |-> FALSE,
   video |-> videoEnd["P"]]

(* Mutant: the packet of the empty buffer is sent too. *)
BugEmptyTrigger == IF blocks = 0 THEN Packet(Item("pcm", 0, 0, FALSE)) ELSE <<>>

(* For an empty stream gdppay is set off by an empty buffer, whose packet is *)
(* dropped again.                                                            *)
EmptyTrigger == <<>>

(* Mutant: the record does not wait for the end of the video. *)
BugWriteTerminal ==
  /\ AtEos /\ ~cancelled["P"]
  /\ wire' = wire \o (IF segment THEN <<>> ELSE Packet(Segment)) \o Packet(Terminal) \o EmptyTrigger
  /\ queue' = <<>> /\ sink' = "ended"
  /\ UNCHANGED <<segment, origin, samples, blocks, total, sent, srcVars, startup, cancelled, flushing, pauses, videoEnd>>

(* EOS follows the record; an empty stream gets a segment first. *)
WriteTerminal ==
  /\ AtEos /\ ~cancelled["P"] /\ (HasVideo => videoEnd["P"] # 0)
  /\ wire' = wire \o (IF segment THEN <<>> ELSE Packet(Segment)) \o Packet(Terminal) \o EmptyTrigger
  /\ queue' = <<>> /\ sink' = "ended"
  /\ UNCHANGED <<segment, origin, samples, blocks, total, sent, srcVars, startup, cancelled, flushing, pauses, videoEnd>>

(* No end of the video within idle-timeout-ms, or a broken stream. *)
TerminalRejected ==
  /\ AtEos /\ (cancelled["P"] \/ (Faults /\ HasVideo /\ videoEnd["P"] = 0)) /\ Reject

(* Leaving PAUSED cancels the session, which shuts the socket down: what was *)
(* written is still delivered.                                               *)
SinkStop ==
  /\ sink \in {"running", "eos", "ended", "failed"} /\ (Faults \/ src \in {"ended", "failed"})
  /\ sink' = "stopped" /\ cancelled' = [cancelled EXCEPT !["P"] = TRUE]
  /\ UNCHANGED <<segment, origin, samples, blocks, total, queue, sent, srcVars, startup, wire, flushing, pauses, videoEnd>>

-----------------------------------------------------------------------------
(* The source's reader. *)

SrcFails ==
  /\ src' = "failed" /\ cancelled' = [cancelled EXCEPT !["C"] = TRUE]
  /\ UNCHANGED <<chunk, parser, partial, cSegment, cBlocks, cTotal, out, sinkVars, startup, wire, flushing, pauses, videoEnd>>

(* boundedWire: follow the packets through chunks that split them anywhere,  *)
(* and refuse a size the session does not allow.                             *)
BoundedWire(p, u) ==
  IF p.left > 0 THEN [p EXCEPT !.left = @ - 1]
  ELSE IF p.used + 1 < Header THEN [p EXCEPT !.used = @ + 1]
  ELSE [used |-> 0, left |-> Units(u.item),
        ok |-> p.ok /\ u.part = Header /\ (u.item.kind = "pcm" => Fits(u.item))]

CanRead == src = "running" /\ ~flushing /\ Opened("C") /\ ~cancelled["C"] /\ chunk = <<>>

(* Read what is there; the buffer is kept until it is really pushed. *)
Read(k) ==
  /\ CanRead /\ k \in 1..Len(wire)
  /\ LET data == SubSeq(wire, 1, k)
         p    == FoldLeft(BoundedWire, parser, data)
     IN  /\ p.ok /\ parser' = p /\ chunk' = data /\ src' = "push" /\ wire' = SubSeq(wire, k + 1, Len(wire))
  /\ UNCHANGED <<partial, cSegment, cBlocks, cTotal, out, sinkVars, startup, cancelled, flushing, pauses, videoEnd>>

(* A header out of bounds, the peer closed before the terminal record, an    *)
(* idle deadline, a cancelled session, a failed startup.                     *)
ReadFails ==
  /\ src = "running" /\ ~flushing
  /\ \/ cancelled["C"] \/ startup["C"] = "failed"
     \/ CanRead /\ (Faults \/ (cancelled["P"] /\ wire = <<>>))
     \/ CanRead /\ \E k \in 1..Len(wire) : ~FoldLeft(BoundedWire, parser, SubSeq(wire, 1, k)).ok
  /\ SrcFails

(* A buffer that a pause kept from being pushed is returned again. *)
ReadAgain ==
  /\ src = "running" /\ ~flushing /\ chunk # <<>> /\ src' = "push"
  /\ UNCHANGED <<chunk, parser, partial, cSegment, cBlocks, cTotal, out, sinkVars, startup, cancelled, wire, flushing, pauses, videoEnd>>

PushDiscarded ==
  /\ src = "push" /\ flushing /\ src' = "running"
  /\ UNCHANGED <<chunk, parser, partial, cSegment, cBlocks, cTotal, out, sinkVars, startup, cancelled, wire, flushing, pauses, videoEnd>>

(* The pad's probe lets the buffer go; gdpdepay collects it. *)
Push ==
  /\ src = "push" /\ src' = "depay" /\ chunk' = <<>> /\ partial' = partial \o chunk
  /\ UNCHANGED <<parser, cSegment, cBlocks, cTotal, out, sinkVars, startup, cancelled, wire, flushing, pauses, videoEnd>>

Whole == partial # <<>> /\ Len(partial) >= Header + Units(partial[1].item)

(* gdpdepay checks the checksums of a packet. *)
Intact == Whole /\ \A i \in 1..(Header + Units(partial[1].item)) : partial[i].part = i

DepayEmpty ==
  /\ src = "depay" /\ ~Whole /\ src' = "running"
  /\ UNCHANGED <<chunk, parser, partial, cSegment, cBlocks, cTotal, out, sinkVars, startup, cancelled, wire, flushing, pauses, videoEnd>>

Depayed == partial' = SubSeq(partial, Header + Units(partial[1].item) + 1, Len(partial))

Mapped(item) == [item EXCEPT !.pts = @ + Shift]

(* inspectPcm: a segment, a block or a GAP, mapped to the consumer's clock. *)
DepaySegment ==
  /\ src = "depay" /\ Intact /\ ~cancelled["C"] /\ partial[1].item.kind = "segment"
  /\ Depayed /\ cSegment' = TRUE
  /\ UNCHANGED <<src, chunk, parser, cBlocks, cTotal, out, sinkVars, startup, cancelled, wire, flushing, pauses, videoEnd>>

DepayMedia ==
  /\ src = "depay" /\ Intact /\ ~cancelled["C"] /\ cSegment
  /\ LET item == partial[1].item
     IN  /\ item.kind \in {"pcm", "gap"} /\ out' = Append(out, Mapped(item))
         /\ cBlocks' = cBlocks + (IF item.kind = "pcm" THEN 1 ELSE 0)
         /\ cTotal' = cTotal + (IF item.kind = "pcm" THEN item.n ELSE 0)
  /\ Depayed
  /\ UNCHANGED <<src, chunk, parser, cSegment, sinkVars, startup, cancelled, wire, flushing, pauses, videoEnd>>

(* The record is of the session's generation, and its totals agree. *)
TerminalMatches(item) == item.generation = 1 /\ item.pts = cBlocks /\ item.n = cTotal

(* The terminal record: it matches, the coordinator learns the video's *)
(* end, and EOS is pushed.                                                   *)
DepayEnd ==
  /\ src = "depay" /\ Intact /\ ~cancelled["C"] /\ partial[1].item.kind = "end" /\ TerminalMatches(partial[1].item)
  /\ videoEnd' = [videoEnd EXCEPT !["C"] = IF HasVideo THEN partial[1].item.video ELSE @]
  /\ Depayed /\ src' = "ended" /\ out' = Append(out, Item("eos", 0, 0, FALSE))
  /\ UNCHANGED <<chunk, parser, cSegment, cBlocks, cTotal, sinkVars, startup, cancelled, wire, flushing, pauses>>

DepayFails ==
  /\ src = "depay"
  /\ \/ cancelled["C"] \/ (Whole /\ ~Intact)
     \/ Whole /\ partial[1].item.kind \in {"pcm", "gap"} /\ ~cSegment
     \/ Whole /\ partial[1].item.kind = "end" /\ ~TerminalMatches(partial[1].item)
  /\ SrcFails

(* A live source is paused: the read is cancelled, and resumed by PLAYING. *)
Unlock ==
  /\ src \in {"running", "push"} /\ ~flushing /\ pauses < MaxPauses /\ flushing' = TRUE /\ pauses' = pauses + 1
  /\ UNCHANGED <<sinkVars, srcVars, startup, cancelled, wire, videoEnd>>

UnlockStop ==
  /\ flushing /\ src # "push" /\ flushing' = FALSE
  /\ UNCHANGED <<sinkVars, srcVars, startup, cancelled, wire, pauses, videoEnd>>

(* The other track, the application or a lost peer cancels a session. *)
Cancel(s) ==
  /\ Faults /\ ~cancelled[s] /\ cancelled' = [cancelled EXCEPT ![s] = TRUE]
  /\ UNCHANGED <<sinkVars, srcVars, startup, wire, flushing, pauses, videoEnd>>

(* The video sink reports its end to the coordinator (VideoTrack). *)
VideoEnds ==
  /\ HasVideo /\ videoEnd["P"] = 0 /\ videoEnd' = [videoEnd EXCEPT !["P"] = 1]
  /\ UNCHANGED <<sinkVars, srcVars, startup, cancelled, wire, flushing, pauses>>

-----------------------------------------------------------------------------
Blocks == [kind : {"pcm"}, pts : 0..MaxTime, n : 0..(Budget + 1), discont : BOOLEAN]
Gaps   == [kind : {"gap"}, pts : 0..MaxTime, n : {1}, discont : {FALSE}]

WriterStep == Write \/ WriteTerminal \/ TerminalRejected
CutStep    == \E k \in 1..(Header + Budget) : WriteCut(k)

ReaderStep ==
  \/ \E k \in 1..Len(wire) : Read(k)
  \/ ReadFails \/ ReadAgain \/ PushDiscarded \/ Push
  \/ DepayEmpty \/ DepaySegment \/ DepayMedia \/ DepayEnd \/ DepayFails

StartupStep(s) == \E ok \in BOOLEAN : StartupEnds(s, ok)

Next ==
  \/ SinkStart \/ SrcStart \/ WriterStep \/ CutStep \/ ReaderStep
  \/ \E s \in Sides : StartupStep(s) \/ Cancel(s)
  \/ SinkSegment \/ SinkFails \/ SinkEos \/ SinkStop
  \/ \E item \in Blocks : SinkBlock(item) \/ SinkRejects(item)
  \/ \E item \in Gaps : SinkGap(item)
  \/ Unlock \/ UnlockStop \/ VideoEnds

Spec == Init /\ [][Next]_vars

(* The threads of the elements run and a pause ends; nothing makes upstream  *)
(* send, fail or stop.                                                       *)
Fair == {"SinkStart", "SrcStart", "WriterStep", "ReaderStep", "UnlockStop", "VideoEnds"} \union Sides

FairStep(n) ==
  \/ n = "SinkStart" /\ SinkStart
  \/ n = "SrcStart" /\ SrcStart
  \/ n = "WriterStep" /\ WriterStep
  \/ n = "ReaderStep" /\ ReaderStep
  \/ n = "UnlockStop" /\ UnlockStop
  \/ n = "VideoEnds" /\ VideoEnds
  \/ n \in Sides /\ StartupStep(n)

LiveSpec == Spec /\ \A n \in Fair : WF_vars(FairStep(n))

-----------------------------------------------------------------------------
Items == Blocks \cup Gaps \cup {Segment, Item("eos", 0, 0, FALSE)}

(* Every variable of the audio track stays within its type. *)
TypeOK ==
  /\ sink \in {"null", "running", "eos", "ended", "failed", "stopped"}
  /\ src \in {"null", "running", "push", "depay", "ended", "failed"}
  /\ startup \in [Sides -> {"none", "opening", "open", "failed"}] /\ cancelled \in [Sides -> BOOLEAN]
  /\ {segment, cSegment, flushing} \subseteq BOOLEAN /\ {samples, blocks, total, cBlocks, cTotal} \subseteq Nat
  /\ origin \in 0..(MaxTime + 1) \cup {None} /\ pauses \in 0..MaxPauses
  /\ parser.used \in 0..(Header - 1) /\ parser.left \in 0..(Budget + 1)
  /\ {queue[i] : i \in DOMAIN queue} \subseteq Items /\ {sent[i] : i \in DOMAIN sent} \subseteq Items
  /\ Len(out) <= MaxItems + 1 /\ videoEnd \in [Sides -> {0, 1}]

Unmapped(item) == IF item.kind = "eos" THEN item ELSE [item EXCEPT !.pts = @ - Shift]

(* However the socket cuts the packets, pauses interrupt the reading and     *)
(* elements fail: downstream gets exactly the blocks and GAPs that went in,  *)
(* in order, on the consumer's clock, and EOS only after the last of them.   *)
DeliveryIsPrefix == IsPrefix([i \in DOMAIN out |-> Unmapped(out[i])], sent)

(* Two neighbouring items of the delivered stream leave no unmarked hole or  *)
(* overlap: a block starts where the block or GAP before it ended, or says   *)
(* DISCONT.                                                                  *)
TimelineMarked ==
  \A i \in 1..(Len(out) - 1) :
    out[i + 1].kind = "pcm" => out[i + 1].discont \/ out[i + 1].pts = out[i].pts + out[i].n

(* A consumer whose audio ended knows the end of the producer's video: the   *)
(* terminal record waited for it.                                            *)
EndCarriesVideo == src = "ended" => videoEnd["C"] = videoEnd["P"] /\ (HasVideo => videoEnd["C"] # 0)

(* With nothing failing a stream that was accepted passes the consumer's own *)
(* checks and ends there, the empty one of a session included.  A standalone *)
(* stream without a block (none, or GAPs only) does not: the record of its   *)
(* end says generation zero, and the consumer fails                          *)
(* (gstframelinkaudio.cpp:112, 254; gstframelinkaudiosrc.cpp:101).           *)
AudioCompletes == sink = "eos" ~> src = (IF Generation = 0 THEN "failed" ELSE "ended")

(* A producer that failed or stopped is noticed: the consumer ends or fails, *)
(* it does not wait for ever.                                                *)
LossNoticed == sink \in {"failed", "stopped"} ~> src \in {"null", "ended", "failed"}
=============================================================================
