---------------------------- MODULE EventChannel ----------------------------
(***************************************************************************)
(* One event stream of an A/V session (FlGstEventChannel in                *)
(* src/gst/fl_gst_event_channel.hpp): the producer's streaming and         *)
(* application threads send GAP, BARRIER, FLUSH and END records over a     *)
(* socket; the consumer's reader thread queues them and the video source   *)
(* receives them.  Both endpoints may be cancelled or destroyed at any     *)
(* moment and a write may fail with part of the record already out.        *)
(***************************************************************************)
EXTENDS Naturals, Sequences, SequencesExt

CONSTANTS
  QueueLimit,   \* 32: records the consumer keeps before it gives up
  MaxSerial     \* bound: G_MAXUINT64, the last serial send hands out

EventAssumption ==
  /\ QueueLimit \in Nat \ {0}
  /\ MaxSerial \in Nat \ {0}

Kinds  == {"GAP", "BARRIER", "FLUSH", "END"}
Record == [serial : 1 .. MaxSerial, kind : Kinds]
Cut    == [serial |-> 0, kind |-> "CUT"]   \* a truncated record: bytes that never become 64

VARIABLES
  \* producer endpoint
  pFailed, pCancelled, pClosed,
  sent,       \* sent_
  writing,    \* record of the thread inside send, holding writeMutex_: length 0 or 1
  \* the socket
  wire,
  \* consumer endpoint
  cFailed, cCancelled, cClosed,
  serial,     \* readLoop's own count
  inHand,     \* record readLoop has read and not queued yet: a sequence of length 0 or 1
  reading,    \* readLoop has not returned
  queue,      \* events_
  \* history
  log,        \* records whose write succeeded, in order
  delivered   \* records receive has returned, in order

producerVars == <<pFailed, pCancelled, pClosed, sent, writing>>
readerVars   == <<serial, inHand, reading>>
endVars      == <<cFailed, cCancelled, cClosed>>
vars == <<producerVars, wire, readerVars, endVars, queue, log, delivered>>

Init ==
  /\ pFailed = FALSE /\ pCancelled = FALSE /\ pClosed = FALSE /\ sent = 0 /\ writing = <<>>
  /\ wire = <<>>
  /\ cFailed = FALSE /\ cCancelled = FALSE /\ cClosed = FALSE
  /\ serial = 0 /\ inHand = <<>> /\ reading = TRUE /\ queue = <<>>
  /\ log = <<>> /\ delivered = <<>>

-----------------------------------------------------------------------------
(* send: the checks and the serial, under writeMutex_. *)

SendBegin(kind) ==
  /\ writing = <<>> /\ ~pClosed
  /\ ~pFailed /\ ~pCancelled /\ sent < MaxSerial
  /\ sent' = sent + 1
  /\ writing' = <<[serial |-> sent + 1, kind |-> kind]>>
  /\ UNCHANGED <<pFailed, pCancelled, pClosed, wire, readerVars, endVars, queue, log, delivered>>

SendWritten ==
  /\ writing # <<>> /\ ~cClosed
  /\ wire' = wire \o writing
  /\ log' = log \o writing
  /\ writing' = <<>>
  /\ UNCHANGED <<pFailed, pCancelled, pClosed, sent, readerVars, endVars, queue, delivered>>

(* The write is cancelled, times out or meets a closed socket. *)
SendFails ==
  /\ writing # <<>>
  /\ wire' \in {wire, Append(wire, Cut)}
  /\ writing' = <<>>
  /\ pFailed' = TRUE /\ pCancelled' = TRUE
  /\ UNCHANGED <<pClosed, sent, readerVars, endVars, queue, log, delivered>>

(* cancel(), from fl_gst_session_cancel or a newer configuration. *)
CancelProducer ==
  /\ ~pCancelled /\ ~pClosed
  /\ pCancelled' = TRUE
  /\ UNCHANGED <<pFailed, pClosed, sent, writing, wire, readerVars, endVars, queue, log, delivered>>

CancelConsumer ==
  /\ ~cCancelled /\ ~cClosed
  /\ cCancelled' = TRUE
  /\ UNCHANGED <<producerVars, wire, readerVars, cFailed, cClosed, queue, log, delivered>>

(* The destructor runs when no call holds the shared_ptr; it cancels, joins  *)
(* the reader and closes the stream.                                         *)
CloseProducer ==
  /\ ~pClosed /\ writing = <<>>
  /\ pClosed' = TRUE /\ pCancelled' = TRUE
  /\ UNCHANGED <<pFailed, sent, writing, wire, readerVars, endVars, queue, log, delivered>>

CloseConsumer ==
  /\ ~cClosed /\ cCancelled /\ ~reading
  /\ cClosed' = TRUE
  /\ UNCHANGED <<producerVars, wire, readerVars, cFailed, cCancelled, queue, log, delivered>>

-----------------------------------------------------------------------------
(* readLoop. *)

Fail == cFailed' = TRUE /\ cCancelled' = TRUE /\ reading' = FALSE

ReadRecord ==
  /\ reading /\ inHand = <<>> /\ ~cCancelled
  /\ wire # <<>> /\ Head(wire) # Cut
  /\ inHand' = <<Head(wire)>> /\ wire' = Tail(wire)
  /\ UNCHANGED <<producerVars, serial, reading, endVars, queue, log, delivered>>

(* A truncated record, or the end of the stream. *)
ReadFails ==
  /\ reading /\ inHand = <<>> /\ ~cCancelled
  /\ \/ wire # <<>> /\ Head(wire) = Cut
     \/ wire = <<>> /\ pClosed
  /\ Fail
  /\ UNCHANGED <<producerVars, wire, serial, inHand, cClosed, queue, log, delivered>>

ReadCancelled ==
  /\ reading /\ inHand = <<>> /\ cCancelled
  /\ reading' = FALSE
  /\ UNCHANGED <<producerVars, wire, serial, inHand, endVars, queue, log, delivered>>

(* The serial must be the next one and a FLUSH ends the session. *)
Accepted(r) == r.serial = serial + 1 /\ r.kind # "FLUSH"

RejectRecord ==
  /\ inHand # <<>> /\ ~Accepted(Head(inHand))
  /\ Fail /\ inHand' = <<>> /\ serial' = serial + 1
  /\ UNCHANGED <<producerVars, wire, cClosed, queue, log, delivered>>

(* Mutant: the event is dropped and the channel goes on. *)
BugOverflow ==
  /\ inHand # <<>> /\ Accepted(Head(inHand)) /\ Len(queue) >= QueueLimit
  /\ inHand' = <<>> /\ serial' = serial + 1
  /\ UNCHANGED <<producerVars, wire, reading, endVars, queue, log, delivered>>

(* The queue is full: the event is lost and the channel fails. *)
Overflow ==
  /\ inHand # <<>> /\ Accepted(Head(inHand)) /\ Len(queue) >= QueueLimit
  /\ Fail /\ inHand' = <<>> /\ serial' = serial + 1
  /\ UNCHANGED <<producerVars, wire, cClosed, queue, log, delivered>>

QueueRecord ==
  /\ inHand # <<>> /\ Accepted(Head(inHand)) /\ Len(queue) < QueueLimit
  /\ queue' = queue \o inHand /\ inHand' = <<>> /\ serial' = serial + 1
  /\ UNCHANGED <<producerVars, wire, reading, endVars, log, delivered>>

(* receive: a queued record is returned even when the channel has failed or  *)
(* been cancelled; the other two answers change nothing.                     *)
Receive ==
  /\ queue # <<>> /\ ~cClosed
  /\ delivered' = Append(delivered, Head(queue)) /\ queue' = Tail(queue)
  /\ UNCHANGED <<producerVars, wire, readerVars, endVars, log>>

(* peekEnd: the queued END record, whatever stands before it. *)
EndQueued == \E i \in DOMAIN queue : queue[i].kind = "END"

ReadLoop == ReadRecord \/ ReadFails \/ ReadCancelled \/ RejectRecord \/ Overflow \/ QueueRecord
Write    == SendWritten \/ SendFails

Next ==
  \/ \E k \in Kinds : SendBegin(k)
  \/ Write \/ ReadLoop \/ Receive
  \/ CancelProducer \/ CancelConsumer \/ CloseProducer \/ CloseConsumer

Spec == Init /\ [][Next]_vars

(* A write ends within the socket's timeout, the reader thread is scheduled  *)
(* and the video source keeps receiving.                                     *)
Fair == {"Write", "ReadLoop", "Receive"}

FairStep(n) ==
  \/ n = "Write" /\ Write
  \/ n = "ReadLoop" /\ ReadLoop
  \/ n = "Receive" /\ Receive

LiveSpec == Spec /\ \A n \in Fair : WF_vars(FairStep(n))

-----------------------------------------------------------------------------
(* Properties. *)

TypeOK ==
  /\ {pFailed, pCancelled, pClosed, cFailed, cCancelled, cClosed, reading} \subseteq BOOLEAN
  /\ sent \in 0 .. MaxSerial
  /\ writing \in Seq(Record) /\ Len(writing) <= 1
  /\ wire \in Seq(Record \union {Cut})
  /\ serial \in 0 .. MaxSerial
  /\ inHand \in Seq(Record) /\ Len(inHand) <= 1
  /\ queue \in Seq(Record) /\ log \in Seq(Record) /\ delivered \in Seq(Record)

(* Whatever failed and in whatever order, what the video source has received *)
(* or will receive from the queue is a prefix of what the producer wrote: no *)
(* hole, no reordering, no record made up (readLoop, send).                  *)
PrefixDelivered == IsPrefix(delivered \o queue, log)

(* The records in the socket: only the last one can be truncated. *)
Whole(w) == IF w # <<>> /\ w[Len(w)] = Cut THEN SubSeq(w, 1, Len(w) - 1) ELSE w

(* While the consumer's endpoint reports neither failure nor cancellation,   *)
(* every record written is received, queued, being queued or still in the    *)
(* socket: an overflow or a failed write is never silent.                    *)
NoSilentLoss ==
  ~cFailed /\ ~cCancelled => delivered \o queue \o inHand \o Whole(wire) = log

(* A FLUSH ends the session: neither it nor anything sent after it ever      *)
(* reaches the video source, although both arrive (readLoop line 31).        *)
FlushEndsSession ==
  \A i \in DOMAIN (delivered \o queue), j \in DOMAIN log :
    log[j].kind = "FLUSH" => i < j

(* A record the producer wrote reaches the video source unless one of the    *)
(* two endpoints fails or is cancelled.                                      *)
EventsArrive ==
  \A n \in 1 .. MaxSerial :
    (Len(log) >= n) ~> (Len(delivered) >= n \/ cFailed \/ cCancelled)

(* A truncated record or the end of the stream makes the reader stop.        *)
ReaderStops == (pClosed \/ cCancelled) ~> ~reading
=============================================================================
