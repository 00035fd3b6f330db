----------------------------- MODULE MCThreads -----------------------------
(***************************************************************************)
(* What the threads of one process share, for TLC: the flight recorder,    *)
(* the session coordinator and the event channel.  A behaviour runs one of *)
(* the parts, the one `part' names, and leaves the others in their initial *)
(* state.                                                                  *)
(***************************************************************************)
EXTENDS TraceRecorder

CONSTANTS Waiters, MaxGen, Mappings, Ends, QueueLimit, MaxSerial

VARIABLES
  part,
  generation, cancelled, registered, ready, mapping, videoEnd, audio, audioClaimed, stream, channel,
  thread, readyFor, claims, mapped, ended,
  pFailed, pCancelled, pClosed, sent, writing, wire, cFailed, cCancelled, cClosed, serial, inHand,
  reading, queue, log, delivered

coordinator ==
  <<generation, cancelled, registered, ready, mapping, videoEnd, audio, audioClaimed, stream, channel,
    thread, readyFor, claims, mapped, ended>>
link ==
  <<pFailed, pCancelled, pClosed, sent, writing, wire, cFailed, cCancelled, cClosed, serial, inHand,
    reading, queue, log, delivered>>
mcvars == <<vars, coordinator, link, part>>

(* One track, two mappings and two ends; two tracks and two threads. *)
OneThread == {CHOOSE t \in Waiters : TRUE}
Session == INSTANCE GstSession WITH Required <- {"video"}, Threads <- OneThread, events <- stream
Tracks  ==
  INSTANCE GstSession WITH Required <- {"video", "audio"}, Threads <- Waiters, Mappings <- {},
    Ends <- {CHOOSE e \in Ends : TRUE}, events <- stream

Events == INSTANCE EventChannel

ASSUME ThreadsAssumption == Session!SessionAssumption /\ Tracks!SessionAssumption /\ Events!EventAssumption

MCInit ==
  /\ part \in {"recorder", "session", "tracks", "events"}
  /\ Init /\ Events!Init
  /\ IF part = "tracks" THEN Tracks!Init ELSE Session!Init

MCNext ==
  /\ \/ part = "recorder" /\ Next         /\ UNCHANGED <<coordinator, link>>
     \/ part = "session"  /\ Session!Next /\ UNCHANGED <<vars, link>>
     \/ part = "tracks"   /\ Tracks!Next  /\ UNCHANGED <<vars, link>>
     \/ part = "events"   /\ Events!Next  /\ UNCHANGED <<vars, coordinator>>
  /\ UNCHANGED part

MCSpec ==
  /\ MCInit /\ [][MCNext]_mcvars
  /\ \A t \in OneThread   : WF_coordinator(part = "session" /\ Session!FairStep(t))
  /\ \A n \in Events!Fair : WF_link(part = "events" /\ Events!FairStep(n))

-----------------------------------------------------------------------------
(* GstSession: however sessions are configured, cancelled and configured     *)
(* again, readiness counts for the generation in force, no wakeup is lost,   *)
(* a generation has one mapping and one end, an audio stream is claimed once *)
(* and no stream outlives its session (framelink_session_context.cpp).       *)
CoordinatorSound ==
  /\ part = "session" =>
       /\ Session!TypeOK /\ Session!ReadyIsCurrent /\ Session!NoLostWakeup
       /\ Session!OneMapping /\ Session!OneEnd /\ Session!StreamsFollowSession
  /\ part = "tracks" =>
       /\ Tracks!TypeOK /\ Tracks!ReadyIsCurrent /\ Tracks!NoLostWakeup
       /\ Tracks!AudioClaimedOnce /\ Tracks!StreamsFollowSession

(* EventChannel: the video source receives a prefix of what was written,     *)
(* never loses an event without being told, and sees nothing behind a FLUSH  *)
(* (fl_gst_event_channel.hpp:22-65).                                         *)
EventsSound ==
  part = "events" => Events!TypeOK /\ Events!PrefixDelivered /\ Events!NoSilentLoss /\ Events!FlushEndsSession

(* A READY answer goes to a waiter of the generation in force, and a         *)
(* cancelled session returns every waiter; an event that was written arrives *)
(* unless the channel fails, and its reader thread ends with either         *)
(* endpoint (framelink_session_context.cpp:76-93,                            *)
(* fl_gst_event_channel.hpp:22-41).                                          *)
ThreadsReturn ==
  /\ [][/\ part = "session" => Session!WaiterIsCurrent
        /\ part = "tracks"  => Tracks!WaiterIsCurrent]_coordinator
  /\ part = "session" => Session!CancelReturns
  /\ part = "events"  => Events!EventsArrive /\ Events!ReaderStops

=============================================================================
