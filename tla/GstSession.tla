----------------------------- MODULE GstSession -----------------------------
(***************************************************************************)
(* The session coordinator (src/gst/framelink_session_context.cpp): one    *)
(* object that the transport's worker, the media elements and the          *)
(* application share.  Every call locks the coordinator's mutex;           *)
(* fl_gst_session_wait and fl_gst_session_wait_video_eos release it while  *)
(* they sleep on the condition "changed", and the event calls release it   *)
(* before they use the channel they looked up.                             *)
(*                                                                         *)
(* A configuration is its generation; the worker offers any generation, in *)
(* any order, and flSessionValidateReplacement decides.                    *)
(***************************************************************************)
EXTENDS Naturals

CONSTANTS
  Required,   \* the tracks fl_gst_session_new was given
  Threads,    \* threads that wait in the coordinator or use its event channel
  MaxGen,     \* bound: highest generation ever offered
  Mappings,   \* clock mappings the transport may measure
  Ends        \* terminal accounts (frames, last PTS) the video track may report

Tracks == {"video", "audio"}
Gens   == 1 .. MaxGen
None   == "none"

SessionAssumption ==
  /\ Required \subseteq Tracks /\ Required # {}
  /\ MaxGen \in Nat \ {0}
  /\ None \notin Mappings \union Ends

VARIABLES
  generation,   \* config.generation; 0 while not configured
  cancelled, registered, ready,
  mapping,      \* mapping, or None while not mapped
  videoEnd,     \* <<videoFrames, videoLastPts>>, or None while not videoEnded
  audio,        \* audioConnection: "none", "open" or "shutdown"
  audioClaimed,
  events,       \* *s->events holds the channel of this generation (0: empty)
  channel,      \* each generation's channel: "none", "open", "cancelled", "failed"
  thread,       \* what each thread does in the coordinator
  \* history
  readyFor,     \* generations each track reported ready for since the last configure or cancel
  claims,       \* claims of the audio stream handed out, per generation
  mapped,       \* <<generation, mapping>> used to convert a timestamp (the identity left out)
  ended         \* <<generation, end>> told to a waiter

configVars  == <<generation, mapping, videoEnd>>
streamVars  == <<audio, audioClaimed, events, channel>>
historyVars == <<readyFor, claims, mapped, ended>>
vars == <<configVars, cancelled, registered, ready, streamVars, thread, historyVars>>

Idle       == [at |-> "idle", gen |-> 0]
Sleeping   == {"asleep", "asleep eos"}
ThreadState == [at : {"idle", "wait", "asleep", "eos", "asleep eos", "channel"}, gen : 0 .. MaxGen]

Init ==
  /\ generation = 0 /\ mapping = None /\ videoEnd = None
  /\ cancelled = FALSE /\ registered = {} /\ ready = {}
  /\ audio = "none" /\ audioClaimed = FALSE
  /\ events = 0 /\ channel = [g \in Gens |-> "none"]
  /\ thread = [t \in Threads |-> Idle]
  /\ readyFor = [t \in Tracks |-> {}] /\ claims = [g \in Gens |-> 0]
  /\ mapped = {} /\ ended = {}

-----------------------------------------------------------------------------
(* g_cond_broadcast: every sleeper checks its condition again. *)
Broadcast ==
  thread' = [t \in Threads |->
    CASE thread[t].at = "asleep"     -> [thread[t] EXCEPT !.at = "wait"]
      [] thread[t].at = "asleep eos" -> [thread[t] EXCEPT !.at = "eos"]
      [] OTHER                       -> thread[t]]

Cancelled(g) == IF g # 0 /\ channel[g] = "open" THEN [channel EXCEPT ![g] = "cancelled"] ELSE channel
Shutdown     == IF audio = "open" THEN "shutdown" ELSE audio
Forgotten    == [t \in Tracks |-> {}]

(* A first configuration, or a replacement of a newer generation: everything *)
(* of the old one is torn down, and a cancellation is forgotten with it.     *)
Configure(g) ==
  /\ g > generation
  /\ generation' = g /\ mapping' = None /\ videoEnd' = None
  /\ cancelled' = FALSE /\ ready' = {}
  /\ audio' = "none" /\ audioClaimed' = FALSE
  /\ channel' = Cancelled(events) /\ events' = 0
  /\ readyFor' = Forgotten
  /\ Broadcast
  /\ UNCHANGED <<registered, claims, mapped, ended>>

RegisterTrack(t) ==
  /\ t \in Required \ registered
  /\ registered' = registered \union {t}
  /\ UNCHANGED <<configVars, cancelled, ready, streamVars, thread, historyVars>>

(* Mutant: nobody is woken. *)
BugTrackReady(t, g) ==
  /\ ~cancelled /\ g = generation /\ t \in registered
  /\ ready' = ready \union {t}
  /\ readyFor' = [readyFor EXCEPT ![t] = @ \union {g}]
  /\ UNCHANGED <<configVars, cancelled, registered, streamVars, thread, claims, mapped, ended>>

TrackReady(t, g) ==
  /\ ~cancelled /\ g = generation /\ t \in registered
  /\ ready' = ready \union {t}
  /\ readyFor' = [readyFor EXCEPT ![t] = @ \union {g}]
  /\ Broadcast
  /\ UNCHANGED <<configVars, cancelled, registered, streamVars, claims, mapped, ended>>

Cancel ==
  /\ cancelled' = TRUE /\ ready' = {} /\ readyFor' = Forgotten
  /\ channel' = Cancelled(events) /\ audio' = Shutdown
  /\ Broadcast
  /\ UNCHANGED <<configVars, registered, audioClaimed, events, claims, mapped, ended>>

-----------------------------------------------------------------------------
(* fl_gst_session_wait. *)

WaitCall(t, g) ==
  /\ thread[t] = Idle
  /\ thread' = [thread EXCEPT ![t] = [at |-> "wait", gen |-> g]]
  /\ UNCHANGED <<configVars, cancelled, registered, ready, streamVars, historyVars>>

WaitRefused(t) == cancelled \/ (generation # 0 /\ generation # thread[t].gen)

(* Mutant: a waiter looks at the generation and not at cancellation. *)
BugWaitDone(t) ==
  /\ thread[t].at = "wait" /\ generation \notin {0, thread[t].gen}
  /\ thread' = [thread EXCEPT ![t] = Idle]
  /\ UNCHANGED <<configVars, cancelled, registered, ready, streamVars, historyVars>>

WaitDone(t) ==
  /\ thread[t].at = "wait" /\ WaitRefused(t)
  /\ thread' = [thread EXCEPT ![t] = Idle]
  /\ UNCHANGED <<configVars, cancelled, registered, ready, streamVars, historyVars>>

WaitReady(t) ==
  /\ thread[t].at = "wait" /\ ~WaitRefused(t) /\ generation # 0 /\ ready = Required
  /\ thread' = [thread EXCEPT ![t] = Idle]
  /\ UNCHANGED <<configVars, cancelled, registered, ready, streamVars, historyVars>>

WaitSleeps(t) ==
  /\ thread[t].at = "wait" /\ ~WaitRefused(t) /\ (generation = 0 \/ ready # Required)
  /\ thread' = [thread EXCEPT ![t].at = "asleep"]
  /\ UNCHANGED <<configVars, cancelled, registered, ready, streamVars, historyVars>>

(* g_cond_wait_until gives up: TIMEOUT, without another look at the state. *)
WaitTimeout(t) ==
  /\ thread[t].at \in Sleeping
  /\ thread' = [thread EXCEPT ![t] = Idle]
  /\ UNCHANGED <<configVars, cancelled, registered, ready, streamVars, historyVars>>

-----------------------------------------------------------------------------
(* The clock mapping. *)

SetMapping(g, m) ==
  /\ ~cancelled /\ g = generation /\ mapping \in {None, m}
  /\ mapping' = m
  /\ UNCHANGED <<generation, videoEnd, cancelled, registered, ready, streamVars, thread, historyVars>>

Converted(g) == mapped' = mapped \union {<<g, m>> : m \in {mapping} \ {None}}

MapPts(g) ==
  /\ ~cancelled /\ g = generation /\ mapping # None
  /\ Converted(g)
  /\ UNCHANGED <<configVars, cancelled, registered, ready, streamVars, thread, readyFor, claims, ended>>

(* Audio-only callers may let the timestamp pass when no mapping is installed. *)
MapRunningTime(g, required) ==
  /\ ~cancelled /\ g = generation /\ (required => mapping # None)
  /\ Converted(g)
  /\ UNCHANGED <<configVars, cancelled, registered, ready, streamVars, thread, readyFor, claims, ended>>

(* get_config: a channel that failed cancels the session. *)
GetConfig ==
  /\ events # 0 /\ channel[events] = "failed"
  /\ cancelled' = TRUE /\ ready' = {} /\ readyFor' = Forgotten /\ audio' = Shutdown
  /\ Broadcast
  /\ UNCHANGED <<configVars, registered, audioClaimed, events, channel, claims, mapped, ended>>

-----------------------------------------------------------------------------
(* The audio stream. *)

PublishAudio(g) ==
  /\ "audio" \in Required /\ ~cancelled /\ g = generation /\ audio = "none"
  /\ audio' = "open" /\ audioClaimed' = FALSE
  /\ UNCHANGED <<configVars, cancelled, registered, ready, events, channel, thread, historyVars>>

ClaimAudioStream(g) ==
  /\ ~cancelled /\ g = generation /\ audio # "none" /\ ~audioClaimed
  /\ audioClaimed' = TRUE
  /\ claims' = [claims EXCEPT ![g] = @ + 1]
  /\ UNCHANGED <<configVars, cancelled, registered, ready, audio, events, channel, thread,
                 readyFor, mapped, ended>>

-----------------------------------------------------------------------------
(* The end of the video track. *)

VideoEos(g, e) ==
  /\ ~cancelled /\ g = generation /\ "video" \in Required /\ videoEnd \in {None, e}
  /\ videoEnd' = e
  /\ Broadcast
  /\ UNCHANGED <<generation, mapping, cancelled, registered, ready, streamVars, historyVars>>

EosCall(t, g) ==
  /\ thread[t] = Idle /\ "video" \in Required
  /\ thread' = [thread EXCEPT ![t] = [at |-> "eos", gen |-> g]]
  /\ UNCHANGED <<configVars, cancelled, registered, ready, streamVars, historyVars>>

EosRefused(t) == cancelled \/ generation # thread[t].gen

EosDone(t) ==
  /\ thread[t].at = "eos" /\ EosRefused(t)
  /\ thread' = [thread EXCEPT ![t] = Idle]
  /\ UNCHANGED <<configVars, cancelled, registered, ready, streamVars, historyVars>>

EosKnown(t) ==
  /\ thread[t].at = "eos" /\ ~EosRefused(t) /\ videoEnd # None
  /\ ended' = ended \union {<<thread[t].gen, videoEnd>>}
  /\ thread' = [thread EXCEPT ![t] = Idle]
  /\ UNCHANGED <<configVars, cancelled, registered, ready, streamVars, readyFor, claims, mapped>>

EosSleeps(t) ==
  /\ thread[t].at = "eos" /\ ~EosRefused(t) /\ videoEnd = None
  /\ thread' = [thread EXCEPT ![t].at = "asleep eos"]
  /\ UNCHANGED <<configVars, cancelled, registered, ready, streamVars, historyVars>>

-----------------------------------------------------------------------------
(* The event channel.  eventChannel() copies the shared pointer under the    *)
(* lock; send, receive and peekEnd run after it is released.                 *)

PublishEvents(g) ==
  /\ "video" \in Required /\ ~cancelled /\ g = generation /\ events = 0
  /\ events' = g /\ channel' = [channel EXCEPT ![g] = "open"]
  /\ UNCHANGED <<configVars, cancelled, registered, ready, audio, audioClaimed, thread, historyVars>>

LookupChannel(t, g) ==
  /\ thread[t] = Idle /\ ~cancelled /\ g = generation /\ events # 0
  /\ thread' = [thread EXCEPT ![t] = [at |-> "channel", gen |-> events]]
  /\ UNCHANGED <<configVars, cancelled, registered, ready, streamVars, historyVars>>

ChannelCall(t) ==
  /\ thread[t].at = "channel"
  /\ thread' = [thread EXCEPT ![t] = Idle]
  /\ UNCHANGED <<configVars, cancelled, registered, ready, streamVars, historyVars>>

(* The channel's own reader or writer fails (EventChannel). *)
ChannelFails(g) ==
  /\ channel[g] = "open"
  /\ channel' = [channel EXCEPT ![g] = "failed"]
  /\ UNCHANGED <<configVars, cancelled, registered, ready, audio, audioClaimed, events, thread, historyVars>>

-----------------------------------------------------------------------------
Waiter(t) == WaitDone(t) \/ WaitReady(t) \/ EosDone(t) \/ EosKnown(t)

Next ==
  \/ Cancel \/ GetConfig
  \/ \E g \in Gens :
       \/ Configure(g) \/ PublishAudio(g) \/ ClaimAudioStream(g) \/ PublishEvents(g) \/ ChannelFails(g)
       \/ \E m \in Mappings : SetMapping(g, m)
       \/ MapPts(g) \/ \E r \in BOOLEAN : MapRunningTime(g, r)
       \/ \E e \in Ends : VideoEos(g, e)
       \/ \E k \in Tracks : TrackReady(k, g)
       \/ \E t \in Threads : WaitCall(t, g) \/ EosCall(t, g) \/ LookupChannel(t, g)
  \/ \E k \in Tracks : RegisterTrack(k)
  \/ \E t \in Threads :
       Waiter(t) \/ WaitSleeps(t) \/ EosSleeps(t) \/ WaitTimeout(t) \/ ChannelCall(t)

Spec == Init /\ [][Next]_vars

(* Fairness of the waiting threads alone, and not of the deadline: whoever   *)
(* sleeps is woken by a broadcast or not at all.                             *)
FairStep(t) == Waiter(t) \/ WaitSleeps(t) \/ EosSleeps(t)

LiveSpec == Spec /\ \A t \in Threads : WF_vars(FairStep(t))

-----------------------------------------------------------------------------
(* Properties. *)

TypeOK ==
  /\ generation \in 0 .. MaxGen
  /\ mapping \in Mappings \union {None} /\ videoEnd \in Ends \union {None}
  /\ {cancelled, audioClaimed} \subseteq BOOLEAN
  /\ registered \subseteq Required /\ ready \subseteq registered
  /\ audio \in {"none", "open", "shutdown"}
  /\ events \in 0 .. MaxGen
  /\ channel \in [Gens -> {"none", "open", "cancelled", "failed"}]
  /\ thread \in [Threads -> ThreadState]

(* The coordinator counts a track ready only for the configuration in force: *)
(* what a track reported for an older generation, or before a cancellation,  *)
(* never completes the set fl_gst_session_wait looks at.                     *)
ReadyIsCurrent == \A t \in ready : readyFor[t] = {generation}

(* "A new generation never satisfies an old waiter": a READY answer goes to  *)
(* a thread that waits for the generation in force, after every required     *)
(* track reported ready for that generation.                                 *)
WaiterIsCurrent ==
  \A t \in Threads : WaitReady(t)
    => /\ thread[t].gen = generation
       /\ \A k \in Required : thread[t].gen \in readyFor[k]

OldWaiterNeverSatisfied == [][WaiterIsCurrent]_vars

(* No wakeup is lost: a sleeping thread has nothing to return.  A state      *)
(* change that forgot its broadcast would leave one asleep to its deadline.  *)
NoLostWakeup ==
  \A t \in Threads :
    /\ thread[t].at = "asleep"     => ~WaitRefused(t) /\ (generation = 0 \/ ready # Required)
    /\ thread[t].at = "asleep eos" => ~EosRefused(t) /\ videoEnd = None

(* The audio stream is handed to one element per generation, however often   *)
(* it is published, cancelled and asked for.                                 *)
AudioClaimedOnce == \A g \in Gens : claims[g] <= 1

(* All timestamps of a generation are converted with one mapping: the        *)
(* identity that map_running_time falls back to aside, two tracks of a       *)
(* generation never disagree about the clock.                                *)
OneMapping ==
  \A x, y \in mapped : x[1] = y[1] => x = y

(* Every waiter of a generation is told the same end of the video track.     *)
OneEnd == \A x, y \in ended : x[1] = y[1] => x = y

(* No event channel or audio stream survives what it belongs to: an open     *)
(* channel is the coordinator's own, of the generation in force, and the     *)
(* session is not cancelled; a cancelled session's audio stream is shut.     *)
StreamsFollowSession ==
  /\ \A g \in Gens : channel[g] = "open" => g = events /\ g = generation /\ ~cancelled
  /\ cancelled => audio # "open"

(* Once the session is cancelled, every thread that waits in it returns      *)
(* unless a newer configuration undoes the cancellation first.               *)
CancelReturns ==
  \A t \in Threads :
    (cancelled /\ thread[t].at \in {"wait", "eos"} \union Sleeping) ~> (thread[t] = Idle \/ ~cancelled)
=============================================================================
