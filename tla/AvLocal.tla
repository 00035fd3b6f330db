------------------------------ MODULE AvLocal ------------------------------
(***************************************************************************)
(* Setting up, starting and draining a local A/V session                   *)
(* (src/gst/framelink_session_transport.cpp and the authentication of      *)
(* src/runtime/av_auth.cpp): the producer P and the consumer C run         *)
(* fl_gst_session_open_local_av, ..._local_ready and ..._finish_local over *)
(* one control connection.  Either side may be cancelled, run into its     *)
(* deadline or die at every step, and start again with a new session.      *)
(*                                                                         *)
(* A session is its credential, drawn fresh by the producer.  The audio    *)
(* and event connections are set up strictly in turn, so their             *)
(* authentication travels in the same two inboxes as the control records.  *)
(***************************************************************************)
EXTENDS Naturals, Sequences

CONSTANTS
  Tracks,       \* tracks both sides were configured with
  Faults,       \* may a side be cancelled, exceed its deadline or die?
  MaxAttempts   \* bound: sessions each side starts

LocalAssumption ==
  /\ Tracks \subseteq {"video", "audio"} /\ Tracks # {}
  /\ Faults \in BOOLEAN
  /\ MaxAttempts \in Nat

Side     == {"P", "C"}
Other(s) == IF s = "P" THEN "C" ELSE "P"
Creds    == 1 .. MaxAttempts

(* Stages of open_local_av, in order; after them "opened", "media"           *)
(* (producer) or "playing" (consumer), and "done" or "failed".               *)
Opening ==
  {"publish", "accept", "auth", "offer", "confirm", "clock", "audio", "events", "attach",
   "discover", "connect", "proof", "select", "time", "audio proof", "events proof", "create", "attached"}
Ended == {"idle", "openFailed", "failed", "done"}

VARIABLES
  pc,          \* stage of each side
  cred,        \* credential each side uses: drawn (P) or read (C)
  attempts,    \* sessions each side has started
  record,      \* credential in the rendezvous record, or 0
  inbox,       \* bytes on the way to each side
  open,        \* does the side hold its end of the control connection?
  cancelled, config, mapped, streams,   \* the two coordinators
  channel,     \* does the side hold its end of the video channel?
  eos,         \* tracks whose EOS left the producer (P), reached the application (C)
  why,         \* what ended the side's last session
  compatible,  \* do the offers share a format?
  affordable,  \* does the selected queue fit the consumer's budget?
  ready, drained   \* sessions whose consumer reported ready, drained: history

linkVars  == <<inbox, open>>
coordVars == <<cancelled, config, mapped, streams>>
inputVars == <<compatible, affordable>>
vars == <<pc, cred, attempts, record, linkVars, coordVars, channel, eos, why, inputVars, ready, drained>>

Both(x) == [s \in Side |-> x]
Set(f, s, x) == [f EXCEPT ![s] = x]

Init ==
  /\ pc = Both("idle") /\ cred = Both(0) /\ attempts = Both(0) /\ record = 0
  /\ inbox = Both(<<>>) /\ open = Both(FALSE)
  /\ cancelled = Both(FALSE) /\ config = Both(0) /\ mapped = FALSE /\ streams = Both({})
  /\ channel = Both(FALSE) /\ eos = Both({}) /\ why = Both("none")
  /\ compatible \in BOOLEAN /\ affordable \in BOOLEAN /\ (~Faults => compatible /\ affordable)
  /\ ready = {} /\ drained = {}

-----------------------------------------------------------------------------
(* One side takes the record it expects, if any, and answers, if it does.    *)
(* An answer to a closed connection is lost.                                 *)
Nothing == <<"nothing", 0>>

Exchange(s, take, give) ==
  /\ open[s]
  /\ take # Nothing => inbox[s] # <<>> /\ Head(inbox[s]) = take
  /\ LET rest == IF take = Nothing THEN inbox ELSE Set(inbox, s, Tail(inbox[s]))
         o    == Other(s)
     IN  inbox' = IF give = Nothing \/ ~open[o] THEN rest ELSE Set(rest, o, Append(rest[o], give))
  /\ open' = open

Step(s, from, to) == pc[s] = from /\ pc' = Set(pc, s, to)

AfterClock == IF "audio" \in Tracks THEN "audio" ELSE "events"
AfterAudio == IF "video" \in Tracks THEN "events" ELSE "opened"

Start(s) ==
  /\ pc[s] \in {"idle", "done"} /\ attempts[s] < MaxAttempts /\ ~open[s] /\ ~channel[s]
  /\ attempts' = Set(attempts, s, attempts[s] + 1)
  /\ pc' = Set(pc, s, IF s = "P" THEN "publish" ELSE "discover")
  /\ cancelled' = Set(cancelled, s, FALSE) /\ config' = Set(config, s, 0)
  /\ mapped' = (mapped /\ s = "P") /\ streams' = Set(streams, s, {}) /\ eos' = Set(eos, s, {})
  /\ cred' = Set(cred, s, IF s = "P" THEN attempts[s] + 1 ELSE 0)
  /\ why' = Set(why, s, "none")
  /\ UNCHANGED <<record, linkVars, channel, inputVars, ready, drained>>

(* The producer listens, then publishes port and credential (Rendezvous). *)
Publish ==
  /\ Step("P", "publish", "accept")
  /\ record' = cred["P"]
  /\ UNCHANGED <<cred, attempts, linkVars, coordVars, channel, eos, why, inputVars, ready, drained>>

(* The consumer polls the record and takes the first one it can read. *)
Discover ==
  /\ record # 0 /\ Step("C", "discover", "connect")
  /\ cred' = Set(cred, "C", record)
  /\ UNCHANGED <<attempts, record, linkVars, coordVars, channel, eos, why, inputVars, ready, drained>>

Listening == pc["P"] \in Opening \ {"publish"} /\ cred["C"] = cred["P"]

Connect ==
  /\ Listening /\ pc["P"] = "accept" /\ Step("C", "connect", "proof")
  /\ open' = Both(TRUE) /\ inbox' = [P |-> <<<<"auth", cred["C"]>>>>, C |-> <<>>]
  /\ UNCHANGED <<cred, attempts, record, coordVars, channel, eos, why, inputVars, ready, drained>>

Accept ==
  /\ open["P"] /\ Step("P", "accept", "auth")
  /\ UNCHANGED <<cred, attempts, record, linkVars, coordVars, channel, eos, why, inputVars, ready, drained>>

-----------------------------------------------------------------------------
(* Mutual authentication and negotiation (negotiate_stream). *)

AuthServer ==
  /\ Step("P", "auth", "offer") /\ Exchange("P", <<"auth", cred["P"]>>, <<"ok", cred["P"]>>)
  /\ UNCHANGED <<cred, attempts, record, coordVars, channel, eos, why, inputVars, ready, drained>>

AuthClient ==
  /\ Step("C", "proof", "select") /\ Exchange("C", <<"ok", cred["C"]>>, <<"offer", 0>>)
  /\ UNCHANGED <<cred, attempts, record, coordVars, channel, eos, why, inputVars, ready, drained>>

Select ==
  /\ compatible /\ Step("P", "offer", "confirm")
  /\ Exchange("P", <<"offer", 0>>, <<"selection", cred["P"]>>)
  /\ UNCHANGED <<cred, attempts, record, coordVars, channel, eos, why, inputVars, ready, drained>>

(* The consumer confirms and configures its coordinator, which forgets a     *)
(* cancellation.                                                             *)
ConfigureConsumer ==
  /\ Step("C", "select", "clock") /\ Exchange("C", <<"selection", cred["C"]>>, <<"confirm", cred["C"]>>)
  /\ config' = Set(config, "C", cred["C"]) /\ cancelled' = Set(cancelled, "C", FALSE)
  /\ UNCHANGED <<cred, attempts, record, mapped, streams, channel, eos, why, inputVars, ready, drained>>

ConfigureProducer ==
  /\ Step("P", "confirm", "clock") /\ Exchange("P", <<"confirm", cred["P"]>>, Nothing)
  /\ config' = Set(config, "P", cred["P"]) /\ cancelled' = Set(cancelled, "P", FALSE)
  /\ UNCHANGED <<cred, attempts, record, mapped, streams, channel, eos, why, inputVars, ready, drained>>

-----------------------------------------------------------------------------
(* The clock offset: the consumer alone installs a mapping. *)

ClockRequest ==
  /\ affordable /\ Step("C", "clock", "time") /\ Exchange("C", Nothing, <<"nonce", 0>>)
  /\ UNCHANGED <<cred, attempts, record, coordVars, channel, eos, why, inputVars, ready, drained>>

ClockReply ==
  /\ Step("P", "clock", AfterClock) /\ Exchange("P", <<"nonce", 0>>, <<"time", 0>>)
  /\ UNCHANGED <<cred, attempts, record, coordVars, channel, eos, why, inputVars, ready, drained>>

SetMapping ==
  /\ ~cancelled["C"] /\ Step("C", "time", AfterClock) /\ Exchange("C", <<"time", 0>>, Nothing)
  /\ mapped' = TRUE
  /\ UNCHANGED <<cred, attempts, record, cancelled, config, streams, channel, eos, why, inputVars, ready, drained>>

-----------------------------------------------------------------------------
(* The audio and event streams: authenticated, then published to the         *)
(* coordinator unless the session was cancelled meanwhile.                   *)

ProofOf(k) == IF k = "audio" THEN "audio proof" ELSE "events proof"

AfterStream(s, k) ==
  CASE k = "audio"              -> AfterAudio
    [] k = "events" /\ s = "P"  -> "attach"
    [] k = "events" /\ s = "C"  -> "create"

StreamClient(k) ==
  /\ ~cancelled["C"] /\ Step("C", k, ProofOf(k)) /\ Exchange("C", Nothing, <<k, cred["C"]>>)
  /\ UNCHANGED <<cred, attempts, record, coordVars, channel, eos, why, inputVars, ready, drained>>

StreamServer(k) ==
  /\ ~cancelled["P"] /\ Step("P", k, AfterStream("P", k)) /\ Exchange("P", <<k, cred["P"]>>, <<"ok", cred["P"]>>)
  /\ streams' = Set(streams, "P", streams["P"] \union {k})
  /\ record' = IF AfterStream("P", k) = "opened" /\ record = cred["P"] THEN 0 ELSE record
  /\ UNCHANGED <<cred, attempts, cancelled, config, mapped, channel, eos, why, inputVars, ready, drained>>

StreamPublish(k) ==
  /\ ~cancelled["C"] /\ Step("C", ProofOf(k), AfterStream("C", k)) /\ Exchange("C", <<"ok", cred["C"]>>, Nothing)
  /\ streams' = Set(streams, "C", streams["C"] \union {k})
  /\ UNCHANGED <<cred, attempts, record, cancelled, config, mapped, channel, eos, why, inputVars, ready, drained>>

-----------------------------------------------------------------------------
(* The video channel: created by the consumer, announced with 'V', attached  *)
(* by the producer, confirmed with 'P'.                                      *)

CreateChannel ==
  /\ Step("C", "create", "attached") /\ Exchange("C", Nothing, <<"V", 0>>)
  /\ channel' = Set(channel, "C", TRUE)
  /\ UNCHANGED <<cred, attempts, record, coordVars, eos, why, inputVars, ready, drained>>

Attach ==
  /\ channel["C"] /\ Step("P", "attach", "opened") /\ Exchange("P", <<"V", 0>>, <<"P", 0>>)
  /\ channel' = Set(channel, "P", TRUE) /\ record' = IF record = cred["P"] THEN 0 ELSE record
  /\ UNCHANGED <<cred, attempts, coordVars, eos, why, inputVars, ready, drained>>

Attached ==
  /\ Step("C", "attached", "opened") /\ Exchange("C", <<"P", 0>>, Nothing)
  /\ UNCHANGED <<cred, attempts, record, coordVars, channel, eos, why, inputVars, ready, drained>>

-----------------------------------------------------------------------------
(* local_ready: the consumer's sources run; it sends 'R'. *)
Complete(s) ==
  /\ config[s] = cred[s]
  /\ ("audio" \in Tracks <=> "audio" \in streams[s]) /\ ("video" \in Tracks <=> "events" \in streams[s])
  /\ ("video" \in Tracks => channel[s])

ReportReady ==
  /\ Step("C", "opened", "playing") /\ Exchange("C", Nothing, <<"R", 0>>)
  /\ ready' = IF Complete("C") /\ mapped THEN ready \union {cred["C"]} ELSE ready
  /\ UNCHANGED <<cred, attempts, record, coordVars, channel, eos, why, inputVars, drained>>

(* Mutant: media is started without the marker. *)
BugAwaitReady ==
  /\ Step("P", "opened", "media")
  /\ UNCHANGED <<cred, attempts, record, linkVars, coordVars, channel, eos, why, inputVars, ready, drained>>

AwaitReady ==
  /\ Step("P", "opened", "media") /\ Exchange("P", <<"R", 0>>, Nothing)
  /\ UNCHANGED <<cred, attempts, record, coordVars, channel, eos, why, inputVars, ready, drained>>

(* Media: each track ends at the producer, and later at the consumer.        *)
EndTrack(t) ==
  /\ pc["P"] = "media" /\ t \in Tracks \ eos["P"] /\ ~cancelled["P"]
  /\ eos' = Set(eos, "P", eos["P"] \union {t})
  /\ UNCHANGED <<pc, cred, attempts, record, linkVars, coordVars, channel, why, inputVars, ready, drained>>

DeliverEnd(t) ==
  /\ pc["C"] = "playing" /\ t \in eos["P"] \ eos["C"] /\ cred["C"] = cred["P"] /\ ~cancelled["C"]
  /\ eos' = Set(eos, "C", eos["C"] \union {t})
  /\ UNCHANGED <<pc, cred, attempts, record, linkVars, coordVars, channel, why, inputVars, ready, drained>>

(* finish_local: 'D' once every track has ended, then both close. *)
ReportDrained ==
  /\ eos["C"] = Tracks /\ Step("C", "playing", "done")
  /\ open["C"] /\ open' = Set(open, "C", FALSE)
  /\ inbox' = [inbox EXCEPT !["P"] = IF open["P"] THEN Append(@, <<"D", 0>>) ELSE @, !["C"] = <<>>]
  /\ drained' = IF eos["C"] = Tracks THEN drained \union {cred["C"]} ELSE drained
  /\ channel' = Set(channel, "C", FALSE)
  /\ UNCHANGED <<cred, attempts, record, coordVars, eos, why, inputVars, ready>>

AwaitDrained ==
  /\ eos["P"] = Tracks /\ Step("P", "media", "done")
  /\ open["P"] /\ inbox["P"] # <<>> /\ Head(inbox["P"]) = <<"D", 0>>
  /\ open' = Set(open, "P", FALSE) /\ inbox' = Set(inbox, "P", <<>>)
  /\ channel' = Set(channel, "P", FALSE)
  /\ UNCHANGED <<cred, attempts, record, coordVars, eos, why, inputVars, ready, drained>>

-----------------------------------------------------------------------------
(* Failures. *)

(* open_local_av returns FALSE: the session is cancelled, the streams and    *)
(* the channel are closed and the record is withdrawn.                       *)
OpenFails(s, reason) ==
  /\ pc[s] \in Opening
  /\ pc' = Set(pc, s, "openFailed") /\ why' = Set(why, s, reason)
  /\ cancelled' = Set(cancelled, s, TRUE)
  /\ channel' = Set(channel, s, FALSE)
  /\ open' = Set(open, s, FALSE) /\ inbox' = Set(inbox, s, <<>>)
  /\ record' = IF s = "P" /\ record = cred["P"] THEN 0 ELSE record
  /\ UNCHANGED <<cred, attempts, config, mapped, streams, eos, inputVars, ready, drained>>

(* Ready or drain fails, or the media elements do: the owner sets the        *)
(* pipeline to NULL.                                                         *)
MediaFails(s, reason) ==
  /\ pc[s] \in {"opened", "media", "playing"}
  /\ pc' = Set(pc, s, "failed") /\ why' = Set(why, s, reason)
  /\ cancelled' = Set(cancelled, s, TRUE) /\ channel' = Set(channel, s, FALSE)
  /\ open' = Set(open, s, FALSE) /\ inbox' = Set(inbox, s, <<>>)
  /\ UNCHANGED <<cred, attempts, record, config, mapped, streams, eos, inputVars, ready, drained>>

(* The producer waits for the next connection, not on one it has. *)
Accepting(s) == s = "P" /\ pc[s] \in {"accept", "audio", "events"}

(* Whatever this side reads from the connection can no longer come. *)
PeerGone(s) == open[s] /\ ~open[Other(s)] /\ inbox[s] = <<>> /\ ~Accepting(s)
Lost(s)     == PeerGone(s) /\ (OpenFails(s, "peer") \/ MediaFails(s, "peer"))

(* The port of a record left behind answers no more. *)
Refused == pc["C"] = "connect" /\ ~Listening /\ OpenFails("C", "refused")

Rejected ==
  \/ ~compatible /\ pc["P"] = "offer" /\ inbox["P"] # <<>> /\ OpenFails("P", "rejected")
  \/ ~affordable /\ pc["C"] = "clock" /\ OpenFails("C", "rejected")

(* stopSession, the deadline's timer and g_cancellable: at any blocking step.*)
Deadline(s) == Faults /\ (OpenFails(s, "deadline") \/ MediaFails(s, "deadline"))

(* The producer looks for a channel whose consumer died after announcing it, *)
(* until the deadline.                                                       *)
AttachTimesOut ==
  /\ pc["P"] = "attach" /\ inbox["P"] # <<>> /\ ~channel["C"]
  /\ OpenFails("P", "deadline")

(* A consumer that died before it dialled for audio or events is noticed by  *)
(* the deadline alone.                                                       *)
AcceptTimesOut ==
  /\ pc["P"] \in {"audio", "events"} /\ ~open["C"] /\ inbox["P"] = <<>>
  /\ OpenFails("P", "deadline")

(* The application cancels the session; the worker notices later. *)
CancelSession(s) ==
  /\ Faults /\ pc[s] \notin Ended /\ ~cancelled[s]
  /\ cancelled' = Set(cancelled, s, TRUE)
  /\ UNCHANGED <<pc, cred, attempts, record, linkVars, config, mapped, streams, channel, eos, why,
                 inputVars, ready, drained>>

(* A cancelled coordinator refuses the next thing the worker asks of it. *)
Cancelled(s) ==
  /\ cancelled[s] /\ config[s] # 0
  /\ OpenFails(s, "cancelled") \/ MediaFails(s, "cancelled")

Crash(s) ==
  /\ Faults /\ pc[s] \notin Ended
  /\ pc' = Set(pc, s, "idle") /\ why' = Set(why, s, "crash")
  /\ cancelled' = Set(cancelled, s, TRUE) /\ channel' = Set(channel, s, FALSE)
  /\ open' = Set(open, s, FALSE) /\ inbox' = Set(inbox, s, <<>>)
  /\ UNCHANGED <<cred, attempts, record, config, mapped, streams, eos, inputVars, ready, drained>>

(* The owner goes to NULL and may start a fresh session. *)
Reset(s) ==
  /\ pc[s] \in {"openFailed", "failed"} /\ Step(s, pc[s], "idle")
  /\ UNCHANGED <<cred, attempts, record, linkVars, coordVars, channel, eos, why, inputVars, ready, drained>>

-----------------------------------------------------------------------------
Setup ==
  \/ Publish \/ Discover \/ Connect \/ Accept \/ AuthServer \/ AuthClient
  \/ Select \/ ConfigureConsumer \/ ConfigureProducer
  \/ ClockRequest \/ ClockReply \/ SetMapping
  \/ \E k \in {"audio", "events"} : StreamClient(k) \/ StreamServer(k) \/ StreamPublish(k)
  \/ CreateChannel \/ Attach \/ Attached \/ ReportReady \/ AwaitReady

Media == (\E t \in Tracks : EndTrack(t) \/ DeliverEnd(t)) \/ ReportDrained \/ AwaitDrained

Failure(s) == Lost(s) \/ Cancelled(s)

Next ==
  \/ Setup \/ Media \/ Refused \/ Rejected \/ AttachTimesOut \/ AcceptTimesOut
  \/ \E s \in Side : Start(s) \/ Failure(s) \/ Deadline(s) \/ CancelSession(s) \/ Crash(s) \/ Reset(s)

Spec == Init /\ [][Next]_vars

(* The workers run and a closed connection is noticed.  Of the deadlines     *)
(* only those have to fire that end the wait for a connection or a channel   *)
(* of a consumer that is gone.                                               *)
Fair ==
  {"Setup", "Media", "Refused", "Rejected", "AttachTimesOut", "AcceptTimesOut"} \X {"-"}
    \union {"Failure", "Start"} \X Side

FairStep(n) ==
  \/ n[1] = "Setup" /\ Setup
  \/ n[1] = "Media" /\ Media
  \/ n[1] = "Refused" /\ Refused
  \/ n[1] = "Rejected" /\ Rejected
  \/ n[1] = "AttachTimesOut" /\ AttachTimesOut
  \/ n[1] = "AcceptTimesOut" /\ AcceptTimesOut
  \/ n[1] = "Failure" /\ Failure(n[2])
  \/ n[1] = "Start" /\ Start(n[2]) /\ attempts[n[2]] = 0

LiveSpec == Spec /\ \A n \in Fair : WF_vars(FairStep(n))

-----------------------------------------------------------------------------
(* Properties. *)

TypeOK ==
  /\ pc \in [Side -> Opening \union Ended \union {"opened", "media", "playing"}]
  /\ cred \in [Side -> 0 .. MaxAttempts] /\ attempts \in [Side -> 0 .. MaxAttempts]
  /\ record \in 0 .. MaxAttempts
  /\ open \in [Side -> BOOLEAN] /\ cancelled \in [Side -> BOOLEAN] /\ channel \in [Side -> BOOLEAN]
  /\ config \in [Side -> 0 .. MaxAttempts] /\ mapped \in BOOLEAN
  /\ streams \in [Side -> SUBSET {"audio", "events"}] /\ eos \in [Side -> SUBSET Tracks]
  /\ ready \subseteq Creds /\ drained \subseteq Creds

(* "No media may leak before authentication and readiness complete": the     *)
(* producer releases media only into a session whose consumer, of the same   *)
(* credential, holds the mapping, every stream and the channel and has       *)
(* reported ready.                                                           *)
MediaAfterReady == pc["P"] = "media" => cred["P"] \in ready /\ config["P"] = cred["P"]

(* The producer ends normally only after the consumer drained every track:   *)
(* a lost consumer or a timeout never looks like a completed session.        *)
DrainedBeforeEnd == pc["P"] = "done" => cred["P"] \in drained

(* "Failure cancels the session and returns no channel": whatever step       *)
(* failed, nothing of the attempt is left behind, the record in the          *)
(* rendezvous directory included.                                            *)
OpenFailureClean ==
  \A s \in Side : pc[s] = "openFailed" =>
    /\ cancelled[s] /\ ~channel[s] /\ ~open[s]
    /\ s = "P" => record # cred["P"]

(* "The consumer returns only after the producer confirms the attach": a     *)
(* consumer whose open succeeded has a producer on its channel, unless that  *)
(* producer has gone since.                                                  *)
AttachedBeforeOpened ==
  pc["C"] = "opened" /\ open["P"] /\ cred["P"] = cred["C"] /\ "video" \in Tracks => channel["P"]

(* "Peer death ... post errors within bounded time on both sides": once a    *)
(* side's setup has a connection, it returns, whether the other side         *)
(* answers, rejects, is cancelled or dies.                                   *)
SetupReturns == \A s \in Side : (pc[s] \in Opening /\ open[s]) ~> (pc[s] \notin Opening)

(* With nothing failing, both sides run the session to its drained end: no   *)
(* step of either side waits for one the other side takes only later.        *)
SessionCompletes == <>(pc["P"] = "done" /\ cred["P"] \in drained)

(* "A consumer may start first and wait up to the same finite deadline": its *)
(* open ends by deadline, cancellation or what the producer says, never      *)
(* because it was early.                                                     *)
ConsumerMayStartFirst == why["C"] # "refused"
=============================================================================
