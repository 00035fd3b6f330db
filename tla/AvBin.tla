------------------------------- MODULE AvBin -------------------------------
(***************************************************************************)
(* The A/V convenience bins with session= set: framelinkavsink, the        *)
(* producer's (src/gst/gstframelinkavsink.cpp), and framelinkavsrc, the    *)
(* consumer's (src/gst/gstframelinkavsrc.cpp).  A bin opens its session on *)
(* a worker thread, starts its inner elements from asynchronous calls of   *)
(* releaseMedia, reports the drain from a drainer thread, and is taken     *)
(* through its states by the application meanwhile.                        *)
(*                                                                         *)
(* The session itself (AvLocal) is what its calls return; formats, clocks  *)
(* and the media are left to VideoTrack.                                   *)
(***************************************************************************)
EXTENDS Naturals

CONSTANTS
  Producer,     \* framelinkavsink, or else framelinkavsrc
  Tracks,       \* the enabled tracks, of {"video", "audio"}
  Faults,       \* may the session, a clock, an inner element fail?
  Stops,        \* may the application stop the bin?
  MaxCalls,     \* bound: calls of releaseMedia in flight
  MaxSessions   \* bound: times the bin leaves NULL or is paused

AvBinAssumption ==
  /\ {Producer, Faults, Stops} \subseteq BOOLEAN
  /\ Tracks \subseteq {"video", "audio"} /\ Tracks # {}
  /\ {MaxCalls, MaxSessions} \subseteq Nat \ {0}

VARIABLES
  elem,      \* the bin's state, "to..." during a change that blocks
  sessions,  \* Shared objects made so far: the current one is the last
  sh,        \* *s->shared
  worker,    \* stage of the worker thread
  drainer,   \* stage of the drainer thread
  calls,     \* the asynchronous calls of releaseMedia
  child,     \* started: running inner elements, channel: adopted by the video one
  open,      \* channels created and not closed; a channel is the session it is for
  pad,       \* avsink: streaming threads held by the probe of their pad
  passed,    \* avsink: tracks whose media went past the probe
  posting,   \* avsink: inner EOS messages in handleMessage, with the list read there
  heldEos,   \* avsink: s->heldEos
  errored,   \* avsrc: inner elements that posted an error before their EOS
  peer,      \* what the peer has reported: "ready", "drained"
  out,       \* what this bin has reported or posted: "ready", "drained", "eos"
  stale,     \* history: a call of releaseMedia worked on a Shared when it was deleted
  pauses

vars == <<elem, sessions, sh, worker, drainer, calls, child, open, pad, passed, posting, heldEos, errored, peer, out, stale, pauses>>
media == <<pad, passed, posting, heldEos, errored, peer, out, stale>>

Idle  == [at |-> "idle", chan |-> 0, of |-> 0]
Fresh == [done |-> FALSE, ok |-> FALSE, released |-> FALSE, readySent |-> FALSE, cancelled |-> FALSE,
          playing |-> FALSE, failed |-> FALSE, channel |-> 0, eos |-> {}, flushing |-> {}]

Init ==
  /\ elem = "NULL" /\ sessions = 0 /\ sh = Fresh /\ worker = "idle" /\ drainer = "idle"
  /\ calls = [c \in 1..MaxCalls |-> Idle] /\ child = [started |-> {}, channel |-> 0] /\ open = {}
  /\ pad = {} /\ passed = {} /\ posting = [t \in {} |-> {}] /\ heldEos = {} /\ errored = {}
  /\ peer = {} /\ out = {} /\ stale = FALSE /\ pauses = 0

InFlight == {c \in 1..MaxCalls : calls[c].at # "idle"}

(* gst_element_call_async(releaseMedia): it runs some time later on a thread *)
(* of the pool.                                                              *)
CallAsync ==
  /\ InFlight # 1..MaxCalls
  /\ calls' = [calls EXCEPT ![CHOOSE c \in 1..MaxCalls : c \notin InFlight] = [Idle EXCEPT !.at = "queued"]]

(* Mutant: the session is not cancelled. *)
BugStopSession == sh' = sh

(* stopSession: cancel the session and wake everyone. *)
StopSession == sh' = [sh EXCEPT !.cancelled = TRUE]

-----------------------------------------------------------------------------
(* The worker thread. *)

(* The end of setup: the outcome and the channel go to Shared. *)
Announce(ok, channel) == sh' = [sh EXCEPT !.done = TRUE, !.ok = ok, !.channel = channel]

(* Opening returns; the consumer announces it at once, the producer first    *)
(* awaits the consumer's ready.                                              *)
WorkerOpens(ok) ==
  /\ worker = "open" /\ (~ok => Faults \/ sh.cancelled)
  /\ LET channel == IF ok /\ "video" \in Tracks THEN sessions ELSE 0
     IN  /\ open' = open \cup ({channel} \ {0})
         /\ IF Producer /\ ok THEN worker' = "await" /\ UNCHANGED sh
            ELSE Announce(ok, channel) /\ worker' = IF ok THEN "queue" ELSE "done"
  /\ UNCHANGED <<elem, sessions, drainer, calls, child, media, pauses>>

(* avsink: do not release media until the consumer is ready. *)
WorkerAwaits(ok) ==
  /\ worker = "await" /\ IF ok THEN "ready" \in peer ELSE Faults \/ sh.cancelled
  /\ Announce(ok, IF "video" \in Tracks THEN sessions ELSE 0)
  /\ worker' = IF ok THEN "queue" ELSE "done"
  /\ UNCHANGED <<elem, sessions, drainer, calls, child, open, media, pauses>>

WorkerQueues ==
  /\ worker = "queue" /\ CallAsync
  /\ worker' = IF Producer THEN "done" ELSE "hold"
  /\ UNCHANGED <<elem, sessions, sh, drainer, child, open, media, pauses>>

(* avsrc: report ready only once the inner sources run. *)
WorkerHolds ==
  /\ worker = "hold" /\ (sh.released \/ sh.cancelled)
  /\ worker' = IF sh.released THEN "report" ELSE "done"
  /\ UNCHANGED <<elem, sessions, sh, drainer, calls, child, open, media, pauses>>

WorkerReports(ok) ==
  /\ worker = "report" /\ (~ok => Faults \/ sh.cancelled)
  /\ worker' = "done" /\ sh' = [sh EXCEPT !.readySent = ok]
  /\ out' = IF ok THEN out \cup {"ready"} ELSE out
  /\ UNCHANGED <<elem, sessions, drainer, calls, child, open, pad, passed, posting, heldEos, errored, peer, stale, pauses>>

-----------------------------------------------------------------------------
(* releaseMedia. *)

Refused == sh.released \/ sh.cancelled \/ ~sh.ok \/ ~sh.playing

(* The Shared of this moment: in NULL it is the next session's. *)
Current == IF elem = "NULL" THEN sessions + 1 ELSE sessions

(* The Shared that the call read at its start is deleted: what it writes is  *)
(* lost, or goes to the new one at the same address.                         *)
Deleted(c) == calls[c].of # Current

(* Under the lock: return, or take the channel out of Shared. *)
ReleaseTakes(c) ==
  /\ calls[c].at = "queued"
  /\ IF Refused THEN calls' = [calls EXCEPT ![c] = Idle] /\ UNCHANGED sh
     ELSE /\ calls' = [calls EXCEPT ![c] = [at |-> "taken", chan |-> sh.channel, of |-> Current]]
          /\ sh' = [sh EXCEPT !.channel = 0]
  /\ UNCHANGED <<elem, sessions, worker, drainer, child, open, media, pauses>>

(* adopt-channel: the video element is in NULL and owns no channel yet. *)
Adoptable(c) == calls[c].chan # 0 /\ child.channel = 0 /\ "video" \notin child.started

ReleaseAdopts(c) ==
  /\ calls[c].at = "taken" /\ ("video" \in Tracks => Adoptable(c))
  /\ child' = IF "video" \in Tracks THEN [child EXCEPT !.channel = calls[c].chan] ELSE child
  /\ calls' = [calls EXCEPT ![c] = [@ EXCEPT !.at = "adopted", !.chan = 0]]
  /\ UNCHANGED <<elem, sessions, sh, worker, drainer, open, media, pauses>>

(* Not the system clock, a changed base time, or a refused channel, which    *)
(* the call then closes.                                                     *)
ReleaseRejected(c) ==
  /\ calls[c].at = "taken" /\ (Faults \/ ("video" \in Tracks /\ ~Adoptable(c)))
  /\ open' = open \ {calls[c].chan}
  /\ calls' = [calls EXCEPT ![c] = [@ EXCEPT !.at = "failing", !.chan = 0]]
  /\ UNCHANGED <<elem, sessions, sh, worker, drainer, child, media, pauses>>

(* Start the inner elements, video first; S is what starts. *)
ReleaseStarts(c, S) ==
  /\ calls[c].at = "adopted" /\ (S # Tracks => Faults \/ sh.cancelled)
  /\ S \in {{}, Tracks \cap {"video"}, Tracks} /\ child' = [child EXCEPT !.started = @ \cup S]
  /\ calls' = [calls EXCEPT ![c] = [@ EXCEPT !.at = IF S = Tracks THEN "started" ELSE "failing"]]
  /\ UNCHANGED <<elem, sessions, sh, worker, drainer, open, media, pauses>>

ReleaseDone(c) ==
  /\ calls[c].at = "started"
  /\ calls' = [calls EXCEPT ![c] = Idle]
  /\ sh' = [sh EXCEPT !.released = TRUE] \/ (Deleted(c) /\ UNCHANGED sh)
  /\ UNCHANGED <<elem, sessions, worker, drainer, child, open, media, pauses>>

(* fail: avsink withdraws the setup, avsrc stops the session of s. *)
ReleaseFails(c) ==
  /\ calls[c].at = "failing" /\ calls' = [calls EXCEPT ![c] = Idle]
  /\ IF Producer THEN sh' = [sh EXCEPT !.ok = FALSE] \/ (Deleted(c) /\ UNCHANGED sh) ELSE StopSession
  /\ UNCHANGED <<elem, sessions, worker, drainer, child, open, media, pauses>>

-----------------------------------------------------------------------------
(* The application: changeState. *)

(* NULL to READY: a fresh session and its worker.  If the parent class       *)
(* refuses the change the session is taken down again.                       *)
NullToReady(ok) ==
  /\ elem = "NULL" /\ sessions + pauses < MaxSessions /\ (~ok => Faults)
  /\ sessions' = sessions + 1 /\ worker' = "open"
  /\ IF ok THEN elem' = "READY" /\ UNCHANGED sh ELSE elem' = "toNULL" /\ StopSession
  /\ UNCHANGED <<drainer, calls, child, open, media, pauses>>

ReadyToPaused ==
  /\ elem = "READY" /\ ~sh.cancelled /\ elem' = "PAUSED"
  /\ UNCHANGED <<sessions, sh, worker, drainer, calls, child, open, media, pauses>>

PausedToPlaying ==
  /\ elem = "PAUSED" /\ elem' = "PLAYING"
  /\ sh' = [sh EXCEPT !.playing = TRUE]
  /\ IF ~sh.released /\ sh.done /\ sh.ok THEN CallAsync ELSE UNCHANGED calls
  /\ UNCHANGED <<sessions, worker, drainer, child, open, media, pauses>>

PlayingRefused ==
  /\ elem = "PAUSED" /\ Faults /\ ~sh.cancelled /\ StopSession
  /\ UNCHANGED <<elem, sessions, worker, drainer, calls, child, open, media, pauses>>

PlayingToPaused ==
  /\ elem = "PLAYING" /\ sessions + pauses < MaxSessions /\ elem' = "PAUSED" /\ pauses' = pauses + 1
  /\ sh' = [sh EXCEPT !.playing = FALSE]
  /\ UNCHANGED <<sessions, worker, drainer, calls, child, open, media>>

(* Leaving PAUSED stops the session, then deactivates the pads, which waits  *)
(* for their streaming threads.  An application in a hurry passes PAUSED.    *)
PausedToReady ==
  /\ elem \in {"PAUSED", "PLAYING"} /\ Stops /\ elem' = "toREADY"
  /\ sh' = [sh EXCEPT !.cancelled = TRUE, !.playing = FALSE]
  /\ UNCHANGED <<sessions, worker, drainer, calls, child, open, media, pauses>>

PadsDeactivated ==
  /\ elem = "toREADY" /\ pad = {} /\ elem' = "READY"
  /\ UNCHANGED <<sessions, sh, worker, drainer, calls, child, open, media, pauses>>

ReadyToNull ==
  /\ elem = "READY" /\ Stops /\ elem' = "toNULL" /\ StopSession
  /\ UNCHANGED <<sessions, worker, drainer, calls, child, open, media, pauses>>

(* The rest of READY to NULL, and resetSession: the inner elements go to     *)
(* NULL, where a running one closes its channel; the two threads are joined, *)
(* a channel still in Shared is closed, Shared is deleted and a new one is   *)
(* made.  Nothing waits for the calls of releaseMedia.                       *)
ResetSession ==
  /\ elem = "toNULL" /\ {worker, drainer} \subseteq {"idle", "done"} /\ elem' = "NULL"
  /\ worker' = "idle" /\ drainer' = "idle" /\ sh' = Fresh
  /\ LET stopped == IF "video" \in child.started THEN child.channel ELSE 0
     IN  /\ open' = open \ {sh.channel, stopped}
         /\ child' = [started |-> {}, channel |-> IF stopped # 0 THEN 0 ELSE child.channel]
  /\ pad' = {} /\ passed' = {} /\ posting' = [t \in {} |-> {}] /\ heldEos' = {} /\ errored' = {} /\ peer' = {} /\ out' = {}
  /\ stale' = (stale \/ \E c \in InFlight : calls[c].at # "queued")
  /\ UNCHANGED <<sessions, calls, pauses>>

-----------------------------------------------------------------------------
(* avsink: the probe, and the EOS messages of the inner sinks. *)

Arrives(t) ==
  /\ Producer /\ elem \in {"PAUSED", "PLAYING"} /\ t \notin pad /\ pad' = pad \cup {t}
  /\ UNCHANGED <<elem, sessions, sh, worker, drainer, calls, child, open, passed, posting, heldEos, errored, peer, out, stale, pauses>>

MayPass(t) == sh.released

(* The probe lets a buffer pass, or returns a flow error: the session is     *)
(* cancelled or its setup failed, the pad flushes, or setup has taken longer *)
(* than twice connect-timeout-ms.                                            *)
HoldPasses(t) ==
  /\ t \in pad /\ MayPass(t) /\ pad' = pad \ {t} /\ passed' = passed \cup {t}
  /\ UNCHANGED <<elem, sessions, sh, worker, drainer, calls, child, open, posting, heldEos, errored, peer, out, stale, pauses>>

HoldRefuses(t) ==
  /\ t \in pad /\ ~sh.released
  /\ sh.cancelled \/ t \in sh.flushing \/ (sh.done /\ ~sh.ok) \/ (Faults /\ ~sh.done)
  /\ pad' = pad \ {t}
  /\ UNCHANGED <<elem, sessions, sh, worker, drainer, calls, child, open, passed, posting, heldEos, errored, peer, out, stale, pauses>>

(* FLUSH_START and FLUSH_STOP, which the probe sees first. *)
Flush(t, on) ==
  /\ Producer /\ Faults /\ elem \in {"PAUSED", "PLAYING"} /\ on # (t \in sh.flushing)
  /\ sh' = [sh EXCEPT !.flushing = IF on THEN @ \cup {t} ELSE @ \ {t}]
  /\ UNCHANGED <<elem, sessions, worker, drainer, calls, child, open, media, pauses>>

(* handleMessage runs on the streaming thread of each inner sink, and        *)
(* push_back on the list is not synchronised: two of them can both start     *)
(* from the same list, and one message is lost.                              *)
EosBegins(t) ==
  /\ Producer /\ t \in passed /\ t \in child.started /\ t \notin DOMAIN posting
  /\ posting' = [u \in DOMAIN posting \cup {t} |-> IF u = t THEN heldEos ELSE posting[u]]
  /\ UNCHANGED <<elem, sessions, sh, worker, drainer, calls, child, open, pad, passed, heldEos, errored, peer, out, stale, pauses>>

EosHeld(t) ==
  /\ t \in DOMAIN posting /\ posting[t] # {t}
  /\ heldEos' = posting[t] \cup {t} /\ posting' = [posting EXCEPT ![t] = {t}]
  /\ drainer' = IF heldEos' = Tracks /\ drainer = "idle" THEN "finish" ELSE drainer
  /\ UNCHANGED <<elem, sessions, sh, worker, calls, child, open, pad, passed, errored, peer, out, stale, pauses>>

-----------------------------------------------------------------------------
(* avsrc: errors and EOS of the inner sources. *)

(* handleMessage: an error, which comes before the EOS it causes. *)
ChildError(t) ==
  /\ ~Producer /\ Faults /\ elem # "NULL" /\ t \in child.started \ sh.eos /\ t \notin errored
  /\ errored' = errored \cup {t} /\ sh' = [sh EXCEPT !.failed = TRUE]
  /\ UNCHANGED <<elem, sessions, worker, drainer, calls, child, open, pad, passed, posting, heldEos, peer, out, stale, pauses>>

(* eosProbe: the last track's EOS starts the drainer. *)
EosProbe(t) ==
  /\ ~Producer /\ elem # "NULL" /\ t \in child.started \ sh.eos
  /\ sh' = [sh EXCEPT !.eos = @ \cup {t}]
  /\ drainer' = IF ~sh.failed /\ sh'.eos = Tracks /\ drainer = "idle" THEN "wait" ELSE drainer
  /\ UNCHANGED <<elem, sessions, worker, calls, child, open, media, pauses>>

DrainerWaits ==
  /\ drainer = "wait" /\ (sh.readySent \/ sh.cancelled)
  /\ drainer' = IF sh.failed \/ sh.cancelled THEN "done" ELSE "finish"
  /\ UNCHANGED <<elem, sessions, sh, worker, calls, child, open, media, pauses>>

(* Mutant: EOS, or the drain, is reported although it failed. *)
BugDrainerFinishes(ok) ==
  /\ drainer = "finish" /\ (~ok => Faults \/ sh.cancelled)
  /\ drainer' = "done" /\ out' = out \cup {IF Producer THEN "eos" ELSE "drained"}
  /\ heldEos' = {}
  /\ UNCHANGED <<elem, sessions, sh, worker, calls, child, open, pad, passed, posting, errored, peer, stale, pauses>>

(* finish_local: the consumer reports the drain; the producer awaits that    *)
(* report and only then posts the EOS messages it held.                      *)
DrainerFinishes(ok) ==
  /\ drainer = "finish" /\ IF ok THEN (Producer => "drained" \in peer) ELSE Faults \/ sh.cancelled
  /\ drainer' = "done"
  /\ out' = IF ok THEN out \cup {IF Producer THEN "eos" ELSE "drained"} ELSE out
  /\ heldEos' = IF ok THEN {} ELSE heldEos
  /\ UNCHANGED <<elem, sessions, sh, worker, calls, child, open, pad, passed, posting, errored, peer, stale, pauses>>

(* The consumer is ready once opening is over, and drains what was sent. *)
PeerReports(what) ==
  /\ Producer /\ what \notin peer /\ peer' = peer \cup {what}
  /\ IF what = "ready" THEN worker = "await" ELSE "ready" \in peer /\ DOMAIN posting = Tracks
  /\ UNCHANGED <<elem, sessions, sh, worker, drainer, calls, child, open, pad, passed, posting, heldEos, errored, out, stale, pauses>>

-----------------------------------------------------------------------------
WorkerStep ==
  \/ \E ok \in BOOLEAN : WorkerOpens(ok) \/ WorkerAwaits(ok) \/ WorkerReports(ok)
  \/ WorkerQueues \/ WorkerHolds

ReleaseStep(c) ==
  \/ ReleaseTakes(c) \/ ReleaseAdopts(c) \/ ReleaseRejected(c)
  \/ \E S \in SUBSET Tracks : ReleaseStarts(c, S)
  \/ ReleaseDone(c) \/ ReleaseFails(c)

DrainerStep == DrainerWaits \/ \E ok \in BOOLEAN : DrainerFinishes(ok)

HoldStep(t) == HoldPasses(t) \/ HoldRefuses(t)

ChangeState ==
  \/ \E ok \in BOOLEAN : NullToReady(ok)
  \/ ReadyToPaused \/ PausedToPlaying \/ PlayingRefused \/ PlayingToPaused
  \/ PausedToReady \/ PadsDeactivated \/ ReadyToNull \/ ResetSession

Next ==
  \/ WorkerStep \/ DrainerStep \/ ChangeState
  \/ \E c \in 1..MaxCalls : ReleaseStep(c)
  \/ \E t \in Tracks :
       \/ Arrives(t) \/ HoldStep(t) \/ EosBegins(t) \/ EosHeld(t)
       \/ ChildError(t) \/ EosProbe(t)
       \/ \E on \in BOOLEAN : Flush(t, on)
  \/ \E what \in {"ready", "drained"} : PeerReports(what)

Spec == Init /\ [][Next]_vars

(* Threads run, the waits inside the session are bounded, and a started      *)
(* state change goes on; nothing obliges the application, the media or the   *)
(* peer.                                                                     *)
Fair ==
  {"worker", "drainer", "change"} \X {0} \union {"call"} \X (1..MaxCalls) \union {"hold"} \X Tracks

FairStep(n) ==
  \/ n[1] = "worker" /\ WorkerStep
  \/ n[1] = "drainer" /\ DrainerStep
  \/ n[1] = "change" /\ (PadsDeactivated \/ ResetSession)
  \/ n[1] = "call" /\ ReleaseStep(n[2])
  \/ n[1] = "hold" /\ HoldStep(n[2])

LiveSpec == Spec /\ \A n \in Fair : WF_vars(FairStep(n))

-----------------------------------------------------------------------------
Sessions == 0..MaxSessions

Shared ==
  [done : BOOLEAN, ok : BOOLEAN, released : BOOLEAN, readySent : BOOLEAN, cancelled : BOOLEAN,
   playing : BOOLEAN, failed : BOOLEAN, channel : Sessions, eos : SUBSET Tracks, flushing : SUBSET Tracks]

Call == [at : {"idle", "queued", "taken", "adopted", "started", "failing"}, chan : Sessions, of : 0..MaxSessions + 1]

(* Every variable of the bin stays within its type. *)
TypeOK ==
  /\ elem \in {"NULL", "READY", "PAUSED", "PLAYING", "toREADY", "toNULL"} /\ sessions \in Sessions
  /\ worker \in {"idle", "open", "await", "queue", "hold", "report", "done"}
  /\ drainer \in {"idle", "wait", "finish", "done"}
  /\ sh \in Shared /\ calls \in [1..MaxCalls -> Call]
  /\ child \in [started : SUBSET Tracks, channel : Sessions] /\ open \subseteq Sessions \ {0}
  /\ {pad, passed, heldEos, errored, DOMAIN posting} \subseteq SUBSET Tracks
  /\ peer \subseteq {"ready", "drained"} /\ out \subseteq {"ready", "drained", "eos"}
  /\ stale \in BOOLEAN /\ pauses \in Sessions

(* Who holds channel n: the worker, Shared, the inner video element, calls   *)
(* of releaseMedia.                                                          *)
Owners(n) ==
  (IF worker = "await" /\ "video" \in Tracks /\ n = sessions THEN {<<"worker", 0>>} ELSE {})
    \cup (IF sh.channel = n THEN {<<"shared", 0>>} ELSE {})
    \cup (IF child.channel = n THEN {<<"child", 0>>} ELSE {})
    \cup {<<"call", c>> : c \in {d \in 1..MaxCalls : calls[d].chan = n}}

(* The channel goes from the worker over Shared and one call to the inner    *)
(* element: whatever fails or races on the way, an open channel has exactly  *)
(* one owner, who will close it, and a closed one has none.                  *)
OneOwner ==
  \A n \in 1..MaxSessions : IF n \in open THEN \E o \in Owners(n) : Owners(n) = {o} ELSE Owners(n) = {}

(* avsink: no media leaves the pads before the consumer reported ready and   *)
(* every inner sink runs, unless a call worked on a deleted Shared, where it *)
(* may release the media of a later session.                                 *)
NoMediaBeforeReady == ~stale /\ passed # {} => "ready" \in peer /\ child.started = Tracks

(* avsink: the pipeline's EOS is held until the consumer has drained every   *)
(* track.                                                                    *)
EosAfterDrain == "eos" \in out => "drained" \in peer

(* avsrc: ready is reported only when every inner source was started, so     *)
(* nothing the producer then sends is missed; with the same exception.       *)
ReadyAfterStart == ~stale /\ "ready" \in out => child.started = Tracks

(* avsrc: the drain is reported only after ready, and only if no track ended *)
(* because of an error.                                                      *)
DrainIsHonest == "drained" \in out => "ready" \in out /\ errored = {} /\ sh.eos = Tracks

(* Stopping the bin gets through: the held streaming threads return, and the *)
(* worker and the drainer, whatever they wait for, end and are joined.       *)
StopCompletes == elem \in {"toREADY", "toNULL"} ~> elem \in {"READY", "NULL"}

(* "Starts its inner sources once the session is ready and PLAYING": where   *)
(* nothing else fails, releasing the media does not fail either.             *)
ReadyStarts == Faults \/ \A c \in InFlight : calls[c].at # "failing"

(* "Release closes owned handles once", and a new session may start from     *)
(* NULL: a bin in NULL owns no channel.                                      *)
NullOwnsNothing == elem = "NULL" => open = {}

(* The EOS of the inner sinks gets out once the consumer has drained, unless *)
(* the session ends otherwise.                                               *)
EosPosted ==
  DOMAIN posting = Tracks ~> "eos" \in out \/ sh.cancelled \/ ~sh.ok
=============================================================================
