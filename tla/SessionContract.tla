-------------------------- MODULE SessionContract --------------------------
(***************************************************************************)
(* The A/V session contract (src/src/framelink_session.cpp): what two      *)
(* endpoints may offer, which formats they agree on, which configurations  *)
(* are well formed, how one is put on the wire, and when one may replace   *)
(* another.  Its callers (src/gst/framelink_session_transport.cpp:84-88,   *)
(* src/gst/framelink_session_context.cpp:51-60) put the functions together *)
(* as here: the owner selects and encodes, the peer decodes, checks the    *)
(* selection against both offers and accepts it or keeps what it has.      *)
(* Configurations arrive late, twice, or from another build or session.    *)
(*                                                                         *)
(* A picture (pixel format and size) and a sample format are names; rates  *)
(* are numbers.  The two time limits and the two queue budgets are one     *)
(* number each.                                                            *)
(***************************************************************************)
EXTENDS Integers, Sequences

CONSTANTS
  Pictures,      \* supported pixel formats and sizes
  Samples,       \* supported sample formats and layouts
  Rates,         \* supported sample rates
  Preferred,     \* 48000
  MaxFormats,    \* FL_SESSION_MAX_FORMATS
  MaxBudget,     \* largest queue budget and time limit
  MaxTime,       \* INT64_MAX, scaled down
  Offers,        \* what the two endpoints may offer
  Configs,       \* what an owner may propose
  Foreign        \* what another build may put on the wire

(* What flSessionConfig has besides its formats and budgets. *)
ConfigFields == {"version", "id", "clock", "generation", "videoTrack", "audioTrack", "video", "audio", "epoch"}

(* Formats, times and what arrives are of their C types. *)
ContractAssumption ==
  /\ Preferred \in Rates /\ Rates \subseteq Nat \ {0}
  /\ MaxFormats \in Nat /\ MaxBudget \in Nat /\ MaxTime \in Nat
  /\ \A o \in Offers :
       /\ o.video \in Seq([picture : Pictures, num : Nat, den : Nat])
       /\ o.audio \in Seq([sample : Samples, rate : Nat])
  /\ \A c \in Configs : ConfigFields \subseteq DOMAIN c /\ c.generation \in Nat /\ c.epoch \in -(MaxTime + 1)..MaxTime
  /\ \A w \in Foreign :
       /\ w \in [magic : {w.magic}, version : Nat, body : {w.body}, epoch : 0..(2 * MaxTime + 1), reserved : Nat]
       /\ ConfigFields \subseteq DOMAIN w.body /\ w.body.generation \in Nat
       /\ w.body = [w.body EXCEPT !.version = 0, !.epoch = 0]

VARIABLES
  producer,   \* the producer's offer
  consumer,   \* the consumer's offer
  wires,      \* configurations sent: they may be received at any time, again and again
  current,    \* the configuration the receiving endpoint has accepted, or Unset
  retired     \* history: the configurations that were in force and have been replaced

vars == <<producer, consumer, wires, current, retired>>

Unset == [version |-> 0]

-----------------------------------------------------------------------------
(* Formats. *)

NoVideo == [picture |-> 0, num |-> 0, den |-> 0]
NoAudio == [sample |-> 0, rate |-> 0]

VersionValid(v) == v \in {1, 2}
VideoValid(v)   == v.picture \in Pictures /\ v.num > 0 /\ v.den > 0
AudioValid(a)   == a.sample \in Samples /\ a.rate \in Rates

(* Frame rates are compared as fractions. *)
SameVideo(v, w) == v.picture = w.picture /\ v.num * w.den = w.num * v.den

Caps(o) ==
  CASE ~VersionValid(o.version) -> "version"
    [] \/ Len(o.video) > MaxFormats \/ Len(o.audio) > MaxFormats
       \/ (o.video = <<>> /\ o.audio = <<>>) \/ (o.version = 1 /\ <<>> \in {o.video, o.audio})
       \/ \E i \in DOMAIN o.video : ~VideoValid(o.video[i])
       \/ \E i \in DOMAIN o.audio : ~AudioValid(o.audio[i]) -> "invalid"
    [] OTHER -> "ok"

-----------------------------------------------------------------------------
(* flSessionNegotiate. *)

First(S) == CHOOSE i \in S : \A j \in S : i <= j

CommonVideo(p, c) == {i \in DOMAIN p.video : \E j \in DOMAIN c.video : SameVideo(p.video[i], c.video[j])}
CommonAudio(p, c) == {i \in DOMAIN p.audio : \E j \in DOMAIN c.audio : p.audio[i] = c.audio[j]}

(* The producer's order, the preferred sample rate first. *)
Ranked(p, S) ==
  LET best == {i \in S : p.audio[i].rate = Preferred} IN IF best # {} THEN best ELSE S

SessionNegotiate(p, c) ==
  LET failed(r) == [result |-> r, video |-> NoVideo, audio |-> NoAudio]
      video == CommonVideo(p, c)
      audio == CommonAudio(p, c)
  IN  CASE Caps(p) # "ok" -> failed(Caps(p))
        [] Caps(p) = "ok" /\ Caps(c) # "ok" -> failed(Caps(c))
        [] Caps(p) = "ok" /\ Caps(c) = "ok" /\ p.version # c.version -> failed("version")
        [] /\ Caps(p) = "ok" /\ Caps(c) = "ok" /\ p.version = c.version
           /\ \/ (p.video = <<>>) # (c.video = <<>>) \/ (p.audio = <<>>) # (c.audio = <<>>)
              \/ (p.video # <<>> /\ video = {}) \/ (p.audio # <<>> /\ audio = {}) -> failed("incompatible")
        [] OTHER -> [result |-> "ok",
                     video |-> IF p.video = <<>> THEN NoVideo ELSE p.video[First(video)],
                     audio |-> IF p.audio = <<>> THEN NoAudio ELSE p.audio[First(Ranked(p, audio))]]

-----------------------------------------------------------------------------
(* flSessionValidate and its relatives. *)

Budget(n) == n \in 1..MaxBudget

SessionValidate(c) ==
  CASE ~VersionValid(c.version) -> "version"
    [] /\ VersionValid(c.version)
       /\ \/ c.id = 0 \/ c.clock = 0 \/ c.generation = 0 \/ c.epoch < 0 \/ ~Budget(c.timeout)
          \/ (c.videoTrack = 0 /\ c.audioTrack = 0) \/ (c.version = 1 /\ 0 \in {c.videoTrack, c.audioTrack})
          \/ c.videoTrack = c.audioTrack
          \/ (c.videoTrack # 0 /\ ~(VideoValid(c.video) /\ Budget(c.videoQueue)))
          \/ (c.videoTrack = 0 /\ <<c.video, c.videoQueue>> # <<NoVideo, 0>>)
          \/ (c.audioTrack # 0 /\ ~(AudioValid(c.audio) /\ Budget(c.audioQueue)))
          \/ (c.audioTrack = 0 /\ <<c.audio, c.audioQueue>> # <<NoAudio, 0>>) -> "invalid"
    [] OTHER -> "ok"

(* The selection is in the offer: the same tracks, each in an offered format. *)
Offered(c, o) ==
  /\ (o.video # <<>>) = (c.videoTrack # 0) /\ (o.audio # <<>>) = (c.audioTrack # 0)
  /\ c.videoTrack # 0 => \E i \in DOMAIN o.video : SameVideo(c.video, o.video[i])
  /\ c.audioTrack # 0 => \E i \in DOMAIN o.audio : c.audio = o.audio[i]

(* Mutant: only one of the offers is asked. *)
BugSelectionValid(c, p, q) == SessionValidate(c) = "ok" /\ Caps(p) = "ok" /\ p.version = c.version /\ Offered(c, p)

(* flSessionValidateSelection: against both offers. *)
SelectionValid(c, p, q) ==
  SessionValidate(c) = "ok" /\ \A o \in {p, q} : Caps(o) = "ok" /\ o.version = c.version /\ Offered(c, o)

(* flSessionValidateReplacement: the same session and tracks, a newer        *)
(* generation.                                                               *)
ReplacementValid(c, n) ==
  /\ SessionValidate(c) = "ok" /\ SessionValidate(n) = "ok" /\ c.version = n.version
  /\ c.id = n.id /\ c.videoTrack = n.videoTrack /\ c.audioTrack = n.audioTrack
  /\ n.generation > c.generation

-----------------------------------------------------------------------------
(* The wire: a magic number for each version, an unsigned epoch, reserved    *)
(* bytes that are zero; integers keep their width.                           *)

Magic(v)    == IF v = 1 THEN "FVS1" ELSE "FVS2"
Unsigned(t) == t % (2 * (MaxTime + 1))
Signed(t)   == IF t > MaxTime THEN t - 2 * (MaxTime + 1) ELSE t

(* flSessionEncode of a valid configuration. *)
Encode(c) ==
  [magic |-> Magic(c.version), version |-> c.version, body |-> [c EXCEPT !.version = 0, !.epoch = 0],
   epoch |-> Unsigned(c.epoch), reserved |-> 0]

(* flSessionDecode: what is refused before the configuration is looked at. *)
Readable(w) ==
  /\ w.magic \in {"FVS1", "FVS2"} /\ VersionValid(w.version) /\ w.magic = Magic(w.version)
  /\ w.epoch <= MaxTime /\ w.reserved = 0

Decode(w) == [w.body EXCEPT !.version = w.version, !.epoch = Signed(w.epoch)]

-----------------------------------------------------------------------------
(* The endpoints. *)

Init ==
  /\ producer \in Offers /\ consumer \in Offers /\ wires = {} /\ current = Unset /\ retired = {}

(* The owner fills the negotiated formats into its proposal and encodes it,  *)
(* if it is then valid against both offers.                                  *)
Selected(c) ==
  LET n == SessionNegotiate(producer, consumer) IN [c EXCEPT !.video = n.video, !.audio = n.audio]

Propose(c) ==
  /\ SessionNegotiate(producer, consumer).result = "ok"
  /\ SelectionValid(Selected(c), producer, consumer)
  /\ wires' = wires \union {Encode(Selected(c))} /\ UNCHANGED <<producer, consumer, current, retired>>

(* Another build's message, or another session's. *)
Stray(w) == w \notin wires /\ wires' = wires \union {w} /\ UNCHANGED <<producer, consumer, current, retired>>

(* fl_gst_session_configure of what was received. *)
Accepts(c) ==
  SelectionValid(c, producer, consumer) /\ (current # Unset => ReplacementValid(current, c))

Receive(w) ==
  /\ w \in wires /\ Readable(w) /\ Accepts(Decode(w))
  /\ current' = Decode(w) /\ retired' = retired \union ({current} \ {Unset})
  /\ UNCHANGED <<producer, consumer, wires>>

Next ==
  \/ (\E c \in Configs : Propose(c)) \/ (\E w \in Foreign : Stray(w))
  \/ (\E w \in wires : Receive(w))

Spec == Init /\ [][Next]_vars

-----------------------------------------------------------------------------
(* Properties. *)

TypeOK == current = Unset \/ (SessionValidate(current) = "ok" /\ current.epoch \in 0..MaxTime)

(* Both endpoints' offers are searched completely: negotiation succeeds      *)
(* exactly if the offers are well formed, ask for the same tracks and share  *)
(* a format of each; swapping the endpoints does not change that             *)
(* (framelink_session.cpp:30-43).                                            *)
NegotiationComplete ==
  LET n == SessionNegotiate(producer, consumer)
      m == SessionNegotiate(consumer, producer)
  IN  /\ (n.result = "ok") = (m.result = "ok")
      /\ n.result = "incompatible" =>
           ~\E v \in {NoVideo} \union {producer.video[i] : i \in DOMAIN producer.video},
               a \in {NoAudio} \union {producer.audio[i] : i \in DOMAIN producer.audio} :
              \A o \in {producer, consumer} :
                Offered([video |-> v, audio |-> a, videoTrack |-> IF v = NoVideo THEN 0 ELSE 1,
                         audioTrack |-> IF a = NoAudio THEN 0 ELSE 2], o)
      /\ (n.audio # NoAudio /\ n.audio.rate # Preferred) =>
           \A i \in DOMAIN producer.audio, j \in DOMAIN consumer.audio :
             producer.audio[i] = consumer.audio[j] => producer.audio[i].rate # Preferred

(* What the owner selects with one function the peer accepts with another:   *)
(* a well formed proposal with the tracks of the offers is in both offers    *)
(* once the negotiated formats are filled in, and survives the wire          *)
(* (framelink_session.cpp:30-105).                                           *)
SelectionAccepted ==
  SessionNegotiate(producer, consumer).result = "ok" =>
    \A c \in Configs : LET s == Selected(c) IN
      (SessionValidate(s) = "ok" /\ s.version = producer.version) =>
         /\ SelectionValid(s, producer, consumer)
         /\ Readable(Encode(s)) /\ Decode(Encode(s)) = s

(* An accepted message means one thing only: what was read, written again,   *)
(* is the message (framelink_session.cpp:78-105).                            *)
WireIsCanonical ==
  \A w \in wires : (Readable(w) /\ SessionValidate(Decode(w)) = "ok") => Encode(Decode(w)) = w

(* Whatever arrives, late, twice or from elsewhere, the accepted             *)
(* configuration is always one both endpoints offered.                       *)
AcceptedIsAgreed ==
  current # Unset => Offered(current, producer) /\ Offered(current, consumer)

(* Whatever order the messages arrive in, and however often, a session that  *)
(* was reconfigured any number of times never returns to a configuration it  *)
(* left: all of them are older than the one in force, and of the same        *)
(* session and tracks (framelink_session.cpp:72-77).                         *)
NeverReturns ==
  \A c \in retired :
    /\ c.generation < current.generation /\ c.id = current.id
    /\ c.videoTrack = current.videoTrack /\ c.audioTrack = current.audioTrack

=============================================================================
