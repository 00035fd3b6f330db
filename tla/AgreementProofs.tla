-------------------------- MODULE AgreementProofs --------------------------
(***************************************************************************)
(* Proofs about what the two ends of a session agree on.                   *)
(* Session clock, for every rate and width: offsets are the floor they     *)
(* claim to be, without overflow, and durations add up.                    *)
(* Session contract: negotiation is complete, the peer accepts what was    *)
(* selected, and messages keep the shape from which reading them back is   *)
(* exact.                                                                  *)
(* Memory agreement: the messages an end has not read are the ones its     *)
(* peer wrote, in order, and where an end is in the exchange says what it  *)
(* knows of its peer.                                                      *)
(***************************************************************************)
EXTENDS MCAgreement, Sequences, FiniteSets, WellFoundedInduction, TLAPS

-----------------------------------------------------------------------------
(* The session clock. *)

(* Division with remainder has one result. *)
LEMMA DivUnique ==
  ASSUME NEW a \in Nat, NEW b \in Nat \ {0}, NEW k \in Nat, NEW t \in 0..(b - 1), a = k * b + t
  PROVE  a \div b = k
<1> DEFINE d == a \div b
<1> DEFINE e == a % b
<1>1. d \in Int /\ e \in 0..(b - 1) /\ a = b * d + e
  OBVIOUS
<1> HIDE DEF d, e
<1>2. ~(d >= k + 1)
  <2>1. SUFFICES ASSUME d >= k + 1 PROVE FALSE
    OBVIOUS
  <2>2. b * d >= b * (k + 1)
    BY <1>1, <2>1
  <2>3. b * (k + 1) = k * b + b
    OBVIOUS
  <2>4. QED
    BY <1>1, <2>2, <2>3
<1>3. ~(k >= d + 1)
  <2>1. SUFFICES ASSUME k >= d + 1 PROVE FALSE
    OBVIOUS
  <2>2. b * k >= b * (d + 1)
    BY <1>1, <2>1
  <2>3. b * (d + 1) = b * d + b
    BY <1>1
  <2>4. QED
    BY <1>1, <2>2, <2>3
<1>4. d = k
  BY <1>1, <1>2, <1>3
<1>5. QED
  BY <1>4 DEF d

(* Whole seconds and the rest of one, converted separately, are the whole    *)
(* converted at once.                                                        *)
LEMMA SplitDivision ==
  ASSUME NEW i \in Nat, NEW r \in Nat \ {0}, NEW n \in Nat
  PROVE  /\ i \div r \in Nat /\ ((i % r) * n) \div r \in Nat
         /\ (i * n) \div r = (i \div r) * n + ((i % r) * n) \div r
<1> DEFINE q == i \div r
<1> DEFINE m == i % r
<1>1. q \in Nat /\ m \in 0..(r - 1) /\ i = r * q + m
  OBVIOUS
<1> HIDE DEF q, m
<1>2. m * n \in Nat
  BY <1>1
<1> DEFINE p == (m * n) \div r
<1> DEFINE t == (m * n) % r
<1>3. p \in Nat /\ t \in 0..(r - 1) /\ m * n = r * p + t
  BY <1>2
<1> HIDE DEF p, t
<1>4. i * n = (q * n + p) * r + t
  <2>1. i * n = (r * q) * n + m * n
    BY <1>1
  <2>2. (q * n + p) * r = (r * q) * n + r * p
    BY <1>1, <1>3
  <2>3. QED
    BY <1>1, <1>3, <2>1, <2>2
<1>5. q * n + p \in Nat /\ i * n \in Nat
  BY <1>1, <1>3
<1>6. (i * n) \div r = q * n + p
  BY <1>3, <1>4, <1>5, DivUnique
<1>7. QED
  BY <1>1, <1>3, <1>6 DEF q, m, p

LEMMA DivMonotone ==
  ASSUME NEW a \in Nat, NEW b \in Nat, NEW r \in Nat \ {0}, a <= b
  PROVE  a \div r \in Nat /\ b \div r \in Nat /\ a \div r <= b \div r
<1> DEFINE d == a \div r
<1> DEFINE e == b \div r
<1>1. d \in Nat /\ e \in Nat /\ a >= r * d /\ b < r * e + r
  OBVIOUS
<1> HIDE DEF d, e
<1>2. ~(d >= e + 1)
  <2>1. SUFFICES ASSUME d >= e + 1 PROVE FALSE
    OBVIOUS
  <2>2. r * d >= r * (e + 1)
    BY <1>1, <2>1
  <2>3. r * (e + 1) = r * e + r
    BY <1>1
  <2>4. QED
    BY <1>1, <2>2, <2>3
<1>3. QED
  BY <1>1, <1>2 DEF d, e

(* A number below the modulus does not wrap. *)
LEMMA WrapSmall ==
  ASSUME NEW n \in Nat, n < 2 * (MaxTime + 1)
  PROVE  Wrap(n) = n
<1>1. MaxTime \in Nat
  BY ClockAssumption
<1>2. \A w \in Nat \ {0} : n < w => n % w = n
  OBVIOUS
<1>3. QED
  BY <1>1, <1>2 DEF Wrap

(* flSessionSampleOffset (src/src/framelink_session.cpp:115-121) returns     *)
(* floor(index * 1e9 / rate) or FL_SESSION_TIME_RANGE: none of its products  *)
(* and sums wraps, although only the result is checked against INT64_MAX.    *)
THEOREM OffsetIsFloor ==
  ASSUME NEW i \in Nat, SampleOffset(i) # Range
  PROVE  SampleOffset(i) = (i * NS) \div Rate /\ SampleOffset(i) \in 0..MaxTime
<1> DEFINE q == i \div Rate
<1> DEFINE m == i % Rate
<1> DEFINE p == (m * NS) \div Rate
<1> DEFINE limit == MaxTime \div NS
<1>1. /\ Rate \in Nat \ {0} /\ NS \in Nat \ {0} /\ NS <= MaxTime /\ MaxTime \in Nat
      /\ Rate * NS <= 2 * (MaxTime + 1)
  BY ClockAssumption
<1>2. q \in Nat /\ m \in 0..(Rate - 1) /\ p \in Nat /\ (i * NS) \div Rate = q * NS + p
  <2>1. m \in 0..(Rate - 1)
    BY <1>1
  <2>2. NS \in Nat /\ Rate \in Nat \ {0}
    BY <1>1
  <2>3. QED
    BY <2>1, <2>2, SplitDivision, Zenon
<1>3. limit \in Nat /\ limit * NS <= MaxTime
  BY <1>1
<1>4. SampleOffset(i) =
        (IF q > limit \/ Wrap(q * NS + Wrap(m * NS) \div Rate) > MaxTime THEN Range
         ELSE Wrap(q * NS + Wrap(m * NS) \div Rate))
  BY DEF SampleOffset
<1>5. m * NS \in Nat /\ m * NS < Rate * NS
  <2>1. m * NS <= (Rate - 1) * NS
    BY <1>1, <1>2
  <2>2. (Rate - 1) * NS = Rate * NS - NS
    BY <1>1
  <2>3. QED
    BY <1>1, <1>2, <2>1, <2>2
<1>6. p < NS
  <2> DEFINE x == m * NS
  <2>1. x \in Nat /\ x < Rate * NS
    BY <1>5
  <2> HIDE DEF x
  <2>2. x \div Rate \in Nat /\ Rate * (x \div Rate) <= x
    BY <1>1, <2>1
  <2>3. SUFFICES ASSUME x \div Rate >= NS PROVE FALSE
    BY <1>1, <2>2 DEF x
  <2>4. Rate * (x \div Rate) >= Rate * NS
    BY <1>1, <2>2, <2>3
  <2>5. QED
    BY <1>1, <2>1, <2>2, <2>4
<1>7. Wrap(m * NS) = m * NS
  BY <1>1, <1>5, WrapSmall
<1> HIDE DEF q, m, limit, p
<1>8. q <= limit
  BY <1>2, <1>3, <1>4
<1>9. q * NS \in Nat /\ q * NS <= MaxTime
  <2>1. q * NS <= limit * NS
    BY <1>1, <1>2, <1>3, <1>8
  <2>2. QED
    BY <1>1, <1>2, <1>3, <2>1
<1>10. Wrap(q * NS + p) = q * NS + p
  <2>1. q * NS + p \in Nat /\ q * NS + p < 2 * (MaxTime + 1)
    BY <1>1, <1>2, <1>6, <1>9
  <2>2. QED
    BY <2>1, WrapSmall
<1>11. SampleOffset(i) = (IF q > limit \/ q * NS + p > MaxTime THEN Range ELSE q * NS + p)
  BY <1>4, <1>7, <1>10 DEF p
<1>12. QED
  BY <1>1, <1>2, <1>8, <1>9, <1>11

(* A mapped time is the exact sum, and in range. *)
LEMMA MapIsExact ==
  ASSUME TypeOK, NEW pts \in 0..MaxTime, MapPts(pts) # Range
  PROVE  MapPts(pts) = epoch + pts - source + target /\ MapPts(pts) \in 0..MaxTime
  BY ClockAssumption DEF MapPts, Fits, TypeOK, Range

IInv == TypeOK /\ DurationsAddUp /\ MappedAsAWhole

(* What a block does to session time. *)
LEMMA BlockAdds ==
  ASSUME IInv, NEW k \in 1..MaxBlock, Block(k)
  PROVE  /\ samples' = samples + k /\ sent' \in Nat /\ sent <= sent'
         /\ sent = SampleOffset(samples) /\ sent \in 0..MaxTime
         /\ sent' = ((samples + k) * NS) \div Rate
         /\ next' = MapPts(sent) + (sent' - sent)
         /\ MapPts(sent) = epoch + sent - source + target /\ MapPts(sent) \in 0..MaxTime
         /\ sent' - sent <= MaxTime - MapPts(sent)
         /\ UNCHANGED <<epoch, source, target>>
<1>1. samples \in Nat /\ samples + k \in Nat /\ k \in Nat /\ TypeOK /\ sent = (samples * NS) \div Rate
  BY ClockAssumption DEF IInv, TypeOK, DurationsAddUp
<1>2. /\ SampleOffset(samples) # Range /\ SampleOffset(samples + k) # Range
      /\ MapPts(SampleOffset(samples)) # Range
      /\ samples' = samples + k
      /\ sent' = sent + (SampleOffset(samples + k) - SampleOffset(samples))
      /\ next' = MapPts(SampleOffset(samples)) + (SampleOffset(samples + k) - SampleOffset(samples))
      /\ SampleOffset(samples + k) - SampleOffset(samples) <= MaxTime - MapPts(SampleOffset(samples))
      /\ UNCHANGED <<epoch, source, target>>
  BY DEF Block, Duration
<1>3. /\ SampleOffset(samples) = (samples * NS) \div Rate /\ SampleOffset(samples) \in 0..MaxTime
      /\ SampleOffset(samples + k) = ((samples + k) * NS) \div Rate /\ SampleOffset(samples + k) \in 0..MaxTime
  BY <1>1, <1>2, OffsetIsFloor
<1>4. SampleOffset(samples) <= SampleOffset(samples + k)
  <2>1. samples * NS \in Nat /\ (samples + k) * NS \in Nat /\ samples * NS <= (samples + k) * NS
    <3>1. NS \in Nat
      BY ClockAssumption
    <3>2. (samples + k) * NS = samples * NS + k * NS /\ k * NS \in Nat
      BY <1>1, <3>1
    <3>3. QED
      BY <1>1, <3>1, <3>2
  <2>2. QED
    BY <1>3, <2>1, DivMonotone, ClockAssumption
<1>5. QED
  BY <1>1, <1>2, <1>3, <1>4, MapIsExact, ClockAssumption

LEMMA StepIInv == IInv /\ [Next]_vars => IInv'
<1> SUFFICES ASSUME IInv, [Next]_vars PROVE IInv'
  OBVIOUS
<1>1. CASE UNCHANGED vars
  BY <1>1 DEF vars, IInv, TypeOK, DurationsAddUp, MappedAsAWhole
<1>2. ASSUME NEW k \in 1..MaxBlock, Block(k) PROVE IInv'
  <2>1. TypeOK /\ k \in Nat
    BY ClockAssumption DEF IInv
  <2>2. DurationsAddUp'
    BY <1>2, BlockAdds DEF DurationsAddUp
  <2>3. MappedAsAWhole'
    BY <1>2, <2>1, BlockAdds DEF MappedAsAWhole, TypeOK
  <2>4. TypeOK'
    BY <1>2, <2>1, BlockAdds, ClockAssumption DEF TypeOK
  <2>5. QED
    BY <2>2, <2>3, <2>4 DEF IInv
<1>3. QED
  BY <1>1, <1>2 DEF Next

LEMMA InitIInv == Init => IInv
<1>1. \A r \in Nat \ {0} : 0 \div r = 0
  OBVIOUS
<1>2. QED
  BY <1>1, ClockAssumption DEF Init, IInv, TypeOK, DurationsAddUp, MappedAsAWhole

LEMMA InvariantIInv == Spec => []IInv
  BY InitIInv, StepIInv, PTL DEF Spec

(* Session time keeps its types: nothing the receiver is told is negative or *)
(* past the end of its clock.                                                *)
THEOREM ClockTypeOK == Spec => []TypeOK
<1>1. IInv => TypeOK
  BY DEF IInv
<1>2. QED
  BY <1>1, InvariantIInv, PTL

(* However a track is cut into blocks, for every sample rate, rounding does  *)
(* not add up (src/src/framelink_session.cpp:115-121).                       *)
THEOREM NoAccumulatedRounding == Spec => []DurationsAddUp
<1>1. IInv => DurationsAddUp
  BY DEF IInv
<1>2. QED
  BY <1>1, InvariantIInv, PTL

(* The receiver's clock shows the track moved as a whole                     *)
(* (src/src/framelink_session.cpp:106-114).                                  *)
THEOREM MappingMovesTheTrack == Spec => []MappedAsAWhole
<1>1. IInv => MappedAsAWhole
  BY DEF IInv
<1>2. QED
  BY <1>1, InvariantIInv, PTL

(* Each block starts where the one before it ended. *)
THEOREM BlocksAreSeamless == Spec => Seamless
<1>1. IInv /\ [Next]_vars => [(next # Range /\ next' # next) => MapPts(SampleOffset(samples)) = next]_vars
  <2> SUFFICES ASSUME IInv, Next, next # Range
               PROVE  MapPts(SampleOffset(samples)) = next
    OBVIOUS
  <2>1. PICK k \in 1..MaxBlock : Block(k)
    BY DEF Next
  <2>2. QED
    BY <2>1, BlockAdds DEF IInv, MappedAsAWhole
<1>2. QED
  BY <1>1, InvariantIInv, PTL DEF Spec, Seamless

-----------------------------------------------------------------------------
(* The session contract. *)

(* A set of numbers that is not empty has a first. *)
LEMMA FirstExists ==
  ASSUME NEW S, S \subseteq Nat, S # {}
  PROVE  \E i \in S : \A j \in S : i <= j
<1> DEFINE Less == {ss \in Nat \X Nat : ss[1] < ss[2]}
<1>1. IsWellFoundedOn(Less, Nat)
  BY NatLessThanWellFounded, Zenon DEF OpToRel
<1>2. PICK x \in S : \A y \in S : ~(<<y, x>> \in Less)
  BY <1>1, WFMin
<1>3. \A y \in S : ~(y < x)
  BY <1>2
<1> QED BY <1>3

LEMMA FirstIsFirst ==
  ASSUME NEW S, S \subseteq Nat, S # {}
  PROVE  Codec!First(S) \in S /\ Contract!First(S) \in S
  BY FirstExists DEF Codec!First, Contract!First

-----------------------------------------------------------------------------
(* The offers fit: what negotiation looks for. *)
Fit(p, c) ==
  /\ Codec!Caps(p) = "ok" /\ Codec!Caps(c) = "ok" /\ p.version = c.version
  /\ (p.video = <<>>) = (c.video = <<>>) /\ (p.audio = <<>>) = (c.audio = <<>>)
  /\ p.video # <<>> => Codec!CommonVideo(p, c) # {}
  /\ p.audio # <<>> => Codec!CommonAudio(p, c) # {}

LEMMA NegotiationFinds ==
  ASSUME NEW p, NEW c
  PROVE  /\ Codec!SessionNegotiate(p, c).result = "ok" <=> Fit(p, c)
         /\ Codec!SessionNegotiate(p, c).result = "incompatible" =>
              /\ Codec!Caps(p) = "ok" /\ Codec!Caps(c) = "ok" /\ p.version = c.version
         /\ ~Fit(p, c) => /\ Codec!SessionNegotiate(p, c).video = NoVideo
                          /\ Codec!SessionNegotiate(p, c).audio = NoAudio
         /\ Fit(p, c) =>
              /\ Codec!SessionNegotiate(p, c).video =
                   (IF p.video = <<>> THEN NoVideo ELSE p.video[Codec!First(Codec!CommonVideo(p, c))])
              /\ Codec!SessionNegotiate(p, c).audio =
                   (IF p.audio = <<>> THEN NoAudio
                    ELSE p.audio[Codec!First(Codec!Ranked(p, Codec!CommonAudio(p, c)))])
<1> DEFINE n == Codec!SessionNegotiate(p, c)
<1>0. Codec!Caps(p) \in {"ok", "version", "invalid"} /\ Codec!Caps(c) \in {"ok", "version", "invalid"}
  BY DEF Codec!Caps
<1>1. CASE Codec!Caps(p) # "ok"
  BY <1>0, <1>1 DEF Codec!SessionNegotiate, Fit, Codec!NoVideo, Codec!NoAudio, NoVideo, NoAudio
<1>2. CASE Codec!Caps(p) = "ok" /\ Codec!Caps(c) # "ok"
  BY <1>0, <1>2 DEF Codec!SessionNegotiate, Fit, Codec!NoVideo, Codec!NoAudio, NoVideo, NoAudio
<1>3. CASE Codec!Caps(p) = "ok" /\ Codec!Caps(c) = "ok" /\ p.version # c.version
  BY <1>3 DEF Codec!SessionNegotiate, Fit, Codec!NoVideo, Codec!NoAudio, NoVideo, NoAudio
<1>4. CASE Codec!Caps(p) = "ok" /\ Codec!Caps(c) = "ok" /\ p.version = c.version
  BY <1>4 DEF Codec!SessionNegotiate, Fit, Codec!NoVideo, Codec!NoAudio, NoVideo, NoAudio
<1> QED BY <1>1, <1>2, <1>3, <1>4

(* What well-formed offers have in common does not depend on who asks. *)
LEMMA FitIsSymmetric ==
  ASSUME Codec!ContractAssumption, NEW p \in ManyOffers, NEW c \in ManyOffers
  PROVE  Fit(p, c) => Fit(c, p)
<1> SUFFICES ASSUME Fit(p, c) PROVE Fit(c, p)
  OBVIOUS
<1>1. /\ p.video \in Seq([picture : {hd, sd}, num : Nat, den : Nat])
      /\ c.video \in Seq([picture : {hd, sd}, num : Nat, den : Nat])
  BY DEF Codec!ContractAssumption
<1>2. ASSUME p.video # <<>> PROVE Codec!CommonVideo(c, p) # {}
  <2>1. PICK i \in DOMAIN p.video, j \in DOMAIN c.video : Codec!SameVideo(p.video[i], c.video[j])
    BY <1>2 DEF Fit, Codec!CommonVideo
  <2>2. p.video[i].num \in Nat /\ p.video[i].den \in Nat /\ c.video[j].num \in Nat /\ c.video[j].den \in Nat
    <3> DEFINE T == [picture : {hd, sd}, num : Nat, den : Nat]
    <3>1. p.video \in Seq(T) /\ c.video \in Seq(T)
      BY <1>1
    <3> HIDE DEF T
    <3>2. p.video[i] \in T /\ c.video[j] \in T
      BY <3>1
    <3> QED BY <3>2 DEF T
  <2>3. Codec!SameVideo(c.video[j], p.video[i])
    BY <2>1, <2>2 DEF Codec!SameVideo
  <2> QED BY <2>3 DEF Codec!CommonVideo
<1>3. ASSUME p.audio # <<>> PROVE Codec!CommonAudio(c, p) # {}
  BY <1>3 DEF Fit, Codec!CommonAudio
<1> QED BY <1>2, <1>3 DEF Fit

(* The formats selected are offered and well formed. *)
LEMMA SelectedFormats ==
  ASSUME Codec!ContractAssumption, NEW p \in ManyOffers, NEW c \in ManyOffers, Fit(p, c)
  PROVE  /\ p.video # <<>> =>
              /\ Codec!First(Codec!CommonVideo(p, c)) \in Codec!CommonVideo(p, c)
              /\ Codec!VideoValid(p.video[Codec!First(Codec!CommonVideo(p, c))])
         /\ p.audio # <<>> =>
              /\ Codec!First(Codec!Ranked(p, Codec!CommonAudio(p, c))) \in Codec!Ranked(p, Codec!CommonAudio(p, c))
              /\ Codec!First(Codec!Ranked(p, Codec!CommonAudio(p, c))) \in Codec!CommonAudio(p, c)
              /\ Codec!AudioValid(p.audio[Codec!First(Codec!Ranked(p, Codec!CommonAudio(p, c)))])
<1>1. DOMAIN p.video \subseteq Nat /\ DOMAIN p.audio \subseteq Nat
  BY DEF Codec!ContractAssumption
<1>2. /\ \A i \in DOMAIN p.video : Codec!VideoValid(p.video[i])
      /\ \A i \in DOMAIN p.audio : Codec!AudioValid(p.audio[i])
  BY DEF Fit, Codec!Caps
<1>3. Codec!CommonVideo(p, c) \subseteq DOMAIN p.video /\ Codec!CommonAudio(p, c) \subseteq DOMAIN p.audio
  BY DEF Codec!CommonVideo, Codec!CommonAudio
<1>4. Codec!Ranked(p, Codec!CommonAudio(p, c)) \subseteq Codec!CommonAudio(p, c)
  BY DEF Codec!Ranked
<1>5. p.audio # <<>> => Codec!Ranked(p, Codec!CommonAudio(p, c)) # {}
  BY DEF Codec!Ranked, Fit
<1>6. p.video # <<>> => Codec!First(Codec!CommonVideo(p, c)) \in Codec!CommonVideo(p, c)
  BY <1>1, <1>3, FirstIsFirst DEF Fit
<1>7. p.audio # <<>> =>
        Codec!First(Codec!Ranked(p, Codec!CommonAudio(p, c))) \in Codec!Ranked(p, Codec!CommonAudio(p, c))
  BY <1>1, <1>3, <1>4, <1>5, FirstIsFirst
<1> QED BY <1>2, <1>3, <1>4, <1>6, <1>7

LEMMA NegotiationIsComplete ==
  ASSUME Codec!ContractAssumption, producer \in ManyOffers, consumer \in ManyOffers
  PROVE  Codec!NegotiationComplete
<1> DEFINE n == Codec!SessionNegotiate(producer, consumer)
<1> DEFINE m == Codec!SessionNegotiate(consumer, producer)
<1>1. (n.result = "ok") = (m.result = "ok")
  BY NegotiationFinds, FitIsSymmetric
<1>2. ASSUME n.result = "incompatible",
             NEW v \in {NoVideo} \union {producer.video[i] : i \in DOMAIN producer.video},
             NEW a \in {NoAudio} \union {producer.audio[i] : i \in DOMAIN producer.audio},
             \A o \in {producer, consumer} :
               Codec!Offered([video |-> v, audio |-> a, videoTrack |-> IF v = NoVideo THEN 0 ELSE 1,
                              audioTrack |-> IF a = NoAudio THEN 0 ELSE 2], o)
      PROVE  FALSE
  <2>1. ~Fit(producer, consumer) /\ Codec!Caps(producer) = "ok" /\ Codec!Caps(consumer) = "ok"
        /\ producer.version = consumer.version
    BY <1>2, NegotiationFinds
  <2>2. \A o \in {producer, consumer} :
          /\ o.video # <<>> <=> v # NoVideo
          /\ o.audio # <<>> <=> a # NoAudio
          /\ v # NoVideo => \E i \in DOMAIN o.video : Codec!SameVideo(v, o.video[i])
          /\ a # NoAudio => \E i \in DOMAIN o.audio : a = o.audio[i]
    BY <1>2 DEF Codec!Offered
  <2>3. producer.video # <<>> => Codec!CommonVideo(producer, consumer) # {}
    BY <2>2 DEF Codec!CommonVideo
  <2>4. producer.audio # <<>> => Codec!CommonAudio(producer, consumer) # {}
    BY <2>2 DEF Codec!CommonAudio
  <2> QED BY <2>1, <2>2, <2>3, <2>4 DEF Fit
<1>3. ASSUME n.audio # NoAudio, n.audio.rate # 48,
             NEW i \in DOMAIN producer.audio, NEW j \in DOMAIN consumer.audio,
             producer.audio[i] = consumer.audio[j]
      PROVE  producer.audio[i].rate # 48
  <2>1. Fit(producer, consumer) /\ producer.audio # <<>>
    BY <1>3, NegotiationFinds
  <2> DEFINE k == Codec!First(Codec!Ranked(producer, Codec!CommonAudio(producer, consumer)))
  <2>2. n.audio = producer.audio[k] /\ k \in Codec!Ranked(producer, Codec!CommonAudio(producer, consumer))
    BY <2>1, NegotiationFinds, SelectedFormats
  <2>3. i \in Codec!CommonAudio(producer, consumer)
    BY <1>3 DEF Codec!CommonAudio
  <2> HIDE DEF n, k
  <2> QED BY <1>3, <2>2, <2>3 DEF Codec!Ranked
<1> HIDE DEF n, m
<1>4. \/ n.result # "incompatible"
      \/ ~\E v \in {NoVideo} \union {producer.video[i] : i \in DOMAIN producer.video},
             a \in {NoAudio} \union {producer.audio[i] : i \in DOMAIN producer.audio} :
            \A o \in {producer, consumer} :
              Codec!Offered([video |-> v, audio |-> a, videoTrack |-> IF v = NoVideo THEN 0 ELSE 1,
                             audioTrack |-> IF a = NoAudio THEN 0 ELSE 2], o)
  BY <1>2
<1> QED BY <1>1, <1>3, <1>4 DEF Codec!NegotiationComplete, n, m, Codec!NoVideo, Codec!NoAudio, NoVideo, NoAudio

-----------------------------------------------------------------------------
(* The wire. *)

LEMMA EncodeDecode ==
  ASSUME Codec!ContractAssumption, NEW c, c = [x \in DOMAIN c |-> c[x]], {"version", "epoch"} \subseteq DOMAIN c,
         c.epoch \in 0..7, c.version \in {1, 2}
  PROVE  Codec!Readable(Codec!Encode(c)) /\ Codec!Decode(Codec!Encode(c)) = c
<1>1. Codec!Unsigned(c.epoch) = c.epoch /\ Codec!Signed(c.epoch) = c.epoch
  BY DEF Codec!Unsigned, Codec!Signed
<1>2. Codec!Readable(Codec!Encode(c))
  BY <1>1 DEF Codec!Readable, Codec!Encode, Codec!Magic, Codec!VersionValid
<1> DEFINE b == [c EXCEPT !.version = 0, !.epoch = 0]
<1>3. Codec!Decode(Codec!Encode(c)) = [b EXCEPT !.version = c.version, !.epoch = c.epoch]
  BY <1>1 DEF Codec!Decode, Codec!Encode
<1>4. [b EXCEPT !.version = c.version, !.epoch = c.epoch] = [x \in DOMAIN c |-> c[x]]
  OBVIOUS
<1> QED BY <1>2, <1>3, <1>4

LEMMA SelectionIsAccepted ==
  ASSUME Codec!ContractAssumption, producer \in ManyOffers, consumer \in ManyOffers
  PROVE  Codec!SelectionAccepted
<1> DEFINE n == Codec!SessionNegotiate(producer, consumer)
<1> SUFFICES ASSUME n.result = "ok", NEW c \in ManyConfigs,
                    Codec!SessionValidate(Codec!Selected(c)) = "ok", Codec!Selected(c).version = producer.version
             PROVE  /\ Codec!SelectionValid(Codec!Selected(c), producer, consumer)
                    /\ Codec!Readable(Codec!Encode(Codec!Selected(c)))
                    /\ Codec!Decode(Codec!Encode(Codec!Selected(c))) = Codec!Selected(c)
  BY DEF Codec!SelectionAccepted
<1> DEFINE s == Codec!Selected(c)
<1>1. Fit(producer, consumer) /\ Fit(consumer, producer)
  BY NegotiationFinds, FitIsSymmetric
<1>2. /\ n.video = (IF producer.video = <<>> THEN NoVideo
                    ELSE producer.video[Codec!First(Codec!CommonVideo(producer, consumer))])
      /\ n.audio = (IF producer.audio = <<>> THEN NoAudio
                    ELSE producer.audio[Codec!First(Codec!Ranked(producer, Codec!CommonAudio(producer, consumer)))])
  BY <1>1, NegotiationFinds
<1>3. /\ s = [x \in DOMAIN s |-> s[x]] /\ DOMAIN s = DOMAIN c /\ Codec!ConfigFields \subseteq DOMAIN c
      /\ s.video = n.video /\ s.audio = n.audio /\ s.version = c.version /\ s.epoch = c.epoch
      /\ c.epoch \in -8..7
  <2> HIDE DEF n
  <2>1. s = [c EXCEPT !.video = n.video, !.audio = n.audio]
    BY DEF Codec!Selected, n
  <2>2. Codec!ConfigFields \subseteq DOMAIN c /\ c.epoch \in -8..7
    BY DEF Codec!ContractAssumption
  <2> HIDE DEF s
  <2> QED BY <2>1, <2>2 DEF Codec!ConfigFields
<1> HIDE DEF s, n
<1>4. s.version \in {1, 2} /\ s.epoch \in 0..7
  BY <1>3 DEF Codec!SessionValidate, Codec!VersionValid, s
<1>5. Codec!Readable(Codec!Encode(s)) /\ Codec!Decode(Codec!Encode(s)) = s
  BY <1>3, <1>4, EncodeDecode DEF Codec!ConfigFields
<1>6. /\ s.videoTrack # 0 => Codec!VideoValid(s.video)
      /\ s.videoTrack = 0 => s.video = NoVideo
      /\ s.audioTrack # 0 => Codec!AudioValid(s.audio)
      /\ s.audioTrack = 0 => s.audio = NoAudio
  BY DEF Codec!SessionValidate, Codec!NoVideo, Codec!NoAudio, NoVideo, NoAudio, s
<1>7. ~Codec!VideoValid(NoVideo) /\ ~Codec!AudioValid(NoAudio)
  BY DEF Codec!VideoValid, Codec!AudioValid, NoVideo, NoAudio
<1>8. /\ (producer.video # <<>>) = (s.videoTrack # 0)
      /\ (producer.audio # <<>>) = (s.audioTrack # 0)
  BY <1>1, <1>2, <1>3, <1>6, <1>7, SelectedFormats
<1>9. s.videoTrack # 0 =>
        /\ \E i \in DOMAIN producer.video : Codec!SameVideo(s.video, producer.video[i])
        /\ \E i \in DOMAIN consumer.video : Codec!SameVideo(s.video, consumer.video[i])
  <2> DEFINE k == Codec!First(Codec!CommonVideo(producer, consumer))
  <2>1. SUFFICES ASSUME s.videoTrack # 0
                 PROVE  /\ \E i \in DOMAIN producer.video : Codec!SameVideo(s.video, producer.video[i])
                        /\ \E i \in DOMAIN consumer.video : Codec!SameVideo(s.video, consumer.video[i])
    OBVIOUS
  <2>2. k \in Codec!CommonVideo(producer, consumer) /\ s.video = producer.video[k]
    BY <1>1, <1>2, <1>3, <1>8, <2>1, SelectedFormats
  <2>3. Codec!SameVideo(producer.video[k], producer.video[k])
    BY DEF Codec!SameVideo
  <2> HIDE DEF k
  <2> QED BY <2>2, <2>3 DEF Codec!CommonVideo
<1>10. s.audioTrack # 0 =>
        /\ \E i \in DOMAIN producer.audio : s.audio = producer.audio[i]
        /\ \E i \in DOMAIN consumer.audio : s.audio = consumer.audio[i]
  BY <1>1, <1>2, <1>3, <1>8, SelectedFormats DEF Codec!CommonAudio
<1>11. \A o \in {producer, consumer} :
         /\ Codec!Caps(o) = "ok" /\ o.version = s.version
         /\ (o.video # <<>>) = (s.videoTrack # 0) /\ (o.audio # <<>>) = (s.audioTrack # 0)
  BY <1>1, <1>8 DEF Fit, s
<1>12. Codec!SelectionValid(s, producer, consumer)
  BY <1>9, <1>10, <1>11 DEF Codec!SelectionValid, Codec!Offered, s
<1> QED BY <1>5, <1>12 DEF s

-----------------------------------------------------------------------------
(* Messages. *)

(* A message as flSessionEncode lays one out, its version and epoch apart. *)
WireShape(w) ==
  /\ w = [magic |-> w.magic, version |-> w.version, body |-> w.body, epoch |-> w.epoch, reserved |-> w.reserved]
  /\ w.body = [x \in DOMAIN w.body |-> w.body[x]] /\ {"version", "epoch"} \subseteq DOMAIN w.body
  /\ w.body.version = 0 /\ w.body.epoch = 0 /\ w.epoch \in Nat
  /\ "generation" \in DOMAIN w.body /\ w.body.generation \in Nat

MessagesInv ==
  /\ \A w \in wires : WireShape(w)
  /\ current # Contract!Unset =>
       /\ Contract!SelectionValid(current, producer, consumer) /\ current.epoch \in 0..7
       /\ current.generation \in Nat
  /\ retired # {} => current # Contract!Unset
  /\ Contract!NeverReturns /\ \A c \in retired : c.generation \in Nat

LEMMA EncodeShape ==
  ASSUME NEW c, c = [x \in DOMAIN c |-> c[x]], {"version", "epoch", "generation"} \subseteq DOMAIN c, c.epoch \in Int,
         c.generation \in Nat
  PROVE  WireShape(Contract!Encode(c))
<1> DEFINE b == [c EXCEPT !.version = 0, !.epoch = 0]
<1>1. /\ b = [x \in DOMAIN b |-> b[x]] /\ {"version", "epoch", "generation"} \subseteq DOMAIN b
      /\ b.version = 0 /\ b.epoch = 0 /\ b.generation \in Nat
  OBVIOUS
<1> HIDE DEF b
<1>2. Contract!Unsigned(c.epoch) \in Nat
  BY DEF Contract!Unsigned
<1>3. Contract!Encode(c) = [magic |-> Contract!Magic(c.version), version |-> c.version, body |-> b,
                            epoch |-> Contract!Unsigned(c.epoch), reserved |-> 0]
  BY DEF Contract!Encode, b
<1> QED BY <1>1, <1>2, <1>3 DEF WireShape

LEMMA DecodeEncode ==
  ASSUME NEW w, WireShape(w), Contract!Readable(w)
  PROVE  /\ Contract!Decode(w).epoch = w.epoch /\ Contract!Encode(Contract!Decode(w)) = w
         /\ Contract!Decode(w).generation \in Nat /\ Contract!Decode(w).version = w.version
<1>1. w.epoch \in 0..7 /\ w.reserved = 0 /\ w.magic = Contract!Magic(w.version)
  BY DEF WireShape, Contract!Readable
<1>2. Contract!Unsigned(w.epoch) = w.epoch /\ Contract!Signed(w.epoch) = w.epoch
  BY <1>1 DEF Contract!Unsigned, Contract!Signed
<1> DEFINE b == w.body
<1> DEFINE d == [b EXCEPT !.version = w.version, !.epoch = w.epoch]
<1>3. Contract!Decode(w) = d
  BY <1>2 DEF Contract!Decode
<1>4. /\ b = [x \in DOMAIN b |-> b[x]] /\ {"version", "epoch", "generation"} \subseteq DOMAIN b
      /\ b.version = 0 /\ b.epoch = 0 /\ b.generation \in Nat
  BY DEF WireShape
<1> HIDE DEF b
<1>5. d.version = w.version /\ d.epoch = w.epoch /\ d.generation \in Nat
  BY <1>4
<1>6. [d EXCEPT !.version = 0, !.epoch = 0] = b
  <2>1. [d EXCEPT !.version = 0, !.epoch = 0] = [x \in DOMAIN b |-> b[x]]
    BY <1>4
  <2> QED BY <1>4, <2>1
<1> HIDE DEF d
<1>7. Contract!Encode(d) = [magic |-> w.magic, version |-> w.version, body |-> w.body, epoch |-> w.epoch, reserved |-> w.reserved]
  BY <1>1, <1>2, <1>5, <1>6 DEF Contract!Encode, b
<1> QED BY <1>3, <1>5, <1>7 DEF WireShape

LEMMA MessagesStep ==
  ASSUME Contract!ContractAssumption, MessagesInv, [Contract!Next]_contract
  PROVE  MessagesInv'
<1>1. CASE UNCHANGED contract
  BY <1>1 DEF MessagesInv, contract, Contract!SelectionValid, Contract!NeverReturns
<1>2. ASSUME NEW c \in FewConfigs, Contract!Propose(c) PROVE MessagesInv'
  <2> DEFINE s == Contract!Selected(c)
  <2>1. /\ s = [x \in DOMAIN s |-> s[x]] /\ {"version", "epoch", "generation"} \subseteq DOMAIN s
        /\ s.epoch \in Int /\ s.generation \in Nat
    <3>1. Contract!ConfigFields \subseteq DOMAIN c /\ c.epoch \in Int /\ c.generation \in Nat
      <4>1. Contract!ConfigFields \subseteq DOMAIN c /\ c.generation \in Nat /\ c.epoch \in -(7 + 1)..7
        BY Zenon DEF Contract!ContractAssumption
      <4> QED BY <4>1
    <3> QED BY <3>1 DEF Contract!Selected, Contract!ConfigFields
  <2> HIDE DEF s
  <2>2. WireShape(Contract!Encode(s))
    BY <2>1, EncodeShape
  <2>3. wires' = wires \union {Contract!Encode(s)} /\ UNCHANGED <<producer, consumer, current, retired>>
    BY <1>2 DEF Contract!Propose, s
  <2> QED BY <2>2, <2>3 DEF MessagesInv, Contract!NeverReturns
<1>3. ASSUME NEW w \in FewForeign, Contract!Stray(w) PROVE MessagesInv'
  <2>1. wires' = wires \union {w} /\ UNCHANGED <<producer, consumer, current, retired>>
    BY <1>3 DEF Contract!Stray
  <2>2. WireShape(w)
    <3>1. /\ w \in [magic : {w.magic}, version : Nat, body : {w.body}, epoch : 0..15, reserved : Nat]
          /\ {"version", "epoch", "generation"} \subseteq DOMAIN w.body /\ w.body.generation \in Nat
          /\ w.body = [w.body EXCEPT !.version = 0, !.epoch = 0]
      <4>1. /\ w \in [magic : {w.magic}, version : Nat, body : {w.body}, epoch : 0..(2 * 7 + 1), reserved : Nat]
            /\ Contract!ConfigFields \subseteq DOMAIN w.body /\ w.body.generation \in Nat
            /\ w.body = [w.body EXCEPT !.version = 0, !.epoch = 0]
        BY Zenon DEF Contract!ContractAssumption
      <4> QED BY <4>1 DEF Contract!ConfigFields
    <3>2. w = [magic |-> w.magic, version |-> w.version, body |-> w.body, epoch |-> w.epoch, reserved |-> w.reserved]
          /\ w.epoch \in Nat
      BY <3>1
    <3>3. w.body.version = 0 /\ w.body.epoch = 0 /\ w.body = [x \in DOMAIN w.body |-> w.body[x]]
      BY <3>1
    <3> QED BY <3>1, <3>2, <3>3 DEF WireShape
  <2> QED BY <2>1, <2>2 DEF MessagesInv, Contract!NeverReturns
<1>4. ASSUME NEW w \in wires, Contract!Receive(w) PROVE MessagesInv'
  <2>1. /\ current' = Contract!Decode(w) /\ UNCHANGED <<producer, consumer, wires>> /\ Contract!Readable(w)
        /\ retired' = retired \union ({current} \ {Contract!Unset})
        /\ Contract!SelectionValid(Contract!Decode(w), producer, consumer)
        /\ current # Contract!Unset => Contract!ReplacementValid(current, Contract!Decode(w))
    BY <1>4 DEF Contract!Receive, Contract!Accepts
  <2>2. WireShape(w) /\ w.epoch \in 0..7
    BY <2>1 DEF MessagesInv, WireShape, Contract!Readable
  <2>3. Contract!Decode(w).epoch = w.epoch /\ Contract!Decode(w).generation \in Nat
    BY <2>1, <2>2, DecodeEncode
  <2>4. Contract!NeverReturns' /\ \A c \in retired' : c.generation \in Nat
    <3> SUFFICES ASSUME NEW c \in retired'
                 PROVE  /\ c.generation \in Nat /\ c.generation < current'.generation /\ c.id = current'.id
                        /\ c.videoTrack = current'.videoTrack /\ c.audioTrack = current'.audioTrack
      BY DEF Contract!NeverReturns
    <3>1. CASE c \in retired
      <4>1. current # Contract!Unset
        BY <3>1 DEF MessagesInv
      <4> QED BY <2>1, <2>3, <3>1, <4>1 DEF MessagesInv, Contract!NeverReturns, Contract!ReplacementValid
    <3>2. CASE c = current /\ current # Contract!Unset
      BY <2>1, <3>2 DEF MessagesInv, Contract!ReplacementValid
    <3> QED BY <2>1, <3>1, <3>2
  <2>5. current' # Contract!Unset
    BY <2>1 DEF Contract!SelectionValid, Contract!SessionValidate, Contract!VersionValid, Contract!Unset
  <2> QED BY <2>1, <2>2, <2>3, <2>4, <2>5 DEF MessagesInv
<1> QED BY <1>1, <1>2, <1>3, <1>4 DEF Contract!Next

LEMMA MessagesSound ==
  ASSUME MessagesInv
  PROVE  Contract!TypeOK /\ Contract!WireIsCanonical /\ Contract!AcceptedIsAgreed /\ Contract!NeverReturns
<1>1. Contract!TypeOK
  BY DEF MessagesInv, Contract!TypeOK, Contract!SelectionValid
<1>2. Contract!WireIsCanonical
  BY DecodeEncode DEF MessagesInv, Contract!WireIsCanonical
<1>3. Contract!AcceptedIsAgreed
  BY DEF MessagesInv, Contract!AcceptedIsAgreed, Contract!SelectionValid
<1> QED BY <1>1, <1>2, <1>3 DEF MessagesInv

(* In the whole: the offers are kept, the messages keep their shape. *)
ContractInv ==
  /\ part = "offers" => producer \in ManyOffers /\ consumer \in ManyOffers
  /\ part = "messages" => MessagesInv

LEMMA ContractRuns == MCSpec => []ContractInv
<1>1. MCSpec => MCInit /\ [][MCNext]_mcvars
  BY PTL DEF MCSpec
<1>2. MCInit => ContractInv
  BY DEF MCInit, ContractInv, MessagesInv, Codec!Init, Contract!Init, Contract!NeverReturns
<1>3. ContractInv /\ [MCNext]_mcvars => ContractInv'
  <2> SUFFICES ASSUME ContractInv, [MCNext]_mcvars PROVE ContractInv'
    OBVIOUS
  <2>1. UNCHANGED part
    BY DEF MCNext, mcvars
  <2>2. part = "messages" => [Contract!Next]_contract
    BY DEF MCNext, mcvars
  <2>3. part = "offers" => UNCHANGED <<producer, consumer>>
    BY DEF MCNext, mcvars, contract, Codec!Next, Codec!Propose, Codec!Stray, Codec!Receive
  <2> QED BY <2>1, <2>2, <2>3, AgreementAssumption, MessagesStep DEF ContractInv
<1> QED BY <1>1, <1>2, <1>3, PTL

(* Negotiation finds a selection exactly if there is one and the peer's own  *)
(* check accepts it; what an endpoint has accepted, both offered; an         *)
(* accepted message means one thing; and no message, however late, repeated  *)
(* or foreign, brings back a configuration that was replaced                 *)
(* (framelink_session.cpp:30-105).                                           *)
THEOREM SessionAgreed == MCSpec => []ContractSound
<1>1. ContractInv => ContractSound
  BY AgreementAssumption, NegotiationIsComplete, SelectionIsAccepted, MessagesSound DEF ContractInv, ContractSound
<1> QED BY <1>1, ContractRuns, PTL

-----------------------------------------------------------------------------
(* The memory agreement: what the boundary accepts. *)

PathShape(p) == {"resources", "usage", "operations"} \subseteq DOMAIN p

(* What an end, and what all ends of a boundary, have to find. *)
Suits(r, p, operations) == r.required \subseteq p.usage /\ p.resources \subseteq r.resources /\ operations \subseteq r.operations

Consent(a, b, p, q) ==
  /\ Memory!RequirementsValidate(a) = "ok" /\ Memory!RequirementsValidate(b) = "ok"
  /\ Memory!PathValidate(p) = "ok" /\ Memory!PathValidate(q) = "ok" /\ p.resources = q.resources
  /\ Suits(a, p, p.operations \union q.operations) /\ Suits(b, q, p.operations \union q.operations)

LEMMA FirstOfIsFirst ==
  ASSUME NEW T, T \subseteq Nat, T # {}
  PROVE  Memory!FirstOf(T) \in T
  BY FirstExists DEF Memory!FirstOf

LEMMA BoundaryOK ==
  ASSUME NEW rs, NEW ps, NEW n \in Nat, DOMAIN rs = 1..n
  PROVE  Memory!EvaluateBoundary(rs, ps) = "ok" <=>
           /\ Memory!Counted(rs)
           /\ \A i \in 1..n : Memory!Fault(rs, ps, i) = "ok" /\ Memory!Accepts(rs[i], Memory!Shared(ps, i))
<1> DEFINE bad == {i \in DOMAIN rs : Memory!Fault(rs, ps, i) # "ok"}
<1>1. bad # {} => Memory!FirstOf(bad) \in bad
  BY FirstOfIsFirst
<1>2. Memory!EvaluateBoundary(rs, ps) =
        CASE ~Memory!Counted(rs) -> "invalid"
          [] Memory!Counted(rs) /\ bad # {} -> Memory!Fault(rs, ps, Memory!FirstOf(bad))
          [] Memory!Counted(rs) /\ bad = {} /\ (\E i \in DOMAIN rs : ~Memory!Accepts(rs[i], Memory!Shared(ps, i))) -> "incompatible"
          [] OTHER -> "ok"
  BY DEF Memory!EvaluateBoundary
<1>3. bad # {} => Memory!Fault(rs, ps, Memory!FirstOf(bad)) # "ok"
  BY <1>1
<1>4. bad = {} <=> \A i \in 1..n : Memory!Fault(rs, ps, i) = "ok"
  OBVIOUS
<1> HIDE DEF bad
<1>5. CASE ~Memory!Counted(rs)
  BY <1>2, <1>5
<1>6. CASE Memory!Counted(rs) /\ bad # {}
  BY <1>2, <1>3, <1>4, <1>6
<1>7. CASE Memory!Counted(rs) /\ bad = {}
  BY <1>2, <1>4, <1>7
<1> QED BY <1>5, <1>6, <1>7

LEMMA FaultOK ==
  ASSUME NEW rs, NEW ps, NEW i
  PROVE  Memory!Fault(rs, ps, i) = "ok" <=>
           /\ Memory!RequirementsValidate(rs[i]) = "ok" /\ Memory!PathValidate(ps[i]) = "ok"
           /\ ps[i].resources = ps[1].resources
  BY DEF Memory!Fault

LEMMA AcceptsOK ==
  ASSUME NEW r, NEW ps, NEW i, PathShape(ps[i])
  PROVE  Memory!Accepts(r, Memory!Shared(ps, i)) <=> Suits(r, ps[i], Memory!AllOperations(ps))
<1> DEFINE h == Memory!Shared(ps, i)
<1>1. h.usage = ps[i].usage /\ h.resources = ps[i].resources /\ h.operations = Memory!AllOperations(ps)
  BY DEF PathShape, Memory!Shared
<1> HIDE DEF h
<1>2. Memory!Accepts(r, h) <=>
        r.required \ h.usage = {} /\ h.resources \ r.resources = {} /\ h.operations \ r.operations = {}
  BY DEF Memory!Accepts, Memory!Decision
<1>3. Memory!Accepts(r, h) <=> Suits(r, ps[i], Memory!AllOperations(ps))
  BY <1>1, <1>2, Zenon DEF Suits
<1> QED BY <1>3 DEF h

(* The two ends' boundary is accepted if each end suits both. *)
LEMMA TwoEnds ==
  ASSUME NEW a, NEW b, NEW p, NEW q, PathShape(p), PathShape(q)
  PROVE  Memory!EvaluateBoundary(<<a, b>>, <<p, q>>) = "ok" <=> Consent(a, b, p, q)
<1> DEFINE rs == <<a, b>>
<1> DEFINE ps == <<p, q>>
<1>1. DOMAIN rs = 1..2 /\ rs[1] = a /\ rs[2] = b /\ DOMAIN ps = 1..2 /\ ps[1] = p /\ ps[2] = q /\ Len(rs) = 2
  OBVIOUS
<1> HIDE DEF rs, ps
<1>2. Memory!Counted(rs)
  BY <1>1 DEF Memory!Counted
<1>3. Memory!AllOperations(ps) = p.operations \union q.operations
  <2>1. Memory!AllOperations(ps) = UNION {ps[i].operations : i \in {1, 2}}
    BY <1>1 DEF Memory!AllOperations
  <2> QED BY <1>1, <2>1
<1>4. Memory!EvaluateBoundary(rs, ps) = "ok" <=>
        \A i \in 1..2 : Memory!Fault(rs, ps, i) = "ok" /\ Memory!Accepts(rs[i], Memory!Shared(ps, i))
  BY <1>1, <1>2, BoundaryOK
<1>5. Memory!EvaluateBoundary(rs, ps) = "ok" <=>
        /\ Memory!Fault(rs, ps, 1) = "ok" /\ Memory!Accepts(a, Memory!Shared(ps, 1))
        /\ Memory!Fault(rs, ps, 2) = "ok" /\ Memory!Accepts(b, Memory!Shared(ps, 2))
  BY <1>1, <1>4
<1>6. /\ Memory!Accepts(a, Memory!Shared(ps, 1)) <=> Suits(a, p, p.operations \union q.operations)
      /\ Memory!Accepts(b, Memory!Shared(ps, 2)) <=> Suits(b, q, p.operations \union q.operations)
  BY <1>1, <1>3, AcceptsOK
<1>7. /\ Memory!Fault(rs, ps, 1) = "ok" <=> Memory!RequirementsValidate(a) = "ok" /\ Memory!PathValidate(p) = "ok"
      /\ Memory!Fault(rs, ps, 2) = "ok" <=>
           Memory!RequirementsValidate(b) = "ok" /\ Memory!PathValidate(q) = "ok" /\ q.resources = p.resources
  BY <1>1, FaultOK
<1>8. Memory!EvaluateBoundary(rs, ps) = "ok" <=> Consent(a, b, p, q)
  BY <1>5, <1>6, <1>7 DEF Consent
<1> QED BY <1>8 DEF rs, ps

(* The ends decide alike. *)
LEMMA ConsentIsSymmetric ==
  ASSUME NEW a, NEW b, NEW p, NEW q
  PROVE  Consent(a, b, p, q) => Consent(b, a, q, p)
  BY DEF Consent, Suits

LEMMA AddEntry ==
  ASSUME NEW T, NEW s \in Seq(T), NEW x \in T
  PROVE  /\ Append(s, x) \in Seq(T) /\ Len(Append(s, x)) = Len(s) + 1 /\ Append(s, x)[Len(s) + 1] = x
         /\ \A i \in 1 .. Len(s) : Append(s, x)[i] = s[i]
  OBVIOUS

LEMMA DropEntry ==
  ASSUME NEW T, NEW s \in Seq(T), s # <<>>
  PROVE  /\ Tail(s) \in Seq(T) /\ Len(s) > 0 /\ Len(Tail(s)) = Len(s) - 1 /\ Head(s) = s[1] /\ s[1] \in T
         /\ \A i \in 1 .. Len(s) - 1 : Tail(s)[i] = s[i + 1]
<1>1. Len(s) \in Nat /\ Len(s) > 0
  OBVIOUS
<1> QED BY <1>1

LEMMA AppendThird ==
  ASSUME NEW T, NEW s \in Seq(T), NEW x \in T
  PROVE  Len(s) = 2 =>
           DOMAIN Append(s, x) = 1..3 /\ Append(s, x)[1] = s[1] /\ Append(s, x)[2] = s[2] /\ Append(s, x)[3] = x
<1>1. PICK a : a = Append(s, x)
  OBVIOUS
<1>2. a \in Seq(T) /\ Len(a) = Len(s) + 1 /\ a[Len(s) + 1] = x /\ \A i \in 1 .. Len(s) : a[i] = s[i]
  BY <1>1, AddEntry
<1>5. DOMAIN a = 1 .. Len(a)
  BY <1>2
<1>3. SUFFICES ASSUME Len(s) = 2 PROVE DOMAIN a = 1..3 /\ a[1] = s[1] /\ a[2] = s[2] /\ a[3] = x
  BY <1>1
<1>4. Len(a) = 3 /\ a[3] = x /\ a[1] = s[1] /\ a[2] = s[2]
  BY <1>2, <1>3
<1> QED BY <1>4, <1>5

(* A neighbour that joins suits both ends' operations. *)
LEMMA NeighbourSuits ==
  ASSUME NEW a, NEW b, NEW p, NEW q, NEW r, PathShape(p), PathShape(q),
         Memory!EvaluateBoundary(Append(<<a, b>>, r), Append(<<p, q>>, p)) = "ok"
  PROVE  Suits(r, p, p.operations \union q.operations)
<1> DEFINE rs == Append(<<a, b>>, r)
<1> DEFINE ps == Append(<<p, q>>, p)
<1>1. /\ DOMAIN rs = 1..3 /\ rs[3] = r
      /\ DOMAIN ps = 1..3 /\ ps[1] = p /\ ps[2] = q /\ ps[3] = p
  <2>1. /\ <<a, b>> \in Seq({a, b, r}) /\ Len(<<a, b>>) = 2
        /\ <<p, q>> \in Seq({p, q}) /\ Len(<<p, q>>) = 2 /\ <<p, q>>[1] = p /\ <<p, q>>[2] = q
    OBVIOUS
  <2> QED BY <2>1, AppendThird
<1>0. Memory!EvaluateBoundary(rs, ps) = "ok"
  OBVIOUS
<1> HIDE DEF rs, ps
<1>2. Memory!Accepts(rs[3], Memory!Shared(ps, 3))
  <2>1. \A i \in 1..3 : Memory!Accepts(rs[i], Memory!Shared(ps, i))
    BY <1>0, <1>1, BoundaryOK
  <2> QED BY <2>1
<1>3. p.operations \union q.operations \subseteq Memory!AllOperations(ps)
  <2>1. Memory!AllOperations(ps) = UNION {ps[i].operations : i \in {1, 2, 3}}
    BY <1>1 DEF Memory!AllOperations
  <2> QED BY <1>1, <2>1
<1>4. Suits(r, p, Memory!AllOperations(ps))
  BY <1>1, <1>2, AcceptsOK
<1> QED BY <1>3, <1>4 DEF Suits

-----------------------------------------------------------------------------
(* The exchange.  The runs differ in the offers, in which ends are native    *)
(* and in whether anything fails: Memory allows every step the others do.    *)

AllOffers == GoodOffers \union BadOffers \union BoundOffers
Heard     == AllOffers \union {Memory!NoOffer}
Letters   ==
  AllOffers \union [session : {1, 2}, by : Two, verdict : {"seen", "yes", "no"}, producer : Heard, consumer : Heard]

(* How many messages e has read and written, and what it writes as i-th. *)
GotAt(e, n) == IF e = "producer" /\ n = 1 THEN 1 ELSE n \div 2
Got(e)  == GotAt(e, at[e])
Sent(e) == at[e] - Got(e)
Post(e, i) ==
  IF i = 1 THEN offer[e]
  ELSE Memory!Transcript(e, e, IF i = 2 THEN "seen" ELSE IF accepted[e] THEN "yes" ELSE "no")

Types ==
  /\ offer \in [Two -> AllOffers] /\ session \in [Two -> {1, 2}] /\ at \in [Two -> 0..6]
  /\ inbox \in [Two -> Seq(Letters)] /\ heard \in [Two -> Heard] /\ accepted \in [Two -> BOOLEAN]
  /\ result \in [Two -> {"running", "ok", "failed"}] /\ applied \in [Two -> BOOLEAN]
  /\ joined \in [Two -> SUBSET {w.r : w \in NeighbourWires}]

(* What e's peer wrote and e has not read is in e's inbox, in order. *)
Pending(e) ==
  /\ Len(inbox[e]) = Sent(Memory!Peer(e)) - Got(e)
  /\ \A i \in 1 .. Len(inbox[e]) : inbox[e][i] = Post(Memory!Peer(e), Got(e) + i)

(* What e knows by where it is in the exchange. *)
Knows(e) ==
  /\ result[e] = "running" => at[e] < 6
  /\ Got(e) >= 1 => heard[e] = offer[Memory!Peer(e)]
  /\ at[e] >= 3 => Memory!OfferValid(heard[e])
  /\ accepted[e] => at[e] >= 4 /\ Memory!Verdict(e)
  /\ at[e] >= 4 /\ result[e] # "failed" => accepted[e] = Memory!Verdict(e)
  /\ result[e] = "ok" =>
       /\ at[e] = 6 /\ at[Memory!Peer(e)] >= 5 /\ accepted[e] /\ accepted[Memory!Peer(e)]
       /\ session[e] = session[Memory!Peer(e)]

(* What e's element was told and has accepted. *)
Elements(e) ==
  /\ applied[e] =>
       /\ result[e] = "ok" /\ Memory!Policy(e).ps[1].resources = {dmabuf}
       /\ Memory!EvaluateBoundary(Memory!Policy(e).rs, Memory!Policy(e).ps) = "ok"
  /\ \A r \in joined[e] :
       /\ applied[e]
       /\ Memory!EvaluateBoundary(Append(Memory!Policy(e).rs, r), Append(Memory!Policy(e).ps, Memory!Policy(e).ps[1])) = "ok"

MemoryInv == Types /\ \A e \in Two : Pending(e) /\ Knows(e) /\ Elements(e)

LEMMA PeerFacts ==
  ASSUME NEW e \in Two
  PROVE  Memory!Peer(e) \in Two /\ Memory!Peer(Memory!Peer(e)) = e /\ Memory!Peer(e) # e
  BY DEF Two, Memory!Peer

LEMMA MemoryInitOK ==
  ASSUME offer \in [Two -> AllOffers], session \in [Two -> {1, 2}], 
         at = [e \in Two |-> 0], inbox = [e \in Two |-> <<>>],
         heard = [e \in Two |-> Memory!NoOffer], accepted = [e \in Two |-> FALSE],
         result = [e \in Two |-> "running"], applied = [e \in Two |-> FALSE], joined = [e \in Two |-> {}]
  PROVE  MemoryInv
<1>1. Types
  BY DEF Types, Heard
<1>2. ASSUME NEW e \in Two PROVE Pending(e) /\ Knows(e) /\ Elements(e)
  <2>1. at[e] = 0 /\ at[Memory!Peer(e)] = 0 /\ Got(e) = 0 /\ Sent(Memory!Peer(e)) = 0
    BY PeerFacts DEF Got, GotAt, Sent
  <2>2. inbox[e] = <<>> /\ ~accepted[e] /\ result[e] = "running" /\ ~applied[e] /\ joined[e] = {}
    OBVIOUS
  <2> QED BY <2>1, <2>2 DEF Pending, Knows, Elements
<1> QED BY <1>1, <1>2 DEF MemoryInv

(* Counting. *)
LEMMA Counts ==
  ASSUME NEW e \in Two, at[e] \in 0..6
  PROVE  /\ Got(e) \in 0..3 /\ Sent(e) \in 0..3 /\ at[e] = Got(e) + Sent(e)
         /\ Sent(e) >= 3 <=> at[e] >= 5
         /\ Got(e) >= 1 => (at[e] >= 2 \/ e = "producer") /\ at[e] >= 1
         /\ at[e] >= 2 => Got(e) >= 1
<1>1. PICK n : n = at[e]
  OBVIOUS
<1>2. n \in {0, 1, 2, 3, 4, 5, 6}
  BY <1>1
<1>3. PICK g : g = Got(e)
  OBVIOUS
<1>4. PICK b \in BOOLEAN : b = (e = "producer")
  OBVIOUS
<1>5. g = IF b /\ n = 1 THEN 1 ELSE n \div 2
  BY <1>1, <1>3, <1>4 DEF Got, GotAt
<1>6. Sent(e) = n - g
  BY <1>1, <1>3 DEF Sent
<1>7. /\ (n = 0 => n \div 2 = 0) /\ (n = 1 => n \div 2 = 0) /\ (n = 2 => n \div 2 = 1) /\ (n = 3 => n \div 2 = 1)
      /\ (n = 4 => n \div 2 = 2) /\ (n = 5 => n \div 2 = 2) /\ (n = 6 => n \div 2 = 3)
  BY <1>2
<1>8. /\ g \in 0..3 /\ n - g \in 0..3 /\ n = g + (n - g) /\ (n - g >= 3 <=> n >= 5)
      /\ (g >= 1 => (n >= 2 \/ b) /\ n >= 1) /\ (n >= 2 => g >= 1)
  BY <1>2, <1>5, <1>7
<1> QED BY <1>1, <1>3, <1>4, <1>6, <1>8

(* What the script says of a write and of a read. *)
LEMMA WriteTurn ==
  ASSUME NEW e \in Two, NEW n \in 1..6, Memory!Script(e)[n] = "write"
  PROVE  /\ GotAt(e, n) = GotAt(e, n - 1)
         /\ (n \in {1, 2} /\ n - 1 - GotAt(e, n - 1) = 0)
              \/ (n = 3 /\ GotAt(e, 2) = 1) \/ (n = 5 /\ GotAt(e, 4) = 2)
<1>1. n \in {1, 2, 3, 4, 5, 6} /\ e \in {"producer", "consumer"}
  BY DEF Two
<1>2. Memory!Script(e) =
        IF e = "producer" THEN <<"read", "write", "write", "read", "write", "read">>
        ELSE <<"write", "read", "write", "read", "write", "read">>
  BY DEF Memory!Script
<1>3. (e = "producer" /\ n \in {2, 3, 5}) \/ (e = "consumer" /\ n \in {1, 3, 5})
  BY <1>1, <1>2
<1> HIDE DEF Two
<1>4. 0 \div 2 = 0 /\ 1 \div 2 = 0 /\ 2 \div 2 = 1 /\ 3 \div 2 = 1 /\ 4 \div 2 = 2 /\ 5 \div 2 = 2
  OBVIOUS
<1> QED BY <1>3, <1>4 DEF GotAt

LEMMA ReadTurn ==
  ASSUME NEW e \in Two, NEW n \in 1..6, Memory!Script(e)[n] = "read"
  PROVE  /\ GotAt(e, n) = GotAt(e, n - 1) + 1
         /\ (n \in {1, 2} /\ GotAt(e, n - 1) = 0)
              \/ (n = 4 /\ GotAt(e, 3) = 1) \/ (n = 6 /\ GotAt(e, 5) = 2)
<1>1. n \in {1, 2, 3, 4, 5, 6} /\ e \in {"producer", "consumer"}
  BY DEF Two
<1>2. Memory!Script(e) =
        IF e = "producer" THEN <<"read", "write", "write", "read", "write", "read">>
        ELSE <<"write", "read", "write", "read", "write", "read">>
  BY DEF Memory!Script
<1>3. (e = "producer" /\ n \in {1, 4, 6}) \/ (e = "consumer" /\ n \in {2, 4, 6})
  BY <1>1, <1>2
<1> HIDE DEF Two
<1>4. 0 \div 2 = 0 /\ 1 \div 2 = 0 /\ 2 \div 2 = 1 /\ 3 \div 2 = 1 /\ 4 \div 2 = 2 /\ 5 \div 2 = 2 /\ 6 \div 2 = 3
  OBVIOUS
<1> QED BY <1>3, <1>4 DEF GotAt

(* A transcript is a letter. *)
LEMMA TranscriptIsLetter ==
  ASSUME Types, NEW e \in Two, NEW by \in Two, NEW v \in {"seen", "yes", "no"}
  PROVE  Memory!Transcript(e, by, v) \in Letters
<1>1. offer[e] \in Heard /\ heard[e] \in Heard /\ session[e] \in {1, 2}
  BY DEF Types, Heard
<1> QED BY <1>1 DEF Memory!Transcript, Letters

(* A write appends the next of e's messages and leaves the rest in order. *)
LEMMA WriteKeeps ==
  ASSUME Types, NEW e \in Two, Pending(e), Pending(Memory!Peer(e)), NEW n \in 1..6, NEW m \in Letters,
         Memory!Write(e, n, m), m = Post(e, Sent(e) + 1)
  PROVE  /\ Pending(e)' /\ Pending(Memory!Peer(e))' /\ inbox' \in [Two -> Seq(Letters)]
         /\ Got(e)' = Got(e) /\ Sent(e)' = Sent(e) + 1 /\ at' = [at EXCEPT ![e] = n] /\ at[e] = n - 1
         /\ Got(Memory!Peer(e))' = Got(Memory!Peer(e))
<1>1. PICK d \in Two : d = Memory!Peer(e) /\ Memory!Peer(d) = e /\ d # e
  BY PeerFacts
<1>2. /\ at[e] = n - 1 /\ Memory!Script(e)[n] = "write" /\ at' = [at EXCEPT ![e] = n]
      /\ inbox' = [inbox EXCEPT ![d] = Append(@, m)]
      /\ UNCHANGED <<offer, session, heard, accepted, result, applied, joined>>
  BY <1>1 DEF Memory!Write, Memory!Does
<1>3. at[e] \in 0..6 /\ at[d] \in 0..6 /\ at'[e] = n /\ at'[d] = at[d]
  BY <1>1, <1>2 DEF Types
<1>4. Got(e)' = Got(e) /\ Sent(e)' = Sent(e) + 1 /\ Got(d)' = Got(d) /\ Sent(d)' = Sent(d)
  <2>1. GotAt(e, n) = GotAt(e, n - 1)
    BY <1>2, WriteTurn
  <2>2. Got(e)' = GotAt(e, n) /\ Got(e) = GotAt(e, n - 1) /\ Got(d)' = Got(d)
    BY <1>2, <1>3 DEF Got
  <2>3. Got(e) \in 0..3
    BY <1>3, Counts
  <2> QED BY <1>2, <1>3, <2>1, <2>2, <2>3 DEF Sent
<1>5. inbox[d] \in Seq(Letters) /\ inbox[e] \in Seq(Letters) /\ inbox'[d] = Append(inbox[d], m) /\ inbox'[e] = inbox[e]
  BY <1>1, <1>2 DEF Types
<1>6. \A i : Post(e, i)' = Post(e, i) /\ Post(d, i)' = Post(d, i)
  BY <1>2 DEF Post, Memory!Transcript
<1>7. Pending(e)'
  BY <1>1, <1>4, <1>5, <1>6 DEF Pending
<1>8. Pending(d)'
  <2>1. PICK q \in Seq(Letters) : q = inbox[d]
    BY <1>5
  <2>2. /\ Append(q, m) \in Seq(Letters) /\ Len(Append(q, m)) = Len(q) + 1 /\ Append(q, m)[Len(q) + 1] = m
        /\ \A i \in 1 .. Len(q) : Append(q, m)[i] = q[i]
    BY AddEntry
  <2>3. PICK z : z = Append(q, m)
    OBVIOUS
  <2>4. Len(q) = Sent(e) - Got(d) /\ \A i \in 1 .. Len(q) : q[i] = Post(e, Got(d) + i)
    BY <1>1, <2>1 DEF Pending
  <2>5. PICK g \in Nat, s \in Nat, k \in Nat : g = Got(d) /\ s = Sent(e) /\ k = Len(q)
    BY <1>3, Counts
  <2>6. Len(z) = k + 1 /\ z[k + 1] = m /\ (\A i \in 1..k : z[i] = q[i]) /\ k = s - g
        /\ (\A i \in 1..k : q[i] = Post(e, g + i)) /\ m = Post(e, s + 1)
    BY <2>2, <2>3, <2>4, <2>5
  <2>7. \A i \in 1 .. k + 1 : z[i] = Post(e, g + i)
    <3> TAKE i \in 1 .. k + 1
    <3>1. CASE i \in 1..k
      BY <2>6, <3>1
    <3>2. CASE i = k + 1
      <4>1. g + i = s + 1
        BY <2>5, <2>6, <3>2
      <4> QED BY <2>6, <3>2, <4>1
    <3> QED BY <2>5, <3>1, <3>2
  <2>8. inbox'[d] = z /\ Len(z) = Sent(e)' - Got(d)' /\ Got(d)' = g
    BY <1>4, <1>5, <2>1, <2>3, <2>5, <2>6
  <2>9. \A i \in 1 .. Len(z) : z[i] = Post(e, g + i)'
    BY <1>6, <2>6, <2>7
  <2> QED BY <1>1, <2>8, <2>9 DEF Pending
<1>9. inbox' \in [Two -> Seq(Letters)]
  <2>1. Append(inbox[d], m) \in Seq(Letters)
    BY <1>5, AddEntry
  <2> QED BY <1>2, <2>1 DEF Types
<1> QED BY <1>1, <1>2, <1>4, <1>7, <1>8, <1>9

(* A read takes the next of the peer's messages. *)
LEMMA ReadKeeps ==
  ASSUME Types, NEW e \in Two, Pending(e), Pending(Memory!Peer(e)), NEW n \in 1..6, Memory!Read(e, n),
         \A i \in 1 .. Sent(e) : Post(e, i)' = Post(e, i),
         \A i \in 1..3 : Post(Memory!Peer(e), i)' = Post(Memory!Peer(e), i)
  PROVE  /\ Pending(e)' /\ Pending(Memory!Peer(e))' /\ inbox' \in [Two -> Seq(Letters)]
         /\ Got(e)' = Got(e) + 1 /\ Sent(e)' = Sent(e) /\ at' = [at EXCEPT ![e] = n] /\ at[e] = n - 1
         /\ Got(Memory!Peer(e))' = Got(Memory!Peer(e))
<1>1. PICK d \in Two : d = Memory!Peer(e) /\ Memory!Peer(d) = e /\ d # e
  BY PeerFacts
<1>2. /\ at[e] = n - 1 /\ Memory!Script(e)[n] = "read" /\ at' = [at EXCEPT ![e] = n]
      /\ inbox[e] # <<>> /\ inbox' = [inbox EXCEPT ![e] = Tail(@)]
      /\ UNCHANGED <<offer, session, applied, joined>>
  BY DEF Memory!Read, Memory!Does
<1>3. at[e] \in 0..6 /\ at[d] \in 0..6 /\ at'[e] = n /\ at'[d] = at[d]
  BY <1>1, <1>2 DEF Types
<1>4. Got(e)' = Got(e) + 1 /\ Sent(e)' = Sent(e) /\ Got(d)' = Got(d) /\ Sent(d)' = Sent(d)
  <2>1. GotAt(e, n) = GotAt(e, n - 1) + 1
    BY <1>2, ReadTurn
  <2>2. Got(e)' = GotAt(e, n) /\ Got(e) = GotAt(e, n - 1) /\ Got(d)' = Got(d)
    BY <1>2, <1>3 DEF Got
  <2>3. Got(e) \in 0..3
    BY <1>3, Counts
  <2> QED BY <1>2, <1>3, <2>1, <2>2, <2>3 DEF Sent
<1>5. inbox[d] \in Seq(Letters) /\ inbox[e] \in Seq(Letters) /\ inbox'[e] = Tail(inbox[e]) /\ inbox'[d] = inbox[d]
  BY <1>1, <1>2 DEF Types
<1>5a. PICK q \in Seq(Letters) : q = inbox[e]
  BY <1>5
<1>5b. PICK z : z = Tail(q)
  OBVIOUS
<1>6. q = inbox[e] /\ z = Tail(q)
  BY <1>5a, <1>5b
<1>7. /\ z \in Seq(Letters) /\ Len(q) > 0 /\ Len(z) = Len(q) - 1 /\ Head(q) = q[1]
      /\ \A i \in 1 .. Len(q) - 1 : z[i] = q[i + 1]
  <2>1. q # <<>>
    BY <1>2, <1>6
  <2> QED BY <1>6, <2>1, DropEntry
<1>8. PICK g \in Nat, s \in 0..3, k \in Nat : g = Got(e) /\ s = Sent(d) /\ k = Len(q)
  BY <1>3, Counts
<1>9. /\ k = s - g /\ (\A i \in 1..k : q[i] = Post(d, g + i)) /\ k > 0 /\ Len(z) = k - 1
      /\ \A i \in 1 .. k - 1 : z[i] = q[i + 1]
  BY <1>1, <1>6, <1>7, <1>8 DEF Pending
<1>11. \A i \in 1 .. k - 1 : z[i] = Post(d, g + 1 + i)'
  <2> TAKE i \in 1 .. k - 1
  <2>1. k = s - g
    BY <1>9
  <2>2. i + 1 \in 1..k /\ g + 1 + i \in 1..3 /\ g + (i + 1) = g + 1 + i
    <3>1. i \in Nat /\ i >= 1 /\ i + 1 <= k
      OBVIOUS
    <3>2. s <= 3 /\ s \in Nat /\ g \in Nat
      BY <1>8
    <3> QED BY <2>1, <3>1, <3>2
  <2>3. z[i] = q[i + 1] /\ q[i + 1] = Post(d, g + (i + 1))
    BY <1>9, <2>2
  <2> QED BY <1>1, <2>2, <2>3
<1>12. Pending(e)'
  <2>1. inbox'[e] = z /\ Len(z) = Sent(d)' - Got(e)' /\ Got(e)' = g + 1
    BY <1>4, <1>5, <1>6, <1>8, <1>9
  <2>2. \A i \in 1 .. Len(z) : z[i] = Post(d, (g + 1) + i)'
    BY <1>9, <1>11
  <2> QED BY <1>1, <2>1, <2>2 DEF Pending
<1>13. Pending(d)'
  <2>0. PICK v : v = inbox[d]
    OBVIOUS
  <2>1. PICK h \in Nat, t \in Nat : h = Got(d) /\ t = Sent(e)
    BY <1>3, Counts
  <2>2. Len(v) = t - h /\ \A i \in 1 .. Len(v) : v[i] = Post(e, h + i)
    BY <1>1, <2>0, <2>1 DEF Pending
  <2>3. \A i \in 1 .. Len(v) : h + i \in 1 .. t
    BY <2>1, <2>2
  <2>4. \A i \in 1 .. t : Post(e, i)' = Post(e, i)
    BY <2>1
  <2>5. \A i \in 1 .. Len(v) : v[i] = Post(e, h + i)'
    BY <2>2, <2>3, <2>4
  <2>6. inbox'[d] = v /\ Got(d)' = h /\ Len(v) = Sent(e)' - Got(d)'
    BY <1>4, <1>5, <2>0, <2>1, <2>2
  <2> QED BY <1>1, <2>5, <2>6 DEF Pending
<1>14. inbox' \in [Two -> Seq(Letters)]
  BY <1>2, <1>6, <1>7 DEF Types
<1> QED BY <1>1, <1>2, <1>4, <1>12, <1>13, <1>14

(* What an end knows is kept while its offers, its session and its own       *)
(* progress are, and its peer only advances.                                 *)
LEMMA KnowsKept ==
  ASSUME Types, NEW e \in Two, Knows(e), UNCHANGED <<offer, session>>,
         heard'[e] = heard[e], accepted'[e] = accepted[e], result'[e] = result[e], at'[e] = at[e],
         at'[Memory!Peer(e)] >= at[Memory!Peer(e)],
         at[Memory!Peer(e)] >= 5 => accepted'[Memory!Peer(e)] = accepted[Memory!Peer(e)],
         at'[Memory!Peer(e)] \in 0..6
  PROVE  Knows(e)'
<1>1. Got(e)' = Got(e) /\ Memory!Verdict(e)' = Memory!Verdict(e)
  BY DEF Got, Memory!Verdict
<1>2. at[Memory!Peer(e)] \in 0..6
  BY PeerFacts DEF Types
<1>3. /\ result'[e] = "running" => at'[e] < 6
      /\ Got(e)' >= 1 => heard'[e] = offer'[Memory!Peer(e)]
      /\ at'[e] >= 3 => Memory!OfferValid(heard'[e])
      /\ accepted'[e] => at'[e] >= 4 /\ Memory!Verdict(e)'
      /\ at'[e] >= 4 /\ result'[e] # "failed" => accepted'[e] = Memory!Verdict(e)'
  BY <1>1 DEF Knows
<1>4. result'[e] = "ok" =>
       /\ at'[e] = 6 /\ at'[Memory!Peer(e)] >= 5 /\ accepted'[e] /\ accepted'[Memory!Peer(e)]
       /\ session'[e] = session'[Memory!Peer(e)]
  BY <1>2 DEF Knows
<1> QED BY <1>3, <1>4 DEF Knows

LEMMA ElementsKept ==
  ASSUME NEW e \in Two, Elements(e), UNCHANGED offer, applied'[e] = applied[e], joined'[e] = joined[e],
         applied[e] \/ joined[e] # {} => result'[e] = result[e] /\ heard'[e] = heard[e]
  PROVE  Elements(e)'
<1>1. applied[e] \/ joined[e] # {} => Memory!Policy(e)' = Memory!Policy(e)
  BY DEF Memory!Policy
<1> QED BY <1>1 DEF Elements

(* Until it returns, e's element has been told nothing. *)
LEMMA NotYetApplied ==
  ASSUME NEW e \in Two, Elements(e), result[e] # "ok"
  PROVE  ~applied[e] /\ joined[e] = {}
  BY DEF Elements

LEMMA WriteStep ==
  ASSUME MemoryInv, NEW e \in Two, NEW n \in 1..6, NEW m \in Letters, Memory!Write(e, n, m),
         m = Post(e, Sent(e) + 1), n = 3 => Memory!OfferValid(heard[e])
  PROVE  MemoryInv'
<1>1. PICK d \in Two : d = Memory!Peer(e) /\ Memory!Peer(d) = e /\ d # e
  BY PeerFacts
<1>2. /\ Types /\ Pending(e) /\ Pending(d) /\ Knows(e) /\ Knows(d) /\ Elements(e) /\ Elements(d)
      /\ at[e] \in 0..6 /\ at[d] \in 0..6
  BY DEF MemoryInv, Types
<1>3. /\ Pending(e)' /\ Pending(d)' /\ inbox' \in [Two -> Seq(Letters)] /\ Got(e)' = Got(e)
      /\ at' = [at EXCEPT ![e] = n] /\ at[e] = n - 1
  BY <1>1, <1>2, WriteKeeps
<1>4. /\ UNCHANGED <<offer, session, heard, accepted, result, applied, joined>>
      /\ result[e] = "running" /\ Memory!Script(e)[n] = "write"
  BY DEF Memory!Write, Memory!Does
<1>5. at'[e] = n /\ at'[d] = at[d] /\ n \in {1, 2, 3, 5}
  BY <1>1, <1>2, <1>3, <1>4, WriteTurn DEF Types
<1>6. Types'
  BY <1>2, <1>3, <1>4, <1>5 DEF Types
<1>7. Knows(d)'
  <2>1. at'[e] >= at[e] /\ at'[e] \in 0..6
    BY <1>3, <1>5
  <2> QED BY <1>1, <1>2, <1>4, <1>5, <2>1, KnowsKept
<1>8. Knows(e)'
  <2>1. Memory!Verdict(e)' = Memory!Verdict(e)
    BY <1>4 DEF Memory!Verdict
  <2>2. n >= 4 => at[e] >= 4
    BY <1>2, <1>3, <1>5
  <2>3. n >= 3 => n = 3 \/ at[e] >= 3
    BY <1>2, <1>3, <1>5
  <2>4. at[e] >= 4 => n >= 4
    BY <1>2, <1>3
  <2>5. n < 6
    BY <1>5
  <2> QED BY <1>1, <1>2, <1>3, <1>4, <1>5, <2>1, <2>2, <2>3, <2>4, <2>5 DEF Knows
<1>9. Elements(e)' /\ Elements(d)'
  BY <1>2, <1>4, ElementsKept
<1>10. \A f \in Two : f = e \/ f = d
  BY <1>1 DEF Two
<1> QED BY <1>3, <1>6, <1>7, <1>8, <1>9, <1>10 DEF MemoryInv

(* A read after which e knows what it should. *)
LEMMA ReadStep ==
  ASSUME MemoryInv, NEW e \in Two, NEW n \in 1..6, Memory!Read(e, n), Types', Knows(e)',
         heard'[Memory!Peer(e)] = heard[Memory!Peer(e)], accepted'[Memory!Peer(e)] = accepted[Memory!Peer(e)],
         result'[Memory!Peer(e)] = result[Memory!Peer(e)],
         n > 2 => heard'[e] = heard[e], n # 4 => accepted'[e] = accepted[e]
  PROVE  MemoryInv'
<1>1. PICK d \in Two : d = Memory!Peer(e) /\ Memory!Peer(d) = e /\ d # e
  BY PeerFacts
<1>2. /\ Types /\ Pending(e) /\ Pending(d) /\ Knows(e) /\ Knows(d) /\ Elements(e) /\ Elements(d)
      /\ at[e] \in 0..6 /\ at[d] \in 0..6
  BY DEF MemoryInv, Types
<1>3. /\ UNCHANGED <<offer, session, applied, joined>> /\ result[e] = "running" /\ Memory!Script(e)[n] = "read"
      /\ at' = [at EXCEPT ![e] = n] /\ at[e] = n - 1
  BY DEF Memory!Read, Memory!Does
<1>4. at'[e] = n /\ at'[d] = at[d] /\ (n <= 2 => Sent(e) <= 1) /\ (n = 4 => Sent(e) = 2)
  <2>1. Got(e) = GotAt(e, n - 1) /\ Sent(e) = n - 1 - GotAt(e, n - 1)
    BY <1>3 DEF Got, Sent
  <2>2. (n \in {1, 2} /\ GotAt(e, n - 1) = 0) \/ (n = 4 /\ GotAt(e, 3) = 1) \/ (n = 6 /\ GotAt(e, 5) = 2)
    BY <1>3, ReadTurn
  <2>3. at'[e] = n /\ at'[d] = at[d]
    BY <1>1, <1>2, <1>3 DEF Types
  <2> QED BY <2>1, <2>2, <2>3
<1>5. \A i \in 1 .. Sent(e) : Post(e, i)' = Post(e, i)
  <2>1. Sent(e) \in 0..3
    BY <1>2, Counts
  <2>2. CASE n <= 2
    BY <1>3, <1>4, <2>1, <2>2 DEF Post
  <2>3. CASE n = 4
    BY <1>3, <1>4, <2>1, <2>3 DEF Post, Memory!Transcript
  <2>4. CASE n > 2 /\ n # 4
    BY <1>3, <2>1, <2>4 DEF Post, Memory!Transcript
  <2> QED BY <2>2, <2>3, <2>4
<1>6. \A i \in 1..3 : Post(d, i)' = Post(d, i)
  BY <1>1, <1>3 DEF Post, Memory!Transcript
<1>7. Pending(e)' /\ Pending(d)'
  BY <1>1, <1>2, <1>5, <1>6, ReadKeeps
<1>8. Knows(d)'
  <2>1. at'[e] >= at[e] /\ at'[e] \in 0..6
    BY <1>3, <1>4
  <2>2. at[e] >= 5 => accepted'[e] = accepted[e]
    BY <1>3, <1>4
  <2> QED BY <1>1, <1>2, <1>3, <1>4, <2>1, <2>2, KnowsKept
<1>9. Elements(e)' /\ Elements(d)'
  <2>1. ~applied[e] /\ joined[e] = {}
    BY <1>2, <1>3, NotYetApplied
  <2> QED BY <1>1, <1>2, <1>3, <2>1, ElementsKept
<1>10. \A f \in Two : f = e \/ f = d
  BY <1>1 DEF Two
<1> QED BY <1>7, <1>8, <1>9, <1>10 DEF MemoryInv

(* What a read in e's n-th operation takes, and how it moves. *)
LEMMA ReadTakes ==
  ASSUME MemoryInv, NEW e \in Two, NEW n \in 1..6, Memory!Read(e, n)
  PROVE  /\ Head(inbox[e]) = Post(Memory!Peer(e), Got(e) + 1) /\ Sent(Memory!Peer(e)) >= Got(e) + 1
         /\ at'[e] = n /\ at[e] = n - 1 /\ result[e] = "running" /\ at' \in [Two -> 0..6]
         /\ Got(e)' = Got(e) + 1 /\ inbox' \in [Two -> Seq(Letters)]
         /\ (n \in {1, 2} /\ Got(e) = 0) \/ (n = 4 /\ Got(e) = 1) \/ (n = 6 /\ Got(e) = 2)
         /\ UNCHANGED <<offer, session, applied, joined>>
<1>1. PICK d \in Two : d = Memory!Peer(e) /\ Memory!Peer(d) = e /\ d # e
  BY PeerFacts
<1>2. /\ Types /\ Pending(e) /\ at[e] \in 0..6 /\ at[d] \in 0..6
  BY DEF MemoryInv, Types
<1>3. /\ UNCHANGED <<offer, session, applied, joined>> /\ result[e] = "running" /\ Memory!Script(e)[n] = "read"
      /\ at' = [at EXCEPT ![e] = n] /\ at[e] = n - 1 /\ inbox[e] # <<>> /\ inbox' = [inbox EXCEPT ![e] = Tail(@)]
  BY DEF Memory!Read, Memory!Does
<1>4. at'[e] = n /\ at' \in [Two -> 0..6]
  BY <1>2, <1>3 DEF Types
<1>5. Got(e) = GotAt(e, n - 1) /\ Got(e)' = GotAt(e, n)
  BY <1>3, <1>4 DEF Got
<1>6. /\ Got(e)' = Got(e) + 1
      /\ (n \in {1, 2} /\ Got(e) = 0) \/ (n = 4 /\ Got(e) = 1) \/ (n = 6 /\ Got(e) = 2)
  BY <1>3, <1>5, ReadTurn
<1>7. PICK q \in Seq(Letters) : q = inbox[e]
  BY <1>2 DEF Types
<1>8. Len(q) > 0 /\ Head(q) = q[1] /\ Tail(q) \in Seq(Letters) /\ Len(q) \in Nat
  <2>1. q # <<>>
    BY <1>3, <1>7
  <2> QED BY <2>1, DropEntry
<1>9. PICK g \in Nat, s \in Nat, k \in Nat : g = Got(e) /\ s = Sent(d) /\ k = Len(q)
  BY <1>2, <1>8, Counts
<1>10. k = s - g /\ \A i \in 1..k : q[i] = Post(d, g + i)
  BY <1>1, <1>2, <1>7, <1>9 DEF Pending
<1>11. s >= g + 1 /\ 1 \in 1..k
  <2>1. k = s - g /\ k > 0
    BY <1>8, <1>9, <1>10
  <2> QED BY <1>9, <2>1
<1>12. Head(inbox[e]) = Post(d, g + 1)
  BY <1>7, <1>8, <1>10, <1>11
<1>13. inbox' \in [Two -> Seq(Letters)]
  BY <1>2, <1>3, <1>7, <1>8 DEF Types
<1> QED BY <1>1, <1>3, <1>4, <1>6, <1>9, <1>11, <1>12, <1>13

LEMMA WritesStep ==
  ASSUME MemoryInv, NEW e \in Two, Memory!WriteOffer(e) \/ Memory!WriteProof(e) \/ Memory!WriteVerdict(e)
  PROVE  MemoryInv'
<1>1. Types /\ at[e] \in 0..6 /\ offer[e] \in AllOffers /\ accepted[e] \in BOOLEAN
  BY DEF MemoryInv, Types
<1>2. CASE Memory!WriteOffer(e)
  <2>1. PICK n \in 1..2 : Memory!Write(e, n, offer[e])
    BY <1>2 DEF Memory!WriteOffer
  <2>2. at[e] = n - 1 /\ Memory!Script(e)[n] = "write" /\ n \in 1..6
    BY <2>1 DEF Memory!Write, Memory!Does
  <2>3. n - 1 - GotAt(e, n - 1) = 0
    BY <2>2, WriteTurn
  <2>4. Sent(e) = 0
    BY <2>2, <2>3 DEF Sent, Got
  <2>5. offer[e] = Post(e, Sent(e) + 1) /\ offer[e] \in Letters /\ n # 3
    BY <1>1, <2>4 DEF Post, Letters
  <2> QED BY <2>1, <2>2, <2>5, WriteStep
<1>3. CASE Memory!WriteProof(e)
  <2>1. Memory!Write(e, 3, Memory!Transcript(e, e, "seen")) /\ Memory!OfferValid(heard[e])
    BY <1>3 DEF Memory!WriteProof
  <2>2. at[e] = 2 /\ Memory!Script(e)[3] = "write"
    BY <2>1 DEF Memory!Write, Memory!Does
  <2>3. GotAt(e, 2) = 1
    BY <2>2, WriteTurn
  <2>4. Sent(e) = 1
    BY <2>2, <2>3 DEF Sent, Got
  <2>5. Memory!Transcript(e, e, "seen") = Post(e, Sent(e) + 1) /\ Memory!Transcript(e, e, "seen") \in Letters
    BY <1>1, <2>4, TranscriptIsLetter DEF Post
  <2> QED BY <2>1, <2>5, WriteStep
<1>4. CASE Memory!WriteVerdict(e)
  <2> DEFINE v == IF accepted[e] THEN "yes" ELSE "no"
  <2>1. Memory!Write(e, 5, Memory!Transcript(e, e, v))
    BY <1>4 DEF Memory!WriteVerdict
  <2>2. at[e] = 4 /\ Memory!Script(e)[5] = "write"
    BY <2>1 DEF Memory!Write, Memory!Does
  <2>3. GotAt(e, 4) = 2
    BY <2>2, WriteTurn
  <2>4. Sent(e) = 2
    BY <2>2, <2>3 DEF Sent, Got
  <2>5. Memory!Transcript(e, e, v) = Post(e, Sent(e) + 1) /\ Memory!Transcript(e, e, v) \in Letters
    <3>1. v \in {"seen", "yes", "no"}
      OBVIOUS
    <3>2. Memory!Transcript(e, e, v) = Post(e, Sent(e) + 1)
      BY <2>4 DEF Post
    <3> QED BY <1>1, <3>1, <3>2, TranscriptIsLetter
  <2> QED BY <2>1, <2>5, WriteStep
<1> QED BY <1>2, <1>3, <1>4

LEMMA ReadOfferStep ==
  ASSUME MemoryInv, NEW e \in Two, Memory!ReadOffer(e)
  PROVE  MemoryInv'
<1>1. PICK d \in Two : d = Memory!Peer(e) /\ d # e
  BY PeerFacts
<1>2. PICK n \in 1..2 : Memory!Read(e, n)
  BY DEF Memory!ReadOffer
<1>3. heard' = [heard EXCEPT ![e] = Head(inbox[e])] /\ UNCHANGED <<result, accepted>>
  BY DEF Memory!ReadOffer
<1>4. /\ Head(inbox[e]) = Post(d, Got(e) + 1) /\ at'[e] = n /\ at[e] = n - 1 /\ result[e] = "running" /\ at' \in [Two -> 0..6]
      /\ Got(e)' = Got(e) + 1 /\ inbox' \in [Two -> Seq(Letters)] /\ Got(e) = 0
      /\ UNCHANGED <<offer, session, applied, joined>>
  BY <1>1, <1>2, ReadTakes
<1>5. Types /\ Knows(e) /\ offer[d] \in AllOffers
  BY DEF MemoryInv, Types
<1>6. Head(inbox[e]) = offer[d]
  BY <1>4 DEF Post
<1>7. heard'[e] = offer[d] /\ heard'[d] = heard[d] /\ heard' \in [Two -> Heard]
  BY <1>1, <1>3, <1>5, <1>6 DEF Types, Heard
<1>8. Types'
  BY <1>3, <1>4, <1>5, <1>7 DEF Types
<1>9. Knows(e)'
  <2>1. ~accepted[e] /\ n < 3
    BY <1>4, <1>5 DEF Knows
  <2>2. ~accepted'[e] /\ result'[e] = "running" /\ at'[e] < 3 /\ offer'[d] = offer[d]
    BY <1>3, <1>4, <2>1
  <2>3. ~(at'[e] >= 3) /\ ~(at'[e] >= 4) /\ at'[e] < 6
    BY <1>4, <2>2
  <2> QED BY <1>1, <1>7, <2>2, <2>3 DEF Knows
<1>10. n \in 1..6 /\ ~(n > 2) /\ n # 4
  OBVIOUS
<1> QED BY <1>1, <1>2, <1>3, <1>7, <1>8, <1>9, <1>10, ReadStep

LEMMA ReadProofStep ==
  ASSUME MemoryInv, NEW e \in Two, Memory!ReadProof(e)
  PROVE  MemoryInv'
<1>1. PICK d \in Two : d = Memory!Peer(e) /\ d # e
  BY PeerFacts
<1>2. Memory!Read(e, 4) /\ UNCHANGED heard
  BY DEF Memory!ReadProof
<1>3. \/ accepted' = [accepted EXCEPT ![e] = Memory!Verdict(e)] /\ UNCHANGED result
      \/ result' = [result EXCEPT ![e] = "failed"] /\ UNCHANGED accepted
  BY DEF Memory!ReadProof
<1>4. /\ at'[e] = 4 /\ at[e] = 3 /\ result[e] = "running" /\ at' \in [Two -> 0..6]
      /\ Got(e)' = Got(e) + 1 /\ inbox' \in [Two -> Seq(Letters)] /\ Got(e) = 1
      /\ UNCHANGED <<offer, session, applied, joined>>
  BY <1>2, ReadTakes
<1>5. Types /\ Knows(e) /\ Memory!Verdict(e) \in BOOLEAN
  BY DEF MemoryInv, Memory!Verdict
<1>6. /\ accepted' \in [Two -> BOOLEAN] /\ result' \in [Two -> {"running", "ok", "failed"}]
      /\ accepted'[d] = accepted[d] /\ result'[d] = result[d] /\ result'[e] # "ok"
      /\ accepted'[e] = Memory!Verdict(e) \/ (~accepted'[e] /\ result'[e] = "failed")
  <2>1. ~accepted[e]
    BY <1>4, <1>5 DEF Knows
  <2>2. CASE accepted' = [accepted EXCEPT ![e] = Memory!Verdict(e)] /\ UNCHANGED result
    BY <1>1, <1>4, <1>5, <2>2 DEF Types
  <2>3. CASE result' = [result EXCEPT ![e] = "failed"] /\ UNCHANGED accepted
    BY <1>1, <1>5, <2>1, <2>3 DEF Types
  <2> QED BY <1>3, <2>2, <2>3
<1>7. Types'
  BY <1>2, <1>4, <1>5, <1>6 DEF Types
<1>8. Knows(e)'
  <2>1. Memory!Verdict(e)' = Memory!Verdict(e)
    BY <1>2, <1>4 DEF Memory!Verdict
  <2>2. heard'[e] = offer'[d] /\ Memory!OfferValid(heard'[e])
    BY <1>1, <1>2, <1>4, <1>5 DEF Knows
  <2> QED BY <1>1, <1>4, <1>6, <2>1, <2>2 DEF Knows
<1> QED BY <1>1, <1>2, <1>6, <1>7, <1>8, ReadStep

LEMMA ReadVerdictStep ==
  ASSUME MemoryInv, NEW e \in Two, Memory!ReadVerdict(e)
  PROVE  MemoryInv'
<1>1. PICK d \in Two : d = Memory!Peer(e) /\ d # e
  BY PeerFacts
<1>2. Memory!Read(e, 6) /\ UNCHANGED <<heard, accepted>>
  BY DEF Memory!ReadVerdict
<1>3. result' = [result EXCEPT ![e] =
        IF accepted[e] /\ Head(inbox[e]) = Memory!Transcript(e, d, "yes") THEN "ok" ELSE "failed"]
  BY <1>1 DEF Memory!ReadVerdict
<1>4. /\ Head(inbox[e]) = Post(d, Got(e) + 1) /\ Sent(d) >= Got(e) + 1
      /\ at'[e] = 6 /\ at[e] = 5 /\ result[e] = "running" /\ at' \in [Two -> 0..6]
      /\ Got(e)' = Got(e) + 1 /\ inbox' \in [Two -> Seq(Letters)] /\ Got(e) = 2
      /\ UNCHANGED <<offer, session, applied, joined>>
  BY <1>1, <1>2, ReadTakes
<1>5. Types /\ Knows(e) /\ at[d] \in 0..6
  BY DEF MemoryInv, Types
<1>6. at[d] >= 5 /\ Head(inbox[e]) = Post(d, 3)
  <2>1. Sent(d) >= 3
    BY <1>4
  <2> QED BY <1>4, <1>5, <2>1, Counts
<1>7. /\ result' \in [Two -> {"running", "ok", "failed"}] /\ result'[d] = result[d]
      /\ result'[e] \in {"ok", "failed"}
      /\ result'[e] = "ok" => accepted[e] /\ Post(d, 3) = Memory!Transcript(e, d, "yes")
  BY <1>1, <1>3, <1>5, <1>6 DEF Types
<1>8. result'[e] = "ok" => accepted[e] /\ accepted[d] /\ session[e] = session[d]
  BY <1>7 DEF Post, Memory!Transcript
<1>9. Types'
  BY <1>2, <1>4, <1>5, <1>7 DEF Types
<1>10. at'[d] = at[d]
  BY <1>1, <1>2, <1>5 DEF Memory!Read, Types
<1>11. Knows(e)'
  <2>1. Memory!Verdict(e)' = Memory!Verdict(e)
    BY <1>2, <1>4 DEF Memory!Verdict
  <2>2. /\ heard'[e] = offer'[d] /\ Memory!OfferValid(heard'[e])
        /\ accepted'[e] = Memory!Verdict(e)
    BY <1>1, <1>2, <1>4, <1>5 DEF Knows
  <2>3. result'[e] # "running" /\ at'[e] >= 4
    BY <1>4, <1>7
  <2>4. result'[e] = "ok" => at'[e] = 6 /\ at'[d] >= 5 /\ accepted'[e] /\ accepted'[d] /\ session'[e] = session'[d]
    BY <1>2, <1>4, <1>6, <1>8, <1>10
  <2> QED BY <1>1, <2>1, <2>2, <2>3, <2>4 DEF Knows
<1> QED BY <1>1, <1>2, <1>7, <1>9, <1>11, ReadStep

(* Whatever makes e give up, nobody else notices. *)
LEMMA GiveUpStep ==
  ASSUME MemoryInv, NEW e \in Two, Memory!Refuse(e) \/ Memory!Reject(e) \/ Memory!Fail(e)
  PROVE  MemoryInv'
<1>1. PICK d \in Two : d = Memory!Peer(e) /\ Memory!Peer(d) = e /\ d # e
  BY PeerFacts
<1>2. /\ Types /\ Pending(e) /\ Pending(d) /\ Knows(e) /\ Knows(d) /\ Elements(e) /\ Elements(d)
      /\ at[e] \in 0..6 /\ at[d] \in 0..6
  BY DEF MemoryInv, Types
<1>3. /\ result[e] = "running" /\ result' = [result EXCEPT ![e] = "failed"]
      /\ UNCHANGED <<offer, session, at, inbox, heard, accepted, applied, joined>>
  BY DEF Memory!Refuse, Memory!Reject, Memory!Fail
<1>4. result'[e] = "failed" /\ result'[d] = result[d] /\ Types'
  BY <1>1, <1>2, <1>3 DEF Types
<1>5. Pending(e)' /\ Pending(d)'
  <2>1. \A i : Post(e, i)' = Post(e, i) /\ Post(d, i)' = Post(d, i)
    BY <1>3 DEF Post, Memory!Transcript
  <2>2. Got(e)' = Got(e) /\ Got(d)' = Got(d) /\ Sent(e)' = Sent(e) /\ Sent(d)' = Sent(d)
    BY <1>3 DEF Got, Sent
  <2> QED BY <1>1, <1>2, <1>3, <2>1, <2>2 DEF Pending
<1>6. Knows(e)'
  <2>1. Memory!Verdict(e)' = Memory!Verdict(e) /\ Got(e)' = Got(e)
    BY <1>3 DEF Memory!Verdict, Got
  <2> QED BY <1>2, <1>3, <1>4, <2>1 DEF Knows
<1>7. Knows(d)'
  BY <1>1, <1>2, <1>3, <1>4, KnowsKept
<1>8. Elements(e)' /\ Elements(d)'
  <2>1. ~applied[e] /\ joined[e] = {}
    BY <1>2, <1>3, NotYetApplied
  <2> QED BY <1>1, <1>2, <1>3, <1>4, <2>1, ElementsKept
<1>9. \A f \in Two : f = e \/ f = d
  BY <1>1 DEF Two
<1> QED BY <1>4, <1>5, <1>6, <1>7, <1>8, <1>9 DEF MemoryInv

(* An element is told of the policy, or a neighbour joins. *)
LEMMA ElementStep ==
  ASSUME MemoryInv, NEW e \in Two, Memory!Apply(e) \/ \E w \in NeighbourWires : Memory!Join(e, w)
  PROVE  MemoryInv'
<1>1. PICK d \in Two : d = Memory!Peer(e) /\ Memory!Peer(d) = e /\ d # e
  BY PeerFacts
<1>2. /\ Types /\ Pending(e) /\ Pending(d) /\ Knows(e) /\ Knows(d) /\ Elements(e) /\ Elements(d)
      /\ at[e] \in 0..6 /\ at[d] \in 0..6
  BY DEF MemoryInv, Types
<1>3. UNCHANGED <<offer, session, at, inbox, heard, accepted, result>>
  BY DEF Memory!Apply, Memory!Join
<1>4. Pending(e)' /\ Pending(d)'
  <2>1. \A i : Post(e, i)' = Post(e, i) /\ Post(d, i)' = Post(d, i)
    BY <1>3 DEF Post, Memory!Transcript
  <2>2. Got(e)' = Got(e) /\ Got(d)' = Got(d) /\ Sent(e)' = Sent(e) /\ Sent(d)' = Sent(d)
    BY <1>3 DEF Got, Sent
  <2> QED BY <1>1, <1>2, <1>3, <2>1, <2>2 DEF Pending
<1>5. Knows(e)' /\ Knows(d)'
  BY <1>1, <1>2, <1>3, KnowsKept
<1>6. Memory!Policy(e)' = Memory!Policy(e)
  BY <1>3 DEF Memory!Policy
<1>7. CASE Memory!Apply(e)
  <2>1. /\ result[e] = "ok" /\ applied' = [applied EXCEPT ![e] = TRUE] /\ UNCHANGED joined
        /\ Memory!Policy(e).ps[1].resources = {dmabuf}
        /\ Memory!EvaluateBoundary(Memory!Policy(e).rs, Memory!Policy(e).ps) = "ok"
    BY <1>7 DEF Memory!Apply, Memory!ValidMemoryPolicy
  <2>2. applied' \in [Two -> BOOLEAN] /\ applied'[e] /\ applied'[d] = applied[d]
    BY <1>1, <1>2, <2>1 DEF Types
  <2>3. Types'
    BY <1>2, <1>3, <2>1, <2>2 DEF Types
  <2>4. Elements(e)'
    BY <1>2, <1>3, <1>6, <2>1, <2>2 DEF Elements
  <2>5. Elements(d)'
    BY <1>2, <1>3, <2>1, <2>2, ElementsKept
  <2>6. \A f \in Two : f = e \/ f = d
    BY <1>1 DEF Two
  <2> QED BY <1>4, <1>5, <2>3, <2>4, <2>5, <2>6 DEF MemoryInv
<1>8. ASSUME NEW w \in NeighbourWires, Memory!Join(e, w) PROVE MemoryInv'
  <2>1. /\ applied[e] /\ joined' = [joined EXCEPT ![e] = @ \union {w.r}] /\ UNCHANGED applied
        /\ Memory!EvaluateBoundary(Append(Memory!Policy(e).rs, w.r),
                                   Append(Memory!Policy(e).ps, Memory!Policy(e).ps[1])) = "ok"
    BY <1>8 DEF Memory!Join, Memory!AllocationMemoryPolicy
  <2>2. joined' \in [Two -> SUBSET {x.r : x \in NeighbourWires}] /\ joined'[e] = joined[e] \union {w.r} /\ joined'[d] = joined[d]
    BY <1>1, <1>2, <2>1 DEF Types
  <2>3. Types'
    BY <1>2, <1>3, <2>1, <2>2 DEF Types
  <2>4. Elements(e)'
    BY <1>2, <1>3, <1>6, <2>1, <2>2 DEF Elements
  <2>5. Elements(d)'
    BY <1>2, <1>3, <2>1, <2>2, ElementsKept
  <2>6. \A f \in Two : f = e \/ f = d
    BY <1>1 DEF Two
  <2> QED BY <1>4, <1>5, <2>3, <2>4, <2>5, <2>6 DEF MemoryInv
<1> QED BY <1>7, <1>8

LEMMA MemoryStep ==
  ASSUME MemoryInv, [Memory!Next]_memory
  PROVE  MemoryInv'
<1>1. CASE UNCHANGED memory
  <2>1. UNCHANGED <<offer, session, at, inbox, heard, accepted, result, applied, joined>>
    BY <1>1 DEF memory
  <2>2. ASSUME NEW e \in Two PROVE Pending(e)' /\ Knows(e)' /\ Elements(e)'
    <3>1. Types /\ Pending(e) /\ Knows(e) /\ Elements(e) /\ at[Memory!Peer(e)] \in 0..6
      BY PeerFacts DEF MemoryInv, Types
    <3>2. \A i : Post(Memory!Peer(e), i)' = Post(Memory!Peer(e), i)
      BY <2>1 DEF Post, Memory!Transcript
    <3>3. Got(e)' = Got(e) /\ Sent(Memory!Peer(e))' = Sent(Memory!Peer(e))
      BY <2>1 DEF Got, Sent
    <3>4. Pending(e)'
      BY <2>1, <3>1, <3>2, <3>3 DEF Pending
    <3>5. Knows(e)'
      BY <2>1, <3>1, KnowsKept
    <3>6. Elements(e)'
      BY <2>1, <3>1, ElementsKept
    <3> QED BY <3>4, <3>5, <3>6
  <2>3. Types'
    BY <2>1 DEF MemoryInv, Types
  <2> QED BY <2>2, <2>3 DEF MemoryInv
<1>2. ASSUME NEW e \in Two,
             Memory!Step(e) \/ Memory!Fail(e) \/ Memory!Apply(e) \/ (\E w \in NeighbourWires : Memory!Join(e, w))
      PROVE  MemoryInv'
  BY <1>2, WritesStep, ReadOfferStep, ReadProofStep, ReadVerdictStep, GiveUpStep, ElementStep DEF Memory!Step
<1>3. Memory!Ends = Two
  BY DEF Memory!Ends, Two
<1> QED BY <1>1, <1>2, <1>3 DEF Memory!Next

(* The runs judge offers alike, and the other runs' steps are steps of       *)
(* Memory.                                                                   *)
LEMMA BoundPolicy ==
  /\ \A r : Bound!RequirementsValidate(r) = Memory!RequirementsValidate(r)
  /\ \A o : Bound!OfferValid(o) = Memory!OfferValid(o)
  /\ \A rs, ps, i : Bound!Fault(rs, ps, i) = Memory!Fault(rs, ps, i)
  /\ \A rs, ps : Bound!EvaluateBoundary(rs, ps) = Memory!EvaluateBoundary(rs, ps)
<1>1. ASSUME NEW r PROVE Bound!RequirementsValidate(r) = Memory!RequirementsValidate(r)
  BY DEF Bound!RequirementsValidate, Memory!RequirementsValidate, Bound!Version, Memory!Version
<1>2. ASSUME NEW p PROVE Bound!PathValidate(p) = Memory!PathValidate(p)
  BY DEF Bound!PathValidate, Memory!PathValidate, Bound!Version, Memory!Version
<1>3. ASSUME NEW o PROVE Bound!OfferValid(o) = Memory!OfferValid(o)
  BY <1>1, <1>2 DEF Bound!OfferValid, Memory!OfferValid
<1>4. ASSUME NEW rs, NEW ps, NEW i PROVE Bound!Fault(rs, ps, i) = Memory!Fault(rs, ps, i)
  BY <1>1, <1>2 DEF Bound!Fault, Memory!Fault
<1>5. ASSUME NEW rs, NEW ps PROVE Bound!EvaluateBoundary(rs, ps) = Memory!EvaluateBoundary(rs, ps)
  <2>1. ASSUME NEW i PROVE Bound!Accepts(rs[i], Bound!Shared(ps, i)) = Memory!Accepts(rs[i], Memory!Shared(ps, i))
    BY DEF Bound!Accepts, Memory!Accepts, Bound!Decision, Memory!Decision, Bound!Shared, Memory!Shared, Bound!AllOperations, Memory!AllOperations
  <2>2. {i \in DOMAIN rs : Bound!Fault(rs, ps, i) # "ok"} = {i \in DOMAIN rs : Memory!Fault(rs, ps, i) # "ok"}
    BY <1>4
  <2>3. PICK bad : bad = {i \in DOMAIN rs : Memory!Fault(rs, ps, i) # "ok"}
    OBVIOUS
  <2>4. Bound!FirstOf(bad) = Memory!FirstOf(bad)
    BY DEF Bound!FirstOf, Memory!FirstOf
  <2>5. Bound!Counted(rs) = Memory!Counted(rs)
    BY DEF Bound!Counted, Memory!Counted
  <2> QED BY <1>4, <2>1, <2>2, <2>3, <2>4, <2>5 DEF Bound!EvaluateBoundary, Memory!EvaluateBoundary
<1> QED BY <1>1, <1>3, <1>4, <1>5

LEMMA BoundSteps == Bound!Next => Memory!Next
<1>1. ASSUME NEW e, NEW by, NEW v PROVE Bound!Transcript(e, by, v) = Memory!Transcript(e, by, v)
  BY DEF Bound!Transcript, Memory!Transcript
<1>2. ASSUME NEW e PROVE Bound!Verdict(e) = Memory!Verdict(e) /\ Bound!Peer(e) = Memory!Peer(e)
  BY BoundPolicy DEF Bound!Verdict, Memory!Verdict, Bound!Peer, Memory!Peer
<1>3. ASSUME NEW e, NEW n, NEW m
      PROVE  (Bound!Write(e, n, m) => Memory!Write(e, n, m)) /\ (Bound!Read(e, n) => Memory!Read(e, n))
  BY DEF Bound!Write, Memory!Write, Bound!Read, Memory!Read, Bound!Does, Memory!Does, Bound!Script, Memory!Script, Bound!Peer, Memory!Peer
<1>4. ASSUME NEW e
      PROVE  /\ Bound!WriteOffer(e) => Memory!WriteOffer(e)
             /\ Bound!WriteProof(e) => Memory!WriteProof(e)
             /\ Bound!WriteVerdict(e) => Memory!WriteVerdict(e)
             /\ Bound!ReadOffer(e) => Memory!ReadOffer(e)
  BY BoundPolicy, <1>1, <1>3
  DEF Bound!WriteOffer, Memory!WriteOffer, Bound!WriteProof, Memory!WriteProof, Bound!WriteVerdict, Memory!WriteVerdict, Bound!ReadOffer, Memory!ReadOffer, Bound!Sendable, Memory!Sendable
<1>5. ASSUME NEW e
      PROVE  /\ Bound!ReadProof(e) => Memory!ReadProof(e)
             /\ Bound!ReadVerdict(e) => Memory!ReadVerdict(e)
  BY <1>1, <1>2, <1>3 DEF Bound!ReadProof, Memory!ReadProof, Bound!ReadVerdict, Memory!ReadVerdict
<1>6. ASSUME NEW e
      PROVE  /\ Bound!Refuse(e) => Memory!Refuse(e)
             /\ Bound!Reject(e) => Memory!Reject(e)
             /\ Bound!Fail(e) => Memory!Fail(e)
  BY BoundPolicy DEF Bound!Refuse, Memory!Refuse, Bound!Reject, Memory!Reject, Bound!Fail, Memory!Fail, Bound!Sendable, Memory!Sendable
<1>7. ASSUME NEW e PROVE Bound!Policy(e) = Memory!Policy(e)
  BY DEF Bound!Policy, Memory!Policy
<1>8. ASSUME NEW e \in Two PROVE Bound!Apply(e) => Memory!Apply(e)
  BY BoundPolicy, <1>7 DEF Bound!Apply, Memory!Apply, Bound!ValidMemoryPolicy, Memory!ValidMemoryPolicy
<1>9. ASSUME NEW e \in Two, NEW w PROVE Bound!Join(e, w) => Memory!Join(e, w)
  BY BoundPolicy, <1>7 DEF Bound!Join, Memory!Join, Bound!AllocationMemoryPolicy, Memory!AllocationMemoryPolicy, Bound!Decodable, Memory!Decodable
<1>10. Memory!Ends = Two /\ Bound!Ends = Two
  BY DEF Memory!Ends, Bound!Ends, Two
<1> QED BY <1>4, <1>5, <1>6, <1>8, <1>9, <1>10 DEF Bound!Next, Memory!Next, Bound!Step, Memory!Step

LEMMA FinePolicy ==
  /\ \A r : Fine!RequirementsValidate(r) = Memory!RequirementsValidate(r)
  /\ \A o : Fine!OfferValid(o) = Memory!OfferValid(o)
  /\ \A rs, ps, i : Fine!Fault(rs, ps, i) = Memory!Fault(rs, ps, i)
  /\ \A rs, ps : Fine!EvaluateBoundary(rs, ps) = Memory!EvaluateBoundary(rs, ps)
<1>1. ASSUME NEW r PROVE Fine!RequirementsValidate(r) = Memory!RequirementsValidate(r)
  BY DEF Fine!RequirementsValidate, Memory!RequirementsValidate, Fine!Version, Memory!Version
<1>2. ASSUME NEW p PROVE Fine!PathValidate(p) = Memory!PathValidate(p)
  BY DEF Fine!PathValidate, Memory!PathValidate, Fine!Version, Memory!Version
<1>3. ASSUME NEW o PROVE Fine!OfferValid(o) = Memory!OfferValid(o)
  BY <1>1, <1>2 DEF Fine!OfferValid, Memory!OfferValid
<1>4. ASSUME NEW rs, NEW ps, NEW i PROVE Fine!Fault(rs, ps, i) = Memory!Fault(rs, ps, i)
  BY <1>1, <1>2 DEF Fine!Fault, Memory!Fault
<1>5. ASSUME NEW rs, NEW ps PROVE Fine!EvaluateBoundary(rs, ps) = Memory!EvaluateBoundary(rs, ps)
  <2>1. ASSUME NEW i PROVE Fine!Accepts(rs[i], Fine!Shared(ps, i)) = Memory!Accepts(rs[i], Memory!Shared(ps, i))
    BY DEF Fine!Accepts, Memory!Accepts, Fine!Decision, Memory!Decision, Fine!Shared, Memory!Shared, Fine!AllOperations, Memory!AllOperations
  <2>2. {i \in DOMAIN rs : Fine!Fault(rs, ps, i) # "ok"} = {i \in DOMAIN rs : Memory!Fault(rs, ps, i) # "ok"}
    BY <1>4
  <2>3. PICK bad : bad = {i \in DOMAIN rs : Memory!Fault(rs, ps, i) # "ok"}
    OBVIOUS
  <2>4. Fine!FirstOf(bad) = Memory!FirstOf(bad)
    BY DEF Fine!FirstOf, Memory!FirstOf
  <2>5. Fine!Counted(rs) = Memory!Counted(rs)
    BY DEF Fine!Counted, Memory!Counted
  <2> QED BY <1>4, <2>1, <2>2, <2>3, <2>4, <2>5 DEF Fine!EvaluateBoundary, Memory!EvaluateBoundary
<1> QED BY <1>1, <1>3, <1>4, <1>5

LEMMA FineSteps == Fine!Next => Memory!Next
<1>1. ASSUME NEW e, NEW by, NEW v PROVE Fine!Transcript(e, by, v) = Memory!Transcript(e, by, v)
  BY DEF Fine!Transcript, Memory!Transcript
<1>2. ASSUME NEW e PROVE Fine!Verdict(e) = Memory!Verdict(e) /\ Fine!Peer(e) = Memory!Peer(e)
  BY FinePolicy DEF Fine!Verdict, Memory!Verdict, Fine!Peer, Memory!Peer
<1>3. ASSUME NEW e, NEW n, NEW m
      PROVE  (Fine!Write(e, n, m) => Memory!Write(e, n, m)) /\ (Fine!Read(e, n) => Memory!Read(e, n))
  BY DEF Fine!Write, Memory!Write, Fine!Read, Memory!Read, Fine!Does, Memory!Does, Fine!Script, Memory!Script, Fine!Peer, Memory!Peer
<1>4. ASSUME NEW e
      PROVE  /\ Fine!WriteOffer(e) => Memory!WriteOffer(e)
             /\ Fine!WriteProof(e) => Memory!WriteProof(e)
             /\ Fine!WriteVerdict(e) => Memory!WriteVerdict(e)
             /\ Fine!ReadOffer(e) => Memory!ReadOffer(e)
  BY FinePolicy, <1>1, <1>3
  DEF Fine!WriteOffer, Memory!WriteOffer, Fine!WriteProof, Memory!WriteProof, Fine!WriteVerdict, Memory!WriteVerdict, Fine!ReadOffer, Memory!ReadOffer, Fine!Sendable, Memory!Sendable
<1>5. ASSUME NEW e
      PROVE  /\ Fine!ReadProof(e) => Memory!ReadProof(e)
             /\ Fine!ReadVerdict(e) => Memory!ReadVerdict(e)
  BY <1>1, <1>2, <1>3 DEF Fine!ReadProof, Memory!ReadProof, Fine!ReadVerdict, Memory!ReadVerdict
<1>6. ASSUME NEW e
      PROVE  /\ Fine!Refuse(e) => Memory!Refuse(e)
             /\ Fine!Reject(e) => Memory!Reject(e)
             /\ Fine!Fail(e) => Memory!Fail(e)
  BY FinePolicy DEF Fine!Refuse, Memory!Refuse, Fine!Reject, Memory!Reject, Fine!Fail, Memory!Fail, Fine!Sendable, Memory!Sendable
<1>7. ASSUME NEW e PROVE Fine!Policy(e) = Memory!Policy(e)
  BY DEF Fine!Policy, Memory!Policy
<1>8. ASSUME NEW e \in Two PROVE Fine!Apply(e) => Memory!Apply(e)
  BY FinePolicy, <1>7 DEF Fine!Apply, Memory!Apply, Fine!ValidMemoryPolicy, Memory!ValidMemoryPolicy
<1>9. ASSUME NEW e \in Two, NEW w PROVE Fine!Join(e, w) => Memory!Join(e, w)
  BY FinePolicy, <1>7 DEF Fine!Join, Memory!Join, Fine!AllocationMemoryPolicy, Memory!AllocationMemoryPolicy, Fine!Decodable, Memory!Decodable
<1>10. Memory!Ends = Two /\ Fine!Ends = Two
  BY DEF Memory!Ends, Fine!Ends, Two
<1> QED BY <1>4, <1>5, <1>6, <1>8, <1>9, <1>10 DEF Fine!Next, Memory!Next, Fine!Step, Memory!Step

LEMMA OfferPaths ==
  ASSUME NEW o \in AllOffers
  PROVE  PathShape(o.p)
  BY AgreementAssumption DEF AllOffers, PathShape, Memory!MemoryAssumption, Bound!MemoryAssumption

(* What the exchange promises follows from what the ends know. *)
LEMMA MemoryAgrees ==
  ASSUME MemoryInv
  PROVE  /\ Memory!TypeOK /\ Memory!SuccessIsMutual /\ Memory!SameVerdict /\ Memory!EverybodyConsents
<1>1. /\ Types /\ \A e \in Two : Pending(e) /\ Knows(e) /\ Elements(e) /\ Memory!Peer(e) \in Two /\ Memory!Peer(Memory!Peer(e)) = e
  BY PeerFacts DEF MemoryInv
<1>2. Memory!Ends = Two
  BY DEF Memory!Ends, Two
<1>3. ASSUME NEW e \in Two
      PROVE  /\ Got(e) \in 0..3 /\ Sent(e) \in 0..3 /\ (at[e] >= 2 => Got(e) >= 1) /\ at[e] \in 0..6
             /\ offer[e] \in AllOffers /\ PathShape(offer[e].p) /\ accepted[e] \in BOOLEAN
  <2>1. at[e] \in 0..6 /\ offer[e] \in AllOffers /\ accepted[e] \in BOOLEAN
    BY <1>1 DEF Types
  <2> QED BY <2>1, Counts, OfferPaths
<1>4. Memory!TypeOK
  <2>1. ASSUME NEW e \in Two
        PROVE  /\ at[e] \in 0..6 /\ Len(inbox[e]) <= 3 /\ result[e] \in {"running", "ok", "failed"}
               /\ at[e] >= 3 => Memory!OfferValid(heard[e])
               /\ result[e] = "running" => at[e] < 6
    <3>1. Len(inbox[e]) = Sent(Memory!Peer(e)) - Got(e)
      BY <1>1 DEF Pending
    <3>2. Sent(Memory!Peer(e)) \in 0..3 /\ Got(e) \in 0..3
      BY <1>1, <1>3
    <3>3. Len(inbox[e]) <= 3
      BY <3>1, <3>2
    <3> QED BY <1>1, <1>3, <3>3 DEF Types, Knows
  <2> QED BY <1>2, <2>1 DEF Memory!TypeOK
<1>5. Memory!SuccessIsMutual
  <2> SUFFICES ASSUME NEW e \in Two, result[e] = "ok"
               PROVE  /\ accepted[e] /\ accepted[Memory!Peer(e)] /\ session[e] = session[Memory!Peer(e)]
                      /\ heard[e] = offer[Memory!Peer(e)] /\ heard[Memory!Peer(e)] = offer[e]
                      /\ offer[e].binding = offer[Memory!Peer(e)].binding
    BY <1>2 DEF Memory!SuccessIsMutual
  <2>1. PICK d \in Two : d = Memory!Peer(e) /\ Memory!Peer(d) = e
    BY <1>1
  <2>2. at[e] = 6 /\ at[d] >= 5 /\ accepted[e] /\ accepted[d] /\ session[e] = session[d] /\ Memory!Verdict(e)
    BY <1>1, <2>1 DEF Knows
  <2>3. Got(e) >= 1 /\ Got(d) >= 1
    BY <1>3, <2>1, <2>2
  <2>4. heard[e] = offer[d] /\ heard[d] = offer[e]
    BY <1>1, <2>1, <2>3 DEF Knows
  <2>5. offer[e].binding = heard[e].binding
    BY <2>2 DEF Memory!Verdict
  <2> QED BY <2>1, <2>2, <2>4, <2>5
<1>6. Memory!SameVerdict
  <2> SUFFICES ASSUME \A e \in Two : at[e] \in 4..6 /\ heard[e] = offer[Memory!Peer(e)] /\ result[e] # "failed"
               PROVE  accepted["producer"] = accepted["consumer"]
    BY <1>2 DEF Memory!SameVerdict
  <2>1. /\ "producer" \in Two /\ "consumer" \in Two
        /\ Memory!Peer("producer") = "consumer" /\ Memory!Peer("consumer") = "producer"
    BY DEF Two, Memory!Peer
  <2>2. PICK p, c : p = offer["producer"] /\ c = offer["consumer"]
    OBVIOUS
  <2>3. /\ accepted["producer"] = Memory!Verdict("producer") /\ heard["producer"] = c
        /\ accepted["consumer"] = Memory!Verdict("consumer") /\ heard["consumer"] = p
    BY <1>1, <2>1, <2>2 DEF Knows
  <2>4. PathShape(p.p) /\ PathShape(c.p)
    BY <1>3, <2>1, <2>2
  <2>5. Memory!Verdict("producer") <=> p.binding = c.binding /\ Consent(p.r, c.r, p.p, c.p)
    BY <2>2, <2>3, <2>4, TwoEnds DEF Memory!Verdict
  <2>6. Memory!Verdict("consumer") <=> c.binding = p.binding /\ Consent(c.r, p.r, c.p, p.p)
    BY <2>2, <2>3, <2>4, TwoEnds DEF Memory!Verdict
  <2>7. Consent(p.r, c.r, p.p, c.p) <=> Consent(c.r, p.r, c.p, p.p)
    BY ConsentIsSymmetric
  <2>8. accepted["producer"] \in BOOLEAN /\ accepted["consumer"] \in BOOLEAN
    BY <1>3, <2>1
  <2> QED BY <2>3, <2>5, <2>6, <2>7, <2>8
<1>7. Memory!EverybodyConsents
  <2> SUFFICES ASSUME NEW e \in Two, applied[e], NEW r \in joined[e] \union {offer[e].r}
               PROVE  /\ offer["producer"].p.operations \union offer["consumer"].p.operations \subseteq r.operations
                      /\ dmabuf \in r.resources /\ r.required \subseteq offer[e].p.usage
    BY <1>2 DEF Memory!EverybodyConsents
  <2>1. PICK d \in Two : d = Memory!Peer(e) /\ Memory!Peer(d) = e
    BY <1>1
  <2>2. PICK o, h : o = offer[e] /\ h = offer[d]
    OBVIOUS
  <2>3. heard[e] = h
    BY <1>1, <1>3, <2>1, <2>2 DEF Knows, Elements
  <2>4. Memory!Policy(e).rs = <<o.r, h.r>> /\ Memory!Policy(e).ps = <<o.p, h.p>> /\ Memory!Policy(e).ps[1] = o.p
    BY <2>2, <2>3 DEF Memory!Policy
  <2>5. PathShape(o.p) /\ PathShape(h.p)
    BY <1>3, <2>1, <2>2
  <2>6. o.p.resources = {dmabuf} /\ Memory!EvaluateBoundary(<<o.r, h.r>>, <<o.p, h.p>>) = "ok"
    BY <1>1, <2>4 DEF Elements
  <2>7. Consent(o.r, h.r, o.p, h.p)
    BY <2>5, <2>6, TwoEnds
  <2>8. ASSUME r \in joined[e] PROVE Suits(r, o.p, o.p.operations \union h.p.operations)
    <3>1. Memory!EvaluateBoundary(Append(<<o.r, h.r>>, r), Append(<<o.p, h.p>>, o.p)) = "ok"
      BY <1>1, <2>4, <2>8 DEF Elements
    <3> QED BY <2>5, <3>1, NeighbourSuits
  <2>9. Suits(r, o.p, o.p.operations \union h.p.operations)
    BY <2>2, <2>7, <2>8 DEF Consent
  <2>10. offer["producer"].p.operations \union offer["consumer"].p.operations = o.p.operations \union h.p.operations
    <3>1. (e = "producer" /\ d = "consumer") \/ (e = "consumer" /\ d = "producer")
      BY <2>1 DEF Two, Memory!Peer
    <3> QED BY <2>2, <3>1
  <2> QED BY <2>2, <2>6, <2>9, <2>10 DEF Suits
<1> QED BY <1>4, <1>5, <1>6, <1>7

(* Combining demands agrees with evaluating them. *)
LEMMA CombiningAgrees ==
  ASSUME offer \in [Two -> AllOffers]
  PROVE  Memory!CombineAgrees
<1>1. PICK a, b, p, q : a = offer["producer"].r /\ b = offer["consumer"].r /\ p = offer["producer"].p /\ q = offer["consumer"].p
  OBVIOUS
<1>2. PathShape(p) /\ PathShape(q)
  BY <1>1, OfferPaths DEF Two
<1> DEFINE rs == <<a, b>>
<1> DEFINE ps == <<p, q>>
<1>3. DOMAIN rs = {1, 2} /\ rs[1] = a /\ rs[2] = b /\ DOMAIN ps = {1, 2} /\ ps[1] = p /\ ps[2] = q /\ Len(rs) = 2
  OBVIOUS
<1>4. Memory!EvaluateBoundary(rs, ps) = "ok" <=> Consent(a, b, p, q)
  BY <1>2, TwoEnds
<1> HIDE DEF rs, ps
<1>5. Memory!AllOperations(ps) = p.operations \union q.operations
  <2>1. Memory!AllOperations(ps) = UNION {ps[i].operations : i \in {1, 2}}
    BY <1>3 DEF Memory!AllOperations
  <2> QED BY <1>3, <2>1
<1> DEFINE all == Memory!Combined(rs)
<1>6. /\ all.resources = {t \in {dmabuf, ahb} : t \in a.resources /\ t \in b.resources}
      /\ all.operations = {o \in {copy, upload} : o \in a.operations /\ o \in b.operations}
      /\ all.required = a.required \union b.required
  <2>1. /\ all.resources = {t \in {dmabuf, ahb} : \A i \in {1, 2} : t \in rs[i].resources}
        /\ all.operations = {o \in {copy, upload} : \A i \in {1, 2} : o \in rs[i].operations}
        /\ all.required = UNION {rs[i].required : i \in {1, 2}}
    BY <1>3 DEF Memory!Combined
  <2> HIDE DEF all
  <2> QED BY <1>3, <2>1
<1> HIDE DEF all
<1>7. ASSUME Consent(a, b, p, q)
      PROVE  /\ Memory!CombineResult(rs) = "ok" /\ p.resources \subseteq all.resources
             /\ Memory!AllOperations(ps) \subseteq all.operations
  <2>1. PICK t \in {dmabuf, ahb} : p.resources = {t}
    BY <1>7 DEF Consent, Memory!PathValidate
  <2>2. t \in a.resources /\ t \in b.resources
    BY <1>7, <2>1 DEF Consent, Suits
  <2>3. p.resources \subseteq all.resources /\ all.resources # {}
    BY <1>6, <2>1, <2>2
  <2>4. p.operations \subseteq {copy, upload} /\ q.operations \subseteq {copy, upload}
    BY <1>7 DEF Consent, Memory!PathValidate
  <2>5. Memory!AllOperations(ps) \subseteq all.operations
    BY <1>5, <1>6, <1>7, <2>4 DEF Consent, Suits
  <2>6. {i \in DOMAIN rs : Memory!RequirementsValidate(rs[i]) # "ok"} = {} /\ Memory!Counted(rs)
    BY <1>3, <1>7 DEF Consent, Memory!Counted
  <2>7. Memory!CombineResult(rs) = "ok"
    BY <2>3, <2>6 DEF Memory!CombineResult, all
  <2> QED BY <2>3, <2>5, <2>7
<1>8. ASSUME \A i \in 1..2 : Memory!Fault(rs, ps, i) = "ok" /\ all.required \subseteq ps[i].usage
                             /\ Memory!Accepts(all, Memory!Shared(ps, i))
      PROVE  Consent(a, b, p, q)
  <2>1. /\ Memory!Fault(rs, ps, 1) = "ok" /\ Memory!Accepts(all, Memory!Shared(ps, 1))
        /\ Memory!Fault(rs, ps, 2) = "ok" /\ Memory!Accepts(all, Memory!Shared(ps, 2))
    BY <1>8
  <2>2. /\ Memory!RequirementsValidate(a) = "ok" /\ Memory!PathValidate(p) = "ok"
        /\ Memory!RequirementsValidate(b) = "ok" /\ Memory!PathValidate(q) = "ok" /\ q.resources = p.resources
    BY <1>3, <2>1, FaultOK
  <2>3. Suits(all, p, p.operations \union q.operations) /\ Suits(all, q, p.operations \union q.operations)
    BY <1>2, <1>3, <1>5, <2>1, AcceptsOK
  <2>4. Suits(a, p, p.operations \union q.operations) /\ Suits(b, q, p.operations \union q.operations)
    BY <1>6, <2>3 DEF Suits
  <2> QED BY <2>2, <2>4 DEF Consent
<1> QED BY <1>1, <1>3, <1>4, <1>7, <1>8 DEF Memory!CombineAgrees, rs, ps, all

-----------------------------------------------------------------------------
MemoryParts == part \in {"memory", "bound", "fine"} => MemoryInv

LEMMA MemoryRuns == MCSpec => []MemoryParts
<1>1. MCSpec => MCInit /\ [][MCNext]_mcvars
  BY PTL DEF MCSpec
<1>2. MCInit => MemoryParts
  <2> SUFFICES ASSUME MCInit, part \in {"memory", "bound", "fine"} PROVE MemoryInv
    BY DEF MemoryParts
  <2>1. Memory!Init \/ Bound!Init \/ Fine!Init
    BY DEF MCInit
  <2>2. /\ offer \in [Two -> AllOffers] /\ session \in [Two -> {1, 2}]
        /\ at = [e \in Two |-> 0] /\ inbox = [e \in Two |-> <<>>]
        /\ heard = [e \in Two |-> Memory!NoOffer] /\ accepted = [e \in Two |-> FALSE]
        /\ result = [e \in Two |-> "running"] /\ applied = [e \in Two |-> FALSE] /\ joined = [e \in Two |-> {}]
    <3>1. CASE Memory!Init
      BY <3>1 DEF Memory!Init, Memory!Ends, Two, AllOffers
    <3>2. CASE Bound!Init
      BY <3>2 DEF Bound!Init, Bound!Ends, Two, AllOffers, Bound!NoOffer, Memory!NoOffer
    <3>3. CASE Fine!Init
      BY <3>3 DEF Fine!Init, Fine!Ends, Two, AllOffers, Fine!NoOffer, Memory!NoOffer
    <3> QED BY <2>1, <3>1, <3>2, <3>3
  <2> QED BY <2>2, MemoryInitOK
<1>3. MemoryParts /\ [MCNext]_mcvars => MemoryParts'
  <2> SUFFICES ASSUME MemoryParts, [MCNext]_mcvars, part' \in {"memory", "bound", "fine"} PROVE MemoryInv'
    BY DEF MemoryParts
  <2>1. UNCHANGED part
    BY DEF MCNext, mcvars
  <2>2. [Memory!Next]_memory
    BY <2>1, BoundSteps, FineSteps DEF MCNext, mcvars
  <2> QED BY <2>1, <2>2, MemoryStep DEF MemoryParts
<1> QED BY <1>1, <1>2, <1>3, PTL

(* Whatever fails and whenever: an end that succeeds knows that its peer     *)
(* read and approved its offer in the same session, both decide alike, and   *)
(* everybody at an element's boundary consents                               *)
(* (av_memory_agreement.cpp:47-60, framelink_memory.cpp:68-103).             *)
THEOREM MemoryAgreed == MCSpec => []MemorySound
<1>1. MemoryParts => MemorySound
  <2> SUFFICES ASSUME MemoryInv
               PROVE  /\ Memory!TypeOK /\ Memory!SuccessIsMutual /\ Memory!SameVerdict /\ Memory!EverybodyConsents
                      /\ Bound!SuccessIsMutual /\ Bound!EverybodyConsents /\ Fine!CombineAgrees
    BY DEF MemoryParts, MemorySound
  <2>1. Memory!TypeOK /\ Memory!SuccessIsMutual /\ Memory!SameVerdict /\ Memory!EverybodyConsents
    BY MemoryAgrees
  <2>2. Bound!SuccessIsMutual
    BY <2>1 DEF Bound!SuccessIsMutual, Memory!SuccessIsMutual, Bound!Ends, Memory!Ends, Bound!Peer, Memory!Peer
  <2>3. Bound!EverybodyConsents
    BY <2>1 DEF Bound!EverybodyConsents, Memory!EverybodyConsents, Bound!Ends, Memory!Ends
  <2>4. Memory!CombineAgrees
    BY CombiningAgrees DEF MemoryInv, Types
  <2>5. Fine!CombineAgrees
    <3>1. ASSUME NEW rs PROVE Fine!Combined(rs) = Memory!Combined(rs)
      BY DEF Fine!Combined, Memory!Combined, Fine!Version, Memory!Version
    <3>2. ASSUME NEW rs PROVE Fine!CombineResult(rs) = Memory!CombineResult(rs)
      <4>1. {i \in DOMAIN rs : Fine!RequirementsValidate(rs[i]) # "ok"} =
              {i \in DOMAIN rs : Memory!RequirementsValidate(rs[i]) # "ok"}
        BY FinePolicy
      <4>2. PICK bad : bad = {i \in DOMAIN rs : Memory!RequirementsValidate(rs[i]) # "ok"}
        OBVIOUS
      <4>3. Fine!FirstOf(bad) = Memory!FirstOf(bad) /\ Fine!Counted(rs) = Memory!Counted(rs)
        BY DEF Fine!FirstOf, Memory!FirstOf, Fine!Counted, Memory!Counted
      <4> QED BY FinePolicy, <3>1, <4>1, <4>2, <4>3 DEF Fine!CombineResult, Memory!CombineResult
    <3>3. ASSUME NEW ps PROVE Fine!AllOperations(ps) = Memory!AllOperations(ps)
      BY DEF Fine!AllOperations, Memory!AllOperations
    <3>4. ASSUME NEW r, NEW ps, NEW i PROVE Fine!Accepts(r, Fine!Shared(ps, i)) = Memory!Accepts(r, Memory!Shared(ps, i))
      BY <3>3 DEF Fine!Accepts, Memory!Accepts, Fine!Decision, Memory!Decision, Fine!Shared, Memory!Shared
    <3> QED BY FinePolicy, <2>4, <3>1, <3>2, <3>3, <3>4 DEF Fine!CombineAgrees, Memory!CombineAgrees
  <2> QED BY <2>1, <2>2, <2>3, <2>5
<1> QED BY <1>1, MemoryRuns, PTL

=============================================================================
