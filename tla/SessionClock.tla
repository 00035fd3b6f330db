---------------------------- MODULE SessionClock ----------------------------
(***************************************************************************)
(* Session time: a track numbers its samples, flSessionSampleOffset turns  *)
(* a sample's number into nanoseconds, and flSessionMapPts carries session *)
(* time over to the receiver's clock                                       *)
(* (src/src/framelink_session.cpp:106-121).  Blocks follow one another as  *)
(* src/samples/audio_timeline.h and src/gst/gstframelinkaudio.cpp:71-82    *)
(* demand.  Integers keep their width: 64-bit arithmetic is modulo         *)
(* 2 * (MaxTime + 1), with MaxTime for INT64_MAX.                          *)
(***************************************************************************)
EXTENDS Integers

CONSTANTS
  MaxTime,      \* INT64_MAX
  NS,           \* nanoseconds in a second
  Rate,         \* samples in a second
  MaxBlock,     \* samples in a block
  MaxSamples    \* bound: samples of the track

ASSUME ClockAssumption ==
  /\ MaxTime \in Nat /\ NS \in 1..MaxTime /\ Rate \in Nat \ {0} /\ Rate * NS <= 2 * (MaxTime + 1)
  /\ MaxBlock \in Nat /\ MaxSamples \in Nat

VARIABLES
  epoch,      \* flSessionConfig: session time 0 on the producer's clock
  source,     \* flClockMapping: an instant on the producer's clock
  target,     \*   and the same instant on the receiver's
  samples,    \* samples sent so far
  sent,       \* the sum of the durations of the blocks sent
  next        \* where the last block ends on the receiver's clock, or Range

vars == <<epoch, source, target, samples, sent, next>>

Range == -1      \* FL_SESSION_TIME_RANGE

Wrap(n) == n % (2 * (MaxTime + 1))

(* Mutant: the length of a sample is rounded, then multiplied. *)
BugSampleOffset(i) ==
  LET total == Wrap(i * (NS \div Rate)) IN IF total > MaxTime THEN Range ELSE total

(* flSessionSampleOffset *)
SampleOffset(i) ==
  LET seconds == i \div Rate
      part    == Wrap((i % Rate) * NS) \div Rate
      total   == Wrap(seconds * NS + part)
  IN  IF seconds > MaxTime \div NS \/ total > MaxTime THEN Range ELSE total

(* add: the sum, or nothing if it does not fit.  Its arguments here are at   *)
(* least -MaxTime.                                                           *)
Fits(a, b) == (b > 0 => a <= MaxTime - b) /\ (b < 0 => a >= -(MaxTime + 1) - b)

(* Mutant: the two clocks are swapped. *)
BugMapPts(pts) ==
  LET result == epoch + pts - target + source
  IN  IF Fits(epoch, pts) /\ Fits(epoch + pts, source) /\ result >= 0 THEN result ELSE Range

(* flSessionMapPts, with a mapping that fits the session and is precise      *)
(* enough; what it maps onto may be out of range.                            *)
MapPts(pts) ==
  LET absolute == epoch + pts
      result   == absolute - source + target
  IN  IF /\ Fits(epoch, pts) /\ Fits(absolute, -source) /\ Fits(absolute - source, target)
         /\ result >= 0
      THEN result ELSE Range

-----------------------------------------------------------------------------
Init ==
  /\ epoch \in 0..MaxTime /\ source \in 0..MaxTime /\ target \in 0..MaxTime
  /\ samples = 0 /\ sent = 0 /\ next = Range

(* A block lasts from its first sample to the next block's. *)
Duration(first, k) == SampleOffset(first + k) - SampleOffset(first)

(* A block of k samples is sent and its time mapped; out of range, the track *)
(* is refused.                                                               *)
Block(k) ==
  LET first  == SampleOffset(samples)
      end    == SampleOffset(samples + k)
      mapped == MapPts(first)
  IN  /\ samples + k <= MaxSamples /\ Range \notin {first, end, mapped}
      /\ Duration(samples, k) <= MaxTime - mapped
      /\ samples' = samples + k /\ sent' = sent + Duration(samples, k)
      /\ next' = mapped + Duration(samples, k) /\ UNCHANGED <<epoch, source, target>>

Next == \E k \in 1..MaxBlock : Block(k)

Spec == Init /\ [][Next]_vars

-----------------------------------------------------------------------------
(* Properties. *)

TypeOK ==
  /\ epoch \in 0..MaxTime /\ source \in 0..MaxTime /\ target \in 0..MaxTime
  /\ samples \in Nat /\ sent \in Nat /\ next \in {Range} \union 0..MaxTime

(* Rounding does not add up: however a track is cut into blocks, their       *)
(* durations sum to the time of its samples, "floor(index * 1e9 / rate)",    *)
(* and nothing wrapped (framelink_session.cpp:115-121).                      *)
DurationsAddUp == sent = (samples * NS) \div Rate

(* The track ends on the receiver's clock where its length says: the mapping *)
(* moves it as a whole (framelink_session.cpp:106-114).                      *)
MappedAsAWhole == next # Range => next = epoch + sent - source + target

(* Each block starts on the receiver's clock where the one before it ended. *)
Seamless == [][(next # Range /\ next' # next) => MapPts(SampleOffset(samples)) = next]_vars

=============================================================================
