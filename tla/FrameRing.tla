----------------------------- MODULE FrameRing -----------------------------
(***************************************************************************)
(* What a FrameLink channel promises, whatever carries it: a ring of slots *)
(* in which a producer draws complete frames that a consumer takes in the  *)
(* order of their values, skipping some, and reads undisturbed.  A ring    *)
(* changes hands only while nothing of it is read.                         *)
(***************************************************************************)
EXTENDS Naturals

CONSTANTS Slots, MaxValue

VARIABLES
  image,     \* value of the complete frame a slot shows, 0 if it shows none
  drawing,   \* slots a producer draws into
  reading,   \* frames being read: [slot, val]
  taken      \* value of the newest frame taken since the last Restart

vars == <<image, drawing, reading, taken>>

Blank == [s \in Slots |-> 0]

Init == image = Blank /\ drawing = {} /\ reading = {} /\ taken = 0

(* The producer takes a slot nobody reads; its old contents are lost. *)
Draw(s) ==
  /\ s \notin drawing /\ \A x \in reading : x.slot # s
  /\ drawing' = drawing \union {s}
  /\ image' = [image EXCEPT ![s] = 0]
  /\ UNCHANGED <<reading, taken>>

(* It hands over a complete frame, newer than every other in the ring. *)
Publish(s, v) ==
  /\ s \in drawing /\ \A t \in Slots : image[t] < v
  /\ drawing' = drawing \ {s}
  /\ image' = [image EXCEPT ![s] = v]
  /\ UNCHANGED <<reading, taken>>

(* It gives slots back undrawn, or dies while drawing. *)
Abandon(S) ==
  /\ drawing' = drawing \ S
  /\ UNCHANGED <<image, reading, taken>>

(* The consumer takes a frame newer than any it took before. *)
Take(s) ==
  /\ image[s] > taken
  /\ reading' = reading \union {[slot |-> s, val |-> image[s]]}
  /\ taken' = image[s]
  /\ UNCHANGED <<image, drawing>>

Finish(R) ==
  /\ reading' = reading \ R
  /\ UNCHANGED <<image, drawing, taken>>

(* A new producer or a new ring. *)
Restart ==
  /\ reading = {}
  /\ image' = Blank /\ drawing' = {} /\ taken' = 0
  /\ UNCHANGED reading

Next ==
  \/ \E s \in Slots : Draw(s) \/ Take(s) \/ \E v \in 1 .. MaxValue : Publish(s, v)
  \/ \E S \in SUBSET drawing : Abandon(S)
  \/ \E R \in SUBSET reading : Finish(R)
  \/ Restart

Spec == Init /\ [][Next]_vars
=============================================================================
