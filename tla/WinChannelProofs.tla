-------------------------- MODULE WinChannelProofs --------------------------
(***************************************************************************)
(* The Windows channel, proved for every ring size, every length of the    *)
(* timeline and every number of rebuilds.                                  *)
(*                                                                         *)
(* Pipe holds in every mode: it fixes which message can be on its way      *)
(* between ends that stand where, and which pair of fences counts.         *)
(* Timeline holds of a consumer that signals its own reads (FL_GPU_SYNC or *)
(* FL_DEFER_RELEASE) and serves one producer: it orders the values that    *)
(* are consumed, signalled, read, held, pending and announced, and says    *)
(* that a ring is replaced only when none of them is left.  The channels   *)
(* that Timeline leaves out are those for which it fails: see the runs of  *)
(* MCWinChannel.                                                           *)
(***************************************************************************)
EXTENDS WinChannel, SequenceTheorems, TLAPS

(* To the consumer: a RequestGeometry is the last message, since its sender *)
(* waits, and a Bye is sent by a producer that has left.                    *)
Upward ==
  \A i \in 1 .. Len(up) :
    /\ up[i].type = "RequestGeometry" => Len(up) <= i /\ pc \in {"geometry", "gone"}
    /\ up[i].type = "Bye" => pc = "gone"

(* To the producer: a refusal, or the present ring to one who waits for it. *)
Downward ==
  /\ Len(down) <= 1
  /\ Len(down) > 0 =>
       \/ down[1].type = "Busy" /\ acc = "listen" /\ pc = "dialled"
       \/ /\ down[1].type = "RingDesc" /\ down[1].gen = generation /\ down[1].fences = fences
          /\ acc = "pump" /\ pc \in {"dialled", "geometry"} /\ Len(up) = 0

(* Where the two ends can be at once. *)
Ends ==
  /\ acc # "pump" => Len(up) = 0 /\ pc # "idle"
  /\ pc = "dialled" => Len(up) = 0
  /\ pc = "geometry" => acc \notin {"listen", "hello"}
  /\ pc = "idle" => pGeneration = generation
  /\ acc = "realloc" => pc # "dialled"

(* A fence that counts is the one the producer's GPU signals. *)
FencePair ==
  /\ pFences <= fences /\ pGeneration <= generation
  /\ pFences = fences => written = drawn /\ pGeneration = generation
  /\ pFences # fences => written = 0
  /\ pc = "dialled" /\ acc \in {"hand", "pump"} => pFences # fences
  /\ acc = "pending" => pFences # fences

Pipe == Upward /\ Downward /\ Ends /\ FencePair

-----------------------------------------------------------------------------
(* Nothing of the ring is waiting, held, read or to be signalled; and the   *)
(* ring shows nothing yet.                                                  *)
Quiet == ~hasPending /\ ~frameHeld /\ reads = {} /\ owed = {} /\ Len(signals) = 0
Fresh == Quiet /\ heldReady = 0 /\ image = Blank

(* A ring is handed over, or replaced, only when it is quiet. *)
Starts ==
  /\ pc = "new" => acc = "listen"
  /\ acc = "realloc" => Quiet
  /\ acc \in {"fences", "pending"} => Quiet /\ image = Blank
  /\ acc = "pending" => consumed = 0
  /\ pc \in {"new", "dialled"} => Fresh
  /\ acc = "hello" => pc \in {"dialled", "gone"} /\ Fresh
  /\ pc = "geometry" => submittingSlot = NoSlot
  /\ pc = "geometry" /\ pGeneration # generation =>
       Fresh /\ acc \in {"hand", "pump"} /\ Len(up) = 0

(* What a producer that has the present ring knows of its slots is what     *)
(* they show, and nothing on the timeline is newer than what it announced.  *)
Synced == pc = "idle" \/ (pc = "geometry" /\ acc \in {"pump", "hand"} /\ pGeneration = generation)

Shown == \A s \in Slots : image[s] = IF slotReadyValue[s] = Reserved THEN 0 ELSE slotReadyValue[s]
Bounded ==
  /\ heldReady <= Announced /\ (hasPending => pendingReady <= Announced)
  /\ \A i \in 1 .. Len(up) : up[i].type = "FrameReady" => up[i].val <= Announced
Submitting ==
  /\ submittingSlot # NoSlot => slotReadyValue[submittingSlot] = Reserved /\ readyValue > 0
  /\ pc = "geometry" => \A s \in Slots : slotReadyValue[s] # Reserved
Drawings == Shown /\ Bounded /\ Submitting
Drawn    == Synced => Drawings

(* Frames that are read, and those the consumer has yet to signal, lie      *)
(* above the completed value of the consumed fence; queued signals lie      *)
(* between, in order.                                                       *)
Reading ==
  /\ consumed <= heldReady
  /\ \A x \in reads : consumed < x.val /\ x.val <= heldReady /\ image[x.slot] = x.val
  /\ \A u \in owed : consumed < u /\ u <= heldReady
Signalling ==
  \A i \in 1 .. Len(signals) :
    /\ consumed < signals[i].val /\ signals[i].val <= heldReady
    /\ \A u \in owed : signals[i].val < u
    /\ \A j \in 1 .. i - 1 : signals[j].val < signals[i].val

(* Frames that are pending or announced are in their slots, and newer in    *)
(* this order than every frame taken.                                       *)
Waits == hasPending => pendingReady > heldReady /\ image[pendingSlot] = pendingReady
Comes(i) ==
  up[i].type = "FrameReady" =>
    image[up[i].slot] = up[i].val /\ up[i].val > heldReady /\ (hasPending => up[i].val > pendingReady)
Follows(i, j) == up[i].type = "FrameReady" /\ up[j].type = "FrameReady" => up[i].val < up[j].val
Coming ==
  /\ Waits /\ (\A i \in 1 .. Len(up) : Comes(i))
  /\ \A j \in 1 .. Len(up) : \A i \in 1 .. j - 1 : Follows(i, j)

Timeline == Starts /\ Drawn /\ Reading /\ Signalling /\ Coming

-----------------------------------------------------------------------------
(* The message an end takes from the pipe, and what it leaves there. *)
LEMMA UpMessages ==
  ASSUME LinkTypes, up # <<>>
  PROVE  /\ Tail(up) \in Seq(UpMessage) /\ Len(Tail(up)) = Len(up) - 1 /\ Head(up) = up[1] /\ Len(up) > 0
         /\ \A i \in 1 .. Len(up) - 1 : Tail(up)[i] = up[i + 1]
         /\ Head(up).type = "FrameReady" => Head(up).slot \in Slots /\ Head(up).val \in Values
         /\ Head(up).type = "RequestGeometry" => Head(up).geo \in Geometries
<1>1. Head(up) \in UpMessage BY DEF LinkTypes
<1>2. Tail(up) \in Seq(UpMessage) /\ Len(Tail(up)) = Len(up) - 1 /\ Head(up) = up[1] /\ Len(up) > 0
  BY DEF LinkTypes
<1>3. \A i \in 1 .. Len(up) - 1 : Tail(up)[i] = up[i + 1] BY DEF LinkTypes
<1>4. /\ Head(up).type = "FrameReady" => Head(up).slot \in Slots /\ Head(up).val \in Values
      /\ Head(up).type = "RequestGeometry" => Head(up).geo \in Geometries
  BY <1>1 DEF UpMessage, Bye
<1> QED BY <1>2, <1>3, <1>4

LEMMA UpAt ==
  ASSUME LinkTypes, NEW i \in 1 .. Len(up), up[i].type = "FrameReady"
  PROVE  up[i].slot \in Slots /\ up[i].val \in Values
<1>1. up[i] \in UpMessage BY DEF LinkTypes
<1> QED BY <1>1 DEF UpMessage, Bye

LEMMA AppendUp ==
  ASSUME LinkTypes, NEW m
  PROVE  /\ Len(Append(up, m)) = Len(up) + 1 /\ Append(up, m)[Len(up) + 1] = m
         /\ \A i \in 1 .. Len(up) : Append(up, m)[i] = up[i]
  BY DEF LinkTypes

LEMMA DownMessages ==
  ASSUME LinkTypes, down # <<>>
  PROVE  /\ Tail(down) \in Seq(DownMessage) /\ Len(Tail(down)) = Len(down) - 1
         /\ Head(down) = down[1] /\ Len(down) > 0
         /\ Head(down).type = "RingDesc" =>
              Head(down).gen \in Nat /\ Head(down).size \in 0 .. PoolSize /\ Head(down).fences \in Nat
<1>1. Head(down) \in DownMessage BY DEF LinkTypes
<1>2. /\ Tail(down) \in Seq(DownMessage) /\ Len(Tail(down)) = Len(down) - 1
      /\ Head(down) = down[1] /\ Len(down) > 0
  BY DEF LinkTypes
<1>3. Head(down).type = "RingDesc" =>
        Head(down).gen \in Nat /\ Head(down).size \in 0 .. PoolSize /\ Head(down).fences \in Nat
  BY <1>1 DEF DownMessage, Busy
<1> QED BY <1>2, <1>3

LEMMA Lengths ==
  ASSUME TypeOK PROVE LinkTypes /\ Len(up) \in Nat /\ Len(down) \in Nat /\ Len(signals) \in Nat
  BY DEF TypeOK, LinkTypes, FenceTypes

(* The only message in the pipe is the one just sent. *)
LEMMA FirstDown ==
  ASSUME LinkTypes, Len(down) = 0, NEW m
  PROVE  Len(Append(down, m)) = Len(down) + 1 /\ Append(down, m)[1] = m
  BY DEF LinkTypes

LEMMA EmptyPipe == <<>> \in Seq(UpMessage) OBVIOUS

(* Signals queued on the GPU. *)
LEMMA Signals ==
  ASSUME FenceTypes, NEW v \in Values
  PROVE  Append(signals, [fences |-> fences, val |-> v]) \in Seq([fences : Nat, val : Values])
  BY DEF FenceTypes

LEMMA SignalAt ==
  ASSUME FenceTypes, NEW i \in 1 .. Len(signals) PROVE signals[i].val \in Values
<1> DEFINE S == [fences : Nat, val : Values]
<1>1. signals \in Seq(S) BY DEF FenceTypes
<1> HIDE DEF S
<1>2. signals[i] \in S BY <1>1
<1> QED BY <1>2 DEF S

LEMMA NextSignal ==
  ASSUME FenceTypes, signals # <<>>
  PROVE  /\ Tail(signals) \in Seq([fences : Nat, val : Values]) /\ Len(Tail(signals)) = Len(signals) - 1
         /\ Head(signals) = signals[1] /\ Len(signals) > 0 /\ Head(signals).val \in Values
         /\ \A i \in 1 .. Len(signals) - 1 : Tail(signals)[i] = signals[i + 1]
<1>1. Head(signals) \in [fences : Nat, val : Values]
  <2> DEFINE S == [fences : Nat, val : Values]
  <2>1. signals \in Seq(S) BY DEF FenceTypes
  <2> HIDE DEF S
  <2>2. Head(signals) \in S BY <2>1
  <2> QED BY <2>2 DEF S
<1>2. Tail(signals) \in Seq([fences : Nat, val : Values]) /\ Len(Tail(signals)) = Len(signals) - 1
  BY DEF FenceTypes
<1>3. /\ Head(signals) = signals[1] /\ Len(signals) > 0
      /\ \A i \in 1 .. Len(signals) - 1 : Tail(signals)[i] = signals[i + 1]
  BY DEF FenceTypes
<1> QED BY <1>1, <1>2, <1>3

LEMMA Sends ==
  ASSUME WinAssumption, TypeOK
  PROVE  /\ \A s \in Slots, v \in Values : Append(up, FrameReady(s, v)) \in Seq(UpMessage)
         /\ \A w \in Geometries : Append(up, RequestGeometry(w)) \in Seq(UpMessage)
         /\ Append(up, Bye) \in Seq(UpMessage)
         /\ Append(down, RingDesc) \in Seq(DownMessage) /\ Append(down, Busy) \in Seq(DownMessage)
<1>1. \A m \in UpMessage : Append(up, m) \in Seq(UpMessage) BY DEF TypeOK, LinkTypes
<1>2. \A m \in DownMessage : Append(down, m) \in Seq(DownMessage) BY DEF TypeOK, LinkTypes
<1>3. RingDesc \in DownMessage /\ Busy \in DownMessage
  BY DEF TypeOK, RingTypes, FenceTypes, RingDesc, Busy, DownMessage
<1>4. Bye \in UpMessage BY DEF UpMessage
<1>5. ASSUME NEW s \in Slots, NEW v \in Values PROVE FrameReady(s, v) \in UpMessage
  BY DEF UpMessage, FrameReady
<1>6. ASSUME NEW w \in Geometries PROVE RequestGeometry(w) \in UpMessage
  BY DEF UpMessage, RequestGeometry
<1> QED BY <1>1, <1>2, <1>3, <1>4, <1>5, <1>6

(* Types. *)
LEMMA TypesKept ==
  ASSUME WinAssumption, TypeOK, [Next]_vars PROVE TypeOK'
<1> USE DEF vars, consumerVars, ringVars, pendingVars, heldVars, producerVars, linkVars, fenceVars, pixelVars
<1>0. ASSUME ResetFails PROVE TypeOK'
  BY <1>0 DEF ResetFails, Values, Slots, WinAssumption, TypeOK, RingTypes, PendingTypes,
         HeldTypes, ThreadTypes, ProducerTypes, LinkTypes, FenceTypes, PixelTypes
<1>1. ASSUME HelloFails PROVE TypeOK'
  BY <1>1 DEF HelloFails, Values, Slots, Alive, WinAssumption, TypeOK, RingTypes, PendingTypes,
         HeldTypes, ThreadTypes, ProducerTypes, LinkTypes, FenceTypes, PixelTypes
<1>2. ASSUME AttachBusy PROVE TypeOK'
  <2>1. LinkTypes' BY <1>2, Sends DEF AttachBusy, TypeOK, LinkTypes
  <2>2. /\ RingTypes' /\ PendingTypes' /\ HeldTypes' /\ ThreadTypes'
        /\ ProducerTypes' /\ FenceTypes' /\ PixelTypes'
    BY <1>2 DEF AttachBusy, TypeOK, RingTypes, PendingTypes, HeldTypes, ThreadTypes, ProducerTypes,
           FenceTypes, PixelTypes
  <2> QED BY <2>1, <2>2 DEF TypeOK
<1>3. ASSUME AttachChecked PROVE TypeOK'
  BY <1>3 DEF AttachChecked, Values, Slots, Alive, WinAssumption, TypeOK, RingTypes, PendingTypes,
         HeldTypes, ThreadTypes, ProducerTypes, LinkTypes, FenceTypes, PixelTypes
<1>4. ASSUME ResetFences PROVE TypeOK'
  BY <1>4 DEF ResetFences, Values, Slots, WinAssumption, TypeOK, RingTypes, PendingTypes,
         HeldTypes, ThreadTypes, ProducerTypes, LinkTypes, FenceTypes, PixelTypes
<1>5. ASSUME ResetPending PROVE TypeOK'
  <2>1. HeldTypes' BY <1>5 DEF ResetPending, Values, WinAssumption, TypeOK, HeldTypes
  <2>2. PendingTypes' BY <1>5 DEF ResetPending, TypeOK, PendingTypes
  <2>3. RingTypes' BY <1>5 DEF ResetPending, TypeOK, RingTypes
  <2>4. ThreadTypes' /\ ProducerTypes' /\ LinkTypes' /\ FenceTypes' /\ PixelTypes'
    BY <1>5 DEF ResetPending, TypeOK, ThreadTypes, ProducerTypes, LinkTypes, FenceTypes, PixelTypes
  <2> QED BY <2>1, <2>2, <2>3, <2>4 DEF TypeOK
<1>6. ASSUME HandOver PROVE TypeOK'
  <2>1. LinkTypes' BY <1>6, Sends, EmptyPipe DEF HandOver, TypeOK, LinkTypes
  <2>2. /\ RingTypes' /\ PendingTypes' /\ HeldTypes' /\ ThreadTypes'
        /\ ProducerTypes' /\ FenceTypes' /\ PixelTypes'
    BY <1>6 DEF HandOver, TypeOK, RingTypes, PendingTypes, HeldTypes, ThreadTypes, ProducerTypes,
           FenceTypes, PixelTypes
  <2> QED BY <2>1, <2>2 DEF TypeOK
<1>7. ASSUME PumpEnds PROVE TypeOK'
  BY <1>7, SMTT(40) DEF PumpEnds, Values, Slots, Alive, Incoming, WinAssumption, TypeOK, RingTypes,
         PendingTypes, HeldTypes, ThreadTypes, ProducerTypes, LinkTypes, FenceTypes, PixelTypes
<1>8. ASSUME PumpFrame PROVE TypeOK'
  <2>1. LinkTypes' /\ PendingTypes'
    BY <1>8, UpMessages DEF PumpFrame, Incoming, TypeOK, LinkTypes, PendingTypes
  <2>2. RingTypes' /\ HeldTypes' /\ ThreadTypes' /\ ProducerTypes' /\ FenceTypes' /\ PixelTypes'
    BY <1>8 DEF PumpFrame, TypeOK, RingTypes, HeldTypes, ThreadTypes, ProducerTypes, FenceTypes,
           PixelTypes
  <2> QED BY <2>1, <2>2 DEF TypeOK
<1>9. ASSUME PumpGeometryKept PROVE TypeOK'
  <2>1. LinkTypes' BY <1>9, UpMessages DEF PumpGeometryKept, Incoming, TypeOK, LinkTypes
  <2>2. /\ RingTypes' /\ PendingTypes' /\ HeldTypes' /\ ThreadTypes'
        /\ ProducerTypes' /\ FenceTypes' /\ PixelTypes'
    BY <1>9 DEF PumpGeometryKept, TypeOK, RingTypes, PendingTypes, HeldTypes, ThreadTypes,
           ProducerTypes, FenceTypes, PixelTypes
  <2> QED BY <2>1, <2>2 DEF TypeOK
<1>10. ASSUME PumpGeometryChecked PROVE TypeOK'
  <2>1. LinkTypes' /\ RingTypes'
    BY <1>10, UpMessages DEF PumpGeometryChecked, Incoming, TypeOK, LinkTypes, RingTypes
  <2>2. PendingTypes' BY <1>10 DEF PumpGeometryChecked, TypeOK, PendingTypes
  <2>3. HeldTypes' /\ ThreadTypes' /\ ProducerTypes' /\ FenceTypes' /\ PixelTypes'
    BY <1>10 DEF PumpGeometryChecked, TypeOK, HeldTypes, ThreadTypes, ProducerTypes, FenceTypes,
           PixelTypes
  <2> QED BY <2>1, <2>2, <2>3 DEF TypeOK
<1>11. ASSUME Realloc PROVE TypeOK'
  BY <1>11 DEF Realloc, Values, Slots, Blank, WinAssumption, TypeOK, RingTypes, PendingTypes,
         HeldTypes, ThreadTypes, ProducerTypes, LinkTypes, FenceTypes, PixelTypes
<1>12. ASSUME ReallocFails PROVE TypeOK'
  BY <1>12 DEF ReallocFails, Values, Slots, Blank, WinAssumption, TypeOK, RingTypes, PendingTypes,
         HeldTypes, ThreadTypes, ProducerTypes, LinkTypes, FenceTypes, PixelTypes
<1>13. ASSUME AcquireFrame PROVE TypeOK'
  <2>1. PendingTypes' /\ HeldTypes' BY <1>13 DEF AcquireFrame, TypeOK, PendingTypes, HeldTypes
  <2>2. FenceTypes' BY <1>13 DEF AcquireFrame, PendingTypes, TypeOK, FenceTypes
  <2>3. PixelTypes' BY <1>13 DEF AcquireFrame, PendingTypes, TypeOK, PixelTypes
  <2>4. RingTypes' /\ ThreadTypes' /\ ProducerTypes' /\ LinkTypes'
    BY <1>13 DEF AcquireFrame, TypeOK, RingTypes, ThreadTypes, ProducerTypes, LinkTypes
  <2> QED BY <2>1, <2>2, <2>3, <2>4 DEF TypeOK
<1>14. ASSUME Release PROVE TypeOK'
  BY <1>14 DEF Release, Values, Slots, WinAssumption, TypeOK, RingTypes, PendingTypes, HeldTypes,
         ThreadTypes, ProducerTypes, LinkTypes, FenceTypes, PixelTypes
<1>15. ASSUME ReleaseSignal PROVE TypeOK'
  <2>1. HeldTypes' BY <1>15 DEF ReleaseSignal, Values, WinAssumption, TypeOK, HeldTypes
  <2>2. FenceTypes' BY <1>15, Signals DEF ReleaseSignal, HeldTypes, TypeOK, FenceTypes
  <2>3. RingTypes' /\ PendingTypes' /\ ThreadTypes' /\ ProducerTypes' /\ LinkTypes' /\ PixelTypes'
    BY <1>15 DEF ReleaseSignal, TypeOK, RingTypes, PendingTypes, ThreadTypes, ProducerTypes,
           LinkTypes, PixelTypes
  <2> QED BY <2>1, <2>2, <2>3 DEF TypeOK
<1>16. ASSUME NEW v \in Values, SignalConsumed(v) PROVE TypeOK'
  <2>1. FenceTypes' BY <1>16 DEF SignalConsumed, TypeOK, FenceTypes
  <2>2. /\ RingTypes' /\ PendingTypes' /\ HeldTypes' /\ ThreadTypes'
        /\ ProducerTypes' /\ LinkTypes' /\ PixelTypes'
    BY <1>16 DEF SignalConsumed, TypeOK, RingTypes, PendingTypes, HeldTypes, ThreadTypes,
           ProducerTypes, LinkTypes, PixelTypes
  <2> QED BY <2>1, <2>2 DEF TypeOK
<1>17. ASSUME GpuWriteDone PROVE TypeOK'
  <2>1. PixelTypes' /\ FenceTypes'
    BY <1>17 DEF GpuWriteDone, ProducerTypes, Announced, Values, WinAssumption, TypeOK, PixelTypes,
           FenceTypes
  <2>2. RingTypes' /\ PendingTypes' /\ HeldTypes' /\ ThreadTypes' /\ ProducerTypes' /\ LinkTypes'
    BY <1>17 DEF GpuWriteDone, TypeOK, RingTypes, PendingTypes, HeldTypes, ThreadTypes,
           ProducerTypes, LinkTypes
  <2> QED BY <2>1, <2>2 DEF TypeOK
<1>18. ASSUME GpuSignal PROVE TypeOK'
  <2>1. FenceTypes' BY <1>18, NextSignal DEF GpuSignal, TypeOK, FenceTypes
  <2>2. /\ RingTypes' /\ PendingTypes' /\ HeldTypes' /\ ThreadTypes'
        /\ ProducerTypes' /\ LinkTypes' /\ PixelTypes'
    BY <1>18 DEF GpuSignal, TypeOK, RingTypes, PendingTypes, HeldTypes, ThreadTypes, ProducerTypes,
           LinkTypes, PixelTypes
  <2> QED BY <2>1, <2>2 DEF TypeOK
<1>19. ASSUME NEW x \in reads, GpuReadDone(x) PROVE TypeOK'
  BY <1>19 DEF GpuReadDone, Values, Slots, WinAssumption, TypeOK, RingTypes, PendingTypes,
         HeldTypes, ThreadTypes, ProducerTypes, LinkTypes, FenceTypes, PixelTypes
<1>20. ASSUME Dial PROVE TypeOK'
  BY <1>20, SMTT(40) DEF Dial, Values, Slots, WinAssumption, TypeOK, RingTypes, PendingTypes, HeldTypes,
         ThreadTypes, ProducerTypes, LinkTypes, FenceTypes, PixelTypes
<1>21. ASSUME OpenBusy PROVE TypeOK'
  BY <1>21 DEF OpenBusy, Values, Slots, Arrived, WinAssumption, TypeOK, RingTypes, PendingTypes,
         HeldTypes, ThreadTypes, ProducerTypes, LinkTypes, FenceTypes, PixelTypes
<1>22. ASSUME OpenRing PROVE TypeOK'
  <2>1. LinkTypes' BY <1>22, DownMessages DEF OpenRing, Arrived, TypeOK, LinkTypes
  <2>2. ProducerTypes'
    <3>1. CASE Head(down).size > 0
      <4>1. Blank \in [Slots -> 0 .. Reserved] BY DEF Blank, Reserved, WinAssumption
      <4>2. Head(down).gen \in Nat /\ Head(down).size \in 0 .. PoolSize /\ Head(down).fences \in Nat
        BY <1>22, DownMessages DEF OpenRing, Arrived, TypeOK
      <4>3. ImportRing(Head(down)) /\ submittingSlot' = NoSlot BY <1>22, <3>1 DEF OpenRing
      <4> QED BY <4>1, <4>2, <4>3 DEF ImportRing, Values, NoSlot, WinAssumption, ProducerTypes
    <3>2. CASE ~(Head(down).size > 0) BY <1>22, <3>2 DEF OpenRing, TypeOK, ProducerTypes
    <3> QED BY <3>1, <3>2
  <2>3. PixelTypes' BY <1>22 DEF OpenRing, ImportRing, Values, WinAssumption, TypeOK, PixelTypes
  <2>4. RingTypes' /\ PendingTypes' /\ HeldTypes' /\ ThreadTypes' /\ FenceTypes'
    BY <1>22 DEF OpenRing, TypeOK, RingTypes, PendingTypes, HeldTypes, ThreadTypes, FenceTypes
  <2> QED BY <2>1, <2>2, <2>3, <2>4 DEF TypeOK
<1>23. ASSUME NEW s \in Slots, AcquireBuffer(s) PROVE TypeOK'
  BY <1>23, SMTT(40) DEF AcquireBuffer, Values, Slots, Reserved, WinAssumption, TypeOK, RingTypes,
         PendingTypes, HeldTypes, ThreadTypes, ProducerTypes, LinkTypes, FenceTypes, PixelTypes
<1>24. ASSUME NEW s \in Slots, CancelBuffer(s) PROVE TypeOK'
  BY <1>24, SMTT(40) DEF CancelBuffer, Values, Slots, Reserved, WinAssumption, TypeOK, RingTypes,
         PendingTypes, HeldTypes, ThreadTypes, ProducerTypes, LinkTypes, FenceTypes, PixelTypes
<1>25. ASSUME NEW s \in Slots, BeginSubmit(s) PROVE TypeOK'
  BY <1>25, SMTT(40) DEF BeginSubmit, Values, Slots, NoSlot, Reserved, WinAssumption, TypeOK, RingTypes,
         PendingTypes, HeldTypes, ThreadTypes, ProducerTypes, LinkTypes, FenceTypes, PixelTypes
<1>26. ASSUME EndSubmit PROVE TypeOK'
  <2>1. LinkTypes'
    BY <1>26, Sends DEF EndSubmit, ProducerTypes, Slots, NoSlot, WinAssumption, TypeOK, LinkTypes
  <2>2. ProducerTypes'
    BY <1>26 DEF EndSubmit, Values, Reserved, Slots, NoSlot, WinAssumption, TypeOK, ProducerTypes
  <2>3. PixelTypes' BY <1>26 DEF EndSubmit, ProducerTypes, TypeOK, PixelTypes
  <2>4. RingTypes' /\ PendingTypes' /\ HeldTypes' /\ ThreadTypes' /\ FenceTypes'
    BY <1>26 DEF EndSubmit, TypeOK, RingTypes, PendingTypes, HeldTypes, ThreadTypes, FenceTypes
  <2> QED BY <2>1, <2>2, <2>3, <2>4 DEF TypeOK
<1>27. ASSUME NEW w \in Geometries, SendRequestGeometry(w) PROVE TypeOK'
  <2>1. LinkTypes' BY <1>27, Sends DEF SendRequestGeometry, TypeOK, LinkTypes
  <2>2. /\ RingTypes' /\ PendingTypes' /\ HeldTypes' /\ ThreadTypes'
        /\ ProducerTypes' /\ FenceTypes' /\ PixelTypes'
    BY <1>27 DEF SendRequestGeometry, TypeOK, RingTypes, PendingTypes, HeldTypes, ThreadTypes,
           ProducerTypes, FenceTypes, PixelTypes
  <2> QED BY <2>1, <2>2 DEF TypeOK
<1>28. ASSUME GeometryReply PROVE TypeOK'
  <2>1. LinkTypes' BY <1>28, DownMessages DEF GeometryReply, Arrived, TypeOK, LinkTypes
  <2>2. ProducerTypes'
    BY <1>28, DownMessages DEF GeometryReply, Arrived, ImportRing, Blank, Values, Reserved, NoSlot,
           WinAssumption, TypeOK, ProducerTypes
  <2>3. PixelTypes'
    BY <1>28 DEF GeometryReply, ImportRing, Values, WinAssumption, TypeOK, PixelTypes
  <2>4. RingTypes' /\ PendingTypes' /\ HeldTypes' /\ ThreadTypes' /\ FenceTypes'
    BY <1>28 DEF GeometryReply, TypeOK, RingTypes, PendingTypes, HeldTypes, ThreadTypes, FenceTypes
  <2> QED BY <2>1, <2>2, <2>3, <2>4 DEF TypeOK
<1>29. ASSUME Leave PROVE TypeOK'
  <2>1. LinkTypes' BY <1>29, Sends DEF Leave, TypeOK, LinkTypes
  <2>2. /\ RingTypes' /\ PendingTypes' /\ HeldTypes' /\ ThreadTypes'
        /\ ProducerTypes' /\ FenceTypes' /\ PixelTypes'
    BY <1>29 DEF Leave, TypeOK, RingTypes, PendingTypes, HeldTypes, ThreadTypes, ProducerTypes,
           FenceTypes, PixelTypes
  <2> QED BY <2>1, <2>2 DEF TypeOK
<1>30. ASSUME UNCHANGED vars PROVE TypeOK'
  BY <1>30 DEF TypeOK, RingTypes, PendingTypes, HeldTypes, ThreadTypes, ProducerTypes, LinkTypes,
         FenceTypes, PixelTypes
<1> QED
  BY <1>0, <1>1, <1>2, <1>3, <1>4, <1>5, <1>6, <1>7, <1>8, <1>9, <1>10, <1>11, <1>12, <1>13, <1>14,
     <1>15, <1>16, <1>17, <1>18, <1>19, <1>20, <1>21, <1>22, <1>23, <1>24, <1>25, <1>26, <1>27,
     <1>28, <1>29, <1>30
  DEF Next, AcceptThread, Consumer, Gpu, Producer


(* What an end knows when it meets a RingDesc, and a RequestGeometry. *)
LEMMA RingArrives ==
  ASSUME TypeOK, Pipe, Arrived("RingDesc")
  PROVE  /\ Len(Tail(down)) = 0 /\ Head(down).gen = generation /\ Head(down).fences = fences
         /\ acc = "pump" /\ pc \in {"dialled", "geometry"} /\ Len(up) = 0
<1>1. LinkTypes /\ down # <<>> BY DEF TypeOK, Arrived
<1>2. Len(down) > 0 /\ Len(down) <= 1 BY <1>1, DownMessages DEF Pipe, Downward
<1> QED BY <1>1, <1>2, DownMessages DEF Pipe, Downward, Arrived

LEMMA GeometryAsked ==
  ASSUME TypeOK, Pipe, Incoming("RequestGeometry")
  PROVE  /\ Len(Tail(up)) = 0 /\ Len(up) <= 1 /\ Len(down) = 0
         /\ acc = "pump" /\ pc \in {"geometry", "gone"}
<1>1. LinkTypes /\ up # <<>> BY DEF TypeOK, Incoming
<1>2. Len(up) > 0 /\ up[1].type = "RequestGeometry" BY <1>1, UpMessages DEF Incoming
<1>3. Len(up) <= 1 /\ pc \in {"geometry", "gone"} BY <1>1, <1>2, Lengths DEF Pipe, Upward
<1> QED BY <1>1, <1>3, UpMessages DEF Pipe, Downward, Incoming, LinkTypes

LEMMA PipeKept ==
  ASSUME WinAssumption, TypeOK, Pipe, [Next]_vars PROVE Pipe'
<1> USE DEF vars, consumerVars, ringVars, pendingVars, heldVars, producerVars, linkVars, fenceVars, pixelVars
<1>0. ASSUME ResetFails PROVE Pipe'
  BY <1>0 DEF ResetFails, Pipe, Ends, Downward, Upward, FencePair, TypeOK, RingTypes, ThreadTypes,
         ProducerTypes, LinkTypes, FenceTypes, PixelTypes
<1>1. ASSUME HelloFails PROVE Pipe'
  BY <1>1 DEF HelloFails, Alive, Pipe, Ends, Downward, Upward, FencePair, TypeOK, RingTypes,
         ThreadTypes, ProducerTypes, LinkTypes, FenceTypes, PixelTypes
<1>2. ASSUME AttachBusy PROVE Pipe'
  <2>1. LinkTypes /\ Len(down) = 0 BY <1>2, Lengths DEF AttachBusy, Pipe, Downward
  <2>2. Downward'
    BY <1>2, <2>1, FirstDown DEF AttachBusy, Alive, Busy, TypeOK, ThreadTypes, Pipe, Ends, Downward
  <2>3. Upward' /\ Ends' /\ FencePair'
    BY <1>2 DEF AttachBusy, TypeOK, RingTypes, ThreadTypes, ProducerTypes, LinkTypes, FenceTypes,
           PixelTypes, Pipe, Ends, Downward, Upward, FencePair
  <2> QED BY <2>1, <2>2, <2>3 DEF Pipe
<1>3. ASSUME AttachChecked PROVE Pipe'
  BY <1>3 DEF AttachChecked, Alive, Pipe, Ends, Downward, Upward, FencePair, TypeOK, RingTypes,
         ThreadTypes, ProducerTypes, LinkTypes, FenceTypes, PixelTypes
<1>4. ASSUME ResetFences PROVE Pipe'
  BY <1>4 DEF ResetFences, Pipe, Ends, Downward, Upward, FencePair, TypeOK, RingTypes, ThreadTypes,
         ProducerTypes, LinkTypes, FenceTypes, PixelTypes
<1>5. ASSUME ResetPending PROVE Pipe'
  <2>1. FencePair'
    BY <1>5 DEF ResetPending, TypeOK, RingTypes, ThreadTypes, ProducerTypes, LinkTypes, FenceTypes,
           PixelTypes, Pipe, Ends, Downward, Upward, FencePair
  <2>2. Upward' /\ Ends' /\ Downward'
    BY <1>5 DEF ResetPending, TypeOK, RingTypes, ThreadTypes, ProducerTypes, LinkTypes, FenceTypes,
           PixelTypes, Pipe, Ends, Downward, Upward, FencePair
  <2> QED BY <2>1, <2>2 DEF Pipe
<1>6. ASSUME HandOver PROVE Pipe'
  <2>1. LinkTypes /\ Len(down) = 0 BY <1>6, Lengths DEF HandOver, Pipe, Downward
  <2>2. Downward' 
    <3>1. CASE Alive
      <4>1. down' = Append(down, RingDesc) /\ acc' = "pump" /\ pc \in {"dialled", "geometry"} /\ Len(up') = 0
        BY <1>6, <3>1 DEF HandOver, Alive, TypeOK, ThreadTypes, Pipe, Ends
      <4>2. RingDesc.type = "RingDesc" /\ RingDesc.gen = generation /\ RingDesc.fences = fences
        BY DEF RingDesc
      <4> QED BY <1>6, <2>1, <4>1, <4>2, FirstDown DEF HandOver, Downward
    <3>2. CASE ~Alive BY <1>6, <2>1, <3>2 DEF HandOver, Downward
    <3> QED BY <3>1, <3>2
  <2>3. Upward' /\ Ends' /\ FencePair'
    BY <1>6 DEF HandOver, Alive, TypeOK, RingTypes, ThreadTypes, ProducerTypes, LinkTypes,
           FenceTypes, PixelTypes, Pipe, Ends, Downward, Upward, FencePair
  <2> QED BY <2>1, <2>2, <2>3 DEF Pipe
<1>7. ASSUME PumpEnds PROVE Pipe'
  BY UpMessages, <1>7 DEF PumpEnds, Alive, Incoming, Bye, Pipe, Ends, Downward, Upward, FencePair,
         TypeOK, RingTypes, ThreadTypes, ProducerTypes, LinkTypes, FenceTypes, PixelTypes
<1>8. ASSUME PumpFrame PROVE Pipe'
  BY UpMessages, <1>8 DEF PumpFrame, Incoming, FrameReady, Pipe, Ends, Downward, Upward, FencePair,
         TypeOK, RingTypes, ThreadTypes, ProducerTypes, LinkTypes, FenceTypes, PixelTypes
<1>9. ASSUME PumpGeometryKept PROVE Pipe'
  <2>1. Upward' /\ Ends' /\ Downward'
    BY <1>9, GeometryAsked DEF PumpGeometryKept, TypeOK, RingTypes, ThreadTypes, ProducerTypes,
           LinkTypes, FenceTypes, PixelTypes, Pipe, Ends, Downward, Upward, FencePair
  <2>2. FencePair' BY <1>9, GeometryAsked DEF PumpGeometryKept, Pipe, FencePair
  <2> QED BY <2>1, <2>2 DEF Pipe
<1>10. ASSUME PumpGeometryChecked PROVE Pipe'
  <2>1. Upward' /\ Ends' /\ Downward'
    BY <1>10, GeometryAsked DEF PumpGeometryChecked, TypeOK, RingTypes, ThreadTypes, ProducerTypes,
           LinkTypes, FenceTypes, PixelTypes, Pipe, Ends, Downward, Upward, FencePair
  <2>2. FencePair' BY <1>10, GeometryAsked DEF PumpGeometryChecked, Pipe, FencePair
  <2> QED BY <2>1, <2>2 DEF Pipe
<1>11. ASSUME Realloc PROVE Pipe'
  BY <1>11 DEF Realloc, Pipe, Ends, Downward, Upward, FencePair, TypeOK, RingTypes, ThreadTypes,
         ProducerTypes, LinkTypes, FenceTypes, PixelTypes
<1>12. ASSUME ReallocFails PROVE Pipe'
  BY <1>12 DEF ReallocFails, Pipe, Ends, Downward, Upward, FencePair, TypeOK, RingTypes,
         ThreadTypes, ProducerTypes, LinkTypes, FenceTypes, PixelTypes
<1>13. ASSUME AcquireFrame PROVE Pipe'
  BY <1>13 DEF AcquireFrame, Pipe, Ends, Downward, Upward, FencePair, TypeOK, RingTypes,
         ThreadTypes, ProducerTypes, LinkTypes, FenceTypes, PixelTypes
<1>14. ASSUME Release PROVE Pipe'
  BY <1>14 DEF Release, Pipe, Ends, Downward, Upward, FencePair, TypeOK, RingTypes, ThreadTypes,
         ProducerTypes, LinkTypes, FenceTypes, PixelTypes
<1>15. ASSUME ReleaseSignal PROVE Pipe'
  BY <1>15 DEF ReleaseSignal, Pipe, Ends, Downward, Upward, FencePair, TypeOK, RingTypes,
         ThreadTypes, ProducerTypes, LinkTypes, FenceTypes, PixelTypes
<1>16. ASSUME NEW v \in Values, SignalConsumed(v) PROVE Pipe'
  BY <1>16 DEF SignalConsumed, Pipe, Ends, Downward, Upward, FencePair, TypeOK, RingTypes,
         ThreadTypes, ProducerTypes, LinkTypes, FenceTypes, PixelTypes
<1>17. ASSUME GpuWriteDone PROVE Pipe'
  BY <1>17 DEF GpuWriteDone, Pipe, Ends, Downward, Upward, FencePair, TypeOK, RingTypes,
         ThreadTypes, ProducerTypes, LinkTypes, FenceTypes, PixelTypes
<1>18. ASSUME GpuSignal PROVE Pipe'
  BY <1>18 DEF GpuSignal, Pipe, Ends, Downward, Upward, FencePair, TypeOK, RingTypes, ThreadTypes,
         ProducerTypes, LinkTypes, FenceTypes, PixelTypes
<1>19. ASSUME NEW x \in reads, GpuReadDone(x) PROVE Pipe'
  BY <1>19 DEF GpuReadDone, Pipe, Ends, Downward, Upward, FencePair, TypeOK, RingTypes,
         ThreadTypes, ProducerTypes, LinkTypes, FenceTypes, PixelTypes
<1>20. ASSUME Dial PROVE Pipe'
  BY <1>20 DEF Dial, Pipe, Ends, Downward, Upward, FencePair, TypeOK, RingTypes, ThreadTypes,
         ProducerTypes, LinkTypes, FenceTypes, PixelTypes
<1>21. ASSUME OpenBusy PROVE Pipe'
  <2>1. Len(Tail(down)) = 0 BY <1>21, DownMessages DEF OpenBusy, Arrived, TypeOK, Pipe, Downward
  <2>2. Downward' BY <1>21, <2>1 DEF OpenBusy, Downward
  <2>3. Upward' /\ Ends' /\ FencePair'
    BY <1>21 DEF OpenBusy, TypeOK, RingTypes, ThreadTypes, ProducerTypes, LinkTypes, FenceTypes,
           PixelTypes, Pipe, Ends, Downward, Upward, FencePair
  <2> QED BY <2>1, <2>2, <2>3 DEF Pipe
<1>22. ASSUME OpenRing PROVE Pipe'
  <2>1. Len(up') = 0 /\ Len(down') = 0 BY <1>22, RingArrives DEF OpenRing
  <2>2. Upward' /\ Downward' BY <2>1 DEF Upward, Downward
  <2>3. Ends' BY <1>22, RingArrives DEF OpenRing, ImportRing, Pipe, Ends
  <2>4. FencePair'
    BY <1>22, RingArrives DEF OpenRing, ImportRing, TypeOK, RingTypes, ThreadTypes, ProducerTypes,
           LinkTypes, FenceTypes, PixelTypes, Pipe, FencePair
  <2> QED BY <2>1, <2>2, <2>3, <2>4 DEF Pipe
<1>23. ASSUME NEW s \in Slots, AcquireBuffer(s) PROVE Pipe'
  BY <1>23 DEF AcquireBuffer, Pipe, Ends, Downward, Upward, FencePair, TypeOK, RingTypes,
         ThreadTypes, ProducerTypes, LinkTypes, FenceTypes, PixelTypes
<1>24. ASSUME NEW s \in Slots, CancelBuffer(s) PROVE Pipe'
  BY <1>24 DEF CancelBuffer, Pipe, Ends, Downward, Upward, FencePair, TypeOK, RingTypes,
         ThreadTypes, ProducerTypes, LinkTypes, FenceTypes, PixelTypes
<1>25. ASSUME NEW s \in Slots, BeginSubmit(s) PROVE Pipe'
  BY <1>25 DEF BeginSubmit, Pipe, Ends, Downward, Upward, FencePair, TypeOK, RingTypes,
         ThreadTypes, ProducerTypes, LinkTypes, FenceTypes, PixelTypes
<1>26. ASSUME EndSubmit PROVE Pipe'
  <2>1. Downward' /\ Ends' /\ FencePair'
    BY <1>26 DEF EndSubmit, Pipe, Ends, Downward, FencePair, TypeOK, ThreadTypes, LinkTypes
  <2>2. Upward'
    BY <1>26, AppendUp DEF EndSubmit, FrameReady, Pipe, Upward, TypeOK, LinkTypes
  <2> QED BY <2>1, <2>2 DEF Pipe
<1>27. ASSUME NEW w \in Geometries, SendRequestGeometry(w) PROVE Pipe'
  BY <1>27 DEF SendRequestGeometry, RequestGeometry, Pipe, Ends, Downward, Upward, FencePair,
         TypeOK, RingTypes, ThreadTypes, ProducerTypes, LinkTypes, FenceTypes, PixelTypes
<1>28. ASSUME GeometryReply PROVE Pipe'
  <2>1. Len(up') = 0 /\ Len(down') = 0 BY <1>28, RingArrives DEF GeometryReply
  <2>2. Upward' /\ Downward' BY <2>1 DEF Upward, Downward
  <2>3. Ends' BY <1>28, RingArrives DEF GeometryReply, ImportRing, Pipe, Ends
  <2>4. FencePair'
    BY <1>28, RingArrives DEF GeometryReply, ImportRing, TypeOK, RingTypes, ThreadTypes,
           ProducerTypes, LinkTypes, FenceTypes, PixelTypes, Pipe, FencePair
  <2> QED BY <2>1, <2>2, <2>3, <2>4 DEF Pipe
<1>29. ASSUME Leave PROVE Pipe'
  <2>1. Downward' /\ Ends' /\ FencePair'
    BY <1>29 DEF Leave, Alive, Pipe, Downward, Ends, FencePair, TypeOK, ThreadTypes, LinkTypes
  <2>2. Upward' BY <1>29 DEF Leave, Alive, Bye, Pipe, Upward, TypeOK, LinkTypes
  <2> QED BY <2>1, <2>2 DEF Pipe
<1>30. ASSUME UNCHANGED vars PROVE Pipe'
  BY <1>30 DEF Pipe, Ends, Downward, Upward, FencePair
<1> QED
  BY <1>0, <1>1, <1>2, <1>3, <1>4, <1>5, <1>6, <1>7, <1>8, <1>9, <1>10, <1>11, <1>12, <1>13, <1>14,
     <1>15, <1>16, <1>17, <1>18, <1>19, <1>20, <1>21, <1>22, <1>23, <1>24, <1>25, <1>26, <1>27,
     <1>28, <1>29, <1>30
  DEF Next, AcceptThread, Consumer, Gpu, Producer

(* What the producer is about to draw over was signalled as consumed, and   *)
(* what it submits shows nothing yet.                                       *)
LEMMA Redrawn ==
  ASSUME WinAssumption, TypeOK, Timeline, NEW s \in Slots, AcquireBuffer(s)
  PROVE  image[s] <= consumed /\ image' = [image EXCEPT ![s] = 0]
<1>1. pc = "idle" /\ slotReadyValue[s] <= consumed /\ image' = [image EXCEPT ![s] = 0]
  BY DEF AcquireBuffer, Free
<1>2. Drawings /\ consumed \in Nat /\ consumed <= MaxValue /\ MaxValue \in Nat
  BY <1>1 DEF Timeline, Drawn, Synced, TypeOK, FenceTypes, Values, WinAssumption
<1> QED BY <1>1, <1>2 DEF Drawings, Shown, Reserved

LEMMA Submitted ==
  ASSUME WinAssumption, TypeOK, Timeline, EndSubmit
  PROVE  /\ submittingSlot \in Slots /\ image[submittingSlot] = 0 /\ Drawings
         /\ image' = [image EXCEPT ![submittingSlot] = readyValue] /\ Announced = readyValue - 1
<1>1. /\ pc = "idle" /\ submittingSlot # NoSlot /\ submittingSlot \in Slots
      /\ image' = [image EXCEPT ![submittingSlot] = readyValue]
  BY DEF EndSubmit, TypeOK, ProducerTypes, NoSlot, Slots, WinAssumption
<1> QED BY <1>1 DEF Timeline, Drawn, Synced, Drawings, Shown, Submitting, Announced

(* Frames that are read, and those still to be signalled, lie above the completed value. *)
LEMMA ReadingKept ==
  ASSUME WinAssumption, TypeOK, Pipe, Timeline, GpuSync \/ Defer, ~Reattach, [Next]_vars
  PROVE  Reading'
<1> USE DEF vars, consumerVars, ringVars, pendingVars, heldVars, producerVars, linkVars, fenceVars, pixelVars
<1>0. ASSUME ResetFails PROVE Reading'
  BY <1>0 DEF ResetFails, Timeline, Reading, Starts, Quiet, Fresh, TypeOK, HeldTypes, Values
<1>1. ASSUME ResetFences PROVE Reading'
  BY <1>1 DEF ResetFences, Timeline, Reading, Starts, Quiet, Fresh, TypeOK, HeldTypes, Values
<1>2. ASSUME ResetPending PROVE Reading'
  BY <1>2 DEF ResetPending, Timeline, Reading, Starts, Quiet, Fresh
<1>3. ASSUME Realloc PROVE Reading'
  BY <1>3 DEF Realloc, Timeline, Reading, Starts, Quiet, Fresh
<1>4. ASSUME ReallocFails PROVE Reading'
  BY <1>4 DEF ReallocFails, Timeline, Reading, Starts, Quiet, Fresh
<1>5. ASSUME AcquireFrame PROVE Reading'
  <2>1. consumed <= heldReady /\ heldReady < pendingReady /\ {consumed, heldReady, pendingReady} \subseteq Nat
    BY <1>5 DEF AcquireFrame, Timeline, Reading, Coming, Waits, TypeOK, FenceTypes, HeldTypes,
           PendingTypes, Values
  <2>2. image' = image /\ consumed' = consumed /\ heldReady' = pendingReady BY <1>5 DEF AcquireFrame
  <2>3. ASSUME NEW x \in reads'
        PROVE  consumed < x.val /\ x.val <= pendingReady /\ image[x.slot] = x.val
    <3>1. CASE x \in reads
      <4>1. x.val \in Nat BY <3>1 DEF TypeOK, PixelTypes, Values
      <4> QED BY <2>1, <3>1, <4>1 DEF Timeline, Reading
    <3>2. CASE x = [slot |-> pendingSlot, val |-> pendingReady]
      BY <1>5, <2>1, <3>2 DEF AcquireFrame, Timeline, Coming, Waits
    <3> QED BY <1>5, <2>3, <3>1, <3>2 DEF AcquireFrame
  <2>4. ASSUME NEW u \in owed' PROVE consumed < u /\ u <= pendingReady
    <3>1. u = pendingReady \/ (u \in owed /\ u \in Nat)
      BY <1>5, <2>4 DEF AcquireFrame, TypeOK, FenceTypes, Values
    <3> QED BY <2>1, <3>1 DEF Timeline, Reading
  <2> QED BY <2>1, <2>2, <2>3, <2>4 DEF Reading
<1>6. ASSUME NEW v \in Values, SignalConsumed(v) PROVE Reading'
  BY <1>6 DEF SignalConsumed, Timeline, Reading, Starts, Quiet, Fresh
<1>7. ASSUME GpuSignal PROVE Reading'
  <2>1. signals # <<>> /\ FenceTypes BY <1>7 DEF GpuSignal, TypeOK
  <2>2. Head(signals).val <= heldReady /\ \A u \in owed : Head(signals).val < u
    BY <2>1, NextSignal DEF Timeline, Signalling
  <2>3. \A x \in reads : x.val \in Nat /\ Head(signals).val < x.val
    <3>1. \A x \in reads : x.val \in Nat BY DEF TypeOK, PixelTypes, Values
    <3>2. Head(signals).val \in Nat BY <2>1, NextSignal DEF Values
    <3> QED BY <1>7, <3>1, <3>2 DEF GpuSignal
  <2>4. consumed' \in {consumed, Head(signals).val} BY <1>7 DEF GpuSignal
  <2> QED BY <1>7, <2>2, <2>3, <2>4 DEF GpuSignal, Timeline, Reading
<1>8. ASSUME NEW x \in reads, GpuReadDone(x) PROVE Reading'
  BY <1>8 DEF GpuReadDone, Timeline, Reading, Starts, Quiet, Fresh
<1>9. ASSUME NEW s \in Slots, AcquireBuffer(s) PROVE Reading'
  <2>1. image[s] <= consumed /\ image' = [image EXCEPT ![s] = 0] BY <1>9, Redrawn
  <2>3. ASSUME NEW x \in reads PROVE x.slot # s
    <3>1. consumed < image[x.slot] /\ image[x.slot] \in Nat /\ consumed \in Nat
      BY DEF Timeline, Reading, TypeOK, PixelTypes, FenceTypes, Values
    <3> QED BY <2>1, <3>1
  <2> QED BY <1>9, <2>1, <2>3 DEF AcquireBuffer, Timeline, Reading, TypeOK, PixelTypes
<1>10. ASSUME EndSubmit PROVE Reading'
  <2>1. /\ submittingSlot \in Slots /\ image[submittingSlot] = 0
        /\ image' = [image EXCEPT ![submittingSlot] = readyValue]
    BY <1>10, Submitted
  <2>3. ASSUME NEW x \in reads PROVE x.slot # submittingSlot
    BY <2>1 DEF Timeline, Reading, TypeOK, PixelTypes, FenceTypes, Values
  <2> QED BY <1>10, <2>1, <2>3 DEF EndSubmit, Timeline, Reading, TypeOK, PixelTypes
<1>11. ASSUME UNCHANGED <<consumed, heldReady, reads, owed, image>> PROVE Reading'
  BY <1>11 DEF Timeline, Reading
<1> QED
  BY <1>0, <1>1, <1>2, <1>3, <1>4, <1>5, <1>6, <1>7, <1>8, <1>9, <1>10, <1>11
  DEF Next, AcceptThread, Consumer, Gpu, Producer,
    HelloFails, AttachBusy, AttachChecked, HandOver, PumpEnds, PumpFrame, PumpGeometryKept,
    PumpGeometryChecked, Release, ReleaseSignal, GpuWriteDone, Dial, OpenBusy, OpenRing,
    CancelBuffer, BeginSubmit, SendRequestGeometry, GeometryReply, Leave

(* Signals wait in the order of their values, below what is still to be signalled. *)
LEMMA SignallingKept ==
  ASSUME WinAssumption, TypeOK, Pipe, Timeline, GpuSync \/ Defer, ~Reattach, [Next]_vars
  PROVE  Signalling'
<1> USE DEF vars, consumerVars, ringVars, pendingVars, heldVars, producerVars, linkVars, fenceVars, pixelVars
<1>0. ASSUME ResetFails PROVE Signalling'
  BY <1>0 DEF ResetFails, Timeline, Signalling, Starts, Quiet
<1>1. ASSUME ResetFences PROVE Signalling'
  BY <1>1 DEF ResetFences, Timeline, Signalling, Starts, Quiet
<1>2. ASSUME ResetPending PROVE Signalling'
  BY <1>2 DEF ResetPending, Timeline, Signalling, Starts, Quiet
<1>3. ASSUME AcquireFrame PROVE Signalling'
  <2>1. heldReady < pendingReady /\ heldReady' = pendingReady /\ consumed' = consumed /\ signals' = signals
    BY <1>3 DEF AcquireFrame, Timeline, Coming, Waits
  <2>2. heldReady \in Nat /\ pendingReady \in Nat BY DEF TypeOK, HeldTypes, PendingTypes, Values
  <2>3. \A u \in owed' : u \in owed \/ u = pendingReady BY <1>3 DEF AcquireFrame
  <2>4. ASSUME NEW i \in 1 .. Len(signals)
        PROVE  /\ consumed < signals[i].val /\ signals[i].val <= pendingReady
               /\ \A u \in owed' : signals[i].val < u
               /\ \A j \in 1 .. i - 1 : signals[j].val < signals[i].val
    <3>1. signals[i].val \in Nat BY SignalAt DEF TypeOK, Values
    <3>2. consumed < signals[i].val /\ signals[i].val <= heldReady /\ (\A u \in owed : signals[i].val < u)
      BY DEF Timeline, Signalling
    <3>3. \A j \in 1 .. i - 1 : signals[j].val < signals[i].val BY DEF Timeline, Signalling
    <3>4. signals[i].val < pendingReady BY <2>1, <2>2, <3>1, <3>2
    <3> QED BY <2>2, <2>3, <3>1, <3>2, <3>3, <3>4
  <2> QED BY <2>1, <2>4 DEF Signalling
<1>4. ASSUME ReleaseSignal PROVE Signalling'
  BY <1>4 DEF ReleaseSignal, Timeline, Signalling
<1>5. ASSUME NEW v \in Values, SignalConsumed(v) PROVE Signalling'
  <2> DEFINE m == [fences |-> fences, val |-> v]
  <2>1. signals' = Append(signals, m) /\ consumed' = consumed /\ heldReady' = heldReady
    BY <1>5 DEF SignalConsumed
  <2>2. \A u \in owed' : u \in owed /\ v < u BY <1>5 DEF SignalConsumed, TypeOK, FenceTypes, Values
  <2>3. consumed < v /\ v <= heldReady /\ v \in owed BY <1>5 DEF SignalConsumed, Timeline, Reading
  <2>4. /\ Len(signals') = Len(signals) + 1 /\ Len(signals) \in Nat /\ signals'[Len(signals) + 1] = m
        /\ \A i \in 1 .. Len(signals) : signals'[i] = signals[i]
    BY <2>1 DEF TypeOK, FenceTypes
  <2>5. m.val = v OBVIOUS
  <2> HIDE DEF m
  <2>6. \A i \in 1 .. Len(signals) : /\ consumed < signals[i].val /\ signals[i].val <= heldReady
                                      /\ \A u \in owed : signals[i].val < u
    BY DEF Timeline, Signalling
  <2>8. \A a \in 1 .. Len(signals) : \A b \in 1 .. a - 1 : signals[b].val < signals[a].val
    BY DEF Timeline, Signalling
  <2>7. ASSUME NEW i \in 1 .. Len(signals')
        PROVE  /\ consumed < signals'[i].val /\ signals'[i].val <= heldReady
               /\ \A u \in owed' : signals'[i].val < u
               /\ \A j \in 1 .. i - 1 : signals'[j].val < signals'[i].val
    <3>1. CASE i \in 1 .. Len(signals)
      <4>1. /\ signals'[i] = signals[i]
            /\ \A j \in 1 .. i - 1 : j \in 1 .. Len(signals) /\ signals'[j] = signals[j]
        BY <2>4, <3>1
      <4>2. \A u \in owed' : signals[i].val < u BY <2>2, <2>6, <3>1
      <4>3. \A j \in 1 .. i - 1 : signals[j].val < signals[i].val BY <2>8, <3>1
      <4>4. consumed < signals[i].val /\ signals[i].val <= heldReady BY <2>6, <3>1
      <4> QED BY <4>1, <4>2, <4>3, <4>4
    <3>2. CASE i = Len(signals) + 1 BY <2>2, <2>3, <2>4, <2>5, <2>6, <3>2
    <3> QED BY <2>4, <3>1, <3>2
  <2> QED BY <2>1, <2>7 DEF Signalling
<1>6. ASSUME GpuSignal PROVE Signalling'
  <2>1. signals # <<>> /\ FenceTypes BY <1>6 DEF GpuSignal, TypeOK
  <2>2. /\ signals' = Tail(signals) /\ owed' = owed /\ heldReady' = heldReady
        /\ consumed' \in {consumed, signals[1].val}
    BY <1>6, <2>1, NextSignal DEF GpuSignal
  <2>3. /\ Len(signals') = Len(signals) - 1 /\ Len(signals) \in Nat
        /\ \A i \in 1 .. Len(signals) - 1 : signals'[i] = signals[i + 1]
    BY <2>1, <2>2, NextSignal, Lengths
  <2>4. \A i \in 1 .. Len(signals) : /\ consumed < signals[i].val /\ signals[i].val <= heldReady
                                      /\ \A u \in owed : signals[i].val < u
    BY DEF Timeline, Signalling
  <2>6. \A a \in 1 .. Len(signals) : \A b \in 1 .. a - 1 : signals[b].val < signals[a].val
    BY DEF Timeline, Signalling
  <2>5. ASSUME NEW i \in 1 .. Len(signals')
        PROVE  /\ consumed' < signals'[i].val /\ signals'[i].val <= heldReady
               /\ \A u \in owed : signals'[i].val < u
               /\ \A j \in 1 .. i - 1 : signals'[j].val < signals'[i].val
    <3>1. i + 1 \in 1 .. Len(signals) /\ 1 \in 1 .. (i + 1) - 1 BY <2>3
    <3>2. signals'[i] = signals[i + 1] BY <2>3
    <3>3. consumed' < signals[i + 1].val
      <4>1. consumed < signals[i + 1].val /\ signals[1].val < signals[i + 1].val BY <2>4, <2>6, <3>1
      <4> QED BY <2>2, <4>1
    <3>4. \A j \in 1 .. i - 1 : j + 1 \in 1 .. (i + 1) - 1 /\ signals'[j] = signals[j + 1] BY <2>3
    <3>5. \A j \in 1 .. i - 1 : signals'[j].val < signals'[i].val BY <2>6, <3>1, <3>2, <3>4
    <3>6. signals[i + 1].val <= heldReady /\ \A u \in owed : signals[i + 1].val < u BY <2>4, <3>1
    <3> QED BY <3>2, <3>3, <3>5, <3>6
  <2> QED BY <2>2, <2>5 DEF Signalling
<1>7. ASSUME UNCHANGED <<consumed, heldReady, signals, owed>> PROVE Signalling'
  BY <1>7 DEF Timeline, Signalling
<1> QED
  BY <1>0, <1>1, <1>2, <1>3, <1>4, <1>5, <1>6, <1>7 DEF Next, AcceptThread, Consumer, Gpu, Producer,
    HelloFails, AttachBusy, AttachChecked, HandOver, PumpEnds, PumpFrame, PumpGeometryKept,
    PumpGeometryChecked, Realloc, ReallocFails, Release, GpuWriteDone, GpuReadDone, Dial, OpenBusy,
    OpenRing, AcquireBuffer, CancelBuffer, BeginSubmit, EndSubmit, SendRequestGeometry,
    GeometryReply, Leave

(* A message that announces no frame changes nothing about those that do. *)
LEMMA ComingKept ==
  ASSUME TypeOK, Timeline, NEW m, m.type # "FrameReady", up' = Append(up, m),
         UNCHANGED <<pendingVars, heldReady, image>>
  PROVE  Coming'
<1> USE DEF pendingVars
<1>1. \A i \in 1 .. Len(up') : up'[i].type = "FrameReady" => i \in 1 .. Len(up) /\ up'[i] = up[i]
  BY AppendUp, Lengths
<1>2. \A i \in 1 .. Len(up) : Comes(i) BY DEF Timeline, Coming
<1>3. \A j \in 1 .. Len(up) : \A i \in 1 .. j - 1 : Follows(i, j) BY DEF Timeline, Coming
<1>4. Waits' BY DEF Timeline, Coming, Waits
<1>5. \A i \in 1 .. Len(up') : Comes(i)' BY <1>1, <1>2 DEF Comes
<1>6. ASSUME NEW j \in 1 .. Len(up'), NEW i \in 1 .. j - 1 PROVE Follows(i, j)'
  <2>1. i \in 1 .. Len(up') BY Lengths, AppendUp
  <2>2. CASE up'[j].type = "FrameReady"
    <3>1. Follows(i, j) BY <1>1, <1>3, <2>2
    <3> QED BY <1>1, <2>1, <2>2, <3>1 DEF Follows
  <2>3. CASE up'[j].type # "FrameReady" BY <2>3 DEF Follows
  <2> QED BY <2>2, <2>3
<1> QED BY <1>4, <1>5, <1>6 DEF Coming

(* The frames pending and announced are in their slots, and newer than all taken. *)
LEMMA ComingStep ==
  ASSUME WinAssumption, TypeOK, Pipe, Timeline, GpuSync \/ Defer, ~Reattach, [Next]_vars
  PROVE  Coming'
<1> USE DEF vars, consumerVars, ringVars, pendingVars, heldVars, producerVars, linkVars, fenceVars, pixelVars
<1>0. ASSUME ResetFails PROVE Coming'
  BY <1>0 DEF ResetFails, Timeline, Coming, Waits, Comes, Follows, Pipe, Ends, Starts, Quiet
<1>1. ASSUME HelloFails PROVE Coming'
  BY <1>1 DEF HelloFails, Timeline, Coming, Waits, Comes, Follows
<1>2. ASSUME ResetPending PROVE Coming'
  BY <1>2 DEF ResetPending, Timeline, Coming, Waits, Comes, Follows, Pipe, Ends
<1>3. ASSUME HandOver PROVE Coming'
  BY <1>3 DEF HandOver, Timeline, Coming, Waits, Comes, Follows
<1>4. ASSUME PumpEnds PROVE Coming'
  BY <1>4 DEF PumpEnds, Timeline, Coming, Waits, Comes, Follows
<1>5. ASSUME PumpFrame PROVE Coming'
  <2>1. LinkTypes /\ up # <<>> /\ up' = Tail(up) BY <1>5 DEF PumpFrame, Incoming, TypeOK
  <2>2. /\ Len(up') = Len(up) - 1 /\ Len(up) \in Nat /\ Len(up) > 0 /\ Head(up) = up[1]
        /\ \A i \in 1 .. Len(up') : i + 1 \in 1 .. Len(up) /\ 1 \in 1 .. (i + 1) - 1 /\ up'[i] = up[i + 1]
    <3>1. Len(up') = Len(up) - 1 /\ Len(up) \in Nat /\ Len(up) > 0 /\ Head(up) = up[1]
      BY <2>1, UpMessages, Lengths
    <3>2. \A i \in 1 .. Len(up) - 1 : up'[i] = up[i + 1] BY <2>1, UpMessages
    <3> QED BY <3>1, <3>2
  <2>3. /\ up[1].type = "FrameReady" /\ hasPending' = TRUE
        /\ pendingSlot' = up[1].slot /\ pendingReady' = up[1].val
        /\ image' = image /\ heldReady' = heldReady
    BY <1>5, <2>2 DEF PumpFrame, Incoming
  <2>4. Waits'
    <3>1. Comes(1) BY <2>2 DEF Timeline, Coming
    <3> QED BY <2>3, <3>1 DEF Comes, Waits
  <2>5. ASSUME NEW i \in 1 .. Len(up') PROVE Comes(i)'
    <3>1. Comes(i + 1) BY <2>2 DEF Timeline, Coming
    <3>2. Follows(1, i + 1) BY <2>2 DEF Timeline, Coming
    <3>3. up[1].val \in Nat /\ (up[i + 1].type = "FrameReady" => up[i + 1].val \in Nat)
      <4>1. 1 \in 1 .. Len(up) /\ i + 1 \in 1 .. Len(up) BY <2>2
      <4> QED BY <2>1, <2>3, <4>1, UpAt DEF Values
    <3> QED BY <2>2, <2>3, <3>1, <3>2, <3>3 DEF Comes, Follows
  <2>6. ASSUME NEW j \in 1 .. Len(up'), NEW i \in 1 .. j - 1 PROVE Follows(i, j)'
    <3>1. i \in 1 .. Len(up') /\ i + 1 \in 1 .. (j + 1) - 1 /\ j + 1 \in 1 .. Len(up) BY <2>2
    <3>2. Follows(i + 1, j + 1) BY <3>1 DEF Timeline, Coming
    <3> QED BY <2>2, <3>1, <3>2 DEF Follows
  <2> QED BY <2>4, <2>5, <2>6 DEF Coming
<1>6. ASSUME PumpGeometryKept PROVE Coming'
  <2>1. Len(up') = 0 BY <1>6, GeometryAsked DEF PumpGeometryKept
  <2>2. Waits' BY <1>6 DEF PumpGeometryKept, Timeline, Coming, Waits
  <2> QED BY <2>1, <2>2 DEF Coming
<1>7. ASSUME PumpGeometryChecked PROVE Coming'
  <2>1. Len(up') = 0 BY <1>7, GeometryAsked DEF PumpGeometryChecked
  <2>2. Waits' BY <1>7 DEF PumpGeometryChecked, Timeline, Coming, Waits
  <2> QED BY <2>1, <2>2 DEF Coming
<1>8. ASSUME Realloc PROVE Coming'
  BY <1>8 DEF Realloc, Timeline, Coming, Waits, Comes, Follows, Starts, Quiet, Pipe, Ends
<1>9. ASSUME ReallocFails PROVE Coming'
  BY <1>9 DEF ReallocFails, Timeline, Coming, Waits, Comes, Follows, Starts, Quiet, Pipe, Ends
<1>10. ASSUME AcquireFrame PROVE Coming'
  <2>1. heldReady' = pendingReady /\ hasPending /\ ~hasPending' /\ image' = image /\ up' = up
    BY <1>10 DEF AcquireFrame
  <2> QED BY <2>1 DEF Timeline, Coming, Waits, Comes, Follows
<1>11. ASSUME NEW s \in Slots, AcquireBuffer(s) PROVE Coming'
  <2>1. image[s] <= consumed /\ image' = [image EXCEPT ![s] = 0] BY <1>11, Redrawn
  <2>2. consumed <= heldReady /\ {consumed, heldReady, pendingReady, image[s]} \subseteq Nat
    BY DEF Timeline, Reading, TypeOK, FenceTypes, HeldTypes, PendingTypes, PixelTypes, Values
  <2>3. hasPending => pendingSlot # s BY <2>1, <2>2 DEF Timeline, Coming, Waits
  <2>4. ASSUME NEW i \in 1 .. Len(up), up[i].type = "FrameReady"
        PROVE  up[i].slot # s /\ up[i].slot \in Slots
    <3>1. up[i].slot \in Slots /\ up[i].val \in Nat BY <2>4, UpAt, Lengths DEF Values
    <3>2. image[up[i].slot] > heldReady BY <2>4 DEF Timeline, Coming, Comes
    <3> QED BY <2>1, <2>2, <3>1, <3>2
  <2>5. Waits'
    BY <1>11, <2>1, <2>3 DEF AcquireBuffer, Timeline, Coming, Waits, TypeOK, PendingTypes,
           PixelTypes
  <2>6. \A i \in 1 .. Len(up) : Comes(i)'
    BY <1>11, <2>1, <2>4 DEF AcquireBuffer, Timeline, Coming, Comes, TypeOK, PixelTypes
  <2> QED BY <1>11, <2>5, <2>6 DEF AcquireBuffer, Timeline, Coming, Follows
<1>12. ASSUME EndSubmit PROVE Coming'
  <2> DEFINE m == FrameReady(submittingSlot, readyValue)
  <2>1. /\ submittingSlot \in Slots /\ image' = [image EXCEPT ![submittingSlot] = readyValue]
        /\ image[submittingSlot] = 0 /\ Drawings /\ Announced = readyValue - 1
    BY <1>12, Submitted
  <2>2. {readyValue, heldReady, pendingReady} \subseteq Nat
    BY DEF TypeOK, ProducerTypes, HeldTypes, PendingTypes, Values
  <2>3. up' = Append(up, m) /\ UNCHANGED <<hasPending, pendingSlot, pendingReady, heldReady>>
    BY <1>12 DEF EndSubmit
  <2>4. m.type = "FrameReady" /\ m.slot = submittingSlot /\ m.val = readyValue BY DEF FrameReady
  <2> HIDE DEF m
  <2>5. /\ Len(up') = Len(up) + 1 /\ Len(up) \in Nat /\ up'[Len(up) + 1] = m
        /\ \A i \in 1 .. Len(up) : up'[i] = up[i]
    BY <2>3, AppendUp, Lengths
  <2>6. hasPending => pendingSlot # submittingSlot BY <2>1, <2>2 DEF Timeline, Coming, Waits
  <2>7. ASSUME NEW i \in 1 .. Len(up), up[i].type = "FrameReady"
        PROVE  up[i].slot # submittingSlot /\ up[i].slot \in Slots /\ up[i].val < readyValue
    <3>1. up[i].slot \in Slots /\ up[i].val \in Nat BY <2>7, UpAt, Lengths DEF Values
    <3>2. image[up[i].slot] > heldReady BY <2>7 DEF Timeline, Coming, Comes
    <3>3. up[i].val <= readyValue - 1 BY <2>1, <2>7 DEF Drawings, Bounded
    <3> QED BY <2>1, <2>2, <3>1, <3>2, <3>3
  <2>8. Waits' BY <2>1, <2>3, <2>6 DEF Timeline, Coming, Waits, TypeOK, PendingTypes, PixelTypes
  <2>9. ASSUME NEW i \in 1 .. Len(up') PROVE Comes(i)'
    <3>1. CASE i \in 1 .. Len(up)
      <4>1. Comes(i) BY <3>1 DEF Timeline, Coming
      <4>2. up[i].type = "FrameReady" => image'[up[i].slot] = image[up[i].slot]
        BY <2>1, <2>7, <3>1 DEF TypeOK, PixelTypes
      <4> QED BY <2>3, <2>5, <3>1, <4>1, <4>2 DEF Comes
    <3>2. CASE i = Len(up) + 1
      <4>1. up'[i] = m BY <2>5, <3>2
      <4>2. image'[submittingSlot] = readyValue BY <2>1 DEF TypeOK, PixelTypes
      <4>3. readyValue > heldReady /\ (hasPending => readyValue > pendingReady)
        BY <2>1, <2>2 DEF Drawings, Bounded
      <4> QED BY <2>3, <2>4, <4>1, <4>2, <4>3 DEF Comes
    <3> QED BY <2>5, <3>1, <3>2
  <2>10. ASSUME NEW j \in 1 .. Len(up'), NEW i \in 1 .. j - 1 PROVE Follows(i, j)'
    <3>1. i \in 1 .. Len(up) /\ up'[i] = up[i] BY <2>5
    <3>2. CASE j \in 1 .. Len(up)
      <4>1. Follows(i, j) BY <3>2 DEF Timeline, Coming
      <4> QED BY <2>5, <3>1, <3>2, <4>1 DEF Follows
    <3>3. CASE j = Len(up) + 1
      <4>1. up'[j] = m BY <2>5, <3>3
      <4> QED BY <2>4, <2>7, <3>1, <4>1 DEF Follows
    <3> QED BY <2>5, <3>2, <3>3
  <2> QED BY <2>8, <2>9, <2>10 DEF Coming
<1>13. ASSUME NEW w \in Geometries, SendRequestGeometry(w) PROVE Coming'
  <2>1. up' = Append(up, RequestGeometry(w)) /\ RequestGeometry(w).type = "RequestGeometry"
    BY <1>13 DEF SendRequestGeometry, RequestGeometry
  <2>2. UNCHANGED <<pendingVars, heldReady, image>> BY <1>13 DEF SendRequestGeometry
  <2> QED BY <2>1, <2>2, ComingKept
<1>14. ASSUME Leave PROVE Coming'
  <2>1. UNCHANGED <<pendingVars, heldReady, image>> BY <1>14 DEF Leave
  <2>2. CASE up' = up BY <2>1, <2>2 DEF Timeline, Coming, Waits, Comes, Follows
  <2>3. CASE up' = Append(up, Bye) BY <2>1, <2>3, ComingKept DEF Bye
  <2> QED BY <1>14, <2>2, <2>3 DEF Leave
<1>15. ASSUME UNCHANGED <<pendingVars, heldReady, image, up>> PROVE Coming'
  BY <1>15 DEF Timeline, Coming, Waits, Comes, Follows
<1> QED
  BY <1>0, <1>1, <1>2, <1>3, <1>4, <1>5, <1>6, <1>7, <1>8, <1>9, <1>10, <1>11, <1>12, <1>13, <1>14, <1>15
  DEF Next, AcceptThread, Consumer, Gpu, Producer,
    AttachBusy, AttachChecked, ResetFences, Release, ReleaseSignal, SignalConsumed, GpuWriteDone,
    GpuSignal, GpuReadDone, Dial, OpenBusy, OpenRing, CancelBuffer, BeginSubmit, GeometryReply

(* What a producer knows of its slots is what they show. *)
LEMMA DrawnKept ==
  ASSUME WinAssumption, TypeOK, Pipe, Timeline, GpuSync \/ Defer, ~Reattach, [Next]_vars
  PROVE  Drawn'
<1> USE DEF vars, consumerVars, ringVars, pendingVars, heldVars, producerVars, linkVars, fenceVars, pixelVars
<1>0. ASSUME ResetFails PROVE Drawn'
  BY <1>0 DEF ResetFails, Timeline, Drawn, Synced
<1>1. ASSUME HelloFails PROVE Drawn'
  BY <1>1 DEF HelloFails, Timeline, Drawn, Synced, Pipe, Ends, TypeOK, ThreadTypes, Drawings,
         Shown, Bounded, Submitting, Announced
<1>2. ASSUME AttachBusy PROVE Drawn'
  BY <1>2 DEF AttachBusy, Timeline, Drawn, Synced, Pipe, Ends, TypeOK, ThreadTypes, Drawings,
         Shown, Bounded, Submitting, Announced
<1>3. ASSUME AttachChecked PROVE Drawn'
  BY <1>3 DEF AttachChecked, Timeline, Drawn, Synced, Pipe, Ends, TypeOK, ThreadTypes, Drawings,
         Shown, Bounded, Submitting, Announced
<1>4. ASSUME ResetFences PROVE Drawn'
  BY <1>4 DEF ResetFences, Timeline, Drawn, Synced, Pipe, Ends, TypeOK, ThreadTypes, Drawings,
         Shown, Bounded, Submitting, Announced
<1>5. ASSUME ResetPending PROVE Drawn'
  BY <1>5 DEF ResetPending, Timeline, Drawn, Synced, Pipe, Ends, TypeOK, ThreadTypes, Drawings,
         Shown, Bounded, Submitting, Announced, RingTypes, ProducerTypes, FencePair
<1>6. ASSUME HandOver PROVE Drawn'
  BY <1>6 DEF HandOver, Timeline, Drawn, Synced, Pipe, Ends, TypeOK, ThreadTypes, Drawings, Shown,
         Bounded, Submitting, Announced
<1>7. ASSUME PumpEnds PROVE Drawn'
  BY <1>7 DEF PumpEnds, Timeline, Drawn, Synced, Pipe, Ends, TypeOK, ThreadTypes, Drawings, Shown,
         Bounded, Submitting, Announced
<1>8. ASSUME PumpFrame PROVE Drawn'
  <2> SUFFICES ASSUME Synced' PROVE Drawings' BY DEF Drawn
  <2>1. Drawings BY <1>8 DEF PumpFrame, Timeline, Drawn, Synced
  <2>2. LinkTypes /\ up # <<>> /\ up' = Tail(up) BY <1>8 DEF PumpFrame, Incoming, TypeOK
  <2>3. /\ 1 \in 1 .. Len(up) /\ Head(up) = up[1]
        /\ \A i \in 1 .. Len(up') : i + 1 \in 1 .. Len(up) /\ up'[i] = up[i + 1]
    <3>1. Len(up') = Len(up) - 1 /\ Len(up) \in Nat /\ Len(up) > 0 /\ Head(up) = up[1]
      BY <2>2, UpMessages, Lengths
    <3>2. \A i \in 1 .. Len(up) - 1 : up'[i] = up[i + 1] BY <2>2, UpMessages
    <3> QED BY <3>1, <3>2
  <2>4. up[1].type = "FrameReady" /\ pendingReady' = up[1].val BY <1>8, <2>3 DEF PumpFrame, Incoming
  <2>5. Announced' = Announced BY <1>8 DEF PumpFrame, Announced
  <2>6. Bounded' BY <1>8, <2>1, <2>3, <2>4, <2>5 DEF PumpFrame, Drawings, Bounded
  <2> QED BY <1>8, <2>1, <2>6 DEF PumpFrame, Drawings, Shown, Submitting
<1>9. ASSUME PumpGeometryKept PROVE Drawn'
  <2> SUFFICES ASSUME Synced' PROVE Drawings' BY DEF Drawn
  <2>1. Drawings BY <1>9 DEF PumpGeometryKept, Incoming, Timeline, Drawn, Synced
  <2>2. Len(up') = 0 BY <1>9, GeometryAsked DEF PumpGeometryKept
  <2>3. Bounded' BY <1>9, <2>1, <2>2 DEF PumpGeometryKept, Drawings, Bounded, Announced
  <2> QED BY <1>9, <2>1, <2>3 DEF PumpGeometryKept, Drawings, Shown, Submitting
<1>10. ASSUME PumpGeometryChecked PROVE Drawn'
  <2>1. ~Synced' BY <1>10, GeometryAsked DEF PumpGeometryChecked, Synced
  <2> QED BY <2>1 DEF Drawn
<1>11. ASSUME Realloc PROVE Drawn'
  BY <1>11 DEF Realloc, Timeline, Drawn, Synced, Pipe, Ends, TypeOK, ThreadTypes, Drawings, Shown,
         Bounded, Submitting, Announced
<1>12. ASSUME ReallocFails PROVE Drawn'
  BY <1>12 DEF ReallocFails, Timeline, Drawn, Synced, Pipe, Ends, TypeOK, ThreadTypes, Drawings,
         Shown, Bounded, Submitting, Announced
<1>13. ASSUME AcquireFrame PROVE Drawn'
  BY <1>13 DEF AcquireFrame, Timeline, Drawn, Synced, Pipe, Ends, TypeOK, ThreadTypes, Drawings,
         Shown, Bounded, Submitting, Announced
<1>14. ASSUME Dial PROVE Drawn'
  BY <1>14 DEF Dial, Timeline, Drawn, Synced, Pipe, Ends, TypeOK, ThreadTypes, Drawings, Shown,
         Bounded, Submitting, Announced
<1>15. ASSUME OpenBusy PROVE Drawn'
  BY <1>15 DEF OpenBusy, Timeline, Drawn, Synced, Pipe, Ends, TypeOK, ThreadTypes, Drawings, Shown,
         Bounded, Submitting, Announced
<1>16. ASSUME OpenRing PROVE Drawn'
  <2> SUFFICES ASSUME Synced' PROVE Drawings' BY DEF Drawn
  <2>1. Len(up') = 0 /\ UNCHANGED <<heldReady, hasPending, image>>
    BY <1>16, RingArrives DEF OpenRing
  <2>2. slotReadyValue' = Blank /\ readyValue' = 0 /\ submittingSlot' = NoSlot /\ pc' = "idle"
    BY <1>16 DEF OpenRing, ImportRing, Synced
  <2>3. heldReady = 0 /\ ~hasPending /\ image = Blank
    BY <1>16 DEF OpenRing, Timeline, Starts, Fresh, Quiet
  <2>4. Shown' BY <2>1, <2>2, <2>3 DEF Shown, Blank, Reserved, WinAssumption
  <2> QED BY <2>1, <2>2, <2>3, <2>4 DEF Drawings, Bounded, Submitting, Announced
<1>17. ASSUME NEW s \in Slots, AcquireBuffer(s) PROVE Drawn'
  <2> SUFFICES Drawings' BY DEF Drawn
  <2>1. Drawings /\ pc' = "idle" BY <1>17 DEF AcquireBuffer, Timeline, Drawn, Synced
  <2>2. Shown' BY <1>17, <2>1 DEF AcquireBuffer, Drawings, Shown, TypeOK, ProducerTypes, PixelTypes
  <2>3. Bounded' BY <1>17, <2>1 DEF AcquireBuffer, Drawings, Bounded, Announced
  <2>4. Submitting'
    BY <1>17, <2>1 DEF AcquireBuffer, Drawings, Submitting, TypeOK, ProducerTypes, Slots, NoSlot,
           WinAssumption
  <2> QED BY <2>2, <2>3, <2>4 DEF Drawings
<1>18. ASSUME NEW s \in Slots, CancelBuffer(s) PROVE Drawn'
  <2> SUFFICES Drawings' BY DEF Drawn
  <2>1. Drawings /\ pc' = "idle" BY <1>18 DEF CancelBuffer, Timeline, Drawn, Synced
  <2>2. image[s] = 0 /\ Reserved # 0
    BY <1>18, <2>1 DEF CancelBuffer, Drawings, Shown, Reserved, WinAssumption
  <2>3. Shown' BY <1>18, <2>1, <2>2 DEF CancelBuffer, Drawings, Shown, TypeOK, ProducerTypes
  <2>4. Bounded' BY <1>18, <2>1 DEF CancelBuffer, Drawings, Bounded, Announced
  <2>5. Submitting'
    BY <1>18, <2>1 DEF CancelBuffer, Drawings, Submitting, TypeOK, ProducerTypes, Slots, NoSlot,
           WinAssumption
  <2> QED BY <2>3, <2>4, <2>5 DEF Drawings
<1>19. ASSUME NEW s \in Slots, BeginSubmit(s) PROVE Drawn'
  <2> SUFFICES Drawings' BY DEF Drawn
  <2>1. Drawings /\ pc' = "idle" BY <1>19 DEF BeginSubmit, Timeline, Drawn, Synced
  <2>2. Announced' = Announced /\ readyValue' > 0
    BY <1>19 DEF BeginSubmit, Announced, TypeOK, ProducerTypes, Values, Slots, NoSlot, WinAssumption
  <2>3. Bounded' BY <1>19, <2>1, <2>2 DEF BeginSubmit, Drawings, Bounded
  <2> QED BY <1>19, <2>1, <2>2, <2>3 DEF BeginSubmit, Drawings, Shown, Submitting
<1>20. ASSUME EndSubmit PROVE Drawn'
  <2> SUFFICES Drawings' BY DEF Drawn
  <2> DEFINE m == FrameReady(submittingSlot, readyValue)
  <2>1. /\ submittingSlot \in Slots /\ image' = [image EXCEPT ![submittingSlot] = readyValue]
        /\ Drawings /\ Announced = readyValue - 1
    BY <1>20, Submitted
  <2>2. /\ readyValue \in Nat /\ heldReady \in Nat /\ pendingReady \in Nat
        /\ MaxValue \in Nat /\ readyValue <= MaxValue
    BY DEF TypeOK, ProducerTypes, HeldTypes, PendingTypes, Values, WinAssumption
  <2>3. Announced' = readyValue BY <1>20 DEF EndSubmit, Announced
  <2>4. up' = Append(up, m) /\ m.val = readyValue BY <1>20 DEF EndSubmit, FrameReady
  <2> HIDE DEF m
  <2>5. /\ Len(up') = Len(up) + 1 /\ Len(up) \in Nat /\ up'[Len(up) + 1] = m
        /\ \A i \in 1 .. Len(up) : up'[i] = up[i]
    BY <2>4, AppendUp, Lengths
  <2>6. Shown'
    BY <1>20, <2>1, <2>2 DEF EndSubmit, Drawings, Shown, Reserved, TypeOK, ProducerTypes, PixelTypes
  <2>7. ASSUME NEW i \in 1 .. Len(up'), up'[i].type = "FrameReady" PROVE up'[i].val <= readyValue
    <3>1. CASE i \in 1 .. Len(up)
      <4>1. up'[i] = up[i] /\ up[i].val <= readyValue - 1
        BY <2>1, <2>5, <2>7, <3>1 DEF Drawings, Bounded
      <4>2. up[i].val \in Nat BY <2>7, <3>1, <4>1, UpAt, Lengths DEF Values
      <4> QED BY <2>2, <4>1, <4>2
    <3>2. CASE i = Len(up) + 1 BY <2>2, <2>4, <2>5, <3>2
    <3> QED BY <2>5, <3>1, <3>2
  <2>8. heldReady <= readyValue /\ (hasPending => pendingReady <= readyValue)
    BY <2>1, <2>2 DEF Drawings, Bounded
  <2>9. Bounded' BY <1>20, <2>3, <2>7, <2>8 DEF EndSubmit, Bounded
  <2>10. Submitting' BY <1>20 DEF EndSubmit, Submitting
  <2> QED BY <2>6, <2>9, <2>10 DEF Drawings
<1>21. ASSUME NEW w \in Geometries, SendRequestGeometry(w) PROVE Drawn'
  <2> SUFFICES Drawings' BY DEF Drawn
  <2>1. Drawings /\ pc' = "geometry" BY <1>21 DEF SendRequestGeometry, Timeline, Drawn, Synced
  <2>2. \A i \in 1 .. Len(up') : up'[i].type = "FrameReady" => i \in 1 .. Len(up) /\ up'[i] = up[i]
    <3>1. up' = Append(up, RequestGeometry(w)) /\ RequestGeometry(w).type = "RequestGeometry"
      BY <1>21 DEF SendRequestGeometry, RequestGeometry
    <3> QED BY <3>1, AppendUp, Lengths
  <2>3. Bounded' BY <1>21, <2>1, <2>2 DEF SendRequestGeometry, Drawings, Bounded, Announced
  <2> QED BY <1>21, <2>1, <2>3 DEF SendRequestGeometry, Drawings, Shown, Submitting
<1>22. ASSUME GeometryReply PROVE Drawn'
  <2> SUFFICES Drawings' BY DEF Drawn
  <2>1. /\ Len(up') = 0 /\ UNCHANGED <<heldReady, hasPending, image>>
        /\ Head(down).gen = generation /\ acc = "pump"
    BY <1>22, RingArrives DEF GeometryReply
  <2>2. CASE pGeneration = generation
    <3>1. Drawings /\ UNCHANGED <<slotReadyValue, readyValue, submittingSlot, pendingReady>>
      BY <1>22, <2>1, <2>2 DEF GeometryReply, Timeline, Drawn, Synced
    <3>2. Announced' = Announced BY <3>1 DEF Announced
    <3> QED BY <1>22, <2>1, <3>1, <3>2 DEF GeometryReply, Drawings, Shown, Bounded, Submitting
  <2>3. CASE pGeneration # generation
    <3>1. slotReadyValue' = Blank /\ readyValue' = 0 /\ submittingSlot' = submittingSlot /\ pc' = "idle"
      BY <1>22, <2>1, <2>3 DEF GeometryReply, ImportRing
    <3>2. heldReady = 0 /\ ~hasPending /\ image = Blank /\ submittingSlot = NoSlot
      BY <1>22, <2>3 DEF GeometryReply, Timeline, Starts, Fresh, Quiet
    <3>3. Shown' BY <2>1, <3>1, <3>2 DEF Shown, Blank, Reserved, WinAssumption
    <3> QED BY <2>1, <3>1, <3>2, <3>3 DEF Drawings, Bounded, Submitting, Announced
  <2> QED BY <2>2, <2>3
<1>23. ASSUME Leave PROVE Drawn'
  BY <1>23 DEF Leave, Timeline, Drawn, Synced, Pipe, Ends, TypeOK, ThreadTypes, Drawings, Shown,
         Bounded, Submitting, Announced
<1>24. ASSUME UNCHANGED <<pc, acc, generation, pGeneration, image, slotReadyValue,
                          pendingVars, heldReady, up, readyValue, submittingSlot>>
       PROVE  Drawn'
  BY <1>24 DEF Timeline, Drawn, Synced, Drawings, Shown, Bounded, Submitting, Announced
<1> QED
  BY <1>0, <1>1, <1>2, <1>3, <1>4, <1>5, <1>6, <1>7, <1>8, <1>9, <1>10, <1>11, <1>12, <1>13, <1>14,
     <1>15, <1>16, <1>17, <1>18, <1>19, <1>20, <1>21, <1>22, <1>23, <1>24
  DEF Next, AcceptThread, Consumer, Gpu, Producer,
    Release, ReleaseSignal, SignalConsumed, GpuWriteDone, GpuSignal, GpuReadDone

(* A ring changes hands, or is replaced, only when nothing happens in it. *)
LEMMA StartsKept ==
  ASSUME WinAssumption, TypeOK, Pipe, Timeline, GpuSync \/ Defer, ~Reattach, [Next]_vars
  PROVE  Starts'
<1> USE DEF vars, consumerVars, ringVars, pendingVars, heldVars, producerVars, linkVars, fenceVars, pixelVars
<1>0. ASSUME ResetFails PROVE Starts'
  BY <1>0 DEF ResetFails, Timeline, Starts, Quiet, Fresh, Pipe, Ends, TypeOK, ThreadTypes, Alive
<1>1. ASSUME HelloFails PROVE Starts'
  BY <1>1 DEF HelloFails, Timeline, Starts, Quiet, Fresh, Pipe, Ends, TypeOK, ThreadTypes, Alive
<1>2. ASSUME AttachBusy PROVE Starts'
  BY <1>2 DEF AttachBusy, Timeline, Starts, Quiet, Fresh, Pipe, Ends, TypeOK, ThreadTypes, Alive
<1>3. ASSUME AttachChecked PROVE Starts'
  BY <1>3 DEF AttachChecked, Timeline, Starts, Quiet, Fresh, Pipe, Ends, TypeOK, ThreadTypes, Alive
<1>4. ASSUME ResetFences PROVE Starts'
  BY <1>4 DEF ResetFences, Timeline, Starts, Quiet, Fresh, Pipe, Ends, TypeOK, ThreadTypes, Alive
<1>5. ASSUME ResetPending PROVE Starts'
  BY <1>5 DEF ResetPending, Timeline, Starts, Quiet, Fresh, Pipe, Ends, TypeOK, ThreadTypes, Alive
<1>6. ASSUME HandOver PROVE Starts'
  BY <1>6 DEF HandOver, Timeline, Starts, Quiet, Fresh, Pipe, Ends, TypeOK, ThreadTypes, Alive
<1>7. ASSUME PumpEnds PROVE Starts'
  <2>1. pc \in {"new", "gone"} /\ acc' = "listen"
    <3>1. CASE Incoming("Bye")
      <4>1. LinkTypes /\ up # <<>> BY <3>1 DEF Incoming, TypeOK
      <4>2. up[1].type = "Bye" /\ Len(up) > 0 BY <3>1, <4>1, UpMessages DEF Incoming
      <4> QED BY <1>7, <4>2, Lengths DEF PumpEnds, Pipe, Upward
    <3> QED BY <1>7, <3>1 DEF PumpEnds, Alive
  <2> QED BY <1>7, <2>1 DEF PumpEnds, Timeline, Starts, Quiet, Fresh
<1>8. ASSUME PumpFrame PROVE Starts'
  <2>1. Len(up) > 0 /\ acc = "pump" /\ acc' = acc /\ pc' = pc
    BY <1>8, UpMessages DEF PumpFrame, Incoming, TypeOK
  <2>2. pc \notin {"new", "dialled"} /\ ~(pc = "geometry" /\ pGeneration # generation)
    BY <2>1 DEF Pipe, Ends, Timeline, Starts
  <2> QED BY <1>8, <2>1, <2>2 DEF PumpFrame, Timeline, Starts
<1>9. ASSUME PumpGeometryKept PROVE Starts'
  <2>1. pc \in {"geometry", "gone"} /\ acc' = "hand" /\ Len(up') = 0
    BY <1>9, GeometryAsked DEF PumpGeometryKept
  <2> QED BY <1>9, <2>1 DEF PumpGeometryKept, Timeline, Starts, Quiet, Fresh
<1>10. ASSUME PumpGeometryChecked PROVE Starts'
  <2>1. pc \in {"geometry", "gone"} /\ acc' = "realloc" /\ Len(up) > 0
    BY <1>10, GeometryAsked, UpMessages DEF PumpGeometryChecked, Incoming, TypeOK
  <2>2. ~frameHeld /\ heldReady <= consumed
    BY <1>10 DEF PumpGeometryChecked, ResizeBusy, TypeOK, HeldTypes, FenceTypes, Values
  <2>3. consumed \in Nat /\ heldReady \in Nat BY DEF TypeOK, HeldTypes, FenceTypes, Values
  <2>4. reads = {}
    <3>1. \A x \in reads : x.val \in Nat /\ consumed < x.val /\ x.val <= heldReady
      BY DEF Timeline, Reading, TypeOK, PixelTypes, Values
    <3> QED BY <2>2, <2>3, <3>1
  <2>5. owed = {}
    <3>1. \A u \in owed : u \in Nat /\ consumed < u /\ u <= heldReady
      BY DEF Timeline, Reading, TypeOK, FenceTypes, Values
    <3> QED BY <2>2, <2>3, <3>1
  <2>6. Len(signals) = 0
    <3>1. \A i \in 1 .. Len(signals) :
            signals[i].val \in Nat /\ consumed < signals[i].val /\ signals[i].val <= heldReady
      BY SignalAt DEF Timeline, Signalling, TypeOK, Values
    <3>2. \A i \in 1 .. Len(signals) : FALSE BY <2>2, <2>3, <3>1
    <3> QED BY <3>2, Lengths
  <2>7. Quiet' BY <1>10, <2>2, <2>4, <2>5, <2>6 DEF PumpGeometryChecked, Quiet
  <2>8. /\ pc' = pc /\ ~(pc = "geometry" /\ pGeneration # generation)
        /\ UNCHANGED <<pGeneration, generation, submittingSlot>>
    BY <1>10, <2>1 DEF PumpGeometryChecked, Timeline, Starts
  <2> QED BY <2>1, <2>7, <2>8 DEF Timeline, Starts
<1>11. ASSUME Realloc PROVE Starts'
  BY <1>11 DEF Realloc, Timeline, Starts, Quiet, Fresh, Pipe, Ends, TypeOK, ThreadTypes, Alive
<1>12. ASSUME ReallocFails PROVE Starts'
  BY <1>12 DEF ReallocFails, Timeline, Starts, Quiet, Fresh, Pipe, Ends, TypeOK, ThreadTypes, Alive
<1>13. ASSUME AcquireFrame PROVE Starts'
  <2>1. hasPending BY <1>13 DEF AcquireFrame
  <2> QED BY <1>13, <2>1 DEF AcquireFrame, Timeline, Starts, Quiet, Fresh
<1>14. ASSUME Release PROVE Starts'
  BY <1>14 DEF Release, Timeline, Starts, Quiet, Fresh, Pipe, Ends, TypeOK, ThreadTypes, Alive
<1>15. ASSUME ReleaseSignal PROVE Starts'
  BY <1>15 DEF ReleaseSignal, Timeline, Starts, Quiet, Fresh, Pipe, Ends, TypeOK, ThreadTypes, Alive
<1>16. ASSUME NEW v \in Values, SignalConsumed(v) PROVE Starts'
  BY <1>16 DEF SignalConsumed, Timeline, Starts, Quiet, Fresh, Pipe, Ends, TypeOK, ThreadTypes,
         Alive
<1>17. ASSUME GpuSignal PROVE Starts'
  <2>1. Len(signals) > 0 BY <1>17, NextSignal DEF GpuSignal, TypeOK
  <2>2. ~Quiet /\ acc \notin {"fences", "pending", "realloc", "hello"}
    BY <2>1 DEF Timeline, Starts, Fresh, Quiet
  <2> QED BY <1>17, <2>2 DEF GpuSignal, Timeline, Starts, Fresh
<1>18. ASSUME NEW x \in reads, GpuReadDone(x) PROVE Starts'
  BY <1>18 DEF GpuReadDone, Timeline, Starts, Quiet, Fresh, Pipe, Ends, TypeOK, ThreadTypes, Alive
<1>19. ASSUME Dial PROVE Starts'
  BY <1>19 DEF Dial, Timeline, Starts, Quiet, Fresh, Pipe, Ends, TypeOK, ThreadTypes, Alive
<1>20. ASSUME OpenBusy PROVE Starts'
  BY <1>20 DEF OpenBusy, Timeline, Starts, Quiet, Fresh, Pipe, Ends, TypeOK, ThreadTypes, Alive
<1>21. ASSUME OpenRing PROVE Starts'
  <2>1. acc = "pump" /\ Head(down).gen = generation BY <1>21, RingArrives DEF OpenRing
  <2> QED BY <1>21, <2>1 DEF OpenRing, Timeline, Starts, Fresh, Quiet
<1>22. ASSUME NEW s \in Slots, AcquireBuffer(s) PROVE Starts'
  BY <1>22 DEF AcquireBuffer, Timeline, Starts, Quiet, Fresh, Pipe, Ends, TypeOK, ThreadTypes, Alive
<1>23. ASSUME NEW s \in Slots, BeginSubmit(s) PROVE Starts'
  BY <1>23 DEF BeginSubmit, Timeline, Starts, Quiet, Fresh, Pipe, Ends, TypeOK, ThreadTypes, Alive
<1>24. ASSUME EndSubmit PROVE Starts'
  BY <1>24 DEF EndSubmit, Timeline, Starts, Quiet, Fresh, Pipe, Ends, TypeOK, ThreadTypes, Alive
<1>25. ASSUME NEW w \in Geometries, SendRequestGeometry(w) PROVE Starts'
  <2>1. Submitting BY <1>25 DEF SendRequestGeometry, Timeline, Drawn, Synced, Drawings
  <2>2. submittingSlot = NoSlot
    BY <1>25, <2>1 DEF SendRequestGeometry, Submitting, TypeOK, ProducerTypes, Slots, NoSlot,
           WinAssumption
  <2> QED BY <1>25, <2>2 DEF SendRequestGeometry, Timeline, Starts, Quiet, Fresh, Pipe, Ends
<1>26. ASSUME GeometryReply PROVE Starts'
  <2>1. acc = "pump" BY <1>26, RingArrives DEF GeometryReply
  <2> QED BY <1>26, <2>1 DEF GeometryReply, Timeline, Starts, Fresh, Quiet
<1>27. ASSUME Leave PROVE Starts'
  BY <1>27 DEF Leave, Timeline, Starts, Quiet, Fresh, Pipe, Ends, TypeOK, ThreadTypes, Alive
<1>28. ASSUME UNCHANGED <<pc, acc, generation, pGeneration, submittingSlot, image, hasPending,
                          frameHeld, heldReady, consumed, reads, owed, signals, up>>
       PROVE  Starts'
  BY <1>28 DEF Timeline, Starts, Quiet, Fresh
<1> QED
  BY <1>0, <1>1, <1>2, <1>3, <1>4, <1>5, <1>6, <1>7, <1>8, <1>9, <1>10, <1>11, <1>12, <1>13, <1>14,
     <1>15, <1>16, <1>17, <1>18, <1>19, <1>20, <1>21, <1>22, <1>23, <1>24, <1>25, <1>26, <1>27,
     <1>28
  DEF Next, AcceptThread, Consumer, Gpu, Producer,
    GpuWriteDone, CancelBuffer

(* The invariant begins, lasts, and says what is claimed. *)
LEMMA Begins == ASSUME WinAssumption, Init PROVE TypeOK /\ Pipe /\ Timeline
<1>1. Blank \in [Slots -> 0 .. Reserved] /\ Blank \in [Slots -> Values]
  BY DEF Blank, Reserved, Values, WinAssumption
<1>2. TypeOK
  BY <1>1 DEF Init, TypeOK, RingTypes, PendingTypes, HeldTypes, ThreadTypes, ProducerTypes,
         LinkTypes, FenceTypes, PixelTypes,
         Slots, Values, NoSlot, WinAssumption
<1>3. Pipe BY DEF Init, Pipe, Upward, Downward, Ends, FencePair
<1>4. Starts /\ Drawn BY DEF Init, Starts, Fresh, Quiet, Drawn, Synced
<1>5. Reading /\ Signalling /\ Coming
  BY DEF Init, Reading, Signalling, Coming, Waits, Comes, Follows
<1> QED BY <1>2, <1>3, <1>4, <1>5 DEF Timeline

LEMMA TimelineKept ==
  ASSUME WinAssumption, TypeOK, Pipe, Timeline, GpuSync \/ Defer, ~Reattach, [Next]_vars
  PROVE  Timeline'
  BY StartsKept, DrawnKept, ReadingKept, SignallingKept, ComingStep DEF Timeline

LEMMA Claims ==
  ASSUME TypeOK, Pipe
  PROVE  NoUseBeforeWrite /\ (Timeline => NoOverwrite /\ PendingIntact)
<1>1. NoUseBeforeWrite
  <2>1. written = drawn \/ written = 0 BY DEF Pipe, FencePair
  <2>2. {written, drawn, pendingReady} \subseteq Nat
    BY DEF TypeOK, FenceTypes, PixelTypes, PendingTypes, Values
  <2> QED BY <2>1, <2>2 DEF NoUseBeforeWrite
<1>2. Timeline => NoOverwrite /\ PendingIntact
  BY DEF Timeline, Reading, Coming, Waits, NoOverwrite, PendingIntact
<1> QED BY <1>1, <1>2

LEMMA RebuiltQuiet == ASSUME Timeline PROVE RebuiltIdle
  BY DEF Timeline, Starts, Quiet, RebuiltIdle

-----------------------------------------------------------------------------
(* In every mode, with any number of producers that follow one another, no   *)
(* fence reports a frame complete before it is drawn: a reattached producer  *)
(* gets a fence of its own (framelink_win.cpp:222).                          *)
THEOREM FramesAreWritten == ASSUME WinAssumption PROVE Spec => []NoUseBeforeWrite
<1>1. Init => TypeOK /\ Pipe
  BY Begins
<1>2. TypeOK /\ Pipe /\ [Next]_vars => TypeOK' /\ Pipe'
  BY TypesKept, PipeKept
<1>3. TypeOK /\ Pipe => NoUseBeforeWrite
  BY Claims
<1> QED BY <1>1, <1>2, <1>3, PTL DEF Spec

(* A consumer that signals its own reads and serves one producer keeps every *)
(* frame until it is taken and read, and replaces the ring only between      *)
(* reads (framelink_win.cpp:904).                                            *)
THEOREM SignalledReadsIntact ==
  ASSUME WinAssumption, GpuSync \/ Defer, ~Reattach
  PROVE  Spec => [](TypeOK /\ NoOverwrite /\ PendingIntact) /\ ResizeIdle
<1> DEFINE Inv == TypeOK /\ Pipe /\ Timeline
<1>1. Init => Inv
  BY Begins
<1>2. Inv /\ [Next]_vars => Inv'
  BY TypesKept, PipeKept, TimelineKept
<1>3. Inv => TypeOK /\ NoOverwrite /\ PendingIntact
  BY Claims
<1>4. Inv => [RebuiltIdle]_vars
  BY RebuiltQuiet
<1> QED BY <1>1, <1>2, <1>3, <1>4, PTL DEF Spec, ResizeIdle

=============================================================================
