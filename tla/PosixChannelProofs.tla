------------------------- MODULE PosixChannelProofs -------------------------
(***************************************************************************)
(* The POSIX channel, proved for every ring size, every capacity of the    *)
(* value space and every number of producers.                              *)
(*                                                                         *)
(* The argument has three layers.  Links and Peers fix which messages can  *)
(* be on their way to whom: without them a stale release or a second       *)
(* RingDesc could reach a producer that has just opened a new ring.  Core  *)
(* relates the values on the timeline: the frame in a slot, the frames     *)
(* pending, held, leased and being read, and the releases queued by the    *)
(* consumer, in flight and queued by the producer.  A release may retire a *)
(* read only through a fence that is met first (Guarded); this is what     *)
(* makes it safe for flAcquireBuffer to redraw a slot.                     *)
(***************************************************************************)
EXTENDS PosixChannel, SequenceTheorems, TLAPS

-----------------------------------------------------------------------------
(* Where a producer stands towards the ring. *)
(* The accept thread has handed the ring to p. *)
Owns(p) == serving = p /\ acc \in {"handed", "pump", "ended"}

(* p has, or is about to import, a ring it has not opened yet. *)
Unopened(p) == pc[p] = "greeted" \/ (pc[p] = "geometry" /\ pGeneration[p] # generation)

(* p has opened the ring the consumer now has. *)
InSync(p) == Attached(p) /\ pGeneration[p] = generation

(* All messages of q have one of the types T. *)
Only(q, T) == \A i \in 1 .. Len(q) : q[i].type \in T

-----------------------------------------------------------------------------
(* The link of each producer. *)
Opening(p) ==
  /\ ~Alive(p) => Len(down[p]) = 0
  /\ pc[p] = "new" => serving # p
  /\ pc[p] = "connecting" =>
       /\ ~Owns(p) /\ Len(up[p]) = 0 /\ Len(down[p]) <= 1
       /\ serving = p => Only(down[p], {"Hello"})
       /\ serving # p => Only(down[p], {"Busy"})
  /\ pc[p] = "greeted" /\ ~Owns(p) =>
       /\ serving = p => Len(down[p]) = 0 /\ Len(up[p]) <= 1
       /\ serving # p => Len(down[p]) <= 1 /\ Only(down[p], {"Busy"})
  /\ Attached(p) => Owns(p)
  /\ pc[p] = "idle" => pGeneration[p] = generation

(* To the consumer: a RequestGeometry is the last message, since its sender *)
(* waits.                                                                   *)
Upward(p) ==
  /\ \A i \in 1 .. Len(up[p]) :
       /\ up[p][i].type = "RequestGeometry" => i = Len(up[p]) /\ pc[p] \in {"geometry", "gone"}
       /\ up[p][i].type = "Bye" => pc[p] = "gone"
  /\ Unopened(p) => Len(up[p]) = 0

(* To the owner: releases, and at most one RingDesc, of the present         *)
(* generation.                                                              *)
Downward(p) ==
  /\ Only(down[p], {"FrameReleased", "RingDesc"})
  /\ pc[p] = "idle" => Only(down[p], {"FrameReleased"})
  /\ \A i \in 1 .. Len(down[p]) : down[p][i].type = "RingDesc" =>
       /\ down[p][i].gen = generation /\ Len(up[p]) = 0
       /\ \A j \in 1 .. Len(down[p]) : j # i => down[p][j].type = "FrameReleased"
       /\ Unopened(p) => i = Len(down[p])

Link(p) == Opening(p) /\ (Owns(p) => Upward(p) /\ Downward(p))

Links == \A p \in Producers : Link(p)

(* Who the accept thread serves, and who the consumer sends to. *)
Peers ==
  /\ acc = "accept" => serving = None
  /\ acc \in {"hello", "handed", "pump"} => serving \in Producers
  /\ peerConnected => peer \in Producers
  /\ acc \in {"accept", "hello", "handed"} => peer = None \/ pc[peer] = "gone"
  /\ acc = "pump" => peer = serving /\ (Alive(serving) => peerConnected)
  /\ acc = "ended" => stop

-----------------------------------------------------------------------------
(* Releases on their way: the i-th message of q retires value v, and does   *)
(* so behind a fence.                                                       *)
Reaches(q, i, v) == q[i].type = "FrameReleased" /\ q[i].val >= v
Fenced(q, i, v)  == Reaches(q, i, v) /\ q[i].fence

(* Whoever takes the messages of q in order meets a fence that covers v no  *)
(* later than the first release that reaches v; there is such a fence; no   *)
(* release goes past h; the last one reaches h.                             *)
Guarded(q, v)  == \A j \in 1 .. Len(q) : Reaches(q, j, v) => \E i \in 1 .. j : Fenced(q, i, v)
Shielded(q, v) == \E i \in 1 .. Len(q) : Fenced(q, i, v)
Below(q, h)    == \A i \in 1 .. Len(q) : q[i].type = "FrameReleased" => q[i].val <= h
LastIs(q, h)   == Len(q) > 0 /\ q[Len(q)].val = h

(* Nothing was announced on the present timeline yet. *)
Fresh ==
  /\ ~hasPending /\ ~frameHeld /\ heldReady = 0 /\ retiredValue = 0
  /\ cReleases = <<>> /\ ledger = <<>>

(* The consumer's watermark: what is retired was acquired, and no read that *)
(* is outstanding is passed by a release without a fence of its own.        *)
Retirement == retiredValue <= heldReady /\ Below(cReleases, heldReady)

ReadsGuarded ==
  \A x \in reads : x.val <= heldReady /\ retiredValue < x.val /\ Guarded(cReleases, x.val)

(* The frames that are read, pending or announced are still in their slots, *)
(* and newer in that order.                                                 *)
Coming(p) ==
  \A i \in 1 .. Len(up[p]) : up[p][i].type = "FrameReady" =>
    /\ image[up[p][i].slot] = up[p][i].val
    /\ up[p][i].val > heldReady /\ (hasPending => up[p][i].val > pendingReady)
    /\ \A j \in 1 .. i - 1 : up[p][j].type = "FrameReady" => up[p][j].val < up[p][i].val

Pictures ==
  /\ \A x \in reads : image[x.slot] = x.val
  /\ hasPending => pendingReady > heldReady /\ image[pendingSlot] = pendingReady
  /\ \A p \in Producers : Owns(p) => Coming(p)

(* Until the producer opens the ring it was handed, nothing happens in it.  *)
Starts ==
  /\ acc = "handed" => Fresh
  /\ \A p \in Producers : Owns(p) /\ Unopened(p) => Fresh /\ image = Blank

(* What the owner of the ring knows of its slots is what they show. *)
Drawings(p) ==
  /\ \A s \in Slots : slotSubmitValue[p][s] = Reserved => image[s] = 0
  /\ \A s \in Slots : slotSubmitValue[p][s] # Reserved =>
       image[s] = slotSubmitValue[p][s] /\ slotSubmitValue[p][s] <= Announced(p)
  /\ heldReady <= Announced(p)
  /\ hasPending => pendingReady <= Announced(p)
  /\ \A i \in 1 .. Len(up[p]) : up[p][i].type = "FrameReady" => up[p][i].val <= Announced(p)
  /\ submittingSlot[p] # NoSlot => slotSubmitValue[p][submittingSlot[p]] = Reserved
  /\ pc[p] = "geometry" => \A s \in Slots : slotSubmitValue[p][s] # Reserved

(* The releases on their way to the owner cannot pass an outstanding read.  *)
Returns(p) ==
  /\ consumedValue[p] <= heldReady /\ Below(pReleases[p], heldReady) /\ Below(down[p], heldReady)
  /\ \A x \in reads :
       /\ consumedValue[p] < x.val
       /\ Guarded(pReleases[p], x.val)
       /\ Shielded(pReleases[p], x.val) \/ Guarded(down[p], x.val)
       /\ Shielded(cReleases, x.val) => Shielded(pReleases[p], x.val) \/ Shielded(down[p], x.val)

Producing == \A p \in Producers : InSync(p) => Drawings(p) /\ Returns(p)

(* Leased frames: unretired, in order, in their slots, and the cause of     *)
(* every outstanding read but that of the held frame.                       *)
Leased(i) ==
  /\ retiredValue < ledger[i].val /\ ledger[i].val <= heldReady
  /\ frameHeld => ledger[i].val < heldReady
  /\ image[ledger[i].slot] = ledger[i].val
  /\ \A j \in 1 .. i - 1 : ledger[j].val < ledger[i].val

LeasedRead(x) ==
  \/ frameHeld /\ x = HeldRead
  \/ \E i \in 1 .. Len(ledger) :
       x.slot = ledger[i].slot /\ x.val = ledger[i].val /\ ~Finished(ledger[i])

Leasing ==
  /\ ~Leases => ledger = <<>>
  /\ Leases =>
     /\ cReleases = <<>>
     /\ frameHeld => HeldRead \in reads
     /\ \A i \in 1 .. Len(ledger) : Leased(i)
     /\ \A x \in reads : LeasedRead(x)
     /\ \A p \in Producers : InSync(p) =>
          /\ consumedValue[p] <= retiredValue
          /\ Below(pReleases[p], retiredValue) /\ Below(down[p], retiredValue)

(* A default channel retires, or has queued to retire, what it released. *)
Defaults ==
  ~GpuSync /\ ~Defer /\ ~frameHeld => retiredValue = heldReady \/ LastIs(cReleases, heldReady)

(* The GPU writes what was submitted; a frame it still writes is read only  *)
(* when a fence makes the reader wait.                                      *)
Writes ==
  /\ \A p \in Producers :
       /\ written[p] <= readyValue[p]
       /\ submittingSlot[p] # NoSlot => readyValue[p] > 0
       /\ submittingSlot[p] # NoSlot => pc[p] # "geometry"
  /\ ~GpuSync /\ heldReady > 0 => Drawn(heldReady)
  /\ ~Leases /\ heldReady > 0 /\ ~Drawn(heldReady) => HeldRead \in reads

Core ==
  /\ Retirement /\ ReadsGuarded /\ Pictures /\ Starts /\ Producing /\ Leasing /\ Defaults /\ Writes

Inv == Links /\ Peers /\ Core

(* What is left of a queue once its first n entries are gone. *)
LEMMA RestType ==
  ASSUME NEW S, NEW q \in Seq(S), NEW n \in 0 .. Len(q)
  PROVE  /\ Rest(q, n) \in Seq(S) /\ Len(Rest(q, n)) = Len(q) - n
         /\ \A i \in 1 .. Len(q) - n : Rest(q, n)[i] = q[n + i]
<1>1. Len(q) \in Nat /\ \A i \in n + 1 .. Len(q) : q[i] \in S
  BY LenProperties, ElementOfSeq
<1>2. n + 1 \in 1 .. Len(q) + 1 /\ Len(q) \in n .. Len(q)
  BY <1>1
<1>3. /\ SubSeq(q, n + 1, Len(q)) \in Seq(S)
      /\ Len(SubSeq(q, n + 1, Len(q))) = IF n + 1 <= Len(q) THEN Len(q) - (n + 1) + 1 ELSE 0
      /\ \A i \in 1 .. Len(q) - (n + 1) + 1 : SubSeq(q, n + 1, Len(q))[i] = q[n + 1 + i - 1]
  BY <1>1, <1>2, SubSeqProperties
<1> QED BY <1>1, <1>3 DEF Rest

(* Taking one message from one producer's queue keeps the queues typed. *)
LEMMA TailType ==
  ASSUME NEW S, NEW f \in [Producers -> Seq(S)], NEW p \in Producers, f[p] # <<>>
  PROVE  [f EXCEPT ![p] = Tail(@)] \in [Producers -> Seq(S)] /\ Head(f[p]) \in S
<1>1. Tail(f[p]) \in Seq(S) /\ Head(f[p]) \in S
  BY HeadTailProperties
<1> QED BY <1>1

(* So does adding one. *)
LEMMA AppendType ==
  ASSUME NEW S, NEW f \in [Producers -> Seq(S)], NEW p \in Producers, NEW m \in S
  PROVE  [f EXCEPT ![p] = Append(@, m)] \in [Producers -> Seq(S)]
<1>1. Append(f[p], m) \in Seq(S)
  BY AppendProperties
<1> QED BY <1>1

(* Every message the program builds is one of the protocol's. *)
LEMMA MessageTypes ==
  /\ Hello \in UpMessage /\ Bye \in UpMessage /\ Hello \in DownMessage /\ Busy \in DownMessage
  /\ \A g \in Nat, w \in Geometries : RingDesc(g, w) \in DownMessage
  /\ \A v \in Values, f \in BOOLEAN : FrameReleased(v, f) \in DownMessage /\ FrameReleased(v, f) \in ReleaseMessage
  /\ \A s \in Slots, v \in Values : FrameReady(s, v) \in UpMessage
  /\ \A w \in Geometries : RequestGeometry(w) \in UpMessage
BY DEF Hello, Bye, Busy, RingDesc, FrameReleased, FrameReady, RequestGeometry, UpMessage, DownMessage, ReleaseMessage

(* The payload of a message on its way to the consumer. *)
LEMMA UpFields ==
  ASSUME NEW m \in UpMessage
  PROVE  /\ m.type = "FrameReady" => m.slot \in Slots /\ m.val \in Values
         /\ m.type = "RequestGeometry" => m.geo \in Geometries
BY DEF UpMessage, Hello, Bye

(* The payload of a message on its way to a producer. *)
LEMMA DownFields ==
  ASSUME NEW m \in DownMessage
  PROVE  /\ m.type = "RingDesc" => m.gen \in Nat /\ m.geo \in Geometries
         /\ m.type = "FrameReleased" => m \in ReleaseMessage
BY DEF DownMessage, Hello, Busy, ReleaseMessage

-----------------------------------------------------------------------------
(* Types. *)
Serves ==
  /\ acc \in {"hello", "handed", "pump"} => serving \in Producers
  /\ peerConnected => peer \in Producers

(* What the constants' assumption says of slots, values and their           *)
(* sentinels.                                                               *)
LEMMA ConstantTypes ==
  ASSUME ChannelAssumption
  PROVE  /\ 0 \in Values /\ 0 \in Slots /\ NoSlot \in 0 .. NoSlot /\ Slots \subseteq 0 .. NoSlot
         /\ NoSlot \notin Slots /\ Blank \in [Slots -> Values] /\ Reserved \in 0 .. Reserved
         /\ Values \subseteq 0 .. Reserved /\ Reserved \notin Values /\ Values \subseteq Nat
         /\ Slots \subseteq Nat /\ None \notin Producers /\ 0 .. Reserved \subseteq Nat
         /\ \A n \in 0 .. NoSlot : n # NoSlot => n \in Slots
BY DEF ChannelAssumption, Values, Slots, NoSlot, Reserved, Blank

(* A part of the state that a step leaves alone keeps its types. *)
LEMMA TypesFrame ==
  ASSUME TypeOK
  PROVE  /\ UNCHANGED ringVars => RingTypes'
         /\ UNCHANGED pendingVars => PendingTypes'
         /\ UNCHANGED heldVars => HeldTypes'
         /\ UNCHANGED retireVars => RetireTypes'
         /\ UNCHANGED <<peerVars, stop>> => PeerTypes'
         /\ UNCHANGED acceptVars => AcceptTypes'
         /\ UNCHANGED slotVars => SlotTypes'
         /\ UNCHANGED <<pc, pGeneration, bufferRefs>> => ProducerTypes'
         /\ UNCHANGED linkVars => LinkTypes'
         /\ UNCHANGED gpuVars => GpuTypes'
         /\ UNCHANGED image => ImageTypes'
BY DEF TypeOK, RingTypes, PendingTypes, HeldTypes, RetireTypes, PeerTypes, AcceptTypes, SlotTypes,
       ProducerTypes, LinkTypes, GpuTypes, ImageTypes, ringVars, pendingVars, heldVars, retireVars,
       peerVars, acceptVars, slotVars, linkVars, gpuVars

(* What is sent to a producer, and what is taken from its queue. *)
LEMMA LinkTyped ==
  ASSUME LinkTypes, NEW p \in Producers
  PROVE  /\ \A m \in UpMessage : [up EXCEPT ![p] = Append(@, m)] \in [Producers -> Seq(UpMessage)]
         /\ \A m \in DownMessage : [down EXCEPT ![p] = Append(@, m)] \in [Producers -> Seq(DownMessage)]
         /\ [down EXCEPT ![p] = <<>>] \in [Producers -> Seq(DownMessage)]
         /\ [up EXCEPT ![p] = <<>>] \in [Producers -> Seq(UpMessage)]
         /\ up[p] # <<>> => /\ [up EXCEPT ![p] = Tail(@)] \in [Producers -> Seq(UpMessage)]
                            /\ Head(up[p]) \in UpMessage
         /\ down[p] # <<>> => /\ [down EXCEPT ![p] = Tail(@)] \in [Producers -> Seq(DownMessage)]
                              /\ Head(down[p]) \in DownMessage
<1>1. up \in [Producers -> Seq(UpMessage)] /\ down \in [Producers -> Seq(DownMessage)]
  BY DEF LinkTypes
<1>2. \A m \in UpMessage : [up EXCEPT ![p] = Append(@, m)] \in [Producers -> Seq(UpMessage)]
  BY <1>1, AppendType
<1>3. \A m \in DownMessage : [down EXCEPT ![p] = Append(@, m)] \in [Producers -> Seq(DownMessage)]
  BY <1>1, AppendType
<1>4. up[p] # <<>> => /\ [up EXCEPT ![p] = Tail(@)] \in [Producers -> Seq(UpMessage)]
                     /\ Head(up[p]) \in UpMessage
  BY <1>1, TailType
<1>5. down[p] # <<>> => /\ [down EXCEPT ![p] = Tail(@)] \in [Producers -> Seq(DownMessage)]
                       /\ Head(down[p]) \in DownMessage
  BY <1>1, TailType
<1>6. /\ [down EXCEPT ![p] = <<>>] \in [Producers -> Seq(DownMessage)]
      /\ [up EXCEPT ![p] = <<>>] \in [Producers -> Seq(UpMessage)]
  BY <1>1
<1> QED BY <1>2, <1>3, <1>4, <1>5, <1>6

(* SendPeer keeps the link typed, whether it sends or finds the peer gone. *)
LEMMA SendType ==
  ASSUME TypeOK, Serves, NEW m \in DownMessage, SendPeer(m), UNCHANGED <<up, peer, peerGone, stop>>
  PROVE  LinkTypes' /\ PeerTypes' /\ (peerConnected' => peer' \in Producers)
<1>2. CASE peerConnected /\ Alive(peer)
  <2>1. peer \in Producers /\ LinkTypes /\ PeerTypes
    BY <1>2 DEF TypeOK, Serves
  <2>2. down' = [down EXCEPT ![peer] = Append(@, m)] /\ peerConnected' = peerConnected
    BY <1>2 DEF SendPeer
  <2>3. down' \in [Producers -> Seq(DownMessage)]
    BY <2>1, <2>2, LinkTyped
  <2> QED BY <2>1, <2>2, <2>3 DEF PeerTypes, LinkTypes
<1>3. CASE ~(peerConnected /\ Alive(peer))
  BY <1>3 DEF TypeOK, SendPeer, PeerTypes, LinkTypes
<1> QED BY <1>2, <1>3

(* Advancing the consumer's watermark keeps its books typed. *)
LEMMA AdvanceTypes ==
  ASSUME TypeOK, NEW n \in 0 .. Len(cReleases), NEW w \in Values,
         cReleases' = Rest(cReleases, n), retiredValue' = w, UNCHANGED ledger
  PROVE  RetireTypes'
BY RestType DEF TypeOK, RetireTypes

(* A new timeline: nothing pending, nothing acquired, nothing drawn. *)
LEMMA RestartTypes ==
  ASSUME ChannelAssumption, TypeOK,
         hasPending' = FALSE, cReleases' = <<>>, heldReady' = 0, retiredValue' = 0, image' = Blank,
         UNCHANGED <<pendingSlot, pendingReady, frameHeld, heldSlot, ledger>>
  PROVE  PendingTypes' /\ HeldTypes' /\ RetireTypes' /\ ImageTypes'
<1>1. PendingTypes'
  BY DEF TypeOK, PendingTypes
<1>2. HeldTypes'
  BY ConstantTypes DEF TypeOK, HeldTypes
<1>3. RetireTypes'
  BY ConstantTypes DEF TypeOK, RetireTypes
<1>4. ImageTypes'
  BY ConstantTypes DEF ImageTypes
<1> QED BY <1>1, <1>2, <1>3, <1>4

(* Every turn of the accept thread keeps the types. *)
LEMMA AcceptThreadTypes == ASSUME ChannelAssumption, TypeOK, Serves, AcceptThread PROVE TypeOK' /\ Serves'
<1> USE TypesFrame, ConstantTypes DEF consumerVars, producerVars
<1>1. ASSUME NEW p \in Producers, Accept(p) PROVE TypeOK' /\ Serves'
  <2>1. LinkTypes'
    BY <1>1, LinkTyped, MessageTypes DEF Accept, LinkTypes, TypeOK
  <2>2. AcceptTypes'
    BY <1>1 DEF Accept, AcceptTypes
  <2> QED BY <1>1, <2>1, <2>2 DEF Accept, TypeOK, Serves, peerVars
<1>2. ASSUME NEW p \in Producers, RefuseExtra(p) PROVE TypeOK' /\ Serves'
  <2>1. LinkTypes'
    BY <1>2, LinkTyped, MessageTypes DEF RefuseExtra, LinkTypes, TypeOK
  <2> QED BY <1>2, <2>1 DEF RefuseExtra, TypeOK, Serves, peerVars, acceptVars
<1>3. CASE HelloFails
  BY <1>3 DEF HelloFails, TypeOK, AcceptTypes, Serves, peerVars
<1>4. CASE AttachBusy
  <2>1. serving \in Producers /\ LinkTypes /\ up[serving] # <<>>
    BY <1>4 DEF AttachBusy, Serves, TypeOK
  <2>2. up' \in [Producers -> Seq(UpMessage)]
    BY <1>4, <2>1, LinkTyped DEF AttachBusy, Received
  <2>3. [down EXCEPT ![serving] = Append(@, Busy)] \in [Producers -> Seq(DownMessage)]
    BY <2>1, LinkTyped, MessageTypes
  <2>4. LinkTypes'
    BY <1>4, <2>1, <2>2, <2>3 DEF AttachBusy, LinkTypes
  <2>5. RetireTypes'
    BY <1>4, AdvanceTypes DEF AttachBusy
  <2>6. AcceptTypes' /\ Serves'
    BY <1>4 DEF AttachBusy, AcceptTypes, Serves, peerVars
  <2> QED BY <1>4, <2>4, <2>5, <2>6 DEF AttachBusy, TypeOK
<1>5. CASE AttachRing
  <2>1. serving \in Producers /\ LinkTypes /\ up[serving] # <<>> /\ RingTypes
    BY <1>5 DEF AttachRing, Serves, TypeOK
  <2>2. up' \in [Producers -> Seq(UpMessage)]
    BY <1>5, <2>1, LinkTyped DEF AttachRing, Received
  <2>3. RingTypes'
    BY <1>5, <2>1 DEF AttachRing, RingTypes
  <2>4. RingDesc(generation', geometry) \in DownMessage
    BY <2>1, <2>3, MessageTypes DEF RingTypes
  <2>5. [down EXCEPT ![serving] = Append(@, RingDesc(generation', geometry))] \in [Producers -> Seq(DownMessage)]
    BY <2>1, <2>4, LinkTyped
  <2>6. LinkTypes'
    BY <1>5, <2>1, <2>2, <2>5 DEF AttachRing, LinkTypes
  <2>7. PendingTypes' /\ HeldTypes' /\ RetireTypes' /\ ImageTypes'
    <3>1. /\ hasPending' = FALSE /\ cReleases' = <<>> /\ heldReady' = 0 /\ retiredValue' = 0
          /\ image' = Blank /\ UNCHANGED <<pendingSlot, pendingReady, frameHeld, heldSlot, ledger>>
      BY <1>5 DEF AttachRing
    <3> QED BY <3>1, RestartTypes
  <2>8. AcceptTypes' /\ Serves'
    BY <1>5 DEF AttachRing, TypeOK, AcceptTypes, Serves, peerVars
  <2> QED BY <1>5, <2>3, <2>6, <2>7, <2>8 DEF AttachRing, TypeOK
<1>6. CASE Adopt
  BY <1>6 DEF Adopt, TypeOK, PeerTypes, AcceptTypes, Serves
<1>7. CASE PumpEnds
  <2>1. CASE Incoming("Bye") /\ Received(serving) /\ UNCHANGED peerConnected
    <3>1. up' \in [Producers -> Seq(UpMessage)]
      BY <2>1, LinkTyped DEF Incoming, TypeOK, Received, Serves
    <3> QED BY <1>7, <2>1, <3>1 DEF PumpEnds, TypeOK, LinkTypes, PeerTypes, AcceptTypes, Serves
  <2>2. CASE peerConnected' = FALSE /\ UNCHANGED up
    BY <1>7, <2>2 DEF PumpEnds, TypeOK, LinkTypes, PeerTypes, AcceptTypes, Serves
  <2> QED BY <1>7, <2>1, <2>2 DEF PumpEnds
<1>8. CASE PumpFrame
  <2>1. serving \in Producers /\ LinkTypes /\ up[serving] # <<>> /\ Head(up[serving]).type = "FrameReady"
    BY <1>8 DEF PumpFrame, Incoming, TypeOK, Serves
  <2>2. up' \in [Producers -> Seq(UpMessage)]
    BY <1>8, <2>1, LinkTyped DEF PumpFrame, Received
  <2>3. Head(up[serving]).slot \in Slots /\ Head(up[serving]).val \in Values
    BY <2>1, LinkTyped, UpFields
  <2>4. LinkTypes' /\ PendingTypes'
    BY <1>8, <2>1, <2>2, <2>3 DEF PumpFrame, LinkTypes, PendingTypes
  <2> QED BY <1>8, <2>4 DEF PumpFrame, TypeOK, Serves, peerVars, acceptVars
<1>9. ASSUME Incoming("RequestGeometry"), Received(serving), ReplyRing, RingTypes'
      PROVE  LinkTypes'
  <2>1. serving \in Producers /\ LinkTypes /\ up[serving] # <<>>
    BY <1>9 DEF Incoming, TypeOK, Serves
  <2>2. up' \in [Producers -> Seq(UpMessage)]
    BY <1>9, <2>1, LinkTyped DEF Received
  <2>3. RingDesc(generation', geometry') \in DownMessage
    BY <1>9, MessageTypes DEF RingTypes
  <2>4. [down EXCEPT ![serving] = Append(@, RingDesc(generation', geometry'))] \in [Producers -> Seq(DownMessage)]
    BY <2>1, <2>3, LinkTyped
  <2> QED BY <1>9, <2>1, <2>2, <2>4 DEF ReplyRing, LinkTypes
<1>10. CASE PumpGeometrySame
  <2>1. LinkTypes'
    BY <1>9, <1>10 DEF PumpGeometrySame
  <2> QED BY <1>10, <2>1 DEF PumpGeometrySame, TypeOK, Serves, peerVars, acceptVars
<1>11. CASE PumpGeometryRefused
  <2>1. LinkTypes' /\ RetireTypes'
    BY <1>9, <1>11, AdvanceTypes DEF PumpGeometryRefused
  <2> QED BY <1>11, <2>1 DEF PumpGeometryRefused, TypeOK, Serves, peerVars, acceptVars
<1>12. CASE PumpGeometryRealloc
  <2>1. Head(up[serving]).geo \in Geometries
    BY <1>12, LinkTyped, UpFields DEF PumpGeometryRealloc, Incoming, TypeOK, Serves
  <2>2. PICK n \in 0 .. Len(cReleases), w \in Values :
          \/ /\ generation' = generation + 1 /\ geometry' = Head(up[serving]).geo
             /\ heldReady' = 0 /\ retiredValue' = 0 /\ cReleases' = <<>>
             /\ image' = Blank
          \/ /\ retiredValue' = w /\ cReleases' = Rest(cReleases, n)
             /\ UNCHANGED <<ringVars, heldReady, image>>
    BY <1>12 DEF PumpGeometryRealloc
  <2>3. UNCHANGED <<pendingSlot, pendingReady, frameHeld, heldSlot, ledger>> /\ hasPending' = FALSE
    BY <1>12 DEF PumpGeometryRealloc
  <2>4. ASSUME generation' = generation + 1, geometry' = Head(up[serving]).geo,
               heldReady' = 0, retiredValue' = 0, cReleases' = <<>>, image' = Blank
        PROVE  RingTypes' /\ PendingTypes' /\ HeldTypes' /\ RetireTypes' /\ ImageTypes'
    <3>1. PendingTypes' /\ HeldTypes' /\ RetireTypes' /\ ImageTypes'
      BY <2>3, <2>4, RestartTypes
    <3>2. RingTypes'
      BY <2>1, <2>4 DEF TypeOK, RingTypes
    <3> QED BY <3>1, <3>2
  <2>5. ASSUME retiredValue' = w, cReleases' = Rest(cReleases, n),
               UNCHANGED <<ringVars, heldReady, image>>
        PROVE  RingTypes' /\ PendingTypes' /\ HeldTypes' /\ RetireTypes' /\ ImageTypes'
    BY <2>2, <2>3, <2>5, AdvanceTypes DEF TypeOK, PendingTypes, HeldTypes
  <2>6. RingTypes' /\ PendingTypes' /\ HeldTypes' /\ RetireTypes' /\ ImageTypes'
    BY <2>2, <2>4, <2>5
  <2>7. LinkTypes'
    BY <1>9, <1>12, <2>6 DEF PumpGeometryRealloc
  <2> QED BY <1>12, <2>6, <2>7 DEF PumpGeometryRealloc, TypeOK, Serves, peerVars, acceptVars
<1>13. CASE AcceptEnds
  BY <1>13 DEF AcceptEnds, TypeOK, AcceptTypes, Serves, peerVars
<1> QED BY <1>1, <1>2, <1>3, <1>4, <1>5, <1>6, <1>7, <1>8, <1>10, <1>11, <1>12, <1>13 DEF AcceptThread

(* A step that changes the counts of one leased frame, and may end its read. *)
Recount(i, r) ==
  /\ r \in LeasedFrame /\ r.slot = ledger[i].slot /\ r.val = ledger[i].val
  /\ ledger' \in Seq(LeasedFrame) /\ Len(ledger') = Len(ledger)
  /\ \A j \in 1 .. Len(ledger) : ledger'[j] = IF j = i THEN r ELSE ledger[j]
  /\ reads' = reads \/ (Finished(r) /\ reads' = reads \ {[slot |-> r.slot, val |-> r.val]})
  /\ Finished(r) => [slot |-> r.slot, val |-> r.val] \notin reads'
  /\ ~Finished(ledger[i])
  /\ UNCHANGED ledgerOnly

(* Each lease call and each fence that ends a lease recounts one frame of   *)
(* the ledger.                                                              *)
LEMMA LeaseSteps ==
  ASSUME TypeOK, NEW i \in 1 .. Len(ledger),
         \/ RetainReadLease(i) \/ CompleteReadLease(i) \/ CompleteReadLeaseSyncFd(i) \/ GpuLeaseDone(i)
  PROVE  \E r : Recount(i, r)
<1>1. ledger[i] \in LeasedFrame /\ ledger \in Seq(LeasedFrame)
  BY ElementOfSeq DEF TypeOK, RetireTypes
<1>2. /\ ledger[i].live \in Nat /\ ledger[i].gpu \in Nat /\ ledger[i].done \in Nat
  BY <1>1 DEF LeasedFrame
<1>3. ASSUME NEW r \in LeasedFrame, r.slot = ledger[i].slot, r.val = ledger[i].val,
             ledger' = [ledger EXCEPT ![i] = r], UNCHANGED ledgerOnly,
             reads' = reads \/ reads' = ReadsAfter(i, r.live + r.gpu),
             r.live + r.gpu = 0 => reads' = ReadsAfter(i, r.live + r.gpu),
             ~Finished(ledger[i])
      PROVE  Recount(i, r)
  <2>1. ledger' \in Seq(LeasedFrame) /\ Len(ledger') = Len(ledger)
        /\ \A j \in 1 .. Len(ledger) : ledger'[j] = IF j = i THEN r ELSE ledger[j]
    BY <1>1, <1>3, ExceptSeq
  <2> QED BY <1>3, <2>1 DEF Recount, ReadsAfter, Finished
<1>4. CASE RetainReadLease(i)
  <2>0. PICK r : r = [ledger[i] EXCEPT !.live = ledger[i].live + 1]
    OBVIOUS
  <2>1. /\ r \in LeasedFrame /\ r.slot = ledger[i].slot /\ r.val = ledger[i].val
        /\ r.live = ledger[i].live + 1 /\ r.gpu = ledger[i].gpu
    <3>1. ledger[i].live + 1 \in Nat
      BY <1>2
    <3> QED BY <1>1, <2>0, <3>1 DEF LeasedFrame
  <2>2. ledger' = [ledger EXCEPT ![i] = r] /\ UNCHANGED <<ledgerOnly, reads>> /\ ledger[i].live > 0
    BY <1>4, <2>0 DEF RetainReadLease
  <2>3. r.live + r.gpu # 0 /\ ~Finished(ledger[i])
    BY <1>2, <2>1, <2>2 DEF Finished
  <2> QED BY <1>3, <2>1, <2>2, <2>3
<1>5. CASE CompleteReadLease(i)
  <2>0. PICK r : r = [ledger[i] EXCEPT !.live = ledger[i].live - 1]
    OBVIOUS
  <2>1. ledger' = [ledger EXCEPT ![i] = r] /\ UNCHANGED ledgerOnly /\ ledger[i].live > 0
        /\ reads' = ReadsAfter(i, ledger[i].live - 1 + ledger[i].gpu)
    BY <1>5, <2>0 DEF CompleteReadLease
  <2>2. ledger[i].live - 1 \in Nat
    BY <1>2, <2>1
  <2>3. /\ r \in LeasedFrame /\ r.slot = ledger[i].slot /\ r.val = ledger[i].val
        /\ r.live = ledger[i].live - 1 /\ r.gpu = ledger[i].gpu
    BY <1>1, <1>2, <2>2, <2>0 DEF LeasedFrame
  <2>4. ~Finished(ledger[i])
    BY <1>2, <2>1 DEF Finished
  <2> QED BY <1>3, <2>1, <2>3, <2>4
<1>6. CASE CompleteReadLeaseSyncFd(i)
  <2>0. PICK r : r = [ledger[i] EXCEPT !.live = ledger[i].live - 1, !.gpu = ledger[i].gpu + 1]
    OBVIOUS
  <2>1. ledger' = [ledger EXCEPT ![i] = r] /\ UNCHANGED <<ledgerOnly, reads>> /\ ledger[i].live > 0
    BY <1>1, <1>6, <2>0 DEF CompleteReadLeaseSyncFd
  <2>2. ledger[i].live - 1 \in Nat /\ ledger[i].gpu + 1 \in Nat
    BY <1>2, <2>1
  <2>3. /\ r \in LeasedFrame /\ r.slot = ledger[i].slot /\ r.val = ledger[i].val
        /\ r.live = ledger[i].live - 1 /\ r.gpu = ledger[i].gpu + 1
    BY <1>1, <1>2, <2>2, <2>0 DEF LeasedFrame
  <2>4. r.live + r.gpu # 0
    <3>1. r.live \in Nat /\ r.gpu \in Nat /\ r.gpu # 0
      BY <1>2, <2>2, <2>3
    <3> QED BY <3>1
  <2>5. ~Finished(ledger[i])
    BY <1>2, <2>1 DEF Finished
  <2> QED BY <1>3, <2>1, <2>3, <2>4, <2>5
<1>7. CASE GpuLeaseDone(i)
  <2>0. PICK r : r = [ledger[i] EXCEPT !.gpu = ledger[i].gpu - 1, !.done = ledger[i].done + 1]
    OBVIOUS
  <2>1. ledger' = [ledger EXCEPT ![i] = r] /\ UNCHANGED ledgerOnly /\ ledger[i].gpu > 0
        /\ reads' = ReadsAfter(i, ledger[i].live + ledger[i].gpu - 1)
    BY <1>1, <1>7, <2>0 DEF GpuLeaseDone
  <2>2. ledger[i].gpu - 1 \in Nat /\ ledger[i].done + 1 \in Nat
    BY <1>2, <2>1
  <2>3. /\ r \in LeasedFrame /\ r.slot = ledger[i].slot /\ r.val = ledger[i].val
        /\ r.live = ledger[i].live /\ r.gpu = ledger[i].gpu - 1
    BY <1>1, <1>2, <2>2, <2>0 DEF LeasedFrame
  <2>4. ~Finished(ledger[i]) /\ ledger[i].live + ledger[i].gpu - 1 = r.live + r.gpu
    BY <1>2, <2>1, <2>3 DEF Finished
  <2> QED BY <1>3, <2>1, <2>3, <2>4
<1> QED BY <1>4, <1>5, <1>6, <1>7

(* Every consumer call keeps the types. *)
LEMMA ConsumerTypes ==
  ASSUME ChannelAssumption, TypeOK, Serves, Consumer
  PROVE  TypeOK' /\ Serves'
<1> USE TypesFrame, ConstantTypes DEF consumerVars, producerVars
<1>1. CASE AcquireFrame
  <2>1. HeldTypes' /\ PendingTypes'
    BY <1>1 DEF AcquireFrame, TypeOK, PendingTypes, HeldTypes
  <2>2. GpuTypes'
    BY <1>1 DEF AcquireFrame, TypeOK, PendingTypes, GpuTypes, Read
  <2> QED BY <1>1, <2>1, <2>2 DEF AcquireFrame, TypeOK, Serves, peerVars, acceptVars
<1>2. ASSUME NEW m \in ReleaseMessage, SendPeer(m), UNCHANGED <<peer, peerGone, stop, up, acceptVars>>,
             NEW n \in 0 .. Len(Append(cReleases, m)), NEW w \in Values,
             cReleases' = Rest(Append(cReleases, m), n), retiredValue' = w, UNCHANGED ledger
      PROVE  RetireTypes' /\ LinkTypes' /\ PeerTypes' /\ Serves'
  <2>1. m \in DownMessage
    BY DEF DownMessage
  <2>2. LinkTypes' /\ PeerTypes' /\ Serves'
    BY <1>2, <2>1, SendType DEF Serves, acceptVars
  <2>3. Append(cReleases, m) \in Seq(ReleaseMessage)
    BY AppendProperties DEF TypeOK, RetireTypes
  <2>4. RetireTypes'
    BY <1>2, <2>3, RestType DEF TypeOK, RetireTypes
  <2> QED BY <2>2, <2>4
<1>3. ASSUME NEW f \in Fences, ReleaseSyncFd(f) PROVE TypeOK' /\ Serves'
  <2>1. FrameReleased(heldReady, f) \in ReleaseMessage
    BY MessageTypes DEF ChannelAssumption, TypeOK, HeldTypes
  <2>2. PICK n \in 0 .. Len(Append(cReleases, FrameReleased(heldReady, f))), w \in Values :
          cReleases' = Rest(Append(cReleases, FrameReleased(heldReady, f)), n) /\ retiredValue' = w
    BY <1>3 DEF ReleaseSyncFd
  <2>3. RetireTypes' /\ LinkTypes' /\ PeerTypes' /\ Serves'
    BY <1>2, <1>3, <2>1, <2>2 DEF ReleaseSyncFd
  <2>4. HeldTypes'
    BY <1>3 DEF ReleaseSyncFd, TypeOK, HeldTypes
  <2>5. GpuTypes'
    BY <1>3 DEF ReleaseSyncFd, TypeOK, GpuTypes
  <2> QED BY <1>3, <2>3, <2>4, <2>5 DEF ReleaseSyncFd, TypeOK
<1>4. CASE ReleaseDeferred
  BY <1>4 DEF ReleaseDeferred, TypeOK, HeldTypes, Serves, peerVars, acceptVars
<1>5. ASSUME NEW v \in Values, NEW f \in Fences, SignalConsumed(v, f) PROVE TypeOK' /\ Serves'
  <2>1. FrameReleased(v, f) \in ReleaseMessage
    BY MessageTypes DEF ChannelAssumption
  <2>2. PICK n \in 0 .. Len(Append(cReleases, FrameReleased(v, f))), w \in Values :
          cReleases' = Rest(Append(cReleases, FrameReleased(v, f)), n) /\ retiredValue' = w
    BY <1>5 DEF SignalConsumed
  <2>3. RetireTypes' /\ LinkTypes' /\ PeerTypes' /\ Serves'
    BY <1>2, <1>5, <2>1, <2>2 DEF SignalConsumed
  <2>4. GpuTypes'
    BY <1>5 DEF SignalConsumed, TypeOK, GpuTypes
  <2> QED BY <1>5, <2>3, <2>4 DEF SignalConsumed, TypeOK
<1>6. ASSUME ledger' \in Seq(LeasedFrame), reads' \subseteq reads, UNCHANGED ledgerOnly
      PROVE  TypeOK' /\ Serves'
  <2>1. RetireTypes' /\ GpuTypes'
    BY <1>6 DEF TypeOK, RetireTypes, GpuTypes, ledgerOnly
  <2> QED BY <1>6, <2>1 DEF ledgerOnly, TypeOK, Serves, peerVars, acceptVars
<1>7. CASE LeaseFrame
  <2>1. [slot |-> heldSlot, val |-> heldReady, live |-> 1, gpu |-> 0, done |-> 0] \in LeasedFrame
    BY DEF TypeOK, HeldTypes, LeasedFrame
  <2>2. ledger' \in Seq(LeasedFrame)
    BY <1>7, <2>1, AppendProperties DEF LeaseFrame, TypeOK, RetireTypes
  <2>3. RetireTypes' /\ HeldTypes'
    BY <1>7, <2>2 DEF LeaseFrame, TypeOK, RetireTypes, HeldTypes
  <2> QED BY <1>7, <2>3 DEF LeaseFrame, TypeOK, Serves, peerVars, acceptVars
<1>8. CASE CollectReadLeases
  <2> DEFINE polled == [i \in 1 .. Len(ledger) |-> [ledger[i] EXCEPT !.done = 0]]
  <2>1. polled \in Seq(LeasedFrame) /\ Len(polled) = Len(ledger)
    <3>1. Len(ledger) \in Nat /\ \A i \in 1 .. Len(ledger) : ledger[i] \in LeasedFrame
      BY ElementOfSeq, LenProperties DEF TypeOK, RetireTypes
    <3>2. \A i \in 1 .. Len(ledger) : [ledger[i] EXCEPT !.done = 0] \in LeasedFrame
      BY <3>1 DEF LeasedFrame
    <3> QED BY <3>1, <3>2
  <2> HIDE DEF polled
  <2>2. PICK n \in 0 .. Len(ledger) :
           IF n = 0
           THEN ledger' = polled /\ UNCHANGED <<retiredValue, peerConnected, down>>
           ELSE /\ SendPeer(FrameReleased(ledger[n].val, FALSE))
                /\ IF peerConnected /\ ~Alive(peer)
                   THEN ledger' = polled /\ UNCHANGED retiredValue
                   ELSE ledger' = Rest(polled, n) /\ retiredValue' = ledger[n].val
    BY <1>8 DEF CollectReadLeases, polled
  <2>3. Rest(polled, n) \in Seq(LeasedFrame)
    BY <2>1, RestType
  <2>4. CASE n = 0
    <3>1. RetireTypes'
      BY <1>8, <2>1, <2>2, <2>4 DEF CollectReadLeases, TypeOK, RetireTypes
    <3>2. LinkTypes' /\ PeerTypes' /\ Serves'
      BY <1>8, <2>2, <2>4 DEF CollectReadLeases, TypeOK, LinkTypes, PeerTypes, Serves, acceptVars
    <3> QED BY <1>8, <3>1, <3>2 DEF CollectReadLeases, TypeOK
  <2>5. CASE n # 0
    <3>1. n \in 1 .. Len(ledger) /\ ledger[n].val \in Values
      <4>1. n \in 1 .. Len(ledger) /\ ledger \in Seq(LeasedFrame)
        BY <2>5, LenProperties DEF TypeOK, RetireTypes
      <4>2. ledger[n] \in LeasedFrame
        BY <4>1, ElementOfSeq
      <4> QED BY <4>1, <4>2 DEF LeasedFrame
    <3>2. FrameReleased(ledger[n].val, FALSE) \in DownMessage
      BY <3>1, MessageTypes
    <3>3. LinkTypes' /\ PeerTypes' /\ Serves'
      BY <1>8, <2>2, <2>5, <3>2, SendType DEF CollectReadLeases, Serves, acceptVars
    <3>4. RetireTypes'
      BY <1>8, <2>1, <2>2, <2>3, <2>5, <3>1 DEF CollectReadLeases, TypeOK, RetireTypes
    <3> QED BY <1>8, <3>3, <3>4 DEF CollectReadLeases, TypeOK
  <2> QED BY <2>4, <2>5
<1>9. ASSUME NEW i \in 1 .. Len(ledger),
             RetainReadLease(i) \/ CompleteReadLease(i) \/ CompleteReadLeaseSyncFd(i)
      PROVE  TypeOK' /\ Serves'
  BY <1>6, <1>9, LeaseSteps DEF Recount
<1>10. CASE CloseConsumer
  BY <1>10 DEF CloseConsumer, TypeOK, PeerTypes, Serves, peerVars, acceptVars
<1> QED BY <1>1, <1>3, <1>4, <1>5, <1>7, <1>8, <1>9, <1>10 DEF Consumer, LeaseStep

(* What the GPU finishes keeps the types. *)
LEMMA GpuStepTypes ==
  ASSUME ChannelAssumption, TypeOK, Serves, Gpu
  PROVE  TypeOK' /\ Serves'
<1> USE TypesFrame DEF consumerVars, producerVars
<1>1. ASSUME NEW p \in Producers, GpuWriteDone(p) PROVE TypeOK' /\ Serves'
  <2>1. written[p] + 1 \in Values
    BY <1>1 DEF GpuWriteDone, Announced, TypeOK, GpuTypes, SlotTypes, Values, ChannelAssumption
  <2>2. GpuTypes'
    BY <1>1, <2>1 DEF GpuWriteDone, TypeOK, GpuTypes
  <2> QED BY <1>1, <2>2 DEF GpuWriteDone, TypeOK, Serves, peerVars, acceptVars
<1>2. ASSUME NEW x \in reads, GpuReadDone(x) PROVE TypeOK' /\ Serves'
  BY <1>2 DEF GpuReadDone, TypeOK, GpuTypes, Serves, peerVars, acceptVars
<1>3. ASSUME NEW i \in 1 .. Len(ledger), GpuLeaseDone(i) PROVE TypeOK' /\ Serves'
  <2>2. ledger' \in Seq(LeasedFrame) /\ reads' \subseteq reads
    BY <1>3, LeaseSteps DEF Recount
  <2>3. RetireTypes' /\ GpuTypes'
    BY <1>3, <2>2 DEF GpuLeaseDone, TypeOK, RetireTypes, GpuTypes, ledgerOnly
  <2> QED BY <1>3, <2>3 DEF GpuLeaseDone, ledgerOnly, TypeOK, Serves, peerVars, acceptVars
<1> QED BY <1>1, <1>2, <1>3 DEF Gpu

(* What a producer reads from its link between calls are releases. *)
LEMMA QueueTyped ==
  ASSUME TypeOK, Links, NEW p \in Producers, pc[p] = "idle"
  PROVE  /\ down[p] \in Seq(ReleaseMessage) /\ pReleases[p] \in Seq(ReleaseMessage)
         /\ pReleases[p] \o down[p] \in Seq(ReleaseMessage)
<1>1. /\ down[p] \in Seq(DownMessage) /\ pReleases[p] \in Seq(ReleaseMessage)
      /\ \A i \in 1 .. Len(down[p]) : down[p][i].type = "FrameReleased"
  BY DEF TypeOK, LinkTypes, SlotTypes, Links, Link, Opening, Attached, Downward, Only
<1>2. \A i \in 1 .. Len(down[p]) : down[p][i] \in ReleaseMessage
  BY <1>1, ElementOfSeq, DownFields
<1>3. down[p] \in [1 .. Len(down[p]) -> ReleaseMessage] /\ Len(down[p]) \in Nat
  BY <1>1, <1>2, LenProperties
<1>4. down[p] \in Seq(ReleaseMessage)
  BY <1>3, SeqDef
<1> QED BY <1>1, <1>4, ConcatProperties

(* Every producer call keeps the types. *)
LEMMA ProducerStepTypes ==
  ASSUME ChannelAssumption, TypeOK, Serves, Links, NEW p \in Producers, Producer(p)
  PROVE  TypeOK' /\ Serves'
<1> USE TypesFrame, ConstantTypes DEF consumerVars
<1>0. UNCHANGED consumerVars /\ UNCHANGED acceptVars
  BY DEF Producer, Connect, OpenGreeted, OpenBusy, OpenRing, AcquireBuffer, CancelBuffer, BeginSubmit,
         EndSubmit, RetainBufferReference, ReleaseBufferReference, SendRequestGeometry, GeometryRelease,
         GeometryReply, Leave, slotOnly
<1>1. /\ RingTypes' /\ PendingTypes' /\ HeldTypes' /\ RetireTypes' /\ PeerTypes' /\ AcceptTypes' /\ Serves'
  BY <1>0 DEF Serves, peerVars, acceptVars
<1>2. SUFFICES SlotTypes' /\ ProducerTypes' /\ LinkTypes' /\ GpuTypes' /\ ImageTypes'
  BY <1>1 DEF TypeOK
<1>3. CASE Connect(p)
  <2>1. LinkTypes'
    BY <1>3, LinkTyped DEF Connect, TypeOK, LinkTypes
  <2>2. ProducerTypes'
    BY <1>3 DEF Connect, TypeOK, ProducerTypes
  <2> QED BY <1>3, <2>1, <2>2 DEF Connect
<1>4. CASE OpenGreeted(p)
  <2>1. LinkTypes'
    BY <1>4, LinkTyped, MessageTypes DEF OpenGreeted, TypeOK, LinkTypes, Arrived, Taken
  <2>2. ProducerTypes'
    BY <1>4 DEF OpenGreeted, TypeOK, ProducerTypes
  <2> QED BY <1>4, <2>1, <2>2 DEF OpenGreeted
<1>5. CASE OpenBusy(p)
  <2>1. LinkTypes'
    BY <1>5, LinkTyped DEF OpenBusy, TypeOK, LinkTypes, Arrived, Taken
  <2>2. ProducerTypes'
    BY <1>5 DEF OpenBusy, TypeOK, ProducerTypes
  <2> QED BY <1>5, <2>1, <2>2 DEF OpenBusy
<1>6. ASSUME Arrived(p, "RingDesc"), ImportRing(p, Head(down[p])),
             UNCHANGED submittingSlot \/ submittingSlot' = [submittingSlot EXCEPT ![p] = NoSlot],
             UNCHANGED reads
      PROVE  SlotTypes' /\ GpuTypes' /\ pGeneration' \in [Producers -> Nat]
  <2>1. Head(down[p]).gen \in Nat
    BY <1>6, LinkTyped, DownFields DEF Arrived, TypeOK
  <2>2. pGeneration' \in [Producers -> Nat]
    BY <1>6, <2>1 DEF ImportRing, TypeOK, ProducerTypes
  <2>3. GpuTypes'
    BY <1>6 DEF ImportRing, TypeOK, GpuTypes
  <2>4. slotSubmitValue' \in [Producers -> [Slots -> 0 .. Reserved]]
    BY <1>6 DEF ImportRing, TypeOK, SlotTypes
  <2>5. consumedValue' \in [Producers -> Values] /\ readyValue' \in [Producers -> Values]
    BY <1>6 DEF ImportRing, TypeOK, SlotTypes
  <2>6. submittingSlot' \in [Producers -> 0 .. NoSlot]
    BY <1>6 DEF TypeOK, SlotTypes
  <2>7. pReleases' \in [Producers -> Seq(ReleaseMessage)]
    BY <1>6 DEF ImportRing, TypeOK, SlotTypes
  <2> QED BY <2>2, <2>3, <2>4, <2>5, <2>6, <2>7 DEF SlotTypes
<1>7. ASSUME Arrived(p, "RingDesc"), Taken(p), UNCHANGED up
      PROVE  LinkTypes'
  BY <1>7, LinkTyped DEF TypeOK, LinkTypes, Arrived, Taken
<1>8. CASE OpenRing(p)
  <2>1. SlotTypes' /\ GpuTypes' /\ pGeneration' \in [Producers -> Nat]
    BY <1>6, <1>8 DEF OpenRing
  <2>2. LinkTypes'
    BY <1>7, <1>8 DEF OpenRing
  <2>3. ProducerTypes'
    BY <1>8, <2>1 DEF OpenRing, TypeOK, ProducerTypes
  <2> QED BY <1>8, <2>1, <2>2, <2>3 DEF OpenRing
<1>9. CASE AcquireBuffer(p)
  <2>1. pReleases[p] \o down[p] \in Seq(ReleaseMessage)
    BY <1>9, QueueTyped DEF AcquireBuffer
  <2>2. PICK n \in 0 .. Len(pReleases[p] \o down[p]), w \in Values :
          /\ pReleases' = [pReleases EXCEPT ![p] = Rest(pReleases[p] \o down[p], n)]
          /\ consumedValue' = [consumedValue EXCEPT ![p] = w]
    BY <1>9 DEF AcquireBuffer
  <2>3. Rest(pReleases[p] \o down[p], n) \in Seq(ReleaseMessage)
    BY <2>1, RestType
  <2>4. /\ slotSubmitValue' \in [Producers -> [Slots -> 0 .. Reserved]]
        /\ image' \in [Slots -> Values]
    <3>1. \/ UNCHANGED <<slotSubmitValue, image>>
          \/ \E s \in Slots : /\ slotSubmitValue' = [slotSubmitValue EXCEPT ![p][s] = Reserved]
                             /\ image' = [image EXCEPT ![s] = 0]
      BY <1>9 DEF AcquireBuffer
    <3>2. /\ slotSubmitValue \in [Producers -> [Slots -> 0 .. Reserved]]
          /\ image \in [Slots -> Values]
      BY DEF TypeOK, SlotTypes, ImageTypes
    <3>3. ASSUME NEW s \in Slots, slotSubmitValue' = [slotSubmitValue EXCEPT ![p][s] = Reserved],
                 image' = [image EXCEPT ![s] = 0]
          PROVE  /\ slotSubmitValue' \in [Producers -> [Slots -> 0 .. Reserved]]
                 /\ image' \in [Slots -> Values]
      BY <3>2, <3>3
    <3> QED BY <3>1, <3>2, <3>3
  <2>5. SlotTypes' /\ ImageTypes'
    BY <1>9, <2>2, <2>3, <2>4 DEF AcquireBuffer, TypeOK, SlotTypes, ImageTypes
  <2>6. LinkTypes'
    BY <1>9, LinkTyped DEF AcquireBuffer, TypeOK, LinkTypes
  <2> QED BY <1>9, <2>5, <2>6 DEF AcquireBuffer
<1>10. ASSUME NEW s \in Slots, CancelBuffer(p, s) PROVE SlotTypes' /\ ProducerTypes' /\ LinkTypes' /\ GpuTypes' /\ ImageTypes'
  <2>1. SlotTypes'
    BY <1>10 DEF CancelBuffer, slotOnly, TypeOK, SlotTypes
  <2> QED BY <1>10, <2>1 DEF CancelBuffer, slotOnly, linkVars, gpuVars
<1>11. ASSUME NEW s \in Slots, BeginSubmit(p, s) PROVE SlotTypes' /\ ProducerTypes' /\ LinkTypes' /\ GpuTypes' /\ ImageTypes'
  <2>1. readyValue[p] + 1 \in Values
    BY <1>11 DEF BeginSubmit, TypeOK, SlotTypes, Values, ChannelAssumption
  <2>2. SlotTypes'
    BY <1>11, <2>1 DEF BeginSubmit, slotOnly, TypeOK, SlotTypes
  <2> QED BY <1>11, <2>2 DEF BeginSubmit, slotOnly, linkVars, gpuVars
<1>12. ASSUME NEW f \in Fences, EndSubmit(p, f) PROVE SlotTypes' /\ ProducerTypes' /\ LinkTypes' /\ GpuTypes' /\ ImageTypes'
  <2>1. submittingSlot[p] \in Slots /\ readyValue[p] \in Values
    BY <1>12 DEF EndSubmit, TypeOK, SlotTypes
  <2>2. SlotTypes'
    BY <1>12, <2>1 DEF EndSubmit, slotOnly, TypeOK, SlotTypes
  <2>3. FrameReady(submittingSlot[p], readyValue[p]) \in UpMessage
    BY <2>1, MessageTypes
  <2>4. LinkTypes'
    BY <1>12, <2>3, LinkTyped DEF EndSubmit, slotOnly, TypeOK, LinkTypes
  <2>5. GpuTypes' /\ ImageTypes'
    BY <1>12, <2>1 DEF EndSubmit, slotOnly, TypeOK, GpuTypes, ImageTypes
  <2> QED BY <1>12, <2>2, <2>4, <2>5 DEF EndSubmit, slotOnly
<1>13. ASSUME NEW s \in Slots, RetainBufferReference(p, s) \/ ReleaseBufferReference(p, s)
       PROVE  SlotTypes' /\ ProducerTypes' /\ LinkTypes' /\ GpuTypes' /\ ImageTypes'
  <2>1. bufferRefs[p][s] \in Nat
    BY DEF TypeOK, ProducerTypes
  <2>2. bufferRefs' \in [Producers -> [Slots -> Nat]]
    <3>1. CASE RetainBufferReference(p, s)
      BY <2>1, <3>1 DEF RetainBufferReference, TypeOK, ProducerTypes
    <3>2. CASE ReleaseBufferReference(p, s)
      <4>1. bufferRefs[p][s] - 1 \in Nat
        BY <2>1, <3>2 DEF ReleaseBufferReference
      <4> QED BY <3>2, <4>1 DEF ReleaseBufferReference, TypeOK, ProducerTypes
    <3> QED BY <1>13, <3>1, <3>2
  <2> QED BY <1>13, <2>2 DEF RetainBufferReference, ReleaseBufferReference, TypeOK, ProducerTypes
<1>14. ASSUME NEW w \in Geometries, SendRequestGeometry(p, w)
       PROVE  SlotTypes' /\ ProducerTypes' /\ LinkTypes' /\ GpuTypes' /\ ImageTypes'
  <2>1. LinkTypes'
    BY <1>14, LinkTyped, MessageTypes DEF SendRequestGeometry, TypeOK, LinkTypes
  <2>2. ProducerTypes'
    BY <1>14 DEF SendRequestGeometry, TypeOK, ProducerTypes
  <2> QED BY <1>14, <2>1, <2>2 DEF SendRequestGeometry
<1>15. CASE GeometryRelease(p)
  <2>1. Append(pReleases[p], Head(down[p])) \in Seq(ReleaseMessage)
    BY <1>15, LinkTyped, DownFields, AppendProperties DEF GeometryRelease, Arrived, TypeOK, SlotTypes
  <2>2. PICK n \in 0 .. Len(Append(pReleases[p], Head(down[p]))), w \in Values :
          /\ pReleases' = [pReleases EXCEPT ![p] = Rest(Append(pReleases[p], Head(down[p])), n)]
          /\ consumedValue' = [consumedValue EXCEPT ![p] = w]
    BY <1>15 DEF GeometryRelease
  <2>3. Rest(Append(pReleases[p], Head(down[p])), n) \in Seq(ReleaseMessage)
    BY <2>1, RestType
  <2>4. SlotTypes'
    BY <1>15, <2>2, <2>3 DEF GeometryRelease, TypeOK, SlotTypes
  <2>5. LinkTypes'
    BY <1>15, LinkTyped DEF GeometryRelease, TypeOK, LinkTypes, Arrived, Taken
  <2> QED BY <1>15, <2>4, <2>5 DEF GeometryRelease
<1>16. CASE GeometryReply(p)
  <2>1. SlotTypes' /\ GpuTypes' /\ pGeneration' \in [Producers -> Nat]
    <3>1. CASE Head(down[p]).gen = pGeneration[p]
      BY <1>16, <3>1 DEF GeometryReply, slotVars, gpuVars, TypeOK, ProducerTypes
    <3>2. CASE Head(down[p]).gen # pGeneration[p]
      BY <1>6, <1>16, <3>2 DEF GeometryReply
    <3> QED BY <3>1, <3>2
  <2>2. LinkTypes'
    BY <1>7, <1>16 DEF GeometryReply
  <2>3. ProducerTypes'
    BY <1>16, <2>1 DEF GeometryReply, TypeOK, ProducerTypes
  <2> QED BY <1>16, <2>1, <2>2, <2>3 DEF GeometryReply
<1>17. CASE Leave(p)
  <2>1. ProducerTypes'
    BY <1>17 DEF Leave, TypeOK, ProducerTypes
  <2>2. SlotTypes'
    <3>1. slotSubmitValue' \in [Producers -> [Slots -> 0 .. Reserved]]
      BY <1>17 DEF Leave, TypeOK, SlotTypes
    <3>2. consumedValue' \in [Producers -> Values]
      BY <1>17 DEF Leave, TypeOK, SlotTypes
    <3>3. pReleases' \in [Producers -> Seq(ReleaseMessage)]
      BY <1>17 DEF Leave, TypeOK, SlotTypes
    <3> QED BY <1>17, <3>1, <3>2, <3>3 DEF Leave, TypeOK, SlotTypes
  <2>3. up' \in [Producers -> Seq(UpMessage)]
    <3>1. CASE up' = [up EXCEPT ![p] = Append(@, Bye)]
      BY <3>1, LinkTyped, MessageTypes DEF TypeOK
    <3>2. CASE up' = up
      BY <3>2 DEF TypeOK, LinkTypes
    <3>3. CASE up' = [up EXCEPT ![p] = <<>>]
      BY <3>3, LinkTyped DEF TypeOK
    <3> QED BY <1>17, <3>1, <3>2, <3>3 DEF Leave
  <2>4. LinkTypes'
    BY <1>17, <2>3, LinkTyped DEF Leave, TypeOK, LinkTypes
  <2> QED BY <1>17, <2>1, <2>2, <2>4 DEF Leave
<1> QED BY <1>3, <1>4, <1>5, <1>8, <1>9, <1>10, <1>11, <1>12, <1>13, <1>14, <1>15, <1>16, <1>17 DEF Producer

-----------------------------------------------------------------------------
(* Queues. *)
Pops(s, t) ==
  Len(s) \in Nat \ {0} /\ Len(t) = Len(s) - 1 /\ \A i \in 1 .. Len(t) : t[i] = s[i + 1]
Pushes(s, t, m) ==
  /\ Len(s) \in Nat /\ Len(t) = Len(s) + 1 /\ t[Len(s) + 1] = m
  /\ \A i \in 1 .. Len(s) : t[i] = s[i]

Only1(f, g, p) == \A q \in Producers : q # p => g[q] = f[q]

(* A queue one message shorter, the others as they were. *)
LEMMA PopLemma ==
  ASSUME NEW S, NEW f \in [Producers -> Seq(S)], NEW p \in Producers, f[p] # <<>>,
         NEW g, g = [f EXCEPT ![p] = Tail(@)]
  PROVE  Pops(f[p], g[p]) /\ Only1(f, g, p) /\ Head(f[p]) = f[p][1]
<1>1. f[p] \in Seq(S) /\ g[p] = Tail(f[p])
  OBVIOUS
<1>2. Len(f[p]) \in Nat \ {0}
  BY <1>1, EmptySeq
<1>3. Head(f[p]) = f[p][1] /\ Len(Tail(f[p])) = Len(f[p]) - 1 /\ \A i \in 1 .. Len(Tail(f[p])) : Tail(f[p])[i] = f[p][i + 1]
  BY <1>1, <1>2, HeadTailProperties
<1> QED BY <1>1, <1>2, <1>3 DEF Pops, Only1

(* A queue one message longer, the others as they were. *)
LEMMA PushLemma ==
  ASSUME NEW S, NEW f \in [Producers -> Seq(S)], NEW p \in Producers, NEW m \in S,
         NEW g, g = [f EXCEPT ![p] = Append(@, m)]
  PROVE  Pushes(f[p], g[p], m) /\ Only1(f, g, p)
<1>1. f[p] \in Seq(S) /\ g[p] = Append(f[p], m)
  OBVIOUS
<1>2. Len(f[p]) \in Nat /\ Len(Append(f[p], m)) = Len(f[p]) + 1 /\ Append(f[p], m)[Len(f[p]) + 1] = m
      /\ \A i \in 1 .. Len(f[p]) : Append(f[p], m)[i] = f[p][i]
  BY <1>1, AppendProperties, LenProperties
<1> QED BY <1>1, <1>2 DEF Pushes, Only1

(* The same for the two queues of a link, in the forms the actions use. *)
LEMMA LinkQueues ==
  ASSUME TypeOK, NEW p \in Producers
  PROVE  /\ up[p] # <<>> /\ Received(p) => Pops(up[p], up'[p]) /\ Only1(up, up', p) /\ Head(up[p]) = up[p][1]
         /\ down[p] # <<>> /\ Taken(p) => Pops(down[p], down'[p]) /\ Only1(down, down', p) /\ Head(down[p]) = down[p][1]
         /\ \A m \in UpMessage : up' = [up EXCEPT ![p] = Append(@, m)] => Pushes(up[p], up'[p], m) /\ Only1(up, up', p)
         /\ \A m \in DownMessage : down' = [down EXCEPT ![p] = Append(@, m)] => Pushes(down[p], down'[p], m) /\ Only1(down, down', p)
         /\ up' = [up EXCEPT ![p] = <<>>] => up'[p] = <<>> /\ Len(up'[p]) = 0 /\ Only1(up, up', p)
         /\ down' = [down EXCEPT ![p] = <<>>] => down'[p] = <<>> /\ Len(down'[p]) = 0 /\ Only1(down, down', p)
         /\ up[p] = <<>> <=> Len(up[p]) = 0
         /\ down[p] = <<>> <=> Len(down[p]) = 0
         /\ Len(up[p]) \in Nat /\ Len(down[p]) \in Nat
<1>1. up \in [Producers -> Seq(UpMessage)] /\ down \in [Producers -> Seq(DownMessage)]
  BY DEF TypeOK, LinkTypes
<1>2. up[p] # <<>> /\ Received(p) => Pops(up[p], up'[p]) /\ Only1(up, up', p) /\ Head(up[p]) = up[p][1]
  BY <1>1, PopLemma DEF Received
<1>3. down[p] # <<>> /\ Taken(p) => Pops(down[p], down'[p]) /\ Only1(down, down', p) /\ Head(down[p]) = down[p][1]
  BY <1>1, PopLemma DEF Taken
<1>4. \A m \in UpMessage : up' = [up EXCEPT ![p] = Append(@, m)] => Pushes(up[p], up'[p], m) /\ Only1(up, up', p)
  BY <1>1, PushLemma
<1>5. \A m \in DownMessage : down' = [down EXCEPT ![p] = Append(@, m)] => Pushes(down[p], down'[p], m) /\ Only1(down, down', p)
  BY <1>1, PushLemma
<1>6. /\ up' = [up EXCEPT ![p] = <<>>] => up'[p] = <<>> /\ Len(up'[p]) = 0 /\ Only1(up, up', p)
      /\ down' = [down EXCEPT ![p] = <<>>] => down'[p] = <<>> /\ Len(down'[p]) = 0 /\ Only1(down, down', p)
  BY <1>1, EmptySeq DEF Only1
<1>7. /\ up[p] = <<>> <=> Len(up[p]) = 0
      /\ down[p] = <<>> <=> Len(down[p]) = 0
      /\ Len(up[p]) \in Nat /\ Len(down[p]) \in Nat
  BY <1>1, EmptySeq, LenProperties
<1> QED BY <1>2, <1>3, <1>4, <1>5, <1>6, <1>7

(* A link keeps its invariant when nothing of it changes. *)
LEMMA LinkFrame ==
  ASSUME NEW q \in Producers, Link(q), generation' = generation,
         pc'[q] = pc[q], pGeneration'[q] = pGeneration[q], up'[q] = up[q], down'[q] = down[q],
         Owns(q)' <=> Owns(q), serving' = q <=> serving = q
  PROVE  Link(q)'
<1>1. Opening(q)'
  BY DEF Link, Opening, Owns, Only, Alive, Attached
<1>2. ASSUME Owns(q) PROVE Upward(q)' /\ Downward(q)'
  BY <1>2 DEF Link, Upward, Downward, Only, Unopened
<1> QED BY <1>1, <1>2 DEF Link

(* So does the link of a producer without the ring, whatever the generation *)
(* does.                                                                    *)
LEMMA LinkFrameIdle ==
  ASSUME NEW q \in Producers, Link(q), ~Owns(q), ~Owns(q)',
         pc'[q] = pc[q], up'[q] = up[q], down'[q] = down[q],
         serving' = q <=> serving = q
  PROVE  Link(q)'
BY DEF Link, Opening, Only, Alive, Attached

(* flCreate's accept: the connection is taken or turned away with Busy. *)
LEMMA AcceptLinks ==
  ASSUME ChannelAssumption, TypeOK, Serves, Links, Peers, NEW p \in Producers, Accept(p) \/ RefuseExtra(p)
  PROVE  Links' /\ Peers'
<1>1. CASE Accept(p)
  <2>0. Pushes(down[p], down'[p], Hello) /\ Only1(down, down', p) /\ Len(down[p]) = 0
    BY <1>1, LinkQueues, MessageTypes DEF Accept
  <2>1. Only1(down, down', p) /\ Len(down'[p]) = 1 /\ down'[p][1].type = "Hello"
    BY <2>0 DEF Pushes, Hello
  <2>2. /\ acc' = "hello" /\ serving' = p /\ acc = "accept" /\ serving = None /\ pc[p] = "connecting"
        /\ UNCHANGED <<consumerVars, producerVars, up>>
    BY <1>1 DEF Accept, Peers
  <2>3. ASSUME NEW q \in Producers PROVE Link(q)'
    <3>1. Link(q)
      BY DEF Links
    <3>2. CASE q # p
      BY <2>1, <2>2, <3>1, <3>2, LinkFrame, ConstantTypes DEF Owns, Only1, consumerVars, ringVars, producerVars
    <3>3. CASE q = p
      <4>1. /\ \A i \in 1 .. Len(down'[q]) : down'[q][i].type = "Hello"
            /\ pc[q] = "connecting" /\ pc'[q] = "connecting" /\ up'[q] = up[q]
            /\ acc' = "hello" /\ serving' = q /\ Len(down'[q]) = 1 /\ Opening(q)
        BY <2>1, <2>2, <3>1, <3>3 DEF producerVars, Link
      <4> QED BY <4>1 DEF Link, Opening, Owns, Alive, Attached, Only
    <3> QED BY <3>2, <3>3
  <2>4. Peers'
    BY <2>2 DEF Peers, consumerVars, peerVars, producerVars, Alive
  <2> QED BY <2>3, <2>4 DEF Links
<1>2. CASE RefuseExtra(p)
  <2>0. Pushes(down[p], down'[p], Busy) /\ Only1(down, down', p) /\ Len(down[p]) = 0
    BY <1>2, LinkQueues, MessageTypes DEF RefuseExtra
  <2>1. Only1(down, down', p) /\ Len(down'[p]) = 1 /\ down'[p][1].type = "Busy"
    BY <2>0 DEF Pushes, Busy
  <2>2. /\ acc = "pump" /\ serving # p /\ pc[p] = "connecting"
        /\ UNCHANGED <<consumerVars, acceptVars, producerVars, up>>
    BY <1>2 DEF RefuseExtra
  <2>3. ASSUME NEW q \in Producers PROVE Link(q)'
    <3>1. Link(q)
      BY DEF Links
    <3>2. CASE q # p
      BY <2>1, <2>2, <3>1, <3>2, LinkFrame DEF Owns, Only1, consumerVars, ringVars, acceptVars, producerVars
    <3>3. CASE q = p
      <4>1. /\ \A i \in 1 .. Len(down'[q]) : down'[q][i].type = "Busy"
            /\ pc[q] = "connecting" /\ pc'[q] = "connecting" /\ up'[q] = up[q]
            /\ serving' # q /\ Len(down'[q]) = 1 /\ Opening(q)
        BY <2>1, <2>2, <3>1, <3>3 DEF producerVars, acceptVars, Link
      <4> QED BY <4>1 DEF Link, Opening, Owns, Alive, Attached, Only
    <3> QED BY <3>2, <3>3
  <2>4. Peers'
    BY <2>2 DEF Peers, consumerVars, peerVars, acceptVars, producerVars, Alive
  <2> QED BY <2>3, <2>4 DEF Links
<1> QED BY <1>1, <1>2

(* The handshake's outcomes: it fails, it meets a consumer that still       *)
(* reads, or the ring is handed over.                                       *)
LEMMA AttachLinks ==
  ASSUME ChannelAssumption, TypeOK, Serves, Links, Peers, HelloFails \/ AttachBusy \/ AttachRing
  PROVE  Links' /\ Peers'
<1>0. PICK p \in Producers : acc = "hello" /\ serving = p
  BY DEF HelloFails, AttachBusy, AttachRing, Serves
<1>1. p # None /\ Link(p) /\ ~Owns(p) /\ pc[p] \in {"connecting", "greeted", "gone"}
  <2>1. Link(p) /\ pc[p] \in {"new", "connecting", "greeted", "idle", "geometry", "gone"}
    BY DEF Links, TypeOK, ProducerTypes
  <2> QED BY <1>0, <2>1, ConstantTypes DEF Owns, Link, Opening, Attached
<1>2. ASSUME NEW q \in Producers, q # p, up'[q] = up[q], down'[q] = down[q], pc' = pc,
             serving' = p \/ serving' = None
      PROVE  Link(q)'
  <2>1. Link(q) /\ ~Owns(q) /\ q # None
    BY <1>0, <1>2, ConstantTypes DEF Links, Owns
  <2>2. serving' # q /\ serving # q /\ ~Owns(q)'
    BY <1>0, <1>2, <2>1 DEF Owns
  <2> QED BY <1>2, <2>1, <2>2, LinkFrameIdle
<1>3. ASSUME acc' \in {"accept", "handed"}, acc' = "accept" => serving' = None,
             acc' = "handed" => serving' = serving, UNCHANGED <<peerVars, stop, pc>>
      PROVE  Peers'
  BY <1>0, <1>3 DEF Peers, peerVars
<1>4. ASSUME serving' = None, pc' = pc, pc[p] = "gone", Len(down'[p]) = 0
      PROVE  Link(p)'
  BY <1>1, <1>4 DEF Link, Opening, Owns, Alive, Attached, Only
<1>5. CASE HelloFails
  <2>1. /\ acc' = "accept" /\ serving' = None /\ pc' = pc /\ up' = up /\ down' = down
        /\ ~Alive(p) /\ UNCHANGED <<peerVars, stop, pc>>
    BY <1>0, <1>5 DEF HelloFails, producerVars, linkVars, consumerVars
  <2>2. pc[p] = "gone" /\ Len(down[p]) = 0
    BY <1>1, <2>1 DEF Alive, Link, Opening
  <2> QED BY <1>2, <1>3, <1>4, <2>1, <2>2 DEF Links
<1>6. ASSUME AttachBusy \/ AttachRing PROVE Pops(up[p], up'[p]) /\ Only1(up, up', p) /\ pc[p] \in {"greeted", "gone"}
  <2>1. up[p] # <<>> /\ Received(p)
    BY <1>0, <1>6 DEF AttachBusy, AttachRing
  <2>2. Pops(up[p], up'[p]) /\ Only1(up, up', p) /\ Len(up[p]) # 0
    BY <2>1, LinkQueues
  <2> QED BY <1>1, <2>2 DEF Link, Opening
<1>7. CASE AttachBusy
  <2>1. /\ acc' = "accept" /\ serving' = None /\ pc' = pc
        /\ UNCHANGED <<peerVars, stop, pc>>
        /\ down' = IF Alive(p) THEN [down EXCEPT ![p] = Append(@, Busy)] ELSE down
    BY <1>0, <1>7 DEF AttachBusy, producerVars
  <2>2. CASE Alive(p)
    <3>1. Pushes(down[p], down'[p], Busy) /\ Only1(down, down', p) /\ pc[p] = "greeted" /\ Len(down[p]) = 0
      BY <1>0, <1>1, <1>6, <1>7, <2>1, <2>2, LinkQueues, MessageTypes DEF Alive, Link, Opening
    <3>2. Len(down'[p]) = 1 /\ \A i \in 1 .. Len(down'[p]) : down'[p][i].type = "Busy"
      BY <3>1 DEF Pushes, Busy
    <3>3. Link(p)'
      BY <1>1, <2>1, <3>1, <3>2 DEF Link, Opening, Owns, Alive, Attached, Only
    <3> QED BY <1>2, <1>3, <1>6, <1>7, <2>1, <3>1, <3>3 DEF Only1, Links
  <2>3. CASE ~Alive(p)
    <3>1. pc[p] = "gone" /\ Len(down[p]) = 0
      BY <1>1, <2>3 DEF Alive, Link, Opening
    <3> QED BY <1>2, <1>3, <1>4, <1>6, <1>7, <2>1, <2>3, <3>1 DEF Only1, Links
  <2> QED BY <2>2, <2>3
<1>8. CASE AttachRing
  <2>1. /\ UNCHANGED <<peerVars, stop, pc>> /\ generation' = generation + 1
        /\ IF Alive(p)
           THEN /\ down' = [down EXCEPT ![p] = Append(@, RingDesc(generation', geometry))]
                /\ acc' = "handed" /\ serving' = p
           ELSE acc' = "accept" /\ serving' = None /\ down' = down
    BY <1>0, <1>8 DEF AttachRing, producerVars
  <2>2. CASE Alive(p)
    <3>1. RingDesc(generation', geometry) \in DownMessage
      BY <2>1, MessageTypes DEF TypeOK, RingTypes
    <3>2. /\ Pushes(down[p], down'[p], RingDesc(generation', geometry)) /\ Only1(down, down', p)
          /\ pc[p] = "greeted" /\ Len(down[p]) = 0 /\ Len(up[p]) <= 1
      BY <1>0, <1>1, <1>6, <1>8, <2>1, <2>2, <3>1, LinkQueues DEF Alive, Link, Opening
    <3>3. /\ Len(down'[p]) = 1 /\ down'[p][1].type = "RingDesc" /\ down'[p][1].gen = generation'
          /\ Len(up'[p]) = 0
      BY <1>6, <1>8, <3>2 DEF Pushes, Pops, RingDesc
    <3>4. pc'[p] = "greeted" /\ acc' = "handed" /\ serving' = p
      BY <2>1, <2>2, <3>2
    <3>5. Opening(p)'
      BY <3>3, <3>4 DEF Opening, Owns, Alive, Attached, Only
    <3>6. Upward(p)'
      BY <3>3 DEF Upward
    <3>7. Downward(p)'
      BY <3>3, <3>4 DEF Downward, Only
    <3>8. Link(p)'
      BY <3>5, <3>6, <3>7 DEF Link
    <3> QED BY <1>0, <1>2, <1>3, <1>6, <1>8, <2>1, <2>2, <3>2, <3>8 DEF Only1, Links
  <2>3. CASE ~Alive(p)
    <3>1. pc[p] = "gone" /\ Len(down[p]) = 0
      BY <1>1, <2>3 DEF Alive, Link, Opening
    <3> QED BY <1>2, <1>3, <1>4, <1>6, <1>8, <2>1, <2>3, <3>1 DEF Only1, Links
  <2> QED BY <2>2, <2>3
<1> QED BY <1>5, <1>7, <1>8

(* An answer to RequestGeometry. *)
Replies(p) ==
  /\ acc = "pump" /\ serving = p /\ UNCHANGED <<acc, serving, pc, pGeneration, peerVars, stop>>
  /\ Pops(up[p], up'[p]) /\ Only1(up, up', p) /\ up[p][1].type = "RequestGeometry"
  /\ Only1(down, down', p)
  /\ generation' \in {generation, generation + 1}
  /\ Alive(p) => Pushes(down[p], down'[p], RingDesc(generation', geometry'))
  /\ ~Alive(p) => down'[p] = down[p]

(* Every outcome of RequestGeometry sends one RingDesc back. *)
LEMMA ReplySteps ==
  ASSUME ChannelAssumption, TypeOK, Serves, TypeOK',
         PumpGeometrySame \/ PumpGeometryRefused \/ PumpGeometryRealloc
  PROVE  \E p \in Producers : Replies(p)
<1>1. PICK p \in Producers : acc = "pump" /\ serving = p
  BY DEF PumpGeometrySame, PumpGeometryRefused, PumpGeometryRealloc, Incoming, Serves
<1>2. /\ up[p] # <<>> /\ Head(up[p]).type = "RequestGeometry" /\ Received(p) /\ ReplyRing
      /\ UNCHANGED <<acc, serving, pc, pGeneration, peerVars, stop>>
      /\ generation' \in {generation, generation + 1}
  BY <1>1 DEF PumpGeometrySame, PumpGeometryRefused, PumpGeometryRealloc, Incoming, acceptVars, producerVars, ringVars
<1>3. RingDesc(generation', geometry') \in DownMessage
  BY MessageTypes DEF TypeOK, RingTypes
<1>4. Pops(up[p], up'[p]) /\ Only1(up, up', p) /\ up[p][1].type = "RequestGeometry"
  BY <1>2, LinkQueues
<1>5. CASE Alive(p)
  BY <1>1, <1>2, <1>3, <1>4, <1>5, LinkQueues DEF ReplyRing, Replies
<1>6. CASE ~Alive(p)
  BY <1>1, <1>2, <1>4, <1>6 DEF ReplyRing, Replies, Only1
<1> QED BY <1>5, <1>6

(* The pump's turns keep every link in order. *)
LEMMA PumpLinks ==
  ASSUME ChannelAssumption, TypeOK, TypeOK', Serves, Links, Peers,
         \/ Adopt \/ PumpEnds \/ PumpFrame \/ AcceptEnds
         \/ PumpGeometrySame \/ PumpGeometryRefused \/ PumpGeometryRealloc
  PROVE  Links' /\ Peers'
<1>0. \A q \in Producers : q # None /\ Link(q) /\ Len(up[q]) \in Nat /\ Len(down[q]) \in Nat
  BY ConstantTypes, LinkQueues DEF Links
<1>1. CASE Adopt
  <2>1. /\ acc = "handed" /\ acc' = "pump" /\ peer' = serving /\ peerConnected' = TRUE
        /\ UNCHANGED <<generation, pc, pGeneration, up, down, serving, stop>>
    BY <1>1 DEF Adopt, ringVars, producerVars, linkVars
  <2>2. \A q \in Producers : Link(q)'
    BY <1>0, <2>1, LinkFrame DEF Owns
  <2>3. Peers'
    BY <2>1 DEF Peers, Serves, Alive
  <2> QED BY <2>2, <2>3 DEF Links
<1>2. CASE AcceptEnds
  <2>1. /\ acc \in {"accept", "pump"} /\ acc' = "ended" /\ stop
        /\ UNCHANGED <<generation, pc, pGeneration, up, down, serving, stop, peer, peerConnected>>
        /\ acc = "accept" => serving = None
    BY <1>2 DEF AcceptEnds, consumerVars, peerVars, ringVars, producerVars, linkVars, Peers
  <2>2. ASSUME NEW q \in Producers PROVE Link(q)'
    BY <1>0, <2>1, LinkFrame DEF Owns
  <2>3. Peers'
    BY <2>1 DEF Peers
  <2> QED BY <2>2, <2>3 DEF Links
<1>3. CASE PumpEnds
  <2>1. PICK p \in Producers : acc = "pump" /\ serving = p
    BY <1>3 DEF PumpEnds, Serves
  <2>2. /\ acc' = "accept" /\ serving' = None
        /\ UNCHANGED <<generation, pc, pGeneration, down, stop, peer>>
    BY <1>3 DEF PumpEnds, consumerVars, peerVars, ringVars, producerVars
  <2>3. Owns(p) /\ Link(p) /\ pc[p] \in {"new", "connecting", "greeted", "idle", "geometry", "gone"}
    BY <2>1 DEF Owns, Links, TypeOK, ProducerTypes
  <2>4. Only1(up, up', p) /\ pc[p] = "gone" /\ (peerConnected' => peerConnected)
    <3>1. CASE Incoming("Bye") /\ Received(serving) /\ UNCHANGED peerConnected
      <4>1. up[p] # <<>> /\ Received(p) /\ Head(up[p]).type = "Bye"
        BY <2>1, <3>1 DEF Incoming
      <4>2. Only1(up, up', p) /\ up[p][1].type = "Bye" /\ Len(up[p]) # 0
        BY <4>1, LinkQueues
      <4>3. 1 \in 1 .. Len(up[p])
        BY <1>0, <4>2
      <4> QED BY <2>3, <3>1, <4>2, <4>3 DEF Link, Upward
    <3>2. CASE ~Alive(serving) /\ peerConnected' = FALSE /\ up' = up
      BY <2>1, <2>3, <3>2 DEF Alive, Link, Opening, Only1
    <3> QED BY <1>3, <3>1, <3>2 DEF PumpEnds
  <2>5. Link(p)'
    <3>1. Len(down'[p]) = 0 /\ pc'[p] = "gone" /\ serving' # p
      BY <1>0, <2>2, <2>3, <2>4 DEF Link, Opening, Alive
    <3> QED BY <3>1 DEF Link, Opening, Owns, Alive, Attached
  <2>6. ASSUME NEW q \in Producers, q # p PROVE Link(q)'
    BY <1>0, <2>1, <2>2, <2>4, <2>6, LinkFrameIdle DEF Owns, Only1
  <2>7. Peers'
    BY <2>1, <2>2, <2>4 DEF Peers
  <2> QED BY <2>5, <2>6, <2>7 DEF Links
<1>4. CASE PumpFrame
  <2>1. PICK p \in Producers : acc = "pump" /\ serving = p
    BY <1>4 DEF PumpFrame, Incoming, Serves
  <2>2. UNCHANGED <<generation, pc, pGeneration, down, stop, peer, peerConnected, acc, serving>>
    BY <1>4 DEF PumpFrame, consumerVars, peerVars, ringVars, producerVars, acceptVars
  <2>3. Owns(p) /\ Link(p) /\ Owns(p)'
    BY <2>1, <2>2 DEF Owns, Links
  <2>4. Pops(up[p], up'[p]) /\ Only1(up, up', p)
    BY <1>4, <2>1, LinkQueues DEF PumpFrame, Incoming
  <2>5. Opening(p)'
    BY <2>2, <2>3 DEF Link, Opening, Alive, Attached, Only
  <2>6. Len(up[p]) # 0 /\ Len(up'[p]) = Len(up[p]) - 1 /\ Len(up[p]) \in Nat
        /\ \A i \in 1 .. Len(up'[p]) : up'[p][i] = up[p][i + 1] /\ i + 1 \in 1 .. Len(up[p])
    BY <2>4 DEF Pops
  <2>7. Upward(p)'
    BY <2>2, <2>3, <2>6 DEF Link, Upward, Unopened
  <2>8. Downward(p)'
    BY <2>2, <2>3, <2>6 DEF Link, Downward, Only, Unopened
  <2>9. ASSUME NEW q \in Producers, q # p PROVE Link(q)'
    BY <1>0, <2>1, <2>2, <2>4, <2>9, LinkFrameIdle DEF Owns, Only1
  <2>10. Peers'
    BY <2>2 DEF Peers, Alive
  <2> QED BY <2>5, <2>7, <2>8, <2>9, <2>10 DEF Links, Link
<1>5. CASE PumpGeometrySame \/ PumpGeometryRefused \/ PumpGeometryRealloc
  <2>1. PICK p \in Producers : Replies(p)
    BY <1>5, ReplySteps
  <2>2. Owns(p) /\ Link(p) /\ Owns(p)' /\ UNCHANGED <<acc, serving, pc, pGeneration, peer, peerConnected, stop>>
    BY <2>1 DEF Owns, Links, Replies, peerVars
  <2>3. Len(up[p]) = 1 /\ Len(up'[p]) = 0 /\ pc[p] \in {"geometry", "gone"}
    <3>1. Len(up[p]) # 0 /\ Len(up'[p]) = Len(up[p]) - 1 /\ Len(up[p]) \in Nat /\ 1 \in 1 .. Len(up[p])
      BY <2>1 DEF Pops, Replies
    <3>2. 1 = Len(up[p]) /\ pc[p] \in {"geometry", "gone"}
      BY <2>1, <2>2, <3>1 DEF Link, Upward, Replies
    <3> QED BY <3>1, <3>2
  <2>4. Opening(p)'
    <3>1. ~Alive(p) => Len(down'[p]) = 0
      BY <2>1, <2>2 DEF Link, Opening, Replies
    <3> QED BY <2>2, <2>3, <3>1 DEF Opening, Alive, Attached
  <2>5. Upward(p)'
    BY <2>3 DEF Upward
  <2>6. \A i \in 1 .. Len(down[p]) : down[p][i].type = "FrameReleased"
    BY <2>2, <2>3 DEF Link, Downward, Only
  <2>7. Downward(p)'
    <3>1. CASE Alive(p)
      <4>1. /\ Len(down'[p]) = Len(down[p]) + 1 /\ Len(down[p]) \in Nat
            /\ down'[p][Len(down'[p])].type = "RingDesc" /\ down'[p][Len(down'[p])].gen = generation'
            /\ \A i \in 1 .. Len(down'[p]) : i # Len(down'[p]) => down'[p][i].type = "FrameReleased"
        BY <2>1, <2>6, <3>1 DEF Replies, Pushes, RingDesc
      <4>2. pc'[p] # "idle"
        BY <2>2, <2>3
      <4> QED BY <2>3, <4>1, <4>2 DEF Downward, Only
    <3>2. CASE ~Alive(p)
      <4>1. Len(down'[p]) = 0
        BY <2>1, <2>2, <3>2 DEF Link, Opening, Replies
      <4> QED BY <4>1 DEF Downward, Only
    <3> QED BY <3>1, <3>2
  <2>8. ASSUME NEW q \in Producers, q # p PROVE Link(q)'
    BY <1>0, <2>1, <2>2, <2>8, LinkFrameIdle DEF Owns, Only1, Replies
  <2>9. Peers'
    BY <2>2 DEF Peers, Alive
  <2> QED BY <2>4, <2>5, <2>7, <2>8, <2>9 DEF Links, Link
<1> QED BY <1>1, <1>2, <1>3, <1>4, <1>5

(* A step that touches no link keeps them all. *)
LEMMA LinksFrame ==
  ASSUME Links, Peers, stop => stop',
         UNCHANGED <<generation, acc, serving, pc, pGeneration, up, down, peer, peerConnected>>
  PROVE  Links' /\ Peers'
<1>1. \A q \in Producers : Link(q)'
  BY LinkFrame DEF Links, Owns
<1>2. Peers'
  BY DEF Peers, Alive
<1> QED BY <1>1, <1>2 DEF Links

(* A release is sent to the producer that has opened the present ring, if   *)
(* there is one, and to nobody else.                                        *)
LEMMA SendCases ==
  ASSUME ChannelAssumption, TypeOK, Links, Peers, Starts, ~Fresh, ~stop,
         NEW m \in ReleaseMessage, SendPeer(m), NEW q \in Producers
  PROVE  /\ InSync(q) => /\ Pushes(down[q], down'[q], m) /\ Only1(down, down', q)
                         /\ peerConnected /\ peer = q /\ peerConnected'
         /\ ~InSync(q) => down'[q] = down[q]
         /\ acc = "pump" /\ Alive(serving) => peerConnected'
<1>1. m \in DownMessage /\ pc[q] \in {"new", "connecting", "greeted", "idle", "geometry", "gone"}
  BY DEF DownMessage, TypeOK, ProducerTypes
<1>2. CASE peerConnected /\ Alive(peer)
  <2>1. peer \in Producers /\ acc = "pump" /\ serving = peer /\ Owns(peer)
    BY <1>2, ConstantTypes DEF Peers, Alive, Owns, TypeOK, AcceptTypes
  <2>2. down' = [down EXCEPT ![peer] = Append(@, m)] /\ peerConnected' = peerConnected
    BY <1>2 DEF SendPeer
  <2>3. Pushes(down[peer], down'[peer], m) /\ Only1(down, down', peer)
    BY <1>1, <2>1, <2>2, LinkQueues
  <2>4. ~Unopened(peer) /\ Link(peer) /\ pc[peer] \in {"new", "connecting", "greeted", "idle", "geometry", "gone"}
    BY <2>1 DEF Starts, Links, TypeOK, ProducerTypes
  <2>5. InSync(peer)
    BY <1>2, <2>1, <2>4 DEF Alive, Unopened, InSync, Attached, Link, Opening
  <2>6. InSync(q) => q = peer
    BY <2>1 DEF InSync, Links, Link, Opening, Owns
  <2> QED BY <1>2, <2>1, <2>2, <2>3, <2>5, <2>6 DEF Only1
<1>3. CASE ~(peerConnected /\ Alive(peer))
  <2>1. down' = down /\ peerConnected' = FALSE
    BY <1>3 DEF SendPeer
  <2>2. ~(acc = "pump" /\ Alive(serving))
    BY <1>3 DEF Peers
  <2>3. ~InSync(q)
    <3>1. SUFFICES ASSUME InSync(q) PROVE FALSE
      OBVIOUS
    <3>2. Owns(q) /\ Alive(q)
      BY <3>1 DEF InSync, Links, Link, Opening, Attached, Alive
    <3>3. acc = "pump" /\ serving = q
      BY <3>2 DEF Owns, Peers, Starts
    <3> QED BY <2>2, <3>2, <3>3
  <2> QED BY <2>1, <2>2, <2>3
<1> QED BY <1>2, <1>3

(* A FrameReleased goes to the producer that opened the ring, or nowhere. *)
LEMMA SendLinks ==
  ASSUME ChannelAssumption, TypeOK, Links, Peers, Starts, ~Fresh, ~stop,
         NEW m \in ReleaseMessage, m.type = "FrameReleased", SendPeer(m),
         UNCHANGED <<generation, acc, serving, pc, pGeneration, up, peer, stop>>
  PROVE  Links' /\ Peers'
<1>1. ASSUME NEW q \in Producers, InSync(q) PROVE Link(q)'
  <2>1. Pushes(down[q], down'[q], m) /\ Link(q) /\ Owns(q) /\ Owns(q)' /\ ~Unopened(q)
    BY <1>1, SendCases DEF Links, Link, Opening, Owns, InSync, Attached, Unopened
  <2>2. /\ Len(down'[q]) = Len(down[q]) + 1 /\ Len(down[q]) \in Nat
        /\ \A i \in 1 .. Len(down'[q]) :
             \/ i = Len(down[q]) + 1 /\ down'[q][i].type = "FrameReleased"
             \/ i \in 1 .. Len(down[q]) /\ down'[q][i] = down[q][i]
    BY <2>1 DEF Pushes
  <2>3. Opening(q)'
    BY <1>1, <2>1 DEF Link, Opening, Alive, Attached, InSync
  <2>4. Upward(q)'
    BY <2>1 DEF Link, Upward, Unopened
  <2>5. Downward(q)'
    <3>1. Downward(q) /\ UNCHANGED <<pc, generation, up>> /\ ~Unopened(q)'
      BY <2>1 DEF Link, Unopened
    <3>2. Only(down[q], {"FrameReleased", "RingDesc"}) /\ (pc[q] = "idle" => Only(down[q], {"FrameReleased"}))
      BY <3>1 DEF Downward
    <3>3. Only(down'[q], {"FrameReleased", "RingDesc"}) /\ (pc'[q] = "idle" => Only(down'[q], {"FrameReleased"}))
      BY <2>2, <3>1, <3>2 DEF Only
    <3>4. ASSUME NEW i \in 1 .. Len(down'[q]), down'[q][i].type = "RingDesc"
          PROVE  /\ down'[q][i].gen = generation' /\ Len(up'[q]) = 0
                 /\ \A j \in 1 .. Len(down'[q]) : j # i => down'[q][j].type = "FrameReleased"
      <4>1. i \in 1 .. Len(down[q]) /\ down'[q][i] = down[q][i]
        BY <2>2, <3>4
      <4>2. /\ down[q][i].gen = generation /\ Len(up[q]) = 0
            /\ \A j \in 1 .. Len(down[q]) : j # i => down[q][j].type = "FrameReleased"
        BY <3>1, <3>4, <4>1 DEF Downward
      <4> QED BY <2>2, <3>1, <4>1, <4>2
    <3> QED BY <3>1, <3>3, <3>4 DEF Downward
  <2> QED BY <2>3, <2>4, <2>5 DEF Link
<1>2. ASSUME NEW q \in Producers, ~InSync(q) PROVE Link(q)'
  <2>1. down'[q] = down[q] /\ Link(q)
    BY <1>2, SendCases DEF Links
  <2> QED BY <2>1, LinkFrame DEF Owns
<1>3. Peers'
  <2>1. peerConnected' => peerConnected
    BY DEF SendPeer
  <2>2. acc = "pump" /\ Alive(serving) => peerConnected'
    BY SendCases DEF Peers, SendPeer
  <2> QED BY <2>1, <2>2 DEF Peers, Alive
<1> QED BY <1>1, <1>2, <1>3 DEF Links

(* The consumer's calls and the GPU keep every link in order. *)
LEMMA ConsumerLinks ==
  ASSUME ChannelAssumption, TypeOK, Links, Peers, Starts, Consumer \/ Gpu
  PROVE  Links' /\ Peers'
<1> USE DEF consumerVars, producerVars, ringVars, linkVars, acceptVars, peerVars
<1>1. CASE AcquireFrame \/ ReleaseDeferred \/ LeaseFrame \/ CloseConsumer
  <2>1. /\ stop => stop'
        /\ UNCHANGED <<generation, acc, serving, pc, pGeneration, up, down, peer, peerConnected>>
    BY <1>1 DEF AcquireFrame, ReleaseDeferred, LeaseFrame, CloseConsumer
  <2> QED BY <2>1, LinksFrame
<1>2. ASSUME NEW i \in 1 .. Len(ledger),
             RetainReadLease(i) \/ CompleteReadLease(i) \/ CompleteReadLeaseSyncFd(i) \/ GpuLeaseDone(i)
      PROVE  Links' /\ Peers'
  <2>1. /\ stop => stop'
        /\ UNCHANGED <<generation, acc, serving, pc, pGeneration, up, down, peer, peerConnected>>
    BY <1>2, LeaseSteps DEF Recount, ledgerOnly
  <2> QED BY <2>1, LinksFrame
<1>3. ASSUME NEW p \in Producers, GpuWriteDone(p) PROVE Links' /\ Peers'
  BY <1>3, LinksFrame DEF GpuWriteDone
<1>4. ASSUME NEW x \in reads, GpuReadDone(x) PROVE Links' /\ Peers'
  BY <1>4, LinksFrame DEF GpuReadDone
<1>5. ASSUME NEW f \in Fences, ReleaseSyncFd(f) PROVE Links' /\ Peers'
  <2>1. FrameReleased(heldReady, f) \in ReleaseMessage /\ FrameReleased(heldReady, f).type = "FrameReleased"
    BY MessageTypes DEF ChannelAssumption, TypeOK, HeldTypes, FrameReleased
  <2>2. ~Fresh /\ ~stop /\ SendPeer(FrameReleased(heldReady, f))
        /\ UNCHANGED <<generation, acc, serving, pc, pGeneration, up, peer, stop>>
    BY <1>5 DEF ReleaseSyncFd, Fresh
  <2> QED BY <2>1, <2>2, SendLinks
<1>6. ASSUME NEW v \in Values, NEW f \in Fences, SignalConsumed(v, f) PROVE Links' /\ Peers'
  <2>1. FrameReleased(v, f) \in ReleaseMessage /\ FrameReleased(v, f).type = "FrameReleased"
    BY MessageTypes DEF ChannelAssumption, FrameReleased
  <2>2. /\ ~stop /\ SendPeer(FrameReleased(v, f)) /\ v > retiredValue /\ v <= heldReady
        /\ UNCHANGED <<generation, acc, serving, pc, pGeneration, up, peer, stop>>
    BY <1>6 DEF SignalConsumed
  <2>3. ~Fresh
    BY <2>2 DEF Fresh, Values, ChannelAssumption, TypeOK, HeldTypes, RetireTypes
  <2> QED BY <2>1, <2>2, <2>3, SendLinks
<1>7. CASE CollectReadLeases
  <2>1. /\ ~stop /\ ledger # <<>> /\ UNCHANGED <<generation, acc, serving, pc, pGeneration, up, peer, stop>>
        /\ \/ UNCHANGED <<peerConnected, down>>
           \/ \E n \in 1 .. Len(ledger) : SendPeer(FrameReleased(ledger[n].val, FALSE))
    <3>1. Len(ledger) \in Nat
      BY LenProperties DEF TypeOK, RetireTypes
    <3>2. PICK n \in 0 .. Len(ledger) :
            IF n = 0 THEN UNCHANGED <<peerConnected, down>> ELSE SendPeer(FrameReleased(ledger[n].val, FALSE))
      BY <1>7 DEF CollectReadLeases
    <3>3. n # 0 => n \in 1 .. Len(ledger)
      BY <3>1
    <3> QED BY <1>7, <3>2, <3>3 DEF CollectReadLeases
  <2>2. CASE UNCHANGED <<peerConnected, down>>
    BY <2>1, <2>2, LinksFrame
  <2>3. ASSUME NEW n \in 1 .. Len(ledger), SendPeer(FrameReleased(ledger[n].val, FALSE)) PROVE Links' /\ Peers'
    <3>1. ledger[n] \in LeasedFrame
      BY ElementOfSeq DEF TypeOK, RetireTypes
    <3>2. /\ FrameReleased(ledger[n].val, FALSE) \in ReleaseMessage
          /\ FrameReleased(ledger[n].val, FALSE).type = "FrameReleased"
      BY <3>1, MessageTypes DEF LeasedFrame, FrameReleased
    <3>3. ~Fresh
      BY <2>1 DEF Fresh
    <3> QED BY <2>1, <2>3, <3>2, <3>3, SendLinks
  <2> QED BY <2>1, <2>2, <2>3
<1> QED BY <1>1, <1>2, <1>3, <1>4, <1>5, <1>6, <1>7 DEF Consumer, Gpu, LeaseStep

(* An entry of a queue one message longer is an old one or the new one. *)
LEMMA PushCases ==
  ASSUME NEW s, NEW t, NEW m, Pushes(s, t, m)
  PROVE  /\ Len(s) \in Nat /\ Len(t) = Len(s) + 1
         /\ \A i \in 1 .. Len(t) : \/ i \in 1 .. Len(s) /\ t[i] = s[i]
                                   \/ i = Len(t) /\ t[i] = m
<1>1. Len(s) \in Nat /\ Len(t) = Len(s) + 1 /\ t[Len(s) + 1] = m /\ \A i \in 1 .. Len(s) : t[i] = s[i]
  BY DEF Pushes
<1>2. ASSUME NEW i \in 1 .. Len(t)
      PROVE  (i \in 1 .. Len(s) /\ t[i] = s[i]) \/ (i = Len(t) /\ t[i] = m)
  <2>1. i \in 1 .. Len(s) \/ i = Len(s) + 1
    BY <1>1
  <2>2. CASE i \in 1 .. Len(s)
    BY <1>1, <2>2
  <2>3. CASE i = Len(s) + 1
    BY <1>1, <2>3
  <2> QED BY <2>1, <2>2, <2>3
<1> QED BY <1>1, <1>2

(* The producers' calls keep every link in order. *)
LEMMA ProducerLinks ==
  ASSUME ChannelAssumption, TypeOK, Links, Peers, NEW p \in Producers, Producer(p)
  PROVE  Links' /\ Peers'
<1> USE DEF consumerVars, ringVars, acceptVars, peerVars
<1>0. /\ UNCHANGED <<generation, acc, serving, peer, peerConnected, stop>>
      /\ (Owns(p)' <=> Owns(p)) /\ Link(p) /\ Len(up[p]) \in Nat /\ Len(down[p]) \in Nat
      /\ pc \in [Producers -> {"new", "connecting", "greeted", "idle", "geometry", "gone"}]
      /\ pGeneration \in [Producers -> Nat]
  <2>1. UNCHANGED <<generation, acc, serving, peer, peerConnected, stop>>
    BY DEF Producer, Connect, OpenGreeted, OpenBusy, OpenRing, AcquireBuffer, CancelBuffer, BeginSubmit,
           EndSubmit, RetainBufferReference, ReleaseBufferReference, SendRequestGeometry, GeometryRelease,
           GeometryReply, Leave, slotOnly
  <2> QED BY <2>1, LinkQueues DEF Owns, Links, TypeOK, ProducerTypes
<1>1. ASSUME Only1(pc, pc', p), Only1(pGeneration, pGeneration', p), Only1(up, up', p), Only1(down, down', p),
             pc[p] = "gone" => p # peer /\ p # serving, Alive(p)' => Alive(p) \/ p # serving,
             Link(p)'
      PROVE  Links' /\ Peers'
  <2>1. ASSUME NEW q \in Producers, q # p PROVE Link(q)'
    BY <1>0, <1>1, <2>1, LinkFrame DEF Only1, Owns, Links
  <2>2. Peers'
    <3>1. peer = None \/ pc[peer] = "gone" => peer' = None \/ pc'[peer'] = "gone" \/ peer \notin Producers
      BY <1>0, <1>1 DEF Only1
    <3>2. acc = "pump" => (Alive(serving)' => Alive(serving))
      BY <1>0, <1>1 DEF Only1, Alive, Peers
    <3>3. peer \in Producers \/ peer = None
      BY DEF TypeOK, PeerTypes
    <3> QED BY <1>0, <3>1, <3>2, <3>3 DEF Peers
  <2> QED BY <1>1, <2>1, <2>2 DEF Links
<1>2. CASE Connect(p)
  <2>1. /\ pc' = [pc EXCEPT ![p] = "connecting"] /\ up' = [up EXCEPT ![p] = <<>>] /\ down' = down
        /\ pGeneration' = pGeneration /\ pc[p] \in {"new", "gone"} /\ serving # p
        /\ pc[p] = "gone" => p # peer
    BY <1>0, <1>2 DEF Connect, Link, Opening
  <2>2. /\ Only1(pc, pc', p) /\ Only1(pGeneration, pGeneration', p) /\ Only1(up, up', p) /\ Only1(down, down', p)
        /\ pc'[p] = "connecting" /\ Len(up'[p]) = 0 /\ Len(down'[p]) = 0 /\ serving' # p
    BY <1>0, <2>1, LinkQueues DEF Only1, Link, Opening, Alive
  <2>3. Link(p)'
    BY <1>0, <2>1, <2>2 DEF Link, Opening, Owns, Alive, Attached, Only
  <2> QED BY <1>1, <2>1, <2>2, <2>3
<1>3. ASSUME NEW t, Arrived(p, t), Taken(p)
      PROVE  /\ Pops(down[p], down'[p]) /\ Only1(down, down', p)
             /\ 1 \in 1 .. Len(down[p]) /\ down[p][1].type = t /\ Head(down[p]) = down[p][1]
             /\ Len(down'[p]) = Len(down[p]) - 1
             /\ \A i \in 1 .. Len(down'[p]) : down'[p][i] = down[p][i + 1] /\ i + 1 \in 1 .. Len(down[p])
  <2>1. Pops(down[p], down'[p]) /\ Only1(down, down', p) /\ down[p][1].type = t /\ Head(down[p]) = down[p][1]
    BY <1>3, LinkQueues DEF Arrived
  <2>2. Len(down[p]) \in Nat \ {0} /\ Len(down'[p]) = Len(down[p]) - 1
    BY <2>1 DEF Pops
  <2>3. \A i \in 1 .. Len(down'[p]) : down'[p][i] = down[p][i + 1]
    BY <2>1 DEF Pops
  <2>4. 1 \in 1 .. Len(down[p]) /\ \A i \in 1 .. Len(down'[p]) : i + 1 \in 1 .. Len(down[p])
    BY <2>2
  <2> QED BY <2>1, <2>2, <2>3, <2>4
<1>4. CASE OpenGreeted(p)
  <2>1. /\ pc' = [pc EXCEPT ![p] = "greeted"] /\ up' = [up EXCEPT ![p] = Append(@, Hello)]
        /\ pGeneration' = pGeneration /\ pc[p] = "connecting" /\ Arrived(p, "Hello") /\ Taken(p)
    BY <1>4 DEF OpenGreeted
  <2>2. Only1(pc, pc', p) /\ Only1(pGeneration, pGeneration', p) /\ Pushes(up[p], up'[p], Hello) /\ Only1(up, up', p)
    BY <1>0, <2>1, LinkQueues, MessageTypes DEF Only1
  <2>3. serving = p /\ ~Owns(p) /\ Len(down'[p]) = 0 /\ Len(up'[p]) = 1 /\ pc'[p] = "greeted" /\ Only1(down, down', p)
    BY <1>0, <1>3, <2>1, <2>2 DEF Link, Opening, Only, Pushes
  <2>4. Link(p)'
    BY <1>0, <2>3 DEF Link, Opening, Owns, Alive, Attached
  <2> QED BY <1>1, <2>1, <2>2, <2>3, <2>4 DEF Alive
<1>5. CASE OpenBusy(p)
  <2>1. /\ pc' = [pc EXCEPT ![p] = "new"] /\ up' = up
        /\ pGeneration' = pGeneration /\ pc[p] \in {"connecting", "greeted"} /\ Arrived(p, "Busy") /\ Taken(p)
    BY <1>5 DEF OpenBusy
  <2>2. /\ Only1(pc, pc', p) /\ Only1(pGeneration, pGeneration', p) /\ Only1(up, up', p) /\ Only1(down, down', p)
        /\ pc'[p] = "new"
    BY <1>0, <1>3, <2>1 DEF Only1
  <2>3. ~Owns(p) /\ serving # p /\ Len(down'[p]) = 0
    <3>1. ~Owns(p)
      BY <1>0, <1>3, <2>1 DEF Link, Opening, Downward, Only
    <3>2. serving # p /\ Len(down[p]) <= 1
      BY <1>0, <1>3, <2>1, <3>1 DEF Link, Opening, Only
    <3> QED BY <1>0, <1>3, <2>1, <3>1, <3>2
  <2>4. Link(p)'
    BY <1>0, <2>2, <2>3 DEF Link, Opening, Owns, Alive, Attached
  <2> QED BY <1>1, <2>1, <2>2, <2>3, <2>4 DEF Alive
<1>6. CASE OpenRing(p)
  <2>1. /\ pc' = [pc EXCEPT ![p] = "idle"] /\ up' = up /\ ImportRing(p, Head(down[p]))
        /\ pc[p] = "greeted" /\ Arrived(p, "RingDesc") /\ Taken(p)
    BY <1>6 DEF OpenRing
  <2>2. Owns(p) /\ Unopened(p)
    BY <1>0, <1>3, <2>1 DEF Link, Opening, Only, Unopened
  <2>3. down[p][1].gen = generation /\ Len(up[p]) = 0 /\ 1 = Len(down[p])
    BY <1>0, <1>3, <2>1, <2>2 DEF Link, Downward
  <2>4. pGeneration' = [pGeneration EXCEPT ![p] = generation]
    BY <1>3, <2>1, <2>3 DEF ImportRing
  <2>5. /\ Only1(pc, pc', p) /\ Only1(pGeneration, pGeneration', p) /\ Only1(up, up', p) /\ Only1(down, down', p)
        /\ pc'[p] = "idle" /\ pGeneration'[p] = generation /\ Len(down'[p]) = 0 /\ Len(up'[p]) = 0
    <3>1. Len(down'[p]) = Len(down[p]) - 1 /\ Only1(down, down', p)
      BY <1>3, <2>1
    <3> QED BY <1>0, <2>1, <2>3, <2>4, <3>1 DEF Only1
  <2>6. Opening(p)'
    BY <1>0, <2>2, <2>5 DEF Opening, Alive, Attached
  <2>7. Upward(p)' /\ Downward(p)'
    BY <2>5 DEF Upward, Downward, Only
  <2> QED BY <1>1, <2>1, <2>5, <2>6, <2>7 DEF Alive, Link
<1>7. ASSUME pc[p] = "idle" PROVE Owns(p) /\ pGeneration[p] = generation /\ Upward(p) /\ Downward(p)
  BY <1>0, <1>7 DEF Link, Opening, Attached
<1>8. CASE AcquireBuffer(p)
  <2>1. down' = [down EXCEPT ![p] = <<>>] /\ UNCHANGED <<pc, pGeneration, up>> /\ pc[p] = "idle"
    BY <1>8 DEF AcquireBuffer
  <2>2. /\ Only1(pc, pc', p) /\ Only1(pGeneration, pGeneration', p) /\ Only1(up, up', p) /\ Only1(down, down', p)
        /\ Len(down'[p]) = 0
    BY <1>0, <2>1, LinkQueues DEF Only1
  <2>3. Opening(p)' /\ Upward(p)' /\ Downward(p)'
    BY <1>0, <1>7, <2>1, <2>2 DEF Link, Opening, Upward, Downward, Only, Alive, Attached, Unopened
  <2> QED BY <1>1, <2>1, <2>2, <2>3 DEF Alive, Link
<1>9. ASSUME NEW f \in Fences, EndSubmit(p, f) PROVE Links' /\ Peers'
  <2>1. /\ UNCHANGED <<pc, pGeneration, down>> /\ pc[p] = "idle"
        /\ up' = [up EXCEPT ![p] = Append(@, FrameReady(submittingSlot[p], readyValue[p]))]
        /\ submittingSlot[p] \in Slots /\ readyValue[p] \in Values
    BY <1>9, ConstantTypes DEF EndSubmit, slotOnly, TypeOK, SlotTypes
  <2>2. PICK m \in UpMessage : m.type = "FrameReady" /\ up' = [up EXCEPT ![p] = Append(@, m)]
    <3>1. /\ FrameReady(submittingSlot[p], readyValue[p]) \in UpMessage
          /\ FrameReady(submittingSlot[p], readyValue[p]).type = "FrameReady"
      BY <2>1, MessageTypes DEF FrameReady
    <3> QED BY <2>1, <3>1
  <2>3. /\ Only1(pc, pc', p) /\ Only1(pGeneration, pGeneration', p) /\ Only1(up, up', p) /\ Only1(down, down', p)
        /\ Pushes(up[p], up'[p], m)
    BY <1>0, <2>1, <2>2, LinkQueues DEF Only1
  <2>4. /\ Len(up'[p]) = Len(up[p]) + 1
        /\ \A i \in 1 .. Len(up'[p]) : \/ i \in 1 .. Len(up[p]) /\ up'[p][i] = up[p][i]
                                       \/ up'[p][i].type = "FrameReady"
    <3>1. /\ Len(up[p]) \in Nat /\ Len(up'[p]) = Len(up[p]) + 1
          /\ \A i \in 1 .. Len(up'[p]) : \/ i \in 1 .. Len(up[p]) /\ up'[p][i] = up[p][i]
                                         \/ i = Len(up'[p]) /\ up'[p][i] = m
      BY <2>3, PushCases
    <3> QED BY <2>2, <3>1
  <2>5. Opening(p)' /\ Downward(p)'
    BY <1>0, <1>7, <2>1 DEF Link, Opening, Downward, Only, Alive, Attached, Unopened
  <2>6. Upward(p)'
    BY <1>0, <1>7, <2>1, <2>4 DEF Upward, Unopened
  <2> QED BY <1>1, <2>1, <2>3, <2>5, <2>6 DEF Alive, Link
<1>10. ASSUME NEW s \in Slots, \/ CancelBuffer(p, s) \/ BeginSubmit(p, s)
                               \/ RetainBufferReference(p, s) \/ ReleaseBufferReference(p, s)
       PROVE  Links' /\ Peers'
  <2>1. UNCHANGED <<pc, pGeneration, up, down>>
    BY <1>10 DEF CancelBuffer, BeginSubmit, RetainBufferReference, ReleaseBufferReference, slotOnly, linkVars
  <2> QED BY <1>0, <2>1, LinksFrame
<1>11. ASSUME NEW w \in Geometries, SendRequestGeometry(p, w) PROVE Links' /\ Peers'
  <2>1. /\ pc' = [pc EXCEPT ![p] = "geometry"] /\ UNCHANGED <<pGeneration, down>> /\ pc[p] = "idle"
        /\ up' = [up EXCEPT ![p] = Append(@, RequestGeometry(w))]
    BY <1>11 DEF SendRequestGeometry
  <2>2. PICK m \in UpMessage : m.type = "RequestGeometry" /\ up' = [up EXCEPT ![p] = Append(@, m)]
    <3>1. RequestGeometry(w) \in UpMessage /\ RequestGeometry(w).type = "RequestGeometry"
      BY MessageTypes DEF RequestGeometry
    <3> QED BY <2>1, <3>1
  <2>3. /\ Only1(pc, pc', p) /\ Only1(pGeneration, pGeneration', p) /\ Only1(up, up', p) /\ Only1(down, down', p)
        /\ Pushes(up[p], up'[p], m) /\ pc'[p] = "geometry"
    BY <1>0, <2>1, <2>2, LinkQueues DEF Only1
  <2>4. /\ Len(up'[p]) = Len(up[p]) + 1
        /\ \A i \in 1 .. Len(up'[p]) : \/ i \in 1 .. Len(up[p]) /\ up'[p][i] = up[p][i]
                                       \/ up'[p][i].type = "RequestGeometry" /\ i = Len(up'[p])
    <3>1. /\ Len(up[p]) \in Nat /\ Len(up'[p]) = Len(up[p]) + 1
          /\ \A i \in 1 .. Len(up'[p]) : \/ i \in 1 .. Len(up[p]) /\ up'[p][i] = up[p][i]
                                         \/ i = Len(up'[p]) /\ up'[p][i] = m
      BY <2>3, PushCases
    <3> QED BY <2>2, <3>1
  <2>5. Opening(p)' /\ Downward(p)'
    BY <1>0, <1>7, <2>1, <2>3 DEF Link, Opening, Downward, Only, Alive, Attached, Unopened
  <2>6. Upward(p)'
    BY <1>0, <1>7, <2>1, <2>3, <2>4 DEF Upward, Unopened
  <2> QED BY <1>1, <2>1, <2>3, <2>5, <2>6 DEF Alive, Link
<1>12. ASSUME pc[p] = "geometry" PROVE Owns(p) /\ Upward(p) /\ Downward(p)
  BY <1>0, <1>12 DEF Link, Opening, Attached
<1>13. CASE GeometryRelease(p)
  <2>1. /\ UNCHANGED <<pc, pGeneration, up>> /\ pc[p] = "geometry" /\ Arrived(p, "FrameReleased") /\ Taken(p)
    BY <1>13 DEF GeometryRelease
  <2>2. Only1(pc, pc', p) /\ Only1(pGeneration, pGeneration', p) /\ Only1(up, up', p) /\ Only1(down, down', p)
    BY <1>3, <2>1 DEF Only1
  <2>3. Opening(p)' /\ Upward(p)'
    BY <1>0, <1>12, <2>1 DEF Opening, Upward, Alive, Attached, Unopened
  <2>4. Downward(p)'
    <3>1. Downward(p) /\ (Unopened(p)' <=> Unopened(p)) /\ up'[p] = up[p] /\ pc'[p] = "geometry"
      BY <1>0, <1>12, <2>1 DEF Unopened
    <3>2. /\ Len(down'[p]) = Len(down[p]) - 1
          /\ \A i \in 1 .. Len(down'[p]) : down'[p][i] = down[p][i + 1] /\ i + 1 \in 1 .. Len(down[p])
      BY <1>3, <2>1
    <3>3. Only(down'[p], {"FrameReleased", "RingDesc"})
      BY <3>1, <3>2 DEF Downward, Only
    <3>4. ASSUME NEW i \in 1 .. Len(down'[p]), down'[p][i].type = "RingDesc"
          PROVE  /\ down'[p][i].gen = generation /\ Len(up[p]) = 0
                 /\ \A j \in 1 .. Len(down'[p]) : j # i => down'[p][j].type = "FrameReleased"
                 /\ Unopened(p) => i = Len(down'[p])
      <4>1. down[p][i + 1].type = "RingDesc" /\ i + 1 \in 1 .. Len(down[p]) /\ down'[p][i] = down[p][i + 1]
        BY <3>2, <3>4
      <4>2. /\ down[p][i + 1].gen = generation /\ Len(up[p]) = 0
            /\ \A j \in 1 .. Len(down[p]) : j # i + 1 => down[p][j].type = "FrameReleased"
            /\ Unopened(p) => i + 1 = Len(down[p])
        BY <3>1, <4>1 DEF Downward
      <4>3. Unopened(p) => i = Len(down'[p])
        BY <1>0, <3>2, <4>2
      <4>4. ASSUME NEW j \in 1 .. Len(down'[p]), j # i PROVE down'[p][j].type = "FrameReleased"
        <5>1. j + 1 \in 1 .. Len(down[p]) /\ j + 1 # i + 1 /\ down'[p][j] = down[p][j + 1]
          BY <3>2, <4>4
        <5> QED BY <4>2, <5>1
      <4> QED BY <4>1, <4>2, <4>3, <4>4
    <3> QED BY <1>0, <3>1, <3>3, <3>4 DEF Downward
  <2> QED BY <1>1, <2>1, <2>2, <2>3, <2>4 DEF Alive, Link
<1>14. CASE GeometryReply(p)
  <2>1. /\ pc' = [pc EXCEPT ![p] = "idle"] /\ up' = up
        /\ pc[p] = "geometry" /\ Arrived(p, "RingDesc") /\ Taken(p)
        /\ IF Head(down[p]).gen = pGeneration[p] THEN pGeneration' = pGeneration
           ELSE pGeneration' = [pGeneration EXCEPT ![p] = Head(down[p]).gen]
    BY <1>14 DEF GeometryReply, ImportRing
  <2>2. /\ down[p][1].gen = generation /\ Len(up[p]) = 0
        /\ \A j \in 1 .. Len(down[p]) : j # 1 => down[p][j].type = "FrameReleased"
    BY <1>0, <1>3, <1>12, <2>1 DEF Downward
  <2>3. Only1(pGeneration, pGeneration', p) /\ pGeneration'[p] = generation
    <3>1. Head(down[p]).gen = generation
      BY <1>0, <1>3, <2>1, <2>2
    <3>2. pGeneration' \in {pGeneration, [pGeneration EXCEPT ![p] = generation]}
          /\ (pGeneration' = pGeneration => pGeneration[p] = generation)
      BY <1>0, <2>1, <3>1
    <3> QED BY <1>0, <3>2 DEF Only1
  <2>4. /\ Only1(pc, pc', p) /\ Only1(up, up', p) /\ Only1(down, down', p)
        /\ pc'[p] = "idle" /\ Len(up'[p]) = 0
        /\ \A i \in 1 .. Len(down'[p]) : down'[p][i].type = "FrameReleased"
    <3>1. Only1(pc, pc', p) /\ pc'[p] = "idle" /\ Only1(up, up', p) /\ Len(up'[p]) = 0
      BY <1>0, <2>1, <2>2 DEF Only1
    <3>2. Only1(down, down', p) /\ Len(down'[p]) = Len(down[p]) - 1
          /\ \A i \in 1 .. Len(down'[p]) : i + 1 \in 1 .. Len(down[p]) /\ down'[p][i] = down[p][i + 1]
      BY <1>0, <1>3, <2>1
    <3>3. \A i \in 1 .. Len(down'[p]) : i + 1 # 1
      BY <1>0, <3>2
    <3> QED BY <2>2, <3>1, <3>2, <3>3
  <2>5. Opening(p)'
    BY <1>0, <1>12, <2>1, <2>3, <2>4 DEF Opening, Alive, Attached
  <2>6. Upward(p)' /\ Downward(p)'
    BY <2>4 DEF Upward, Downward, Only
  <2> QED BY <1>1, <2>1, <2>3, <2>4, <2>5, <2>6 DEF Alive, Link
<1>15. CASE Leave(p)
  <2>1. /\ pc' = [pc EXCEPT ![p] = "gone"] /\ down' = [down EXCEPT ![p] = <<>>]
        /\ pGeneration' = [pGeneration EXCEPT ![p] = 0] /\ Alive(p)
        /\ \/ pc[p] = "idle" /\ up' = [up EXCEPT ![p] = Append(@, Bye)]
           \/ up' = up
           \/ up' = [up EXCEPT ![p] = <<>>]
    BY <1>15 DEF Leave
  <2>2. /\ Only1(pc, pc', p) /\ Only1(pGeneration, pGeneration', p) /\ Only1(down, down', p)
        /\ pc'[p] = "gone" /\ Len(down'[p]) = 0
    BY <1>0, <2>1, LinkQueues DEF Only1
  <2>3. ASSUME Owns(p) PROVE Only1(up, up', p) /\ Upward(p)'
    <3>1. CASE pc[p] = "idle" /\ up' = [up EXCEPT ![p] = Append(@, Bye)]
      <4>1. Pushes(up[p], up'[p], Bye) /\ Only1(up, up', p)
        BY <3>1, LinkQueues, MessageTypes
      <4>2. /\ Len(up'[p]) = Len(up[p]) + 1
            /\ \A i \in 1 .. Len(up'[p]) : \/ i \in 1 .. Len(up[p]) /\ up'[p][i] = up[p][i]
                                           \/ up'[p][i].type = "Bye"
        BY <1>0, <4>1 DEF Pushes, Bye
      <4> QED BY <1>7, <2>2, <3>1, <4>1, <4>2 DEF Upward, Unopened
    <3>2. CASE up' = up
      BY <1>0, <2>2, <2>3, <3>2 DEF Link, Upward, Unopened, Only1
    <3>3. CASE up' = [up EXCEPT ![p] = <<>>]
      <4>1. Len(up'[p]) = 0 /\ Only1(up, up', p)
        BY <3>3, LinkQueues
      <4> QED BY <4>1 DEF Upward
    <3> QED BY <2>1, <3>1, <3>2, <3>3
  <2>4. Only1(up, up', p)
    BY <1>0, <2>1, LinkQueues, MessageTypes DEF Only1
  <2>5. Opening(p)'
    BY <2>2 DEF Opening, Alive, Attached
  <2>6. Downward(p)'
    BY <2>2 DEF Downward, Only
  <2>7. Link(p)'
    BY <1>0, <2>3, <2>5, <2>6 DEF Link
  <2> QED BY <1>1, <2>1, <2>2, <2>4, <2>7 DEF Alive
<1> QED BY <1>2, <1>4, <1>5, <1>6, <1>8, <1>9, <1>10, <1>11, <1>13, <1>14, <1>15 DEF Producer

(* A release queue one message longer. *)
LEMMA PushReleases ==
  ASSUME NEW q, NEW t, NEW m, Pushes(q, t, m), NEW v \in Nat
  PROVE  /\ Shielded(q, v) => Shielded(t, v)
         /\ Shielded(t, v) => Shielded(q, v) \/ (m.type = "FrameReleased" /\ m.fence /\ m.val >= v)
         /\ m.type = "FrameReleased" /\ m.fence /\ m.val >= v => Shielded(t, v)
         /\ Guarded(q, v) /\ (m.type = "FrameReleased" /\ m.val >= v => m.fence \/ Shielded(q, v)) => Guarded(t, v)
         /\ Below(q, v) /\ (m.type = "FrameReleased" => m.val <= v) => Below(t, v)
<1>1. /\ Len(q) \in Nat /\ Len(t) = Len(q) + 1 /\ t[Len(t)] = m
      /\ \A i \in 1 .. Len(q) : i \in 1 .. Len(t) /\ t[i] = q[i]
  BY DEF Pushes
<1>2. \A i \in 1 .. Len(t) : (i \in 1 .. Len(q) /\ t[i] = q[i]) \/ (i = Len(t) /\ t[i] = m)
  BY PushCases
<1>3. Shielded(q, v) => Shielded(t, v)
  BY <1>1 DEF Shielded, Fenced, Reaches
<1>4. Shielded(t, v) => Shielded(q, v) \/ (m.type = "FrameReleased" /\ m.fence /\ m.val >= v)
  BY <1>2 DEF Shielded, Fenced, Reaches
<1>5. m.type = "FrameReleased" /\ m.fence /\ m.val >= v => Shielded(t, v)
  BY <1>1 DEF Shielded, Fenced, Reaches
<1>6. Below(q, v) /\ (m.type = "FrameReleased" => m.val <= v) => Below(t, v)
  BY <1>2 DEF Below
<1>7. ASSUME Guarded(q, v), m.type = "FrameReleased" /\ m.val >= v => m.fence \/ Shielded(q, v)
      PROVE  Guarded(t, v)
  <2>1. SUFFICES ASSUME NEW j \in 1 .. Len(t), Reaches(t, j, v) PROVE \E i \in 1 .. j : Fenced(t, i, v)
    BY DEF Guarded
  <2>2. CASE j \in 1 .. Len(q) /\ t[j] = q[j]
    <3>1. PICK i \in 1 .. j : Fenced(q, i, v)
      BY <1>7, <2>1, <2>2 DEF Guarded, Reaches
    <3>2. t[i] = q[i]
      BY <1>1, <2>2, <3>1
    <3> QED BY <3>1, <3>2 DEF Fenced, Reaches
  <2>3. CASE j = Len(t) /\ t[j] = m
    <3>1. CASE m.fence
      BY <1>1, <2>1, <2>3, <3>1 DEF Fenced, Reaches
    <3>2. CASE ~m.fence
      <4>1. PICK i \in 1 .. Len(q) : Fenced(q, i, v)
        BY <1>7, <2>1, <2>3, <3>2 DEF Reaches, Shielded
      <4>2. i \in 1 .. j /\ t[i] = q[i]
        BY <1>1, <2>3, <4>1
      <4> QED BY <4>1, <4>2 DEF Fenced, Reaches
    <3> QED BY <3>1, <3>2
  <2> QED BY <1>2, <2>2, <2>3
<1> QED BY <1>3, <1>4, <1>5, <1>6, <1>7

(* ... and one shorter: the message at its head is gone. *)
LEMMA PopReleases ==
  ASSUME NEW q, NEW t, Pops(q, t), NEW v \in Nat
  PROVE  /\ Below(q, v) => Below(t, v) /\ (q[1].type = "FrameReleased" => q[1].val <= v)
         /\ Guarded(q, v) /\ Reaches(q, 1, v) => Fenced(q, 1, v)
         /\ Guarded(q, v) /\ ~Fenced(q, 1, v) => Guarded(t, v)
         /\ Shielded(q, v) /\ ~Fenced(q, 1, v) => Shielded(t, v)
<1>1. /\ Len(q) \in Nat \ {0} /\ Len(t) = Len(q) - 1 /\ 1 \in 1 .. Len(q)
      /\ \A i \in 1 .. Len(t) : i + 1 \in 1 .. Len(q) /\ t[i] = q[i + 1]
  BY DEF Pops
<1>2. Below(q, v) => Below(t, v) /\ (q[1].type = "FrameReleased" => q[1].val <= v)
  BY <1>1 DEF Below
<1>3. ASSUME Guarded(q, v), Reaches(q, 1, v) PROVE Fenced(q, 1, v)
  <2>1. PICK i \in 1 .. 1 : Fenced(q, i, v)
    BY <1>1, <1>3 DEF Guarded
  <2> QED BY <2>1
<1>4. ASSUME Guarded(q, v), ~Fenced(q, 1, v) PROVE Guarded(t, v)
  <2>1. SUFFICES ASSUME NEW j \in 1 .. Len(t), Reaches(t, j, v) PROVE \E i \in 1 .. j : Fenced(t, i, v)
    BY DEF Guarded
  <2>2. PICK i \in 1 .. j + 1 : Fenced(q, i, v)
    BY <1>1, <1>4, <2>1 DEF Guarded, Reaches
  <2>3. i # 1
    BY <1>4, <2>2
  <2>4. i - 1 \in 1 .. j /\ i - 1 \in 1 .. Len(t) /\ (i - 1) + 1 = i
    BY <1>1, <2>2, <2>3
  <2>5. t[i - 1] = q[i]
    BY <1>1, <2>4
  <2> QED BY <2>2, <2>4, <2>5 DEF Fenced, Reaches
<1>5. ASSUME Shielded(q, v), ~Fenced(q, 1, v) PROVE Shielded(t, v)
  <2>1. PICK i \in 1 .. Len(q) : Fenced(q, i, v)
    BY <1>5 DEF Shielded
  <2>2. i - 1 \in 1 .. Len(t) /\ (i - 1) + 1 = i
    BY <1>1, <1>5, <2>1
  <2>3. t[i - 1] = q[i]
    BY <1>1, <2>2
  <2> QED BY <2>1, <2>2, <2>3 DEF Shielded, Fenced, Reaches
<1> QED BY <1>2, <1>3, <1>4, <1>5

(* flAcquireBuffer reads the link behind what it had queued. *)
LEMMA ConcatReleases ==
  ASSUME NEW a \in Seq(ReleaseMessage), NEW b \in Seq(ReleaseMessage), NEW v \in Nat
  PROVE  /\ Below(a, v) /\ Below(b, v) => Below(a \o b, v)
         /\ Guarded(a, v) /\ (Shielded(a, v) \/ Guarded(b, v)) => Guarded(a \o b, v)
         /\ Shielded(a, v) \/ Shielded(b, v) => Shielded(a \o b, v)
<1> DEFINE c == a \o b
<1>1. /\ Len(a) \in Nat /\ Len(b) \in Nat /\ Len(c) = Len(a) + Len(b)
      /\ \A i \in 1 .. Len(a) : c[i] = a[i]
      /\ \A i \in 1 .. Len(b) : c[Len(a) + i] = b[i]
  BY ConcatProperties, LenProperties
<1> HIDE DEF c
<1>2. \A j \in 1 .. Len(c) : j \in 1 .. Len(a) \/ (j - Len(a) \in 1 .. Len(b) /\ j = Len(a) + (j - Len(a)))
  BY <1>1
<1>3. \A i \in 1 .. Len(a) : i \in 1 .. Len(c)
  BY <1>1
<1>4. \A i \in 1 .. Len(b) : Len(a) + i \in 1 .. Len(c)
  BY <1>1
<1>5. ASSUME Below(a, v), Below(b, v) PROVE Below(c, v)
  <2>1. SUFFICES ASSUME NEW j \in 1 .. Len(c), c[j].type = "FrameReleased" PROVE c[j].val <= v
    BY DEF Below
  <2>2. CASE j \in 1 .. Len(a)
    BY <1>1, <1>5, <2>1, <2>2 DEF Below
  <2>3. CASE j - Len(a) \in 1 .. Len(b) /\ j = Len(a) + (j - Len(a))
    <3>1. c[j] = b[j - Len(a)]
      BY <1>1, <2>3
    <3> QED BY <1>5, <2>1, <2>3, <3>1 DEF Below
  <2> QED BY <1>2, <2>2, <2>3
<1>6. ASSUME Shielded(a, v) PROVE \E i \in 1 .. Len(a) : Fenced(c, i, v)
  BY <1>1, <1>6 DEF Shielded, Fenced, Reaches
<1>7. ASSUME Shielded(b, v) PROVE Shielded(c, v)
  <2>1. PICK i \in 1 .. Len(b) : Fenced(b, i, v)
    BY <1>7 DEF Shielded
  <2>2. c[Len(a) + i] = b[i] /\ Len(a) + i \in 1 .. Len(c)
    BY <1>1, <1>4, <2>1
  <2> QED BY <2>1, <2>2 DEF Shielded, Fenced, Reaches
<1>8. ASSUME Guarded(a, v), Shielded(a, v) \/ Guarded(b, v) PROVE Guarded(c, v)
  <2>1. SUFFICES ASSUME NEW j \in 1 .. Len(c), Reaches(c, j, v) PROVE \E i \in 1 .. j : Fenced(c, i, v)
    BY DEF Guarded
  <2>2. CASE j \in 1 .. Len(a)
    <3>1. PICK i \in 1 .. j : Fenced(a, i, v)
      BY <1>1, <1>8, <2>1, <2>2 DEF Guarded, Reaches
    <3>2. c[i] = a[i]
      BY <1>1, <2>2, <3>1
    <3> QED BY <3>1, <3>2 DEF Fenced, Reaches
  <2>3. CASE j - Len(a) \in 1 .. Len(b) /\ j = Len(a) + (j - Len(a))
    <3>1. CASE Shielded(a, v)
      <4>1. PICK i \in 1 .. Len(a) : Fenced(c, i, v)
        BY <1>6, <3>1
      <4>2. i \in 1 .. j
        BY <1>1, <2>3, <4>1
      <4> QED BY <4>1, <4>2
    <3>2. CASE Guarded(b, v)
      <4>0. PICK k \in 1 .. Len(b) : j = Len(a) + k
        BY <2>3
      <4>1. c[j] = b[k]
        BY <1>1, <4>0
      <4>2. PICK i \in 1 .. k : Fenced(b, i, v)
        BY <2>1, <3>2, <4>0, <4>1 DEF Guarded, Reaches
      <4>3. i \in 1 .. Len(b) /\ Len(a) + i \in 1 .. j
        BY <1>1, <4>0, <4>2
      <4>4. c[Len(a) + i] = b[i]
        BY <1>1, <4>3
      <4> QED BY <4>2, <4>3, <4>4 DEF Fenced, Reaches
    <3> QED BY <1>8, <3>1, <3>2
  <2> QED BY <1>2, <2>2, <2>3
<1>9. Shielded(a, v) => Shielded(c, v)
  BY <1>3, <1>6 DEF Shielded
<1> QED BY <1>5, <1>7, <1>8, <1>9 DEF c

(* SyncFds::advance stops at the first fence a read is behind: it passes no *)
(* outstanding read, and what guards the read stays queued.                 *)
LEMMA AdvanceReleases ==
  ASSUME NEW q \in Seq(ReleaseMessage), NEW n \in 0 .. Len(q), NEW w \in Values, NEW k \in Values,
         Advances(q, k, n, w), Values \subseteq Nat
  PROVE  /\ \A h \in Nat : k <= h /\ Below(q, h) => w <= h /\ Below(Rest(q, n), h)
         /\ \A h \in Nat : k <= h /\ Below(q, h) /\ LastIs(q, h) => w = h \/ LastIs(Rest(q, n), h)
         /\ \A v \in Nat : Shielded(Rest(q, n), v) => Shielded(q, v)
         /\ \A x \in reads : x.val \in Nat /\ k < x.val /\ Guarded(q, x.val) =>
              /\ w < x.val /\ Guarded(Rest(q, n), x.val)
              /\ Shielded(q, x.val) => Shielded(Rest(q, n), x.val)
<1> DEFINE r == Rest(q, n)
<1>1. /\ Len(q) \in Nat /\ Len(r) = Len(q) - n /\ n \in Nat
      /\ \A i \in 1 .. Len(r) : r[i] = q[n + i] /\ n + i \in 1 .. Len(q)
  BY RestType, LenProperties
<1> HIDE DEF r
<1>2. /\ \A i \in 1 .. n : i \in 1 .. Len(q) /\ Signalled(q[i]) /\ q[i].val <= w
      /\ w = k \/ \E i \in 1 .. n : w = q[i].val
      /\ w >= k
  BY <1>1 DEF Advances
<1>3. \A i \in 1 .. Len(q) : q[i].val \in Values /\ q[i].type = "FrameReleased" /\ q[i].fence \in BOOLEAN
  <2>1. \A i \in 1 .. Len(q) : q[i] \in ReleaseMessage
    BY ElementOfSeq
  <2> QED BY <2>1 DEF ReleaseMessage
<1>4. ASSUME NEW h \in Nat, k <= h, Below(q, h) PROVE w <= h /\ Below(r, h)
  <2>1. w <= h
    BY <1>2, <1>3, <1>4 DEF Below
  <2>2. Below(r, h)
    BY <1>1, <1>4 DEF Below
  <2> QED BY <2>1, <2>2
<1>5. ASSUME NEW h \in Nat, k <= h, Below(q, h), LastIs(q, h) PROVE w = h \/ LastIs(r, h)
  <2>1. CASE n = Len(q)
    <3>1. q[n].val = h /\ n \in 1 .. n
      BY <1>1, <1>5, <2>1 DEF LastIs
    <3>2. w >= h /\ w <= h
      BY <1>2, <1>3, <1>4, <1>5, <3>1
    <3> QED BY <3>2
  <2>2. CASE n # Len(q)
    <3>1. Len(r) > 0 /\ Len(r) \in 1 .. Len(r) /\ n + Len(r) = Len(q)
      BY <1>1, <2>2
    <3>2. r[Len(r)] = q[Len(q)]
      BY <1>1, <3>1
    <3> QED BY <1>5, <3>1, <3>2 DEF LastIs
  <2> QED BY <2>1, <2>2
<1>6. ASSUME NEW v \in Nat, Shielded(r, v) PROVE Shielded(q, v)
  BY <1>1, <1>6 DEF Shielded, Fenced, Reaches
<1>7. ASSUME NEW x \in reads, x.val \in Nat, k < x.val, Guarded(q, x.val)
      PROVE  /\ w < x.val /\ Guarded(r, x.val)
             /\ Shielded(q, x.val) => Shielded(r, x.val)
  <2>1. \A i \in 1 .. n : ~Fenced(q, i, x.val)
    <3>1. ASSUME NEW i \in 1 .. n, q[i].fence, q[i].val >= x.val PROVE FALSE
      <4>1. x.val > q[i].val /\ q[i].val \in Nat
        BY <1>2, <1>3, <3>1 DEF Signalled
      <4> QED BY <1>7, <3>1, <4>1
    <3> QED BY <3>1 DEF Fenced, Reaches
  <2>2. ASSUME NEW j \in 1 .. n PROVE q[j].val < x.val
    <3>1. SUFFICES ASSUME q[j].val >= x.val PROVE FALSE
      <4>1. q[j].val \in Nat
        BY <1>2, <1>3
      <4> QED BY <1>7, <4>1
    <3>2. Reaches(q, j, x.val) /\ j \in 1 .. Len(q)
      BY <1>2, <1>3, <3>1 DEF Reaches
    <3>3. PICK i \in 1 .. j : Fenced(q, i, x.val)
      BY <1>7, <3>2 DEF Guarded
    <3>4. i \in 1 .. n
      BY <1>1, <3>3
    <3> QED BY <2>1, <3>3, <3>4
  <2>3. w < x.val
    BY <1>2, <1>7, <2>2
  <2>4. ASSUME NEW i \in 1 .. Len(q), Fenced(q, i, x.val)
        PROVE  i - n \in 1 .. Len(r) /\ Fenced(r, i - n, x.val)
    <3>1. i \notin 1 .. n
      BY <2>1, <2>4
    <3>2. i - n \in 1 .. Len(r) /\ n + (i - n) = i
      BY <1>1, <3>1
    <3>3. r[i - n] = q[i]
      BY <1>1, <3>2
    <3> QED BY <2>4, <3>2, <3>3 DEF Fenced, Reaches
  <2>5. Guarded(r, x.val)
    <3>1. SUFFICES ASSUME NEW j \in 1 .. Len(r), Reaches(r, j, x.val) PROVE \E i \in 1 .. j : Fenced(r, i, x.val)
      BY DEF Guarded
    <3>2. n + j \in 1 .. Len(q) /\ r[j] = q[n + j]
      BY <1>1
    <3>3. PICK i \in 1 .. n + j : Fenced(q, i, x.val)
      BY <1>7, <3>1, <3>2 DEF Guarded, Reaches
    <3>4. i \in 1 .. Len(q)
      BY <1>1, <3>2, <3>3
    <3>5. i - n \in 1 .. Len(r) /\ Fenced(r, i - n, x.val)
      BY <2>4, <3>3, <3>4
    <3>6. i - n \in 1 .. j
      BY <1>1, <3>3, <3>5
    <3> QED BY <3>5, <3>6
  <2>6. Shielded(q, x.val) => Shielded(r, x.val)
    BY <2>4 DEF Shielded
  <2> QED BY <2>3, <2>5, <2>6
<1> QED BY <1>4, <1>5, <1>6, <1>7 DEF r

(* The types the arguments about values need, in one place. *)
LEMMA CoreTypes ==
  ASSUME ChannelAssumption, TypeOK
  PROVE  /\ Values \subseteq Nat /\ heldReady \in Values /\ retiredValue \in Values /\ pendingReady \in Values
         /\ cReleases \in Seq(ReleaseMessage) /\ Len(cReleases) \in Nat
         /\ ledger \in Seq(LeasedFrame) /\ Len(ledger) \in Nat
         /\ \A x \in reads : x \in Read /\ x.val \in Values /\ x.val \in Nat /\ x.slot \in Slots
         /\ \A i \in 1 .. Len(ledger) :
              ledger[i] \in LeasedFrame /\ ledger[i].val \in Values /\ ledger[i].slot \in Slots
         /\ image \in [Slots -> Values] /\ pendingSlot \in Slots /\ heldSlot \in Slots
         /\ cReleases = <<>> <=> Len(cReleases) = 0
         /\ ledger = <<>> <=> Len(ledger) = 0
<1>1. /\ Values \subseteq Nat /\ heldReady \in Values /\ retiredValue \in Values /\ pendingReady \in Values
      /\ cReleases \in Seq(ReleaseMessage) /\ ledger \in Seq(LeasedFrame)
      /\ image \in [Slots -> Values] /\ pendingSlot \in Slots /\ heldSlot \in Slots
  BY ConstantTypes DEF TypeOK, HeldTypes, RetireTypes, PendingTypes, ImageTypes
<1>2. \A x \in reads : x \in Read /\ x.val \in Values /\ x.val \in Nat /\ x.slot \in Slots
  BY <1>1 DEF TypeOK, GpuTypes, Read
<1>3. \A i \in 1 .. Len(ledger) : ledger[i] \in LeasedFrame
  BY <1>1, ElementOfSeq
<1>4. \A i \in 1 .. Len(ledger) : ledger[i].val \in Values /\ ledger[i].slot \in Slots
  BY <1>3 DEF LeasedFrame
<1>5. Len(cReleases) \in Nat /\ Len(ledger) \in Nat /\ (cReleases = <<>> <=> Len(cReleases) = 0)
      /\ (ledger = <<>> <=> Len(ledger) = 0)
  BY <1>1, LenProperties, EmptySeq
<1> QED BY <1>1, <1>2, <1>3, <1>4, <1>5

(* The consumer's releases move on, or do not. *)
Settles ==
  \/ UNCHANGED <<cReleases, retiredValue>>
  \/ \E n \in 0 .. Len(cReleases), w \in Values :
       /\ Advances(cReleases, retiredValue, n, w)
       /\ cReleases' = Rest(cReleases, n) /\ retiredValue' = w

(* A poll of the fences moves the watermark and passes no outstanding read. *)
LEMMA SettleStep ==
  ASSUME ChannelAssumption, TypeOK, Retirement, ReadsGuarded, Defaults, Settles,
         UNCHANGED <<heldReady, frameHeld, reads>>
  PROVE  /\ Retirement' /\ ReadsGuarded' /\ Defaults'
         /\ \A v \in Nat : Shielded(cReleases', v) => Shielded(cReleases, v)
         /\ cReleases = <<>> => UNCHANGED <<cReleases, retiredValue>>
<1>1. CASE UNCHANGED <<cReleases, retiredValue>>
  BY <1>1 DEF Retirement, ReadsGuarded, Defaults, Below, LastIs, Guarded, Reaches, Fenced, Shielded
<1>2. ASSUME NEW n \in 0 .. Len(cReleases), NEW w \in Values, Advances(cReleases, retiredValue, n, w),
             cReleases' = Rest(cReleases, n), retiredValue' = w
      PROVE  /\ Retirement' /\ ReadsGuarded' /\ Defaults'
             /\ \A v \in Nat : Shielded(cReleases', v) => Shielded(cReleases, v)
             /\ cReleases = <<>> => UNCHANGED <<cReleases, retiredValue>>
  <2>0. PICK c : c = Rest(cReleases, n)
    OBVIOUS
  <2>1. /\ \A h \in Nat : retiredValue <= h /\ Below(cReleases, h) => w <= h /\ Below(c, h)
        /\ \A h \in Nat : retiredValue <= h /\ Below(cReleases, h) /\ LastIs(cReleases, h) => w = h \/ LastIs(c, h)
        /\ \A v \in Nat : Shielded(c, v) => Shielded(cReleases, v)
        /\ \A x \in reads : x.val \in Nat /\ retiredValue < x.val /\ Guarded(cReleases, x.val) =>
             w < x.val /\ Guarded(c, x.val)
    BY <1>2, <2>0, CoreTypes, AdvanceReleases
  <2>2. heldReady \in Nat /\ \A x \in reads : x.val \in Nat
    BY CoreTypes
  <2>3. w <= heldReady /\ Below(c, heldReady)
    BY <2>1, <2>2 DEF Retirement
  <2>4. cReleases' = c /\ retiredValue' = w /\ heldReady' = heldReady /\ reads' = reads /\ frameHeld' = frameHeld
    BY <1>2, <2>0
  <2>5. Retirement'
    BY <2>3, <2>4 DEF Retirement
  <2>6. ReadsGuarded'
    BY <2>1, <2>2, <2>4 DEF ReadsGuarded
  <2>7. Defaults'
    <3>1. SUFFICES ASSUME ~GpuSync, ~Defer, ~frameHeld PROVE w = heldReady \/ LastIs(c, heldReady)
      BY <2>4 DEF Defaults
    <3>2. retiredValue = heldReady \/ LastIs(cReleases, heldReady)
      BY <3>1 DEF Defaults
    <3>3. w >= retiredValue
      BY <1>2 DEF Advances
    <3>4. CASE retiredValue = heldReady
      BY <2>2, <2>3, <3>3, <3>4, CoreTypes
    <3>5. CASE LastIs(cReleases, heldReady)
      BY <2>1, <2>2, <3>5 DEF Retirement
    <3> QED BY <3>2, <3>4, <3>5
  <2>8. cReleases = <<>> => cReleases' = cReleases /\ retiredValue' = retiredValue
    <3>1. SUFFICES ASSUME cReleases = <<>> PROVE c = <<>> /\ w = retiredValue
      BY <2>4
    <3>2. Len(cReleases) = 0 /\ n = 0
      BY <3>1, CoreTypes
    <3>3. c \in Seq(ReleaseMessage) /\ Len(c) = 0
      <4>1. c \in Seq(ReleaseMessage) /\ Len(c) = Len(cReleases) - n
        BY <2>0, RestType, CoreTypes
      <4> QED BY <3>2, <4>1
    <3>4. c = <<>>
      BY <3>3, EmptySeq
    <3>5. w = retiredValue
      BY <1>2, <3>2 DEF Advances
    <3> QED BY <3>4, <3>5
  <2> QED BY <2>1, <2>4, <2>5, <2>6, <2>7, <2>8
<1> QED BY <1>1, <1>2 DEF Settles

(* A producer's queues change in nothing but what is neither a frame nor a  *)
(* release.                                                                 *)
UpTurn(q) ==
  \/ up'[q] = up[q] \/ Len(up'[q]) = 0
  \/ \E m : m.type # "FrameReady" /\ Pushes(up[q], up'[q], m)
DownTurn(q) ==
  \/ down'[q] = down[q]
  \/ \E m : m.type # "FrameReleased" /\ Pushes(down[q], down'[q], m)
  \/ Pops(down[q], down'[q]) /\ down[q][1].type # "FrameReleased"

(* p asks for a geometry only when it draws nothing. *)
AsksIdle(q) ==
  pc'[q] = "geometry" => \/ pc[q] = "geometry"
                         \/ submittingSlot[q] = NoSlot /\ \A s \in Slots : slotSubmitValue[q][s] # Reserved

(* A frame announced after such a change was announced before it, behind    *)
(* the same messages.                                                       *)
LEMMA FramesAhead ==
  ASSUME NEW q, UpTurn(q), NEW i \in 1 .. Len(up'[q]), up'[q][i].type = "FrameReady"
  PROVE  i \in 1 .. Len(up[q]) /\ up'[q][i] = up[q][i] /\ \A j \in 1 .. i - 1 : up'[q][j] = up[q][j]
<1>1. CASE up'[q] = up[q]
  BY <1>1
<1>2. CASE Len(up'[q]) = 0
  BY <1>2
<1>3. ASSUME NEW m, m.type # "FrameReady", Pushes(up[q], up'[q], m)
      PROVE  i \in 1 .. Len(up[q]) /\ up'[q][i] = up[q][i] /\ \A j \in 1 .. i - 1 : up'[q][j] = up[q][j]
  <2>1. i \in 1 .. Len(up[q]) /\ up'[q][i] = up[q][i] /\ Len(up[q]) \in Nat
    BY <1>3, PushCases
  <2> QED BY <1>3, <2>1 DEF Pushes
<1> QED BY <1>1, <1>2, <1>3 DEF UpTurn

(* The frames stay in their slots when no slot is drawn and nothing new is  *)
(* announced.                                                               *)
LEMMA PicturesFrame ==
  ASSUME Pictures, UNCHANGED <<image, heldReady, pendingSlot, pendingReady>>, reads' \subseteq reads,
         hasPending' => hasPending,
         \A q \in Producers : Owns(q)' => Owns(q) /\ UpTurn(q)
  PROVE  Pictures'
<1>1. \A x \in reads' : image'[x.slot] = x.val
  BY DEF Pictures
<1>2. hasPending' => pendingReady' > heldReady' /\ image'[pendingSlot'] = pendingReady'
  BY DEF Pictures
<1>3. ASSUME NEW q \in Producers, Owns(q)' PROVE Coming(q)'
  <2>1. Coming(q) /\ UpTurn(q)
    BY <1>3 DEF Pictures
  <2>2. SUFFICES ASSUME NEW i \in 1 .. Len(up'[q]), up'[q][i].type = "FrameReady"
                 PROVE  /\ image[up'[q][i].slot] = up'[q][i].val
                        /\ up'[q][i].val > heldReady /\ (hasPending' => up'[q][i].val > pendingReady)
                        /\ \A j \in 1 .. i - 1 : up'[q][j].type = "FrameReady" => up'[q][j].val < up'[q][i].val
    BY DEF Coming
  <2>3. i \in 1 .. Len(up[q]) /\ up'[q][i] = up[q][i] /\ \A j \in 1 .. i - 1 : up'[q][j] = up[q][j]
    BY <2>1, <2>2, FramesAhead
  <2> QED BY <2>1, <2>2, <2>3 DEF Coming
<1> QED BY <1>1, <1>2, <1>3 DEF Pictures

(* The owner's view of its slots survives a step that touches neither. *)
LEMMA DrawingsFrame ==
  ASSUME NEW p \in Producers, Drawings(p), UNCHANGED <<image, heldReady>>,
         slotSubmitValue'[p] = slotSubmitValue[p], readyValue'[p] = readyValue[p],
         submittingSlot'[p] = submittingSlot[p], AsksIdle(p),
         hasPending' => hasPending /\ pendingReady' = pendingReady, UpTurn(p)
  PROVE  Drawings(p)'
<1>0. Announced(p)' = Announced(p)
  BY DEF Announced
<1>1. \A i \in 1 .. Len(up'[p]) : up'[p][i].type = "FrameReady" => up'[p][i].val <= Announced(p)
  BY FramesAhead DEF Drawings
<1> QED BY <1>0, <1>1 DEF Drawings, AsksIdle

(* The releases on their way survive a step that adds none. *)
LEMMA ReturnsFrame ==
  ASSUME ChannelAssumption, TypeOK, NEW p \in Producers, Returns(p),
         consumedValue'[p] = consumedValue[p], pReleases'[p] = pReleases[p],
         heldReady' = heldReady, reads' \subseteq reads,
         DownTurn(p),
         \A v \in Nat : Shielded(cReleases', v) => Shielded(cReleases, v)
  PROVE  Returns(p)'
<1>1. \A x \in reads : x.val \in Nat /\ heldReady \in Nat
  BY CoreTypes
<1>2. ASSUME NEW v \in Nat
      PROVE  /\ Below(down[p], v) => Below(down'[p], v)
             /\ Guarded(down[p], v) => Guarded(down'[p], v)
             /\ Shielded(down[p], v) => Shielded(down'[p], v)
  <2>1. CASE down'[p] = down[p]
    BY <2>1
  <2>2. CASE \E m : m.type # "FrameReleased" /\ Pushes(down[p], down'[p], m)
    <3>1. PICK m : m.type # "FrameReleased" /\ Pushes(down[p], down'[p], m)
      BY <2>2
    <3> QED BY <3>1, PushReleases
  <2>3. CASE Pops(down[p], down'[p]) /\ down[p][1].type # "FrameReleased"
    BY <2>3, PopReleases DEF Fenced, Reaches
  <2> QED BY <2>1, <2>2, <2>3 DEF DownTurn
<1>3. Below(down'[p], heldReady)
  BY <1>2, CoreTypes DEF Returns
<1>4. ASSUME NEW x \in reads'
      PROVE  /\ consumedValue[p] < x.val
             /\ Guarded(pReleases[p], x.val)
             /\ Shielded(pReleases[p], x.val) \/ Guarded(down'[p], x.val)
             /\ Shielded(cReleases', x.val) => Shielded(pReleases[p], x.val) \/ Shielded(down'[p], x.val)
  BY <1>1, <1>2 DEF Returns
<1>5. consumedValue'[p] <= heldReady /\ Below(pReleases[p], heldReady)
  BY DEF Returns
<1> QED BY <1>3, <1>4, <1>5 DEF Returns

(* What the GPU owes survives a step that submits and acquires nothing. *)
LEMMA WritesFrame ==
  ASSUME Writes, UNCHANGED <<written, readyValue, submittingSlot, heldReady, heldSlot, reads>>,
         peer' = peer \/ ~(heldReady > 0),
         \A q \in Producers : AsksIdle(q)
  PROVE  Writes'
<1>1. \A p \in Producers :
        /\ written'[p] <= readyValue'[p]
        /\ submittingSlot'[p] # NoSlot => readyValue'[p] > 0
        /\ submittingSlot'[p] # NoSlot => pc'[p] # "geometry"
  BY DEF Writes, AsksIdle
<1>2. /\ ~GpuSync /\ heldReady' > 0 => Drawn(heldReady)'
      /\ ~Leases /\ heldReady' > 0 /\ ~Drawn(heldReady)' => HeldRead' \in reads'
  BY DEF Writes, Drawn, HeldRead
<1> QED BY <1>1, <1>2 DEF Writes

(* The leases survive a step that leaves the ledger alone. *)
LEMMA LeasingFrame ==
  ASSUME Leasing, UNCHANGED <<frameHeld, heldSlot, heldReady, ledger, image, reads>>,
         cReleases = <<>> => UNCHANGED <<cReleases, retiredValue>>,
         \A q \in Producers : InSync(q)' =>
           /\ InSync(q) /\ consumedValue'[q] = consumedValue[q] /\ pReleases'[q] = pReleases[q]
           /\ Below(down[q], retiredValue) => Below(down'[q], retiredValue)
  PROVE  Leasing'
<1>1. CASE ~Leases
  BY <1>1 DEF Leasing
<1>2. CASE Leases
  <2>1. cReleases' = <<>> /\ retiredValue' = retiredValue
    BY <1>2 DEF Leasing
  <2>2. frameHeld' => HeldRead' \in reads'
    BY <1>2 DEF Leasing, HeldRead
  <2>3. \A i \in 1 .. Len(ledger') : Leased(i)'
    BY <1>2, <2>1 DEF Leasing, Leased
  <2>4. \A x \in reads' : LeasedRead(x)'
    BY <1>2 DEF Leasing, LeasedRead, HeldRead, Finished
  <2>5. \A p \in Producers : InSync(p)' =>
          /\ consumedValue'[p] <= retiredValue'
          /\ Below(pReleases'[p], retiredValue') /\ Below(down'[p], retiredValue')
    BY <1>2, <2>1 DEF Leasing
  <2> QED BY <1>2, <2>1, <2>2, <2>3, <2>4, <2>5 DEF Leasing
<1> QED BY <1>1, <1>2

(* A step that draws, reads and retires nothing: the accept thread's turns, *)
(* what it answers, and the producers that have no ring.                    *)
LEMMA TurnCore ==
  ASSUME ChannelAssumption, TypeOK, TypeOK', Links', Core, Settles,
         UNCHANGED <<pendingSlot, pendingReady, frameHeld, heldSlot, heldReady, ledger, image, reads,
                     written, readyValue, submittingSlot>>,
         hasPending' => hasPending, acc' = "handed" => acc = "handed", peer' = peer \/ ~(heldReady > 0),
         \A q \in Producers :
           /\ AsksIdle(q)
           /\ Owns(q)' => Owns(q) /\ UpTurn(q) /\ (Unopened(q)' => Unopened(q))
           /\ InSync(q)' =>
                /\ InSync(q) /\ slotSubmitValue'[q] = slotSubmitValue[q]
                /\ consumedValue'[q] = consumedValue[q] /\ pReleases'[q] = pReleases[q]
                /\ DownTurn(q)
  PROVE  Core'
<1>1. /\ Retirement' /\ ReadsGuarded' /\ Defaults'
      /\ \A v \in Nat : Shielded(cReleases', v) => Shielded(cReleases, v)
      /\ cReleases = <<>> => UNCHANGED <<cReleases, retiredValue>>
  BY SettleStep DEF Core
<1>2. Pictures'
  BY PicturesFrame DEF Core
<1>3. Starts'
  <2>1. Fresh => Fresh'
    BY <1>1, CoreTypes DEF Fresh, TypeOK, PendingTypes
  <2> QED BY <2>1 DEF Core, Starts
<1>4. Producing'
  <2>1. SUFFICES ASSUME NEW q \in Producers, InSync(q)' PROVE Drawings(q)' /\ Returns(q)'
    BY DEF Producing
  <2>2. Owns(q)'
    BY <2>1 DEF Links, Link, Opening, InSync
  <2>3. Drawings(q) /\ Returns(q)
    BY <2>1 DEF Core, Producing
  <2>4. Drawings(q)'
    BY <2>1, <2>2, <2>3, DrawingsFrame
  <2>5. Returns(q)'
    BY <1>1, <2>1, <2>3, ReturnsFrame
  <2> QED BY <2>4, <2>5
<1>5. Leasing'
  <2>1. ASSUME NEW q \in Producers, InSync(q)', Below(down[q], retiredValue) PROVE Below(down'[q], retiredValue)
    <3>1. CASE down'[q] = down[q]
      BY <2>1, <3>1
    <3>2. CASE \E m : m.type # "FrameReleased" /\ Pushes(down[q], down'[q], m)
      BY <2>1, <3>2, PushReleases, CoreTypes
    <3>3. CASE Pops(down[q], down'[q])
      BY <2>1, <3>3, PopReleases, CoreTypes
    <3> QED BY <2>1, <3>1, <3>2, <3>3 DEF DownTurn
  <2> QED BY <1>1, <2>1, LeasingFrame DEF Core
<1>6. Writes'
  BY WritesFrame DEF Core
<1> QED BY <1>1, <1>2, <1>3, <1>4, <1>5, <1>6 DEF Core

(* The hypotheses of TurnCore that concern the accept thread only. *)
LEMMA AcceptTurn ==
  ASSUME ChannelAssumption, TypeOK, TypeOK', Links', Core, Settles,
         UNCHANGED <<generation, pendingSlot, pendingReady, frameHeld, heldSlot, heldReady, ledger, image,
                     gpuVars, producerVars>>,
         hasPending' => hasPending, acc' = "handed" => acc = "handed", peer' = peer \/ ~(heldReady > 0),
         \A q \in Producers :
           /\ Owns(q)' => Owns(q) /\ (up'[q] = up[q] \/ Len(up'[q]) = 0)
           /\ InSync(q) => down'[q] = down[q] \/ \E m : m.type # "FrameReleased" /\ Pushes(down[q], down'[q], m)
  PROVE  Core'
<1>1. UNCHANGED <<reads, written, readyValue, submittingSlot, slotSubmitValue, consumedValue, pReleases, pc, pGeneration>>
  BY DEF gpuVars, producerVars, slotVars
<1>2. \A q \in Producers : (InSync(q)' => InSync(q)) /\ (Unopened(q)' => Unopened(q))
  BY <1>1 DEF InSync, Unopened, Attached
<1> QED BY <1>1, <1>2, TurnCore DEF UpTurn, DownTurn, AsksIdle, producerVars, slotVars

(* The accept thread's turns that send nothing keep the frames in order. *)
LEMMA AcceptCore ==
  ASSUME ChannelAssumption, TypeOK, TypeOK', Serves, Links, Peers, Links', Core,
         \/ \E p \in Producers : Accept(p) \/ RefuseExtra(p)
         \/ HelloFails \/ AcceptEnds \/ Adopt \/ PumpEnds
  PROVE  Core'
<1> USE DEF consumerVars, ringVars, pendingVars, heldVars, retireVars, peerVars, acceptVars, linkVars
<1>1. ASSUME NEW p \in Producers, Accept(p) \/ RefuseExtra(p) PROVE Core'
  <2>1. /\ UNCHANGED <<generation, hasPending, pendingSlot, pendingReady, frameHeld, heldSlot, heldReady, ledger, image,
                       gpuVars, producerVars, cReleases, retiredValue, peer, up>>
        /\ pc[p] = "connecting" /\ \A q \in Producers : q # p => down'[q] = down[q]
    BY <1>1 DEF Accept, RefuseExtra, TypeOK, LinkTypes
  <2>2. ~InSync(p)
    BY <2>1 DEF InSync, Attached
  <2>3. (acc' = "handed" => acc = "handed") /\ \A q \in Producers : Owns(q)' => Owns(q)
    BY <1>1 DEF Accept, RefuseExtra, Owns
  <2> QED BY <2>1, <2>2, <2>3, AcceptTurn DEF Settles
<1>2. CASE HelloFails \/ AcceptEnds
  <2>1. UNCHANGED <<generation, hasPending, pendingSlot, pendingReady, frameHeld, heldSlot, heldReady, ledger, image,
                    gpuVars, producerVars, cReleases, retiredValue, peer, up, down>>
    BY <1>2 DEF HelloFails, AcceptEnds
  <2>2. (acc' = "handed" => acc = "handed") /\ \A q \in Producers : Owns(q)' => Owns(q)
    BY <1>2, ConstantTypes DEF HelloFails, AcceptEnds, Owns, Peers
  <2> QED BY <2>1, <2>2, AcceptTurn DEF Settles
<1>3. CASE Adopt
  <2>1. UNCHANGED <<generation, hasPending, pendingSlot, pendingReady, frameHeld, heldSlot, heldReady, ledger, image,
                    gpuVars, producerVars, cReleases, retiredValue, up, down>>
    BY <1>3 DEF Adopt
  <2>2. acc' # "handed" /\ ~(heldReady > 0) /\ \A q \in Producers : Owns(q)' => Owns(q)
    BY <1>3 DEF Adopt, Owns, Core, Starts, Fresh
  <2> QED BY <2>1, <2>2, AcceptTurn DEF Settles
<1>4. CASE PumpEnds
  <2>1. UNCHANGED <<generation, hasPending, pendingSlot, pendingReady, frameHeld, heldSlot, heldReady, ledger, image,
                    gpuVars, producerVars, cReleases, retiredValue, peer, down>>
    BY <1>4 DEF PumpEnds
  <2>2. acc' # "handed" /\ \A q \in Producers : ~Owns(q)'
    BY <1>4 DEF PumpEnds, Owns
  <2> QED BY <2>1, <2>2, AcceptTurn DEF Settles
<1> QED BY <1>1, <1>2, <1>3, <1>4

(* The answers that leave the ring as it was do too. *)
LEMMA RefuseCore ==
  ASSUME ChannelAssumption, TypeOK, TypeOK', Serves, Links, Peers, Links', Core,
         \/ AttachBusy \/ PumpGeometrySame \/ PumpGeometryRefused
         \/ PumpGeometryRealloc /\ generation' = generation /\ UNCHANGED <<heldReady, image>> /\ Settles
  PROVE  Core'
<1> USE DEF consumerVars, ringVars, pendingVars, heldVars, retireVars, peerVars, acceptVars, linkVars
<1>1. CASE AttachBusy
  <2>1. UNCHANGED <<generation, hasPending, pendingSlot, pendingReady, frameHeld, heldSlot, heldReady, ledger, image,
                    gpuVars, producerVars, peer>>
    BY <1>1 DEF AttachBusy
  <2>2. Settles
    BY <1>1 DEF AttachBusy, Settles
  <2>3. PICK p \in Producers : acc = "hello" /\ serving = p
    BY <1>1 DEF AttachBusy, Serves
  <2>4. acc' # "handed" /\ \A q \in Producers : ~Owns(q)' /\ ~Owns(q)
    BY <1>1, <2>3 DEF AttachBusy, Owns
  <2>5. \A q \in Producers : ~InSync(q)
    BY <2>4 DEF Links, Link, Opening, InSync
  <2> QED BY <2>1, <2>2, <2>4, <2>5, AcceptTurn
<1>2. CASE \/ PumpGeometrySame \/ PumpGeometryRefused
           \/ PumpGeometryRealloc /\ generation' = generation /\ UNCHANGED <<heldReady, image>> /\ Settles
  <2>1. PICK p \in Producers : Replies(p)
    BY <1>2, ReplySteps
  <2>2. /\ UNCHANGED <<generation, pendingSlot, pendingReady, frameHeld, heldSlot, heldReady, ledger, image,
                       gpuVars, producerVars, peer, acc, serving>>
        /\ hasPending' => hasPending
    BY <1>2 DEF PumpGeometrySame, PumpGeometryRefused, PumpGeometryRealloc
  <2>3. Settles
    BY <1>2 DEF PumpGeometrySame, PumpGeometryRefused, Settles
  <2>4. Len(up'[p]) = 0
    <3>1. /\ Len(up[p]) \in Nat \ {0} /\ Len(up'[p]) = Len(up[p]) - 1 /\ Owns(p)
          /\ up[p][1].type = "RequestGeometry"
      BY <2>1 DEF Replies, Pops, Owns
    <3>2. 1 = Len(up[p])
      <4>1. Upward(p) /\ 1 \in 1 .. Len(up[p])
        BY <3>1 DEF Links, Link
      <4> QED BY <3>1, <4>1 DEF Upward
    <3> QED BY <3>1, <3>2
  <2>5. Owns(p) /\ \A q \in Producers : q # p => ~Owns(q) /\ ~InSync(q)
    BY <2>1 DEF Replies, Owns, InSync, Links, Link, Opening
  <2>6. InSync(p) => \E m : m.type # "FrameReleased" /\ Pushes(down[p], down'[p], m)
    <3>1. InSync(p) => Alive(p)
      BY DEF InSync, Attached, Alive
    <3>2. InSync(p) => Pushes(down[p], down'[p], RingDesc(generation', geometry'))
      BY <2>1, <3>1 DEF Replies
    <3>3. RingDesc(generation', geometry').type # "FrameReleased"
      BY DEF RingDesc
    <3> QED BY <3>2, <3>3
  <2>7. acc' = acc /\ peer' = peer /\ \A q \in Producers : Owns(q)' => Owns(q)
    BY <2>2 DEF Owns
  <2>8. ASSUME NEW q \in Producers
        PROVE  /\ Owns(q)' => Owns(q) /\ (up'[q] = up[q] \/ Len(up'[q]) = 0)
               /\ InSync(q) => down'[q] = down[q] \/ \E m : m.type # "FrameReleased" /\ Pushes(down[q], down'[q], m)
    <3>1. CASE q = p
      BY <2>4, <2>6, <2>7, <3>1
    <3>2. CASE q # p
      BY <2>5, <2>7, <3>2
    <3> QED BY <3>1, <3>2
  <2> QED BY <2>2, <2>3, <2>7, <2>8, AcceptTurn
<1> QED BY <1>1, <1>2

(* A new timeline starts: nothing is being read. *)
LEMMA QuietReads ==
  ASSUME ChannelAssumption, TypeOK, Retirement, ReadsGuarded,
         NEW n \in 0 .. Len(cReleases), NEW w \in Values, Advances(cReleases, retiredValue, n, w), w >= heldReady
  PROVE  reads = {}
<1>1. SUFFICES ASSUME NEW x \in reads PROVE FALSE
  OBVIOUS
<1>2. x.val \in Nat /\ x.val <= heldReady /\ retiredValue < x.val /\ Guarded(cReleases, x.val)
  BY CoreTypes DEF ReadsGuarded
<1>3. w < x.val
  BY <1>2, CoreTypes, AdvanceReleases
<1> QED BY <1>2, <1>3, CoreTypes

Restarts ==
  /\ hasPending' = FALSE /\ cReleases' = <<>> /\ heldReady' = 0 /\ retiredValue' = 0 /\ image' = Blank
  /\ generation' = generation + 1
  /\ ~frameHeld /\ ledger = <<>> /\ UNCHANGED <<frameHeld, ledger, gpuVars, producerVars>>
  /\ \E n \in 0 .. Len(cReleases), w \in Values : Advances(cReleases, retiredValue, n, w) /\ w >= heldReady

(* A timeline starts anew only when nothing is read, and everything holds   *)
(* of it at once.                                                           *)
LEMMA RestartCore ==
  ASSUME ChannelAssumption, TypeOK, TypeOK', Links', Core, Restarts,
         \A q \in Producers : (Owns(q)' => Len(up'[q]) = 0) /\ ~InSync(q)'
  PROVE  Core' /\ reads = {}
<1>1. reads = {} /\ reads' = {}
  BY QuietReads DEF Restarts, gpuVars, Core
<1>2. Len(cReleases') = 0
  BY EmptySeq DEF Restarts
<1>3. Retirement' /\ ReadsGuarded' /\ Defaults'
  BY <1>1, <1>2 DEF Restarts, Retirement, ReadsGuarded, Defaults, Below
<1>4. Pictures'
  BY <1>1 DEF Restarts, Pictures, Coming
<1>5. Fresh' /\ image' = Blank
  BY DEF Restarts, Fresh
<1>6. Starts'
  BY <1>5 DEF Starts
<1>7. Producing'
  BY DEF Producing
<1>8. Leasing'
  <2>1. ledger' = <<>> /\ Len(ledger') = 0 /\ ~frameHeld' /\ cReleases' = <<>>
    BY EmptySeq DEF Restarts
  <2> QED BY <1>1, <2>1 DEF Leasing
<1>9. Writes'
  <2>1. UNCHANGED <<written, readyValue, submittingSlot, pc>> /\ heldReady' = 0
    BY DEF Restarts, gpuVars, producerVars, slotVars
  <2> QED BY <2>1 DEF Writes, Core
<1> QED BY <1>1, <1>3, <1>4, <1>6, <1>7, <1>8, <1>9 DEF Core

(* The ring is handed over or reallocated only when nothing is read         *)
(* (StorageBusy).                                                           *)
LEMMA HandoverCore ==
  ASSUME ChannelAssumption, TypeOK, TypeOK', Serves, Links, Peers, Links', Core,
         AttachRing \/ (PumpGeometryRealloc /\ generation' # generation)
  PROVE  Core' /\ reads = {}
<1> USE DEF consumerVars, ringVars, pendingVars, heldVars, retireVars, peerVars, acceptVars, linkVars
<1>1. CASE AttachRing
  <2>1. PICK p \in Producers : acc = "hello" /\ serving = p
    BY <1>1 DEF AttachRing, Serves
  <2>2. /\ hasPending' = FALSE /\ cReleases' = <<>> /\ heldReady' = 0 /\ retiredValue' = 0 /\ image' = Blank
        /\ generation' = generation + 1 /\ UNCHANGED <<frameHeld, ledger, gpuVars, producerVars>>
        /\ serving' = p \/ (serving' = None /\ acc' = "accept")
    <3>1. serving' = p \/ (serving' = None /\ acc' = "accept")
      BY <1>1, <2>1 DEF AttachRing
    <3> QED BY <1>1, <3>1 DEF AttachRing
  <2>3. PICK n \in 0 .. Len(cReleases), w \in Values : Advances(cReleases, retiredValue, n, w) /\ ~StorageBusy(w)
    BY <1>1 DEF AttachRing
  <2>4. ~frameHeld /\ ledger = <<>> /\ w >= heldReady
    BY <2>3, CoreTypes DEF StorageBusy
  <2>5. Restarts
    BY <2>2, <2>3, <2>4 DEF Restarts
  <2>6. ASSUME NEW q \in Producers PROVE ~InSync(q)'
    <3>1. ~Owns(q) /\ Link(q)
      BY <2>1 DEF Owns, Links
    <3>2. ~Attached(q) /\ pc' = pc
      BY <2>2, <3>1 DEF Link, Opening, producerVars
    <3> QED BY <3>2 DEF InSync, Attached
  <2>7. ASSUME NEW q \in Producers, Owns(q)' PROVE Len(up'[q]) = 0
    <3>1. acc' # "accept"
      BY <2>7 DEF Owns
    <3>2. q = p /\ Alive(p) /\ acc' = "handed"
      BY <1>1, <2>1, <2>2, <2>7, <3>1 DEF Owns, AttachRing
    <3>3. Unopened(p)'
      <4>1. Link(p) /\ pc[p] \in {"new", "connecting", "greeted", "idle", "geometry", "gone"} /\ ~Owns(p)
        BY <2>1 DEF Links, TypeOK, ProducerTypes, Owns
      <4>2. up[p] # <<>>
        BY <1>1, <2>1 DEF AttachRing
      <4>3. Len(up[p]) # 0
        BY <4>2, LinkQueues
      <4>4. pc[p] = "greeted"
        BY <2>1, <3>2, <4>1, <4>3 DEF Link, Opening, Alive, Attached
      <4> QED BY <2>2, <4>4 DEF Unopened, producerVars
    <3> QED BY <2>7, <3>2, <3>3 DEF Links, Link, Upward
  <2> QED BY <2>5, <2>6, <2>7, RestartCore
<1>2. CASE PumpGeometryRealloc /\ generation' # generation
  <2>1. PICK p \in Producers : Replies(p)
    BY <1>2, ReplySteps
  <2>2. Restarts /\ UNCHANGED <<acc, serving>>
    <3>1. PICK n \in 0 .. Len(cReleases), w \in Values :
            /\ Advances(cReleases, retiredValue, n, w)
            /\ ledger = <<>> /\ ~frameHeld /\ w >= heldReady
            /\ generation' = generation + 1 /\ heldReady' = 0 /\ retiredValue' = 0 /\ cReleases' = <<>>
            /\ image' = Blank
      BY <1>2 DEF PumpGeometryRealloc
    <3> QED BY <1>2, <3>1 DEF PumpGeometryRealloc, Restarts
  <2>3. /\ Len(up[p]) \in Nat \ {0} /\ Len(up'[p]) = Len(up[p]) - 1 /\ Owns(p)
        /\ up[p][1].type = "RequestGeometry" /\ Upward(p)
    BY <2>1 DEF Replies, Pops, Owns, Links, Link
  <2>4. 1 = Len(up[p])
    <3>1. 1 \in 1 .. Len(up[p])
      BY <2>3
    <3> QED BY <2>3, <3>1 DEF Upward
  <2>5. \A q \in Producers : Owns(q)' => q = p
    BY <2>1, <2>2 DEF Owns, Replies
  <2>6. ASSUME NEW q \in Producers PROVE ~InSync(q)'
    <3>1. SUFFICES ASSUME InSync(q)' PROVE FALSE
      OBVIOUS
    <3>2. Owns(q)'
      BY <3>1 DEF Links, Link, Opening, InSync
    <3>3. q = p /\ Attached(p)' /\ pGeneration'[p] = generation'
      BY <2>5, <3>1, <3>2 DEF InSync
    <3>4. Attached(p) /\ pGeneration[p] = generation + 1 /\ ~Unopened(p)
      BY <2>2, <2>3, <3>3 DEF Restarts, producerVars, Attached, Upward
    <3>5. pGeneration[p] = generation
      BY <2>3, <3>4 DEF Attached, Unopened, Links, Link, Opening
    <3> QED BY <3>4, <3>5 DEF TypeOK, RingTypes
  <2> QED BY <2>2, <2>3, <2>4, <2>5, <2>6, RestartCore
<1> QED BY <1>1, <1>2

(* Steps that leave the accept thread and the producers where they are. *)
Stays == UNCHANGED <<generation, acc, serving, pc, pGeneration>>

(* Steps of the consumer and the GPU change nobody's standing. *)
LEMMA StaysPut ==
  ASSUME Stays, NEW q
  PROVE  (Owns(q)' <=> Owns(q)) /\ (InSync(q)' <=> InSync(q)) /\ (Unopened(q)' <=> Unopened(q))
BY DEF Stays, Owns, InSync, Unopened, Attached

(* A ring in use is not one that waits to be opened. *)
LEMMA StartsBusy ==
  ASSUME Stays, Starts, ~Fresh
  PROVE  Starts'
BY StaysPut DEF Starts, Stays

(* The pump takes a FrameReady: the newest announced frame is pending. *)
LEMMA PumpFrameCore ==
  ASSUME ChannelAssumption, TypeOK, TypeOK', Serves, Links, Core, PumpFrame
  PROVE  Core'
<1>1. PICK p \in Producers : acc = "pump" /\ serving = p
  BY DEF PumpFrame, Incoming, Serves
<1>2. /\ UNCHANGED <<generation, acc, serving, pc, pGeneration, frameHeld, heldSlot, heldReady, retiredValue, cReleases,
                     ledger, peer, slotSubmitValue, consumedValue, readyValue, submittingSlot, pReleases, down,
                     written, reads, image>>
      /\ hasPending' /\ pendingSlot' = Head(up[p]).slot /\ pendingReady' = Head(up[p]).val
      /\ up[p] # <<>> /\ Received(p) /\ Head(up[p]).type = "FrameReady"
  BY <1>1 DEF PumpFrame, Incoming, ringVars, heldVars, retireVars, peerVars, acceptVars, producerVars, slotVars, gpuVars
<1>3. Pops(up[p], up'[p]) /\ Only1(up, up', p) /\ Head(up[p]) = up[p][1]
  BY <1>2, LinkQueues
<1>4. /\ Len(up[p]) \in Nat \ {0} /\ Len(up'[p]) = Len(up[p]) - 1 /\ 1 \in 1 .. Len(up[p])
      /\ \A i \in 1 .. Len(up'[p]) : i + 1 \in 1 .. Len(up[p]) /\ up'[p][i] = up[p][i + 1]
  BY <1>3 DEF Pops
<1>5. Stays /\ Owns(p) /\ \A q \in Producers : Owns(q) => q = p
  BY <1>1, <1>2 DEF Stays, Owns
<1>6. /\ pendingReady' = up[p][1].val /\ pendingSlot' = up[p][1].slot /\ Coming(p) /\ up[p][1].type = "FrameReady"
      /\ image[pendingSlot'] = pendingReady' /\ pendingReady' > heldReady
  BY <1>2, <1>3, <1>4, <1>5 DEF Core, Pictures, Coming
<1>7. Retirement' /\ ReadsGuarded' /\ Defaults' /\ Writes'
  BY <1>2 DEF Core, Retirement, ReadsGuarded, Defaults, Writes, Drawn, HeldRead
<1>8. Pictures'
  <2>1. Coming(p)'
    <3>1. SUFFICES ASSUME NEW i \in 1 .. Len(up'[p]), up'[p][i].type = "FrameReady"
                   PROVE  /\ image[up'[p][i].slot] = up'[p][i].val
                          /\ up'[p][i].val > heldReady /\ up'[p][i].val > pendingReady'
                          /\ \A j \in 1 .. i - 1 : up'[p][j].type = "FrameReady" => up'[p][j].val < up'[p][i].val
      BY <1>2 DEF Coming
    <3>2. i + 1 \in 1 .. Len(up[p]) /\ up'[p][i] = up[p][i + 1] /\ 1 \in 1 .. (i + 1) - 1
      BY <1>4
    <3>3. up[p][i + 1].val \in Nat /\ up[p][1].val \in Nat
      BY <1>4, <1>6, <3>1, <3>2, UpFields, ElementOfSeq, ConstantTypes DEF TypeOK, LinkTypes
    <3>4. /\ image[up[p][i + 1].slot] = up[p][i + 1].val /\ up[p][i + 1].val > heldReady
          /\ up[p][1].val < up[p][i + 1].val
      BY <1>6, <3>1, <3>2 DEF Coming
    <3>5. ASSUME NEW j \in 1 .. i - 1, up'[p][j].type = "FrameReady" PROVE up'[p][j].val < up'[p][i].val
      <4>1. j \in 1 .. Len(up'[p]) /\ j + 1 \in 1 .. (i + 1) - 1
        BY <1>4
      <4>2. up'[p][j] = up[p][j + 1]
        BY <1>4, <4>1
      <4> QED BY <1>6, <3>1, <3>2, <3>5, <4>1, <4>2 DEF Coming
    <3> QED BY <1>6, <3>2, <3>3, <3>4, <3>5
  <2> QED BY <1>2, <1>5, <1>6, <2>1, StaysPut DEF Core, Pictures
<1>9. Starts'
  <2>1. ~Unopened(p) /\ acc # "handed"
    BY <1>1, <1>4, <1>5 DEF Links, Link, Upward
  <2> QED BY <1>2, <1>5, <2>1, StaysPut DEF Starts
<1>10. Producing'
  <2>1. SUFFICES ASSUME NEW q \in Producers, InSync(q) PROVE Drawings(q)' /\ Returns(q)'
    BY <1>5, StaysPut DEF Producing
  <2>2. q = p /\ Drawings(p) /\ Returns(p)
    BY <1>5, <2>1 DEF Core, Producing, Links, Link, Opening, InSync
  <2>3. Returns(p)'
    BY <1>2, <2>2 DEF Returns
  <2>4. Announced(p)' = Announced(p)
    BY <1>2 DEF Announced
  <2>5. \A i \in 1 .. Len(up'[p]) : up'[p][i].type = "FrameReady" => up'[p][i].val <= Announced(p)
    BY <1>4, <2>2 DEF Drawings
  <2>6. pendingReady' <= Announced(p)
    BY <1>4, <1>6, <2>2 DEF Drawings
  <2>7. Drawings(p)'
    BY <1>2, <2>2, <2>4, <2>5, <2>6 DEF Drawings
  <2> QED BY <2>2, <2>3, <2>7
<1>11. Leasing'
  BY <1>2, <1>5, StaysPut, LeasingFrame DEF Core
<1> QED BY <1>7, <1>8, <1>9, <1>10, <1>11 DEF Core

(* flAcquireFrame: the pending frame is held and its read begins. *)
LEMMA AcquireFrameCore ==
  ASSUME ChannelAssumption, TypeOK, TypeOK', Links, Core, AcquireFrame
  PROVE  Core'
<1>1. /\ UNCHANGED <<generation, acc, serving, pc, pGeneration, pendingReady, retiredValue, cReleases, ledger, peer,
                     slotSubmitValue, consumedValue, readyValue, submittingSlot, pReleases, up, down, written, image>>
      /\ ~stop /\ hasPending /\ ~frameHeld /\ (GpuSync \/ Drawn(pendingReady))
      /\ frameHeld' = TRUE /\ heldSlot' = pendingSlot /\ heldReady' = pendingReady /\ hasPending' = FALSE
      /\ reads' = reads \union {[slot |-> pendingSlot, val |-> pendingReady]}
  BY DEF AcquireFrame, ringVars, heldVars, retireVars, peerVars, acceptVars, producerVars, slotVars, linkVars,
         PendingSignalled
<1>2. /\ heldReady \in Nat /\ pendingReady \in Nat /\ retiredValue \in Nat /\ heldReady < pendingReady
      /\ image[pendingSlot] = pendingReady /\ \A x \in reads : x.val \in Nat
  BY <1>1, CoreTypes DEF Core, Pictures
<1>3. Stays
  BY <1>1 DEF Stays
<1>4. PICK y : y = [slot |-> pendingSlot, val |-> pendingReady]
  OBVIOUS
<1>5. /\ y.val = pendingReady /\ y.slot = pendingSlot /\ y = HeldRead' /\ y \in reads'
      /\ \A x \in reads' : x \in reads \/ x = y
  BY <1>1, <1>4 DEF HeldRead
<1>6. ASSUME NEW q, Below(q, heldReady), \A i \in 1 .. Len(q) : q[i].type = "FrameReleased" => q[i].val \in Nat
      PROVE  Below(q, pendingReady) /\ Guarded(q, pendingReady) /\ ~Shielded(q, pendingReady)
  BY <1>2, <1>6 DEF Below, Guarded, Shielded, Fenced, Reaches
<1>7. /\ \A i \in 1 .. Len(cReleases) : cReleases[i].type = "FrameReleased" => cReleases[i].val \in Nat
      /\ Below(cReleases, heldReady) /\ retiredValue <= heldReady
  <2>1. \A i \in 1 .. Len(cReleases) : cReleases[i] \in ReleaseMessage
    BY CoreTypes, ElementOfSeq
  <2> QED BY <2>1, ConstantTypes DEF ReleaseMessage, Core, Retirement
<1>8. Below(cReleases, pendingReady) /\ Guarded(cReleases, pendingReady) /\ ~Shielded(cReleases, pendingReady)
  BY <1>6, <1>7
<1>9. Retirement' /\ Defaults'
  BY <1>1, <1>2, <1>7, <1>8 DEF Retirement, Defaults
<1>10. ReadsGuarded'
  <2>1. ASSUME NEW x \in reads'
        PROVE  x.val <= pendingReady /\ retiredValue < x.val /\ Guarded(cReleases, x.val)
    <3>1. CASE x \in reads
      BY <1>2, <3>1 DEF Core, ReadsGuarded
    <3>2. CASE x = y
      BY <1>2, <1>5, <1>7, <1>8, <3>2
    <3> QED BY <1>5, <2>1, <3>1, <3>2
  <2> QED BY <1>1, <2>1 DEF ReadsGuarded
<1>11. Pictures'
  <2>1. \A x \in reads' : image[x.slot] = x.val
    BY <1>2, <1>5 DEF Core, Pictures
  <2>2. ASSUME NEW p \in Producers, Owns(p)' PROVE Coming(p)'
    <3>1. Coming(p)
      BY <1>3, <2>2, StaysPut DEF Core, Pictures
    <3> QED BY <1>1, <3>1 DEF Coming
  <2> QED BY <1>1, <2>1, <2>2 DEF Pictures
<1>12. Starts'
  BY <1>1, <1>3, StartsBusy DEF Core, Fresh
<1>13. Producing'
  <2>1. SUFFICES ASSUME NEW p \in Producers, InSync(p) PROVE Drawings(p)' /\ Returns(p)'
    BY <1>3, StaysPut DEF Producing
  <2>2. Drawings(p) /\ Returns(p)
    BY <2>1 DEF Core, Producing
  <2>3. Announced(p)' = Announced(p)
    BY <1>1 DEF Announced
  <2>4. Drawings(p)'
    BY <1>1, <2>2, <2>3 DEF Drawings
  <2>5. /\ \A i \in 1 .. Len(pReleases[p]) : pReleases[p][i].type = "FrameReleased" => pReleases[p][i].val \in Nat
        /\ \A i \in 1 .. Len(down[p]) : down[p][i].type = "FrameReleased" => down[p][i].val \in Nat
        /\ consumedValue[p] \in Nat
    <3>1. \A i \in 1 .. Len(pReleases[p]) : pReleases[p][i] \in ReleaseMessage
      BY ElementOfSeq DEF TypeOK, SlotTypes
    <3>2. \A i \in 1 .. Len(down[p]) : down[p][i] \in DownMessage
      BY ElementOfSeq DEF TypeOK, LinkTypes
    <3>3. \A r \in ReleaseMessage : r.val \in Nat
      BY ConstantTypes DEF ReleaseMessage
    <3> QED BY <3>1, <3>2, <3>3, DownFields, ConstantTypes DEF TypeOK, SlotTypes
  <2>6. Below(pReleases[p], pendingReady) /\ Guarded(pReleases[p], pendingReady)
    BY <1>6, <2>2, <2>5 DEF Returns
  <2>7. Below(down[p], pendingReady) /\ Guarded(down[p], pendingReady)
    BY <1>6, <2>2, <2>5 DEF Returns
  <2>8. consumedValue[p] < pendingReady
    BY <1>2, <2>2, <2>5 DEF Returns
  <2>9. ASSUME NEW x \in reads'
        PROVE  /\ consumedValue[p] < x.val
               /\ Guarded(pReleases[p], x.val)
               /\ Shielded(pReleases[p], x.val) \/ Guarded(down[p], x.val)
               /\ Shielded(cReleases, x.val) => Shielded(pReleases[p], x.val) \/ Shielded(down[p], x.val)
    <3>1. CASE x \in reads
      BY <2>2, <3>1 DEF Returns
    <3>2. CASE x = y
      BY <1>5, <1>8, <2>6, <2>7, <2>8, <3>2
    <3> QED BY <1>5, <2>9, <3>1, <3>2
  <2>10. Returns(p)'
    BY <1>1, <2>5, <2>6, <2>7, <2>8, <2>9, <1>2 DEF Returns
  <2> QED BY <2>4, <2>10
<1>14. Leasing'
  <2>1. CASE ~Leases
    BY <1>1, <2>1 DEF Core, Leasing
  <2>2. CASE Leases
    <3>1. \A i \in 1 .. Len(ledger) : Leased(i)'
      <4>1. SUFFICES ASSUME NEW i \in 1 .. Len(ledger) PROVE Leased(i)'
        OBVIOUS
      <4>2. Leased(i) /\ ledger[i].val \in Nat
        BY <2>2, CoreTypes DEF Core, Leasing
      <4> QED BY <1>1, <1>2, <4>2 DEF Leased
    <3>2. ASSUME NEW x \in reads' PROVE LeasedRead(x)'
      <4>1. CASE x \in reads
        BY <1>1, <2>2, <4>1 DEF Core, Leasing, LeasedRead, Finished
      <4>2. CASE x = y
        BY <1>1, <1>5, <4>2 DEF LeasedRead
      <4> QED BY <1>5, <3>2, <4>1, <4>2
    <3>3. cReleases' = <<>> /\ retiredValue' = retiredValue /\ HeldRead' \in reads'
      BY <1>1, <1>5, <2>2 DEF Core, Leasing
    <3>4. \A p \in Producers : InSync(p)' =>
            /\ consumedValue'[p] <= retiredValue'
            /\ Below(pReleases'[p], retiredValue') /\ Below(down'[p], retiredValue')
      BY <1>1, <1>3, <2>2, StaysPut DEF Core, Leasing
    <3> QED BY <1>1, <2>2, <3>1, <3>2, <3>3, <3>4 DEF Leasing
  <2> QED BY <2>1, <2>2
<1>15. Writes'
  <2>1. Drawn(pendingReady) => Drawn(pendingReady)'
    BY <1>1 DEF Drawn
  <2> QED BY <1>1, <1>5, <2>1 DEF Core, Writes, Drawn
<1> QED BY <1>9, <1>10, <1>11, <1>12, <1>13, <1>14, <1>15 DEF Core

(* A step that only ends reads keeps what is said about reads and slots. *)
LEMMA ReaderFrame ==
  ASSUME ChannelAssumption, TypeOK, Links, Core, Stays, reads' \subseteq reads,
         UNCHANGED <<hasPending, pendingSlot, pendingReady, heldReady, retiredValue, cReleases,
                     slotSubmitValue, consumedValue, readyValue, submittingSlot, pReleases, up, down, image>>
  PROVE  Retirement' /\ ReadsGuarded' /\ Pictures' /\ Producing'
<1>1. Retirement' /\ ReadsGuarded'
  BY DEF Core, Retirement, ReadsGuarded
<1>2. Pictures'
  BY StaysPut, PicturesFrame DEF Core, UpTurn
<1>3. Producing'
  <2>1. SUFFICES ASSUME NEW p \in Producers, InSync(p) PROVE Drawings(p)' /\ Returns(p)'
    BY StaysPut DEF Producing
  <2>2. Drawings(p) /\ Returns(p)
    BY <2>1 DEF Core, Producing
  <2>3. Drawings(p)'
    BY <2>2, DrawingsFrame DEF Stays, UpTurn, AsksIdle
  <2>4. Returns(p)'
    BY <2>2, ReturnsFrame DEF DownTurn
  <2> QED BY <2>3, <2>4
<1> QED BY <1>1, <1>2, <1>3

(* flReleaseFrame on a deferring channel, and closing, change books only. *)
LEMMA BookkeepingCore ==
  ASSUME ChannelAssumption, TypeOK, TypeOK', Links, Core, ReleaseDeferred \/ CloseConsumer
  PROVE  Core'
<1>1. /\ UNCHANGED <<generation, acc, serving, pc, pGeneration, hasPending, pendingSlot, pendingReady, heldSlot,
                     heldReady, retiredValue, cReleases, ledger, peer, slotSubmitValue, consumedValue, readyValue,
                     submittingSlot, pReleases, up, down, written, reads, image>>
      /\ frameHeld' = frameHeld \/ (frameHeld' = FALSE /\ frameHeld /\ ~Leases /\ (GpuSync \/ Defer))
  BY DEF ReleaseDeferred, CloseConsumer, ringVars, pendingVars, heldVars, retireVars, peerVars, acceptVars,
         producerVars, slotVars, linkVars, gpuVars
<1>2. Stays
  BY <1>1 DEF Stays
<1>3. Retirement' /\ ReadsGuarded' /\ Pictures' /\ Producing'
  BY <1>1, <1>2, ReaderFrame
<1>4. Starts'
  BY <1>1, <1>2, StaysPut DEF Core, Starts, Fresh
<1>5. Leasing'
  <2>1. CASE ~Leases
    BY <1>1, <2>1 DEF Core, Leasing
  <2>2. CASE Leases
    BY <1>1, <1>2, <2>2, StaysPut, LeasingFrame DEF Core
  <2> QED BY <2>1, <2>2
<1>6. Defaults'
  BY <1>1 DEF Core, Defaults
<1>7. Writes'
  BY <1>1, WritesFrame DEF Core, AsksIdle
<1> QED BY <1>3, <1>4, <1>5, <1>6, <1>7 DEF Core

(* A read or a write that the GPU finishes. *)
LEMMA GpuCore ==
  ASSUME ChannelAssumption, TypeOK, TypeOK', Links, Core,
         \/ \E p \in Producers : GpuWriteDone(p)
         \/ \E x \in reads : GpuReadDone(x)
  PROVE  Core'
<1> USE DEF consumerVars, ringVars, pendingVars, heldVars, retireVars, peerVars, acceptVars, producerVars, slotVars,
            linkVars
<1>1. ASSUME UNCHANGED <<consumerVars, acceptVars, producerVars, linkVars, image>>, reads' \subseteq reads
      PROVE  /\ Retirement' /\ ReadsGuarded' /\ Pictures' /\ Producing' /\ Starts' /\ Defaults'
             /\ ~Leases \/ reads' = reads => Leasing'
  <2>1. Stays
    BY <1>1 DEF Stays
  <2>2. Retirement' /\ ReadsGuarded' /\ Pictures' /\ Producing'
    BY <1>1, <2>1, ReaderFrame
  <2>3. Starts' /\ Defaults'
    BY <1>1, <2>1, StaysPut DEF Core, Starts, Fresh, Defaults
  <2>4. ASSUME reads' = reads PROVE Leasing'
    BY <1>1, <2>1, <2>4, StaysPut, LeasingFrame DEF Core
  <2>5. ~Leases => Leasing'
    BY <1>1 DEF Core, Leasing
  <2> QED BY <2>2, <2>3, <2>4, <2>5
<1>2. ASSUME NEW p \in Producers, GpuWriteDone(p) PROVE Core'
  <2>1. /\ written' = [written EXCEPT ![p] = @ + 1] /\ written[p] < Announced(p)
        /\ UNCHANGED <<consumerVars, acceptVars, producerVars, linkVars, image, reads>>
    BY <1>2 DEF GpuWriteDone
  <2>2. /\ written \in [Producers -> Nat] /\ readyValue \in [Producers -> Nat]
    BY ConstantTypes DEF TypeOK, GpuTypes, SlotTypes
  <2>3. written[p] + 1 <= readyValue[p]
    BY <2>1, <2>2 DEF Announced
  <2>4. \A q \in Producers : written'[q] <= readyValue[q] /\ written[q] <= written'[q] /\ written'[q] \in Nat
    BY <2>1, <2>2, <2>3 DEF Core, Writes
  <2>5. Drawn(heldReady) => Drawn(heldReady)'
    <3>1. heldReady \in Nat /\ (peer = None \/ peer \in Producers)
      BY CoreTypes DEF TypeOK, PeerTypes
    <3> QED BY <2>1, <2>2, <2>4, <3>1 DEF Drawn
  <2>6. Writes'
    BY <2>1, <2>4, <2>5 DEF Core, Writes, HeldRead
  <2> QED BY <1>1, <2>1, <2>6 DEF Core
<1>3. ASSUME NEW x \in reads, GpuReadDone(x) PROVE Core'
  <2>1. /\ reads' = reads \ {x} /\ Drawn(x.val) /\ ~Leases
        /\ UNCHANGED <<consumerVars, acceptVars, producerVars, linkVars, image, written>>
    BY <1>3 DEF GpuReadDone
  <2>2. Drawn(heldReady)' <=> Drawn(heldReady)
    BY <2>1 DEF Drawn
  <2>3. x = HeldRead => Drawn(heldReady)
    BY <2>1 DEF HeldRead
  <2>4. Writes'
    BY <2>1, <2>2, <2>3 DEF Core, Writes, HeldRead
  <2> QED BY <1>1, <2>1, <2>4 DEF Core
<1> QED BY <1>2, <1>3

(* flLeaseFrame: the held frame moves to the ledger with its read. *)
LEMMA LeaseFrameCore ==
  ASSUME ChannelAssumption, TypeOK, TypeOK', Links, Core, LeaseFrame
  PROVE  Core'
<1>0. PICK r : r = [slot |-> heldSlot, val |-> heldReady, live |-> 1, gpu |-> 0, done |-> 0]
  OBVIOUS
<1>1. /\ UNCHANGED <<generation, acc, serving, pc, pGeneration, hasPending, pendingSlot, pendingReady, heldSlot,
                     heldReady, retiredValue, cReleases, peer, slotSubmitValue, consumedValue, readyValue,
                     submittingSlot, pReleases, up, down, written, reads, image>>
      /\ frameHeld /\ frameHeld' = FALSE /\ Leases /\ ledger' = Append(ledger, r)
  BY <1>0 DEF LeaseFrame, ringVars, pendingVars, peerVars, acceptVars, producerVars, slotVars, linkVars, gpuVars
<1>2. Stays
  BY <1>1 DEF Stays
<1>3. Retirement' /\ ReadsGuarded' /\ Pictures' /\ Producing'
  BY <1>1, <1>2, ReaderFrame
<1>4. Starts'
  BY <1>1, <1>2, StartsBusy DEF Core, Fresh
<1>5. r.slot = heldSlot /\ r.val = heldReady /\ ~Finished(r) /\ r \in LeasedFrame
  BY <1>0, CoreTypes DEF LeasedFrame, Finished
<1>6. Pushes(ledger, ledger', r)
  BY <1>1, <1>5, CoreTypes, AppendProperties DEF Pushes
<1>7. /\ Len(ledger) \in Nat /\ Len(ledger') = Len(ledger) + 1 /\ ledger'[Len(ledger')] = r
      /\ \A i \in 1 .. Len(ledger) : i \in 1 .. Len(ledger') /\ ledger'[i] = ledger[i]
  BY <1>6 DEF Pushes
<1>8. \A i \in 1 .. Len(ledger') :
        (i \in 1 .. Len(ledger) /\ ledger'[i] = ledger[i]) \/ (i = Len(ledger') /\ ledger'[i] = r)
  BY <1>6, PushCases
<1>9. /\ HeldRead \in reads /\ \A i \in 1 .. Len(ledger) : Leased(i) /\ ledger[i].val < heldReady
      /\ \A x \in reads : LeasedRead(x)
  BY <1>1 DEF Core, Leasing, Leased
<1>10. retiredValue < heldReady /\ image[heldSlot] = heldReady
  BY <1>9 DEF Core, ReadsGuarded, Pictures, HeldRead
<1>11. ASSUME NEW i \in 1 .. Len(ledger') PROVE Leased(i)'
  <2>1. CASE i \in 1 .. Len(ledger) /\ ledger'[i] = ledger[i]
    <3>1. \A j \in 1 .. i - 1 : ledger'[j] = ledger[j]
      BY <1>7, <2>1
    <3> QED BY <1>1, <1>9, <2>1, <3>1 DEF Leased
  <2>2. CASE i = Len(ledger') /\ ledger'[i] = r
    <3>1. \A j \in 1 .. i - 1 : j \in 1 .. Len(ledger) /\ ledger'[j] = ledger[j]
      BY <1>7, <2>2
    <3> QED BY <1>1, <1>5, <1>9, <1>10, <2>2, <3>1, CoreTypes DEF Leased
  <2> QED BY <1>8, <2>1, <2>2
<1>12. ASSUME NEW x \in reads' PROVE LeasedRead(x)'
  <2>1. LeasedRead(x)
    BY <1>1, <1>9, <1>12
  <2>2. CASE x = HeldRead
    <3>1. Len(ledger') \in 1 .. Len(ledger') /\ x.slot = ledger'[Len(ledger')].slot /\ x.val = ledger'[Len(ledger')].val
          /\ ~Finished(ledger'[Len(ledger')])
      BY <1>5, <1>7, <2>2 DEF HeldRead
    <3> QED BY <3>1 DEF LeasedRead, Finished
  <2>3. CASE \E i \in 1 .. Len(ledger) : x.slot = ledger[i].slot /\ x.val = ledger[i].val /\ ~Finished(ledger[i])
    BY <1>7, <2>3 DEF LeasedRead, Finished
  <2> QED BY <2>1, <2>2, <2>3 DEF LeasedRead
<1>13. Leasing'
  <2>1. cReleases' = <<>> /\ retiredValue' = retiredValue
    BY <1>1 DEF Core, Leasing
  <2>2. \A p \in Producers : InSync(p)' =>
          /\ consumedValue'[p] <= retiredValue'
          /\ Below(pReleases'[p], retiredValue') /\ Below(down'[p], retiredValue')
    BY <1>1, <1>2, StaysPut DEF Core, Leasing
  <2> QED BY <1>1, <1>11, <1>12, <2>1, <2>2 DEF Leasing
<1>14. Defaults'
  BY <1>1 DEF ChannelAssumption, Defaults
<1>15. Writes'
  BY <1>1, WritesFrame DEF Core, AsksIdle
<1> QED BY <1>3, <1>4, <1>13, <1>14, <1>15 DEF Core

(* A lease is retained, completed, or its fence signals. *)
LEMMA RecountCore ==
  ASSUME ChannelAssumption, TypeOK, TypeOK', Links, Core, NEW i \in 1 .. Len(ledger), NEW r, Recount(i, r)
  PROVE  Core'
<1>1. UNCHANGED <<generation, acc, serving, pc, pGeneration, hasPending, pendingSlot, pendingReady, frameHeld, heldSlot,
                  heldReady, retiredValue, cReleases, peer, slotSubmitValue, consumedValue, readyValue,
                  submittingSlot, pReleases, up, down, written, image>>
  BY DEF Recount, ledgerOnly, ringVars, pendingVars, heldVars, peerVars, acceptVars, producerVars, slotVars, linkVars
<1>2. PICK y : y = [slot |-> r.slot, val |-> r.val]
  OBVIOUS
<1>3. /\ r.slot = ledger[i].slot /\ r.val = ledger[i].val /\ Len(ledger') = Len(ledger)
      /\ \A j \in 1 .. Len(ledger) : j # i => ledger'[j] = ledger[j]
      /\ ledger'[i] = r /\ y.slot = r.slot /\ y.val = r.val
      /\ reads' = reads \/ reads' = reads \ {y}
      /\ Finished(r) => y \notin reads'
  BY <1>2 DEF Recount
<1>4. Stays /\ reads' \subseteq reads /\ Leases
  <2>1. Len(ledger) # 0
    BY CoreTypes
  <2> QED BY <1>1, <1>3, <2>1, CoreTypes DEF Stays, Core, Leasing
<1>5. Retirement' /\ ReadsGuarded' /\ Pictures' /\ Producing'
  BY <1>1, <1>4, ReaderFrame
<1>6. Starts'
  <2>1. ledger # <<>>
    BY CoreTypes
  <2> QED BY <1>4, <2>1, StartsBusy DEF Core, Fresh
<1>7. Defaults'
  BY <1>4 DEF ChannelAssumption, Defaults
<1>8. Writes'
  BY <1>1, <1>4 DEF Core, Writes, Drawn
<1>9. /\ \A j \in 1 .. Len(ledger) : Leased(j) /\ ledger'[j].val = ledger[j].val /\ ledger'[j].slot = ledger[j].slot
      /\ \A x \in reads : LeasedRead(x)
  BY <1>3, <1>4 DEF Core, Leasing
<1>10. ASSUME NEW j \in 1 .. Len(ledger') PROVE Leased(j)'
  <2>1. /\ ledger'[j].val = ledger[j].val /\ ledger'[j].slot = ledger[j].slot /\ Leased(j)
        /\ \A k \in 1 .. j - 1 : ledger'[k].val = ledger[k].val
    BY <1>3, <1>9, CoreTypes
  <2> QED BY <1>1, <2>1 DEF Leased
<1>11. ASSUME NEW x \in reads' PROVE LeasedRead(x)'
  <2>1. LeasedRead(x) /\ x \in reads
    BY <1>4, <1>9
  <2>2. CASE frameHeld /\ x = HeldRead
    BY <1>1, <2>2 DEF LeasedRead, HeldRead
  <2>3. ASSUME NEW j \in 1 .. Len(ledger), x.slot = ledger[j].slot, x.val = ledger[j].val, ~Finished(ledger[j])
        PROVE  LeasedRead(x)'
    <3>1. ~Finished(ledger'[j])
      <4>1. CASE j # i
        BY <1>3, <2>3, <4>1
      <4>2. CASE j = i
        <5>1. x = y
          BY <1>2, <1>3, <2>1, <2>3, <4>2, CoreTypes DEF Read
        <5> QED BY <1>3, <4>2, <5>1
      <4> QED BY <4>1, <4>2
    <3> QED BY <1>3, <1>9, <2>3, <3>1 DEF LeasedRead, Finished
  <2> QED BY <2>1, <2>2, <2>3 DEF LeasedRead
<1>12. Leasing'
  <2>1. cReleases' = <<>>
    BY <1>1, <1>4 DEF Core, Leasing
  <2>2. frameHeld' => HeldRead' \in reads'
    <3>1. SUFFICES ASSUME frameHeld PROVE HeldRead \in reads'
      BY <1>1 DEF HeldRead
    <3>2. HeldRead \in reads /\ ledger[i].val < heldReady /\ heldReady \in Nat
      BY <1>4, <1>9, <3>1, CoreTypes DEF Core, Leasing, Leased
    <3>3. HeldRead # y
      BY <1>3, <3>2, CoreTypes DEF HeldRead
    <3> QED BY <1>3, <3>2, <3>3
  <2>3. \A p \in Producers : InSync(p)' =>
          /\ consumedValue'[p] <= retiredValue'
          /\ Below(pReleases'[p], retiredValue') /\ Below(down'[p], retiredValue')
    BY <1>1, <1>4, StaysPut DEF Core, Leasing
  <2> QED BY <1>4, <1>10, <1>11, <2>1, <2>2, <2>3 DEF Leasing
<1> QED BY <1>5, <1>6, <1>7, <1>8, <1>12 DEF Core

(* A release is queued and sent: what it retires has no outstanding read,   *)
(* or a fence covers that read.                                             *)
Publishes(v, f) ==
  /\ ~stop /\ ~Leases /\ ledger = <<>> /\ v <= heldReady
  /\ \A x \in reads' : ~f /\ x.val <= v => Shielded(cReleases, x.val)
  /\ reads' \subseteq reads
  /\ \E n \in 0 .. Len(Append(cReleases, FrameReleased(v, f))), w \in Values :
       /\ Advances(Append(cReleases, FrameReleased(v, f)), retiredValue, n, w)
       /\ cReleases' = Rest(Append(cReleases, FrameReleased(v, f)), n)
       /\ retiredValue' = w
  /\ SendPeer(FrameReleased(v, f))
  /\ UNCHANGED <<generation, acc, serving, pc, pGeneration, hasPending, pendingSlot, pendingReady, heldSlot, heldReady,
                 ledger, peer, stop, slotSubmitValue, consumedValue, readyValue, submittingSlot, pReleases, up,
                 written, image>>

(* A release is queued and sent, and passes no read without its fence. *)
LEMMA PublishCore ==
  ASSUME ChannelAssumption, TypeOK, TypeOK', Links, Peers, Core, ~Fresh,
         NEW v \in Values, NEW f \in BOOLEAN, Publishes(v, f)
  PROVE  /\ Retirement' /\ ReadsGuarded' /\ Pictures' /\ Starts' /\ Producing' /\ Leasing'
         /\ v = heldReady => retiredValue' = heldReady \/ LastIs(cReleases', heldReady)
<1>0. PICK m : m = FrameReleased(v, f)
  OBVIOUS
<1>1. m \in ReleaseMessage /\ m.type = "FrameReleased" /\ m.val = v /\ m.fence = f /\ v \in Nat
  BY <1>0, MessageTypes, ConstantTypes DEF FrameReleased
<1>2. PICK c : c = Append(cReleases, m)
  OBVIOUS
<1>3. c \in Seq(ReleaseMessage) /\ Pushes(cReleases, c, m)
  BY <1>1, <1>2, CoreTypes, AppendProperties DEF Pushes
<1>4. PICK n \in 0 .. Len(c), w \in Values :
        Advances(c, retiredValue, n, w) /\ cReleases' = Rest(c, n) /\ retiredValue' = w
  BY <1>0, <1>2 DEF Publishes
<1>5. PICK d : d = Rest(c, n)
  OBVIOUS
<1>6. /\ \A h \in Nat : retiredValue <= h /\ Below(c, h) => w <= h /\ Below(d, h)
      /\ \A h \in Nat : retiredValue <= h /\ Below(c, h) /\ LastIs(c, h) => w = h \/ LastIs(d, h)
      /\ \A u \in Nat : Shielded(d, u) => Shielded(c, u)
      /\ \A x \in reads : x.val \in Nat /\ retiredValue < x.val /\ Guarded(c, x.val) =>
           w < x.val /\ Guarded(d, x.val)
  BY <1>3, <1>4, <1>5, CoreTypes, AdvanceReleases
<1>7. /\ cReleases' = d /\ retiredValue' = w /\ reads' \subseteq reads /\ v <= heldReady /\ heldReady \in Nat
      /\ \A x \in reads : x.val \in Nat
      /\ \A x \in reads' : ~f /\ x.val <= v => Shielded(cReleases, x.val)
      /\ UNCHANGED <<generation, acc, serving, pc, pGeneration, hasPending, pendingSlot, pendingReady, heldSlot, heldReady,
                 ledger, peer, stop, slotSubmitValue, consumedValue, readyValue, submittingSlot, pReleases, up,
                 written, image>>
  BY <1>4, <1>5, CoreTypes DEF Publishes
<1>8. Stays
  BY <1>7 DEF Stays
<1>9. Below(c, heldReady)
  BY <1>1, <1>3, <1>7, PushReleases DEF Core, Retirement
<1>10. Retirement'
  BY <1>6, <1>7, <1>9 DEF Core, Retirement
<1>11. ReadsGuarded'
  <2>1. SUFFICES ASSUME NEW x \in reads' PROVE w < x.val /\ Guarded(d, x.val)
    BY <1>7 DEF Core, ReadsGuarded
  <2>2. x \in reads /\ x.val \in Nat /\ retiredValue < x.val /\ Guarded(cReleases, x.val)
    BY <1>7 DEF Core, ReadsGuarded
  <2>3. Guarded(c, x.val)
    BY <1>1, <1>3, <1>7, <2>2, PushReleases
  <2> QED BY <1>6, <2>2, <2>3
<1>12. Pictures'
  BY <1>7, <1>8, StaysPut, PicturesFrame DEF Core, UpTurn
<1>13. Starts'
  BY <1>8, StartsBusy DEF Core
<1>14. Leasing'
  BY <1>7 DEF Publishes, Leasing
<1>15. Producing'
  <2>1. SUFFICES ASSUME NEW p \in Producers, InSync(p) PROVE Drawings(p)' /\ Returns(p)'
    BY <1>8, StaysPut DEF Producing
  <2>2. Drawings(p) /\ Returns(p)
    BY <2>1 DEF Core, Producing
  <2>3. Drawings(p)'
    BY <1>7, <2>2, DrawingsFrame DEF UpTurn, AsksIdle
  <2>4. Pushes(down[p], down'[p], m)
    BY <1>0, <1>1, <2>1, SendCases DEF Core, Publishes
  <2>5. Below(down'[p], heldReady)
    BY <1>1, <1>7, <2>2, <2>4, PushReleases DEF Returns
  <2>6. ASSUME NEW x \in reads'
        PROVE  /\ consumedValue[p] < x.val
               /\ Guarded(pReleases[p], x.val)
               /\ Shielded(pReleases[p], x.val) \/ Guarded(down'[p], x.val)
               /\ Shielded(d, x.val) => Shielded(pReleases[p], x.val) \/ Shielded(down'[p], x.val)
    <3>1. x \in reads /\ x.val \in Nat
      BY <1>7
    <3>2. /\ consumedValue[p] < x.val /\ Guarded(pReleases[p], x.val)
          /\ Shielded(pReleases[p], x.val) \/ Guarded(down[p], x.val)
          /\ Shielded(cReleases, x.val) => Shielded(pReleases[p], x.val) \/ Shielded(down[p], x.val)
      BY <2>2, <3>1 DEF Returns
    <3>3. /\ Shielded(down[p], x.val) => Shielded(down'[p], x.val)
          /\ f /\ v >= x.val => Shielded(down'[p], x.val)
          /\ Guarded(down[p], x.val) /\ (v >= x.val => f \/ Shielded(down[p], x.val)) => Guarded(down'[p], x.val)
          /\ Shielded(c, x.val) => Shielded(cReleases, x.val) \/ (f /\ v >= x.val)
      BY <1>1, <1>3, <2>4, <3>1, PushReleases
    <3>4. ~f /\ x.val <= v => Shielded(cReleases, x.val)
      BY <1>7
    <3>5. Shielded(pReleases[p], x.val) \/ Guarded(down'[p], x.val)
      BY <1>1, <3>1, <3>2, <3>3, <3>4
    <3>6. Shielded(d, x.val) => Shielded(pReleases[p], x.val) \/ Shielded(down'[p], x.val)
      BY <1>6, <3>1, <3>2, <3>3
    <3> QED BY <3>2, <3>5, <3>6
  <2>7. Returns(p)'
    BY <1>7, <2>2, <2>5, <2>6 DEF Returns
  <2> QED BY <2>3, <2>7
<1>16. ASSUME v = heldReady PROVE w = heldReady \/ LastIs(d, heldReady)
  <2>1. LastIs(c, heldReady)
    BY <1>1, <1>3, <1>16 DEF Pushes, LastIs
  <2> QED BY <1>6, <1>7, <1>9, <2>1 DEF Core, Retirement
<1> QED BY <1>7, <1>10, <1>11, <1>12, <1>13, <1>14, <1>15, <1>16

(* flReleaseFrameSyncFd keeps the invariant. *)
LEMMA ReleaseCore ==
  ASSUME ChannelAssumption, TypeOK, TypeOK', Links, Peers, Core, NEW f \in Fences, ReleaseSyncFd(f)
  PROVE  Core'
<1>1. f \in BOOLEAN /\ heldReady \in Values /\ heldReady \in Nat
  BY CoreTypes DEF ChannelAssumption
<1>2. ~Fresh /\ frameHeld /\ frameHeld' = FALSE /\ ~Leases /\ (f \/ Drawn(heldReady))
  BY DEF ReleaseSyncFd, Fresh
<1>3. ASSUME NEW x \in reads', ~f, x.val <= heldReady PROVE Shielded(cReleases, x.val)
  <2>1. Covered(x)
    BY <1>3 DEF ReleaseSyncFd
  <2>2. \A i \in 1 .. Len(cReleases) : cReleases[i] \in ReleaseMessage
    BY CoreTypes, ElementOfSeq
  <2>3. \A i \in 1 .. Len(cReleases) : cReleases[i].type = "FrameReleased" /\ cReleases[i].val \in Nat
    BY <2>2, ConstantTypes DEF ReleaseMessage
  <2>4. x.val \in Nat
    BY <1>3, CoreTypes DEF ReleaseSyncFd
  <2> QED BY <2>1, <2>3, <2>4 DEF Covered, Shielded, Fenced, Reaches
<1>4. Publishes(heldReady, f)
  BY <1>1, <1>3 DEF ReleaseSyncFd, Publishes, ringVars, pendingVars, acceptVars, producerVars, slotVars
<1>5. /\ Retirement' /\ ReadsGuarded' /\ Pictures' /\ Starts' /\ Producing' /\ Leasing'
      /\ retiredValue' = heldReady \/ LastIs(cReleases', heldReady)
  BY <1>1, <1>2, <1>4, PublishCore
<1>6. /\ UNCHANGED <<pc, peer, heldReady, heldSlot, written, readyValue, submittingSlot>>
      /\ f => reads' = reads
  BY DEF ReleaseSyncFd, producerVars, slotVars
<1>7. Defaults'
  BY <1>5, <1>6 DEF Defaults
<1>8. Writes'
  BY <1>2, <1>6 DEF Core, Writes, Drawn, HeldRead
<1> QED BY <1>5, <1>7, <1>8 DEF Core

(* flSignalConsumed keeps it, for every value the caller may name. *)
LEMMA SignalCore ==
  ASSUME ChannelAssumption, TypeOK, TypeOK', Links, Peers, Core, NEW v \in Values, NEW f \in Fences,
         SignalConsumed(v, f)
  PROVE  Core'
<1>1. f \in BOOLEAN /\ heldReady \in Nat /\ retiredValue \in Nat /\ v \in Nat
  BY CoreTypes DEF ChannelAssumption
<1>2. /\ v > retiredValue /\ v <= heldReady /\ (GpuSync \/ Defer) /\ (f \/ Drawn(v))
      /\ reads' = IF f THEN reads ELSE {x \in reads : x.val > v}
      /\ UNCHANGED <<pc, peer, heldReady, heldSlot, written, readyValue, submittingSlot>>
  BY DEF SignalConsumed, producerVars, slotVars, heldVars
<1>3. ~Fresh
  BY <1>1, <1>2 DEF Fresh
<1>4. reads' \subseteq reads /\ \A x \in reads' : ~f => x.val > v /\ x.val \in Nat
  BY <1>2, CoreTypes
<1>9. \A x \in reads' : ~f /\ x.val <= v => Shielded(cReleases, x.val)
  BY <1>1, <1>4
<1>5. Publishes(v, f)
  BY <1>1, <1>4, <1>9 DEF SignalConsumed, Publishes, ringVars, pendingVars, heldVars, acceptVars, producerVars, slotVars
<1>6. /\ Retirement' /\ ReadsGuarded' /\ Pictures' /\ Starts' /\ Producing' /\ Leasing'
  BY <1>1, <1>3, <1>5, PublishCore
<1>7. Defaults'
  BY <1>2 DEF Defaults
<1>8. Writes'
  <2>1. Drawn(heldReady)' <=> Drawn(heldReady)
    BY <1>2 DEF Drawn
  <2>2. ASSUME ~Leases, heldReady > 0, ~Drawn(heldReady) PROVE HeldRead \in reads'
    <3>1. HeldRead \in reads
      BY <2>2 DEF Core, Writes
    <3>2. CASE f
      BY <1>2, <3>1, <3>2
    <3>3. CASE ~f
      <4>1. Drawn(v) /\ v # heldReady
        BY <1>2, <2>2, <3>3
      <4> QED BY <1>1, <1>2, <3>1, <3>3, <4>1 DEF HeldRead
    <3> QED BY <3>2, <3>3
  <2>3. HeldRead' = HeldRead
    BY <1>2 DEF HeldRead
  <2> QED BY <1>2, <2>1, <2>2, <2>3 DEF Core, Writes
<1> QED BY <1>6, <1>7, <1>8 DEF Core

(* The ledger from its k-th frame on, as a poll of the fences leaves it. *)
Keeps(k) ==
  /\ Len(ledger') = Len(ledger) - k
  /\ \A i \in 1 .. Len(ledger) - k :
       /\ ledger'[i].slot = ledger[k + i].slot /\ ledger'[i].val = ledger[k + i].val
       /\ Finished(ledger[k + i]) <=> Finished(ledger'[i])

(* Polling the lease fences changes counts, not frames. *)
LEMMA PolledLedger ==
  ASSUME ChannelAssumption, TypeOK, NEW q, q = [i \in 1 .. Len(ledger) |-> [ledger[i] EXCEPT !.done = 0]]
  PROVE  /\ q \in Seq(LeasedFrame) /\ Len(q) = Len(ledger)
         /\ \A i \in 1 .. Len(ledger) :
              /\ q[i].slot = ledger[i].slot /\ q[i].val = ledger[i].val
              /\ Finished(q[i]) <=> Finished(ledger[i])
<1>1. Len(ledger) \in Nat /\ \A i \in 1 .. Len(ledger) : ledger[i] \in LeasedFrame
  BY CoreTypes
<1>2. \A i \in 1 .. Len(ledger) :
        /\ q[i] \in LeasedFrame /\ q[i].slot = ledger[i].slot /\ q[i].val = ledger[i].val
        /\ q[i].live = ledger[i].live /\ q[i].gpu = ledger[i].gpu
  BY <1>1 DEF LeasedFrame
<1>3. q \in [1 .. Len(ledger) -> LeasedFrame]
  BY <1>2
<1>4. q \in Seq(LeasedFrame) /\ Len(q) = Len(ledger)
  <2>1. q \in Seq(LeasedFrame)
    BY <1>1, <1>3, SeqDef
  <2>2. Len(q) \in Nat /\ DOMAIN q = 1 .. Len(q) /\ DOMAIN q = 1 .. Len(ledger)
    BY <1>3, <2>1, LenProperties
  <2> QED BY <1>1, <2>1, <2>2
<1> QED BY <1>2, <1>4 DEF Finished

(* What collecting leaves of the ledger is its tail. *)
LEMMA KeptLedger ==
  ASSUME Len(ledger) \in Nat, NEW k \in 0 .. Len(ledger), NEW q \in Seq(LeasedFrame), Len(q) = Len(ledger),
         \A i \in 1 .. Len(ledger) :
           /\ q[i].slot = ledger[i].slot /\ q[i].val = ledger[i].val
           /\ Finished(q[i]) <=> Finished(ledger[i]),
         ledger' = Rest(q, k) \/ (k = 0 /\ ledger' = q)
  PROVE  Keeps(k)
<1>1. /\ Len(ledger') = Len(ledger) - k
      /\ \A i \in 1 .. Len(ledger) - k : ledger'[i] = q[k + i]
  <2>1. CASE ledger' = Rest(q, k)
    <3>1. k \in 0 .. Len(q)
      OBVIOUS
    <3>2. /\ Rest(q, k) \in Seq(LeasedFrame) /\ Len(Rest(q, k)) = Len(q) - k
          /\ \A i \in 1 .. Len(q) - k : Rest(q, k)[i] = q[k + i]
      BY <3>1, RestType, Zenon
    <3> QED BY <2>1, <3>2
  <2>2. CASE k = 0 /\ ledger' = q
    BY <2>2
  <2> QED BY <2>1, <2>2
<1>2. \A i \in 1 .. Len(ledger) - k : k + i \in 1 .. Len(ledger)
  OBVIOUS
<1> QED BY <1>1, <1>2 DEF Keeps

(* Collecting the finished prefix of the ledger retires nothing that is     *)
(* still read.                                                              *)
LEMMA KeptLeases ==
  ASSUME ChannelAssumption, TypeOK, TypeOK', Core, Leases, NEW k \in 0 .. Len(ledger), Keeps(k),
         \A i \in 1 .. k : Finished(ledger[i]), retiredValue' = IF k = 0 THEN retiredValue ELSE ledger[k].val,
         UNCHANGED <<frameHeld, heldSlot, heldReady, image, reads>>
  PROVE  /\ \A i \in 1 .. Len(ledger') : Leased(i)'
         /\ \A x \in reads' : LeasedRead(x)'
         /\ \A x \in reads : retiredValue' < x.val
         /\ retiredValue' <= heldReady /\ retiredValue <= retiredValue'
<1>1. /\ \A i \in 1 .. Len(ledger) : Leased(i) /\ ledger[i].val \in Nat
      /\ \A x \in reads : LeasedRead(x) /\ x.val \in Nat /\ retiredValue < x.val
      /\ retiredValue \in Nat /\ heldReady \in Nat /\ Len(ledger) \in Nat /\ retiredValue <= heldReady
  BY CoreTypes DEF Core, Leasing, ReadsGuarded, Retirement
<1>2. /\ Len(ledger') = Len(ledger) - k
      /\ \A i \in 1 .. Len(ledger') :
           /\ k + i \in 1 .. Len(ledger)
           /\ ledger'[i].slot = ledger[k + i].slot /\ ledger'[i].val = ledger[k + i].val
           /\ Finished(ledger[k + i]) <=> Finished(ledger'[i])
  BY <1>1 DEF Keeps
<1>3. k # 0 => k \in 1 .. Len(ledger) /\ retiredValue' = ledger[k].val
  BY <1>1
<1>4. k = 0 => retiredValue' = retiredValue
  OBVIOUS
<1>5. retiredValue' <= heldReady /\ retiredValue <= retiredValue'
  BY <1>1, <1>3, <1>4 DEF Leased
<1>6. \A i \in 1 .. Len(ledger) : i > k => retiredValue' < ledger[i].val
  <2>1. SUFFICES ASSUME NEW i \in 1 .. Len(ledger), i > k PROVE retiredValue' < ledger[i].val
    OBVIOUS
  <2>2. CASE k = 0
    BY <1>1, <1>4, <2>2 DEF Leased
  <2>3. CASE k # 0
    <3>1. k \in 1 .. i - 1
      BY <1>3, <2>1, <2>3
    <3> QED BY <1>1, <1>3, <2>3, <3>1 DEF Leased
  <2> QED BY <2>2, <2>3
<1>7. ASSUME NEW i \in 1 .. Len(ledger') PROVE Leased(i)'
  <2>1. /\ k + i \in 1 .. Len(ledger) /\ Leased(k + i) /\ ledger'[i].slot = ledger[k + i].slot
        /\ ledger'[i].val = ledger[k + i].val
    BY <1>1, <1>2
  <2>2. retiredValue' < ledger[k + i].val
    BY <1>6, <2>1
  <2>3. ASSUME NEW j \in 1 .. i - 1 PROVE ledger'[j].val < ledger'[i].val
    <3>1. j \in 1 .. Len(ledger') /\ k + j \in 1 .. (k + i) - 1
      BY <1>1, <1>2
    <3>2. ledger'[j].val = ledger[k + j].val
      BY <1>2, <3>1
    <3> QED BY <2>1, <3>1, <3>2 DEF Leased
  <2> QED BY <2>1, <2>2, <2>3 DEF Leased
<1>8. ASSUME NEW x \in reads
      PROVE  /\ (frameHeld /\ x = HeldRead)
                \/ \E i \in 1 .. Len(ledger') :
                     x.slot = ledger'[i].slot /\ x.val = ledger'[i].val /\ ~Finished(ledger'[i])
             /\ retiredValue' < x.val
  <2>1. CASE frameHeld /\ x = HeldRead
    <3>1. x.val = heldReady
      BY <2>1 DEF HeldRead
    <3>2. k # 0 => ledger[k].val < heldReady
      BY <1>1, <1>3, <2>1 DEF Leased
    <3> QED BY <1>1, <1>3, <1>4, <2>1, <3>1, <3>2
  <2>2. ASSUME NEW i \in 1 .. Len(ledger), x.slot = ledger[i].slot, x.val = ledger[i].val, ~Finished(ledger[i])
        PROVE  /\ \E j \in 1 .. Len(ledger') :
                     x.slot = ledger'[j].slot /\ x.val = ledger'[j].val /\ ~Finished(ledger'[j])
               /\ retiredValue' < x.val
    <3>1. i > k
      BY <2>2
    <3>2. i - k \in 1 .. Len(ledger') /\ k + (i - k) = i
      BY <1>1, <1>2, <3>1
    <3>3. /\ ledger'[i - k].slot = ledger[i].slot /\ ledger'[i - k].val = ledger[i].val
          /\ ~Finished(ledger'[i - k])
      BY <1>2, <2>2, <3>2
    <3>4. retiredValue' < x.val
      BY <1>6, <2>2, <3>1
    <3> QED BY <2>2, <3>2, <3>3, <3>4
  <2> QED BY <1>1, <2>1, <2>2 DEF LeasedRead
<1>9. \A x \in reads' : LeasedRead(x)'
  BY <1>8 DEF LeasedRead, HeldRead, Finished
<1> QED BY <1>5, <1>7, <1>8, <1>9

(* flCollectReadLeases keeps the invariant. *)
LEMMA CollectCore ==
  ASSUME ChannelAssumption, TypeOK, TypeOK', Links, Peers, Core, CollectReadLeases
  PROVE  Core'
<1>1. /\ UNCHANGED <<generation, acc, serving, pc, pGeneration, hasPending, pendingSlot, pendingReady, frameHeld, heldSlot,
                     heldReady, cReleases, peer, slotSubmitValue, consumedValue, readyValue, submittingSlot,
                     pReleases, up, written, reads, image>>
      /\ ~stop /\ ledger # <<>>
  BY DEF CollectReadLeases, ringVars, pendingVars, heldVars, acceptVars, producerVars, slotVars, gpuVars
<1>2. Stays /\ Leases /\ cReleases = <<>> /\ ~Fresh
  BY <1>1 DEF Stays, Core, Leasing, Fresh
<1>3. PICK q : q = [i \in 1 .. Len(ledger) |-> [ledger[i] EXCEPT !.done = 0]]
  OBVIOUS
<1>4. PICK n \in 0 .. Len(ledger) :
        /\ \A i \in 1 .. n : Finished(ledger[i])
        /\ IF n = 0
           THEN ledger' = q /\ UNCHANGED <<retiredValue, peerConnected, down>>
           ELSE /\ SendPeer(FrameReleased(ledger[n].val, FALSE))
                /\ IF peerConnected /\ ~Alive(peer)
                   THEN ledger' = q /\ UNCHANGED retiredValue
                   ELSE ledger' = Rest(q, n) /\ retiredValue' = ledger[n].val
  BY <1>3 DEF CollectReadLeases
<1>5. PICK k \in 0 .. Len(ledger) :
        /\ Keeps(k) /\ \A i \in 1 .. k : Finished(ledger[i])
        /\ retiredValue' = IF k = 0 THEN retiredValue ELSE ledger[k].val
        /\ \A p \in Producers : InSync(p) =>
             IF k = 0 THEN down'[p] = down[p] ELSE Pushes(down[p], down'[p], FrameReleased(ledger[k].val, FALSE))
  <2>0. /\ q \in Seq(LeasedFrame) /\ Len(q) = Len(ledger)
        /\ \A i \in 1 .. Len(ledger) :
             /\ q[i].slot = ledger[i].slot /\ q[i].val = ledger[i].val
             /\ Finished(q[i]) <=> Finished(ledger[i])
    BY <1>3, PolledLedger
  <2>1. Len(ledger) \in Nat /\ 0 \in 0 .. Len(ledger)
    BY CoreTypes
  <2>2. CASE n = 0 \/ (peerConnected /\ ~Alive(peer))
    <3>1. ledger' = q /\ retiredValue' = retiredValue /\ down' = down
      BY <1>4, <2>2 DEF SendPeer
    <3>2. Keeps(0)
      BY <2>0, <2>1, <3>1, KeptLedger
    <3>3. \A i \in 1 .. 0 : Finished(ledger[i])
      OBVIOUS
    <3>4. WITNESS 0 \in 0 .. Len(ledger)
    <3> QED BY <3>1, <3>2, <3>3
  <2>3. CASE n # 0 /\ ~(peerConnected /\ ~Alive(peer))
    <3>1. /\ ledger' = Rest(q, n) /\ retiredValue' = ledger[n].val /\ n \in 1 .. Len(ledger)
          /\ SendPeer(FrameReleased(ledger[n].val, FALSE))
      <4>1. n \in 1 .. Len(ledger)
        BY <2>1, <2>3
      <4> QED BY <1>4, <2>3, <4>1
    <3>2. Keeps(n)
      BY <2>0, <2>1, <3>1, KeptLedger
    <3>3. ledger[n].val \in Values
      BY <3>1, CoreTypes
    <3>4. FrameReleased(ledger[n].val, FALSE) \in ReleaseMessage
      BY <3>3, MessageTypes
    <3>5. \A p \in Producers : InSync(p) => Pushes(down[p], down'[p], FrameReleased(ledger[n].val, FALSE))
      BY <1>1, <1>2, <3>1, <3>4, SendCases DEF Core
    <3> QED BY <1>4, <2>3, <3>1, <3>2, <3>5
  <2> QED BY <2>2, <2>3
<1>6. /\ \A i \in 1 .. Len(ledger') : Leased(i)'
      /\ \A x \in reads' : LeasedRead(x)'
      /\ \A x \in reads : retiredValue' < x.val
      /\ retiredValue' <= heldReady /\ retiredValue <= retiredValue'
  BY <1>1, <1>2, <1>5, KeptLeases
<1>7. Retirement'
  BY <1>1, <1>6 DEF Core, Retirement
<1>8. ReadsGuarded'
  BY <1>1, <1>6 DEF Core, ReadsGuarded
<1>9. Pictures'
  BY <1>1, <1>2, StaysPut, PicturesFrame DEF Core, UpTurn
<1>10. Starts'
  BY <1>2, StartsBusy DEF Core
<1>11. ASSUME NEW p \in Producers, InSync(p)
       PROVE  /\ Drawings(p)' /\ Returns(p)'
              /\ consumedValue[p] <= retiredValue'
              /\ Below(pReleases[p], retiredValue') /\ Below(down'[p], retiredValue')
  <2>1. /\ Drawings(p) /\ Returns(p) /\ consumedValue[p] <= retiredValue
        /\ Below(pReleases[p], retiredValue) /\ Below(down[p], retiredValue)
    BY <1>2, <1>11 DEF Core, Producing, Leasing
  <2>2. Drawings(p)'
    BY <1>1, <2>1, DrawingsFrame DEF UpTurn, AsksIdle
  <2>3. /\ retiredValue \in Nat /\ retiredValue' \in Nat /\ heldReady \in Nat /\ consumedValue[p] \in Nat
        /\ \A x \in reads : x.val \in Nat
        /\ \A i \in 1 .. Len(pReleases[p]) : pReleases[p][i].val \in Nat
        /\ \A i \in 1 .. Len(down[p]) : down[p][i].type = "FrameReleased" => down[p][i].val \in Nat
    <3>1. \A i \in 1 .. Len(pReleases[p]) : pReleases[p][i] \in ReleaseMessage
      BY ElementOfSeq DEF TypeOK, SlotTypes
    <3>2. \A i \in 1 .. Len(down[p]) : down[p][i] \in DownMessage
      BY ElementOfSeq DEF TypeOK, LinkTypes
    <3>3. \A r \in ReleaseMessage : r.val \in Nat
      BY ConstantTypes DEF ReleaseMessage
    <3>4. retiredValue' \in Nat
      BY ConstantTypes DEF TypeOK, RetireTypes
    <3> QED BY <3>1, <3>2, <3>3, <3>4, DownFields, ConstantTypes, CoreTypes DEF TypeOK, SlotTypes
  <2>4. Below(pReleases[p], retiredValue')
    BY <1>6, <2>1, <2>3 DEF Below
  <2>5. Below(down[p], retiredValue')
    BY <1>6, <2>1, <2>3 DEF Below
  <2>6. consumedValue[p] <= retiredValue'
    BY <1>6, <2>1, <2>3
  <2>7. CASE k = 0
    <3>1. down'[p] = down[p]
      BY <1>5, <1>11, <2>7
    <3>2. Returns(p)'
      BY <1>1, <2>1, <3>1, ReturnsFrame DEF DownTurn
    <3> QED BY <2>2, <2>4, <2>5, <2>6, <3>1, <3>2
  <2>8. CASE k # 0
    <3>1. PICK m : m = FrameReleased(ledger[k].val, FALSE)
      OBVIOUS
    <3>2. m.type = "FrameReleased" /\ m.val = retiredValue' /\ m.fence = FALSE
      BY <1>5, <2>8, <3>1 DEF FrameReleased
    <3>3. Pushes(down[p], down'[p], m)
      BY <1>5, <1>11, <2>8, <3>1
    <3>4. Below(down'[p], retiredValue')
      BY <2>3, <2>5, <3>2, <3>3, PushReleases
    <3>5. Below(down'[p], heldReady)
      BY <1>6, <2>1, <2>3, <3>2, <3>3, PushReleases DEF Returns
    <3>6. ASSUME NEW x \in reads
          PROVE  /\ Guarded(down[p], x.val) => Guarded(down'[p], x.val)
                 /\ Shielded(down[p], x.val) => Shielded(down'[p], x.val)
      <4>1. x.val \in Nat /\ ~(m.val >= x.val)
        BY <1>6, <2>3, <3>2
      <4> QED BY <3>3, <4>1, PushReleases
    <3>7. \A x \in reads :
            /\ consumedValue[p] < x.val
            /\ Guarded(pReleases[p], x.val)
            /\ Shielded(pReleases[p], x.val) \/ Guarded(down'[p], x.val)
            /\ Shielded(cReleases, x.val) => Shielded(pReleases[p], x.val) \/ Shielded(down'[p], x.val)
      BY <2>1, <3>6 DEF Returns
    <3>8. Returns(p)'
      BY <1>1, <2>1, <3>5, <3>7 DEF Returns
    <3> QED BY <2>2, <2>4, <2>6, <3>4, <3>8
  <2> QED BY <2>7, <2>8
<1>12. Producing'
  BY <1>2, <1>11, StaysPut DEF Producing
<1>13. Leasing'
  <2>1. cReleases' = <<>> /\ (frameHeld' => HeldRead' \in reads')
    BY <1>1, <1>2 DEF Core, Leasing, HeldRead
  <2>2. \A p \in Producers : InSync(p)' =>
          /\ consumedValue'[p] <= retiredValue'
          /\ Below(pReleases'[p], retiredValue') /\ Below(down'[p], retiredValue')
    BY <1>1, <1>2, <1>11, StaysPut
  <2> QED BY <1>2, <1>6, <2>1, <2>2 DEF Leasing
<1>14. Defaults'
  BY <1>2 DEF ChannelAssumption, Defaults
<1>15. Writes'
  BY <1>1, WritesFrame DEF Core, AsksIdle
<1> QED BY <1>7, <1>8, <1>9, <1>10, <1>12, <1>13, <1>14, <1>15 DEF Core

(* All of the consumer's calls, and the GPU's steps. *)
LEMMA ConsumerCore ==
  ASSUME ChannelAssumption, TypeOK, TypeOK', Links, Peers, Core, Consumer \/ Gpu
  PROVE  Core'
<1>1. CASE AcquireFrame
  BY <1>1, AcquireFrameCore
<1>2. CASE \E f \in Fences : ReleaseSyncFd(f)
  BY <1>2, ReleaseCore
<1>3. CASE ReleaseDeferred \/ CloseConsumer
  BY <1>3, BookkeepingCore
<1>4. CASE \E v \in Values, f \in Fences : SignalConsumed(v, f)
  BY <1>4, SignalCore
<1>5. CASE LeaseFrame
  BY <1>5, LeaseFrameCore
<1>6. CASE CollectReadLeases
  BY <1>6, CollectCore
<1>7. CASE \/ \E p \in Producers : GpuWriteDone(p)
           \/ \E x \in reads : GpuReadDone(x)
  BY <1>7, GpuCore
<1>8. CASE \E i \in 1 .. Len(ledger) : RetainReadLease(i) \/ CompleteReadLease(i) \/ CompleteReadLeaseSyncFd(i)
                                       \/ GpuLeaseDone(i)
  BY <1>8, RecountCore, LeaseSteps
<1> QED BY <1>1, <1>2, <1>3, <1>4, <1>5, <1>6, <1>7, <1>8 DEF Consumer, LeaseStep, Gpu

(* A step of p changes nothing that belongs to another producer. *)
Apart(p) ==
  \A q \in Producers : q # p =>
    /\ pc'[q] = pc[q] /\ pGeneration'[q] = pGeneration[q] /\ up'[q] = up[q] /\ down'[q] = down[q]
    /\ slotSubmitValue'[q] = slotSubmitValue[q] /\ consumedValue'[q] = consumedValue[q]
    /\ readyValue'[q] = readyValue[q] /\ submittingSlot'[q] = submittingSlot[q]
    /\ pReleases'[q] = pReleases[q] /\ written'[q] = written[q]

(* A producer's call touches its own handle, its own link and the slots it  *)
(* draws.                                                                   *)
LEMMA ProducerApart ==
  ASSUME ChannelAssumption, TypeOK, NEW p \in Producers, Producer(p)
  PROVE  Apart(p) /\ UNCHANGED consumerVars /\ UNCHANGED acceptVars /\ UNCHANGED reads
<1> USE DEF TypeOK, SlotTypes, ProducerTypes, LinkTypes, GpuTypes, slotVars, linkVars, gpuVars, slotOnly
<1>1. CASE Connect(p) \/ OpenGreeted(p) \/ OpenBusy(p)
  BY <1>1 DEF Apart, Connect, OpenGreeted, OpenBusy, Taken
<1>2. CASE OpenRing(p) \/ GeometryReply(p)
  BY <1>2 DEF Apart, OpenRing, GeometryReply, ImportRing, Taken
<1>3. CASE AcquireBuffer(p)
  BY <1>3 DEF Apart, AcquireBuffer
<1>4. CASE \E s \in Slots : CancelBuffer(p, s) \/ BeginSubmit(p, s)
  BY <1>4 DEF Apart, CancelBuffer, BeginSubmit
<1>5. CASE \E f \in Fences : EndSubmit(p, f)
  BY <1>5 DEF Apart, EndSubmit
<1>6. CASE \E s \in Slots : RetainBufferReference(p, s) \/ ReleaseBufferReference(p, s)
  BY <1>6 DEF Apart, RetainBufferReference, ReleaseBufferReference
<1>7. CASE \E w \in Geometries : SendRequestGeometry(p, w)
  BY <1>7 DEF Apart, SendRequestGeometry
<1>8. CASE GeometryRelease(p)
  BY <1>8 DEF Apart, GeometryRelease, Taken
<1>9. CASE Leave(p)
  BY <1>9 DEF Apart, Leave
<1> QED BY <1>1, <1>2, <1>3, <1>4, <1>5, <1>6, <1>7, <1>8, <1>9 DEF Producer

(* What the consumer's variables contain. *)
LEMMA Consuming ==
  ASSUME UNCHANGED consumerVars, UNCHANGED acceptVars
  PROVE  UNCHANGED <<generation, hasPending, pendingSlot, pendingReady, frameHeld, heldSlot, heldReady, retiredValue,
                     cReleases, ledger, peer, acc, serving>>
BY DEF consumerVars, ringVars, pendingVars, heldVars, retireVars, peerVars, acceptVars

(* Steps of p that neither draw nor take a release. *)
LEMMA ProducerTurn ==
  ASSUME ChannelAssumption, TypeOK, TypeOK', Links', Core, NEW p \in Producers, Apart(p),
         UNCHANGED consumerVars, UNCHANGED acceptVars, UNCHANGED <<reads, written, readyValue, submittingSlot, image>>,
         AsksIdle(p), Owns(p) => UpTurn(p) /\ (Unopened(p)' => Unopened(p)),
         InSync(p)' => /\ InSync(p) /\ slotSubmitValue'[p] = slotSubmitValue[p]
                       /\ consumedValue'[p] = consumedValue[p] /\ pReleases'[p] = pReleases[p] /\ DownTurn(p)
  PROVE  Core'
<1>1. UNCHANGED <<generation, hasPending, pendingSlot, pendingReady, frameHeld, heldSlot, heldReady, retiredValue,
                  cReleases, ledger, peer, acc, serving>>
  BY Consuming
<1>2. \A q \in Producers : Owns(q)' <=> Owns(q)
  BY <1>1 DEF Owns
<1>3. ASSUME NEW q \in Producers, q # p
      PROVE  /\ AsksIdle(q) /\ UpTurn(q) /\ DownTurn(q) /\ (Unopened(q)' <=> Unopened(q)) /\ (InSync(q)' <=> InSync(q))
             /\ slotSubmitValue'[q] = slotSubmitValue[q] /\ consumedValue'[q] = consumedValue[q]
             /\ pReleases'[q] = pReleases[q]
  BY <1>1, <1>3 DEF Apart, AsksIdle, UpTurn, DownTurn, Unopened, InSync, Attached
<1>4. Settles
  BY <1>1 DEF Settles
<1>5. \A q \in Producers :
        /\ AsksIdle(q)
        /\ Owns(q)' => Owns(q) /\ UpTurn(q) /\ (Unopened(q)' => Unopened(q))
        /\ InSync(q)' => /\ InSync(q) /\ slotSubmitValue'[q] = slotSubmitValue[q]
                         /\ consumedValue'[q] = consumedValue[q] /\ pReleases'[q] = pReleases[q] /\ DownTurn(q)
  BY <1>2, <1>3
<1> QED BY <1>1, <1>4, <1>5, TurnCore

(* The producer's calls that draw nothing and take no release. *)
LEMMA QuietCore ==
  ASSUME ChannelAssumption, TypeOK, TypeOK', Links, Links', Core, NEW p \in Producers, Producer(p),
         \/ Connect(p) \/ OpenGreeted(p) \/ OpenBusy(p) \/ Leave(p)
         \/ \E s \in Slots : RetainBufferReference(p, s) \/ ReleaseBufferReference(p, s)
         \/ \E w \in Geometries : SendRequestGeometry(p, w)
         \/ GeometryReply(p) /\ pGeneration'[p] = pGeneration[p]
  PROVE  Core'
<1>0. Apart(p) /\ UNCHANGED consumerVars /\ UNCHANGED acceptVars /\ UNCHANGED reads
  BY ProducerApart
<1>1. UNCHANGED <<generation, acc, serving>> /\ Link(p)
  BY <1>0, Consuming DEF Links
<1>2. pc \in [Producers -> {"new", "connecting", "greeted", "idle", "geometry", "gone"}]
  BY DEF TypeOK, ProducerTypes
<1>3. CASE Connect(p)
  <2>1. /\ pc'[p] = "connecting" /\ up' = [up EXCEPT ![p] = <<>>]
        /\ UNCHANGED <<written, readyValue, submittingSlot, image>>
    BY <1>2, <1>3 DEF Connect, slotVars, gpuVars
  <2>2. Len(up'[p]) = 0
    BY <2>1, LinkQueues
  <2>3. AsksIdle(p) /\ UpTurn(p) /\ ~Unopened(p)' /\ ~InSync(p)'
    BY <2>1, <2>2 DEF AsksIdle, UpTurn, Unopened, InSync, Attached
  <2> QED BY <1>0, <2>1, <2>3, ProducerTurn
<1>4. CASE OpenGreeted(p)
  <2>1. /\ pc[p] = "connecting" /\ pc'[p] = "greeted" /\ UNCHANGED <<written, readyValue, submittingSlot, image>>
    BY <1>2, <1>4 DEF OpenGreeted, slotVars, gpuVars
  <2>2. ~Owns(p) /\ AsksIdle(p) /\ ~InSync(p)'
    BY <1>1, <2>1 DEF Link, Opening, AsksIdle, InSync, Attached
  <2> QED BY <1>0, <2>1, <2>2, ProducerTurn
<1>5. CASE OpenBusy(p)
  <2>1. /\ pc'[p] = "new" /\ UNCHANGED <<written, readyValue, submittingSlot, image, up>>
    BY <1>2, <1>5 DEF OpenBusy, slotVars, gpuVars
  <2>2. AsksIdle(p) /\ UpTurn(p) /\ ~Unopened(p)' /\ ~InSync(p)'
    BY <2>1 DEF AsksIdle, UpTurn, Unopened, InSync, Attached
  <2> QED BY <1>0, <2>1, <2>2, ProducerTurn
<1>6. CASE Leave(p)
  <2>1. /\ pc'[p] = "gone" /\ UNCHANGED <<written, readyValue, submittingSlot, image>>
        /\ up' = up \/ up' = [up EXCEPT ![p] = Append(@, Bye)] \/ up' = [up EXCEPT ![p] = <<>>]
    BY <1>2, <1>6 DEF Leave, gpuVars
  <2>2. Bye \in UpMessage /\ Bye.type # "FrameReady"
    BY MessageTypes DEF Bye
  <2>3. UpTurn(p)
    <3>1. CASE up' = up
      BY <3>1 DEF UpTurn
    <3>2. CASE up' = [up EXCEPT ![p] = Append(@, Bye)]
      BY <2>2, <3>2, LinkQueues DEF UpTurn
    <3>3. CASE up' = [up EXCEPT ![p] = <<>>]
      BY <3>3, LinkQueues DEF UpTurn
    <3> QED BY <2>1, <3>1, <3>2, <3>3
  <2>4. AsksIdle(p) /\ ~Unopened(p)' /\ ~InSync(p)'
    BY <2>1 DEF AsksIdle, Unopened, InSync, Attached
  <2> QED BY <1>0, <2>1, <2>3, <2>4, ProducerTurn
<1>7. CASE \E s \in Slots : RetainBufferReference(p, s) \/ ReleaseBufferReference(p, s)
  <2>1. UNCHANGED <<written, readyValue, submittingSlot, image, pc, pGeneration, up, down, slotSubmitValue, consumedValue,
                    pReleases>>
    BY <1>7 DEF RetainBufferReference, ReleaseBufferReference, slotVars, linkVars, gpuVars
  <2>2. AsksIdle(p) /\ UpTurn(p) /\ DownTurn(p) /\ (Unopened(p)' <=> Unopened(p)) /\ (InSync(p)' <=> InSync(p))
    BY <1>1, <2>1 DEF AsksIdle, UpTurn, DownTurn, Unopened, InSync, Attached
  <2> QED BY <1>0, <2>1, <2>2, ProducerTurn
<1>8. ASSUME NEW w \in Geometries, SendRequestGeometry(p, w) PROVE Core'
  <2>1. /\ pc[p] = "idle" /\ pc'[p] = "geometry" /\ up' = [up EXCEPT ![p] = Append(@, RequestGeometry(w))]
        /\ \A s \in Slots : slotSubmitValue[p][s] # Reserved
        /\ UNCHANGED <<written, readyValue, submittingSlot, image, pGeneration, down, slotSubmitValue, consumedValue, pReleases>>
    BY <1>2, <1>8 DEF SendRequestGeometry, slotVars, gpuVars
  <2>2. pGeneration[p] = generation
    BY <1>1, <2>1 DEF Link, Opening
  <2>3. InSync(p) /\ ~Unopened(p)'
    BY <1>1, <2>1, <2>2 DEF InSync, Attached, Unopened
  <2>4. submittingSlot[p] = NoSlot
    <3>1. Drawings(p)
      BY <2>3 DEF Core, Producing
    <3>2. submittingSlot[p] # NoSlot => submittingSlot[p] \in Slots
      BY ConstantTypes DEF TypeOK, SlotTypes
    <3> QED BY <2>1, <3>1, <3>2 DEF Drawings
  <2>5. RequestGeometry(w) \in UpMessage /\ RequestGeometry(w).type # "FrameReady"
    BY MessageTypes DEF RequestGeometry
  <2>6. UpTurn(p)
    BY <2>1, <2>5, LinkQueues DEF UpTurn
  <2>7. AsksIdle(p) /\ DownTurn(p)
    BY <2>1, <2>4 DEF AsksIdle, DownTurn
  <2> QED BY <1>0, <2>1, <2>3, <2>6, <2>7, ProducerTurn
<1>9. CASE GeometryReply(p) /\ pGeneration'[p] = pGeneration[p]
  <2>1. /\ pc[p] = "geometry" /\ pc'[p] = "idle" /\ down[p] # <<>> /\ Head(down[p]).type = "RingDesc" /\ Taken(p)
        /\ UNCHANGED <<submittingSlot, image, up>>
    BY <1>2, <1>9 DEF GeometryReply, Arrived
  <2>2. Head(down[p]).gen = pGeneration[p]
    <3>1. pGeneration \in [Producers -> Nat]
      BY DEF TypeOK, ProducerTypes
    <3>2. CASE ImportRing(p, Head(down[p]))
      BY <1>9, <3>1, <3>2 DEF ImportRing
    <3> QED BY <1>9, <3>2 DEF GeometryReply
  <2>3. UNCHANGED <<pGeneration, slotSubmitValue, consumedValue, readyValue, written, pReleases>>
    BY <1>9, <2>2 DEF GeometryReply
  <2>4. DownTurn(p)
    <3>1. Pops(down[p], down'[p]) /\ Head(down[p]) = down[p][1]
      BY <2>1, LinkQueues
    <3> QED BY <2>1, <3>1 DEF DownTurn
  <2>5. AsksIdle(p) /\ UpTurn(p) /\ ~Unopened(p)' /\ (InSync(p)' => InSync(p))
    BY <1>1, <2>1, <2>3 DEF AsksIdle, UpTurn, Unopened, InSync, Attached
  <2> QED BY <1>0, <2>1, <2>3, <2>4, <2>5, ProducerTurn
<1> QED BY <1>3, <1>4, <1>5, <1>6, <1>7, <1>8, <1>9

(* p imports the ring it was handed: nothing happened in it yet. *)
LEMMA ImportCore ==
  ASSUME ChannelAssumption, TypeOK, TypeOK', Links, Links', Core, NEW p \in Producers, Producer(p),
         OpenRing(p) \/ (GeometryReply(p) /\ pGeneration'[p] # pGeneration[p])
  PROVE  Core'
<1>1. /\ Apart(p) /\ reads' = reads
      /\ UNCHANGED <<generation, hasPending, pendingSlot, pendingReady, frameHeld, heldSlot, heldReady, retiredValue,
                     cReleases, ledger, peer, acc, serving>>
  BY ProducerApart, Consuming
<1>2. /\ pc \in [Producers -> {"new", "connecting", "greeted", "idle", "geometry", "gone"}]
      /\ pGeneration \in [Producers -> Nat] /\ slotSubmitValue \in [Producers -> [Slots -> 0 .. Reserved]]
      /\ consumedValue \in [Producers -> Values] /\ readyValue \in [Producers -> Values]
      /\ submittingSlot \in [Producers -> 0 .. NoSlot] /\ pReleases \in [Producers -> Seq(ReleaseMessage)]
      /\ written \in [Producers -> Values]
  BY DEF TypeOK, ProducerTypes, SlotTypes, GpuTypes
<1>3. /\ pc[p] \in {"greeted", "geometry"} /\ pc'[p] = "idle"
      /\ down[p] # <<>> /\ Head(down[p]).type = "RingDesc" /\ Taken(p)
      /\ ImportRing(p, Head(down[p])) /\ image' = image /\ up' = up
      /\ pc[p] = "greeted" => submittingSlot'[p] = NoSlot
      /\ pc[p] = "geometry" => submittingSlot' = submittingSlot /\ Head(down[p]).gen # pGeneration[p]
  <2>1. CASE OpenRing(p)
    BY <1>2, <2>1 DEF OpenRing, Arrived
  <2>2. CASE GeometryReply(p) /\ pGeneration'[p] # pGeneration[p]
    BY <1>2, <2>2 DEF GeometryReply, Arrived
  <2> QED BY <2>1, <2>2
<1>4. /\ Pops(down[p], down'[p]) /\ Head(down[p]) = down[p][1] /\ Len(down[p]) \in Nat \ {0}
      /\ Len(down'[p]) = Len(down[p]) - 1 /\ down[p][1].type = "RingDesc"
  BY <1>3, LinkQueues DEF Pops
<1>5. 1 \in 1 .. Len(down[p])
  BY <1>4
<1>6. Link(p)
  BY DEF Links
<1>7. Owns(p)
  <2>1. SUFFICES ASSUME ~Owns(p) PROVE FALSE
    OBVIOUS
  <2>2. pc[p] = "greeted"
    BY <1>3, <1>6, <2>1 DEF Link, Opening, Attached
  <2>3. serving # p => Only(down[p], {"Busy"})
    BY <1>6, <2>1, <2>2 DEF Link, Opening
  <2>4. serving = p => Len(down[p]) = 0
    BY <1>6, <2>1, <2>2 DEF Link, Opening
  <2> QED BY <1>4, <1>5, <2>3, <2>4 DEF Only
<1>8. Upward(p) /\ Downward(p) /\ down[p][1].gen = generation
  BY <1>4, <1>5, <1>6, <1>7 DEF Link, Downward
<1>9. Unopened(p)
  BY <1>3, <1>4, <1>8 DEF Unopened
<1>10. Len(up[p]) = 0 /\ Len(down'[p]) = 0
  <2>1. Len(up[p]) = 0
    BY <1>8, <1>9 DEF Upward
  <2>2. 1 = Len(down[p])
    BY <1>4, <1>5, <1>8, <1>9 DEF Downward
  <2> QED BY <1>4, <2>1, <2>2
<1>11. Fresh /\ image = Blank
  BY <1>7, <1>9 DEF Core, Starts
<1>12. reads = {} /\ reads' = {}
  <2>1. ASSUME NEW x \in reads PROVE FALSE
    <3>1. x.val <= 0 /\ 0 < x.val /\ x.val \in Nat
      BY <1>11, CoreTypes DEF Core, ReadsGuarded, Fresh
    <3> QED BY <3>1
  <2> QED BY <1>1, <2>1
<1>13. /\ pGeneration'[p] = generation /\ slotSubmitValue'[p] = [s \in Slots |-> 0]
       /\ consumedValue'[p] = 0 /\ readyValue'[p] = 0 /\ written'[p] = 0 /\ pReleases'[p] = <<>>
  BY <1>2, <1>3, <1>4, <1>8 DEF ImportRing
<1>14. submittingSlot'[p] = NoSlot
  BY <1>3 DEF Core, Writes
<1>15. \A q \in Producers : (Owns(q)' <=> Owns(q)) /\ (Owns(q) => q = p)
  BY <1>1, <1>7 DEF Owns
<1>16. \A q \in Producers : InSync(q)' => q = p
  BY <1>15 DEF Links, Link, Opening, InSync
<1>17. Len(pReleases'[p]) = 0
  BY <1>13
<1>18. Fresh'
  BY <1>1, <1>11 DEF Fresh
<1>19. Retirement' /\ ReadsGuarded' /\ Defaults'
  BY <1>1, <1>12 DEF Core, Retirement, ReadsGuarded, Defaults
<1>20. Pictures'
  <2>1. ~hasPending'
    BY <1>18 DEF Fresh
  <2>2. ASSUME NEW q \in Producers, Owns(q)' PROVE Coming(q)'
    BY <1>3, <1>10, <1>15, <2>2 DEF Coming
  <2> QED BY <1>12, <2>1, <2>2 DEF Pictures
<1>21. Starts'
  BY <1>3, <1>11, <1>18 DEF Starts
<1>22. Drawings(p)'
  <2>1. Announced(p)' = 0
    BY <1>13, <1>14 DEF Announced
  <2>2. \A s \in Slots : slotSubmitValue'[p][s] = 0 /\ image'[s] = 0
    BY <1>3, <1>11, <1>13 DEF Blank
  <2>3. heldReady' = 0 /\ ~hasPending' /\ Len(up'[p]) = 0 /\ pc'[p] = "idle" /\ Reserved # 0
    BY <1>3, <1>10, <1>18, ConstantTypes DEF Fresh
  <2> QED BY <1>14, <2>1, <2>2, <2>3 DEF Drawings
<1>23. Returns(p)'
  BY <1>10, <1>12, <1>13, <1>17, <1>18 DEF Returns, Below, Fresh
<1>24. Producing'
  BY <1>16, <1>22, <1>23 DEF Producing
<1>25. Leasing'
  <2>1. ledger' = <<>> /\ cReleases' = <<>> /\ ~frameHeld' /\ retiredValue' = 0
    BY <1>18 DEF Fresh
  <2>2. Len(ledger') = 0
    BY <2>1
  <2>3. Below(pReleases'[p], 0) /\ Below(down'[p], 0)
    BY <1>10, <1>17 DEF Below
  <2> QED BY <1>12, <1>13, <1>16, <2>1, <2>2, <2>3 DEF Leasing
<1>26. Writes'
  <2>1. ASSUME NEW q \in Producers
        PROVE  /\ written'[q] <= readyValue'[q]
               /\ submittingSlot'[q] # NoSlot => readyValue'[q] > 0
               /\ submittingSlot'[q] # NoSlot => pc'[q] # "geometry"
    <3>1. CASE q = p
      BY <1>13, <1>14, <3>1
    <3>2. CASE q # p
      BY <1>1, <3>2 DEF Apart, Core, Writes
    <3> QED BY <3>1, <3>2
  <2>2. heldReady' = 0
    BY <1>18 DEF Fresh
  <2> QED BY <2>1, <2>2 DEF Writes
<1> QED BY <1>19, <1>20, <1>21, <1>24, <1>25, <1>26 DEF Core

-----------------------------------------------------------------------------
(* p takes the releases that arrived: q is its queue with what it took. *)
Drains(p, q) ==
  /\ q \in Seq(ReleaseMessage)
  /\ \E n \in 0 .. Len(q), w \in Values :
       Advances(q, consumedValue[p], n, w) /\ pReleases'[p] = Rest(q, n) /\ consumedValue'[p] = w
  /\ \A v \in Nat :
       /\ Below(pReleases[p], v) /\ Below(down[p], v) => Below(q, v) /\ Below(down'[p], v)
       /\ Guarded(pReleases[p], v) /\ (Shielded(pReleases[p], v) \/ Guarded(down[p], v)) =>
            /\ Guarded(q, v) /\ (Shielded(q, v) \/ Guarded(down'[p], v))
            /\ Shielded(pReleases[p], v) \/ Shielded(down[p], v) => Shielded(q, v) \/ Shielded(down'[p], v)

(* Taking releases in order cannot take consumedValue past an outstanding   *)
(* read.                                                                    *)
LEMMA DrainReturns ==
  ASSUME ChannelAssumption, TypeOK, TypeOK', Core, NEW p \in Producers, InSync(p), NEW q, Drains(p, q),
         UNCHANGED <<heldReady, reads, cReleases, retiredValue>>
  PROVE  /\ Returns(p)'
         /\ consumedValue'[p] \in Nat /\ consumedValue'[p] <= heldReady
         /\ \A x \in reads : consumedValue'[p] < x.val
         /\ Leases => /\ consumedValue'[p] <= retiredValue
                      /\ Below(pReleases'[p], retiredValue) /\ Below(down'[p], retiredValue)
<1>1. PICK n \in 0 .. Len(q), w \in Values :
        Advances(q, consumedValue[p], n, w) /\ pReleases'[p] = Rest(q, n) /\ consumedValue'[p] = w
  BY DEF Drains
<1>2. PICK d : d = Rest(q, n)
  OBVIOUS
<1>3. /\ q \in Seq(ReleaseMessage) /\ consumedValue[p] \in Values /\ Values \subseteq Nat /\ heldReady \in Nat
      /\ retiredValue \in Nat /\ \A x \in reads : x.val \in Nat
  BY CoreTypes DEF Drains, TypeOK, SlotTypes
<1>4. /\ \A h \in Nat : consumedValue[p] <= h /\ Below(q, h) => w <= h /\ Below(d, h)
      /\ \A x \in reads : x.val \in Nat /\ consumedValue[p] < x.val /\ Guarded(q, x.val) =>
           /\ w < x.val /\ Guarded(d, x.val)
           /\ Shielded(q, x.val) => Shielded(d, x.val)
  BY <1>1, <1>2, <1>3, AdvanceReleases
<1>5. pReleases'[p] = d /\ consumedValue'[p] = w
  BY <1>1, <1>2
<1>6. Returns(p)
  BY DEF Core, Producing
<1>7. w <= heldReady /\ Below(d, heldReady) /\ Below(down'[p], heldReady)
  BY <1>3, <1>4, <1>6 DEF Drains, Returns
<1>8. ASSUME Leases PROVE w <= retiredValue /\ Below(d, retiredValue) /\ Below(down'[p], retiredValue)
  <2>1. consumedValue[p] <= retiredValue /\ Below(pReleases[p], retiredValue) /\ Below(down[p], retiredValue)
    BY <1>8 DEF Core, Leasing
  <2> QED BY <1>3, <1>4, <2>1 DEF Drains
<1>9. ASSUME NEW x \in reads
      PROVE  /\ w < x.val /\ Guarded(d, x.val)
             /\ Shielded(d, x.val) \/ Guarded(down'[p], x.val)
             /\ Shielded(cReleases, x.val) => Shielded(d, x.val) \/ Shielded(down'[p], x.val)
  <2>1. /\ x.val \in Nat /\ consumedValue[p] < x.val /\ Guarded(pReleases[p], x.val)
        /\ Shielded(pReleases[p], x.val) \/ Guarded(down[p], x.val)
        /\ Shielded(cReleases, x.val) => Shielded(pReleases[p], x.val) \/ Shielded(down[p], x.val)
    BY <1>3, <1>6 DEF Returns
  <2>2. /\ Guarded(q, x.val) /\ (Shielded(q, x.val) \/ Guarded(down'[p], x.val))
        /\ Shielded(pReleases[p], x.val) \/ Shielded(down[p], x.val) => Shielded(q, x.val) \/ Shielded(down'[p], x.val)
    BY <2>1 DEF Drains
  <2>3. w < x.val /\ Guarded(d, x.val) /\ (Shielded(q, x.val) => Shielded(d, x.val))
    BY <1>4, <2>1, <2>2
  <2> QED BY <2>1, <2>2, <2>3
<1>10. Returns(p)'
  BY <1>5, <1>7, <1>9 DEF Returns
<1> QED BY <1>3, <1>5, <1>7, <1>8, <1>9, <1>10

(* flAcquireBuffer takes all that arrived, flRequestGeometry one message. *)
LEMMA DrainAll ==
  ASSUME ChannelAssumption, TypeOK, Links, NEW p \in Producers, AcquireBuffer(p)
  PROVE  Drains(p, pReleases[p] \o down[p])
<1>1. PICK q : q = pReleases[p] \o down[p]
  OBVIOUS
<1>2. PICK a, b : a = pReleases[p] /\ b = down[p]
  OBVIOUS
<1>3. a \in Seq(ReleaseMessage) /\ b \in Seq(ReleaseMessage) /\ q \in Seq(ReleaseMessage) /\ q = a \o b
  BY <1>1, <1>2, QueueTyped DEF AcquireBuffer
<1>4. Len(down'[p]) = 0
  BY LinkQueues DEF AcquireBuffer
<1>5. PICK n \in 0 .. Len(q), w \in Values :
        /\ Advances(q, consumedValue[p], n, w)
        /\ pReleases' = [pReleases EXCEPT ![p] = Rest(q, n)] /\ consumedValue' = [consumedValue EXCEPT ![p] = w]
  BY <1>1 DEF AcquireBuffer
<1>6. pReleases'[p] = Rest(q, n) /\ consumedValue'[p] = w
  BY <1>5 DEF TypeOK, SlotTypes
<1>7. ASSUME NEW v \in Nat
      PROVE  /\ Below(a, v) /\ Below(b, v) => Below(q, v) /\ Below(down'[p], v)
             /\ Guarded(a, v) /\ (Shielded(a, v) \/ Guarded(b, v)) =>
                  /\ Guarded(q, v) /\ (Shielded(q, v) \/ Guarded(down'[p], v))
                  /\ Shielded(a, v) \/ Shielded(b, v) => Shielded(q, v) \/ Shielded(down'[p], v)
  <2>1. Below(down'[p], v) /\ Guarded(down'[p], v)
    BY <1>4 DEF Below, Guarded
  <2>2. /\ Below(a, v) /\ Below(b, v) => Below(q, v)
        /\ Guarded(a, v) /\ (Shielded(a, v) \/ Guarded(b, v)) => Guarded(q, v)
        /\ Shielded(a, v) \/ Shielded(b, v) => Shielded(q, v)
    BY <1>3, ConcatReleases
  <2> QED BY <2>1, <2>2
<1> QED BY <1>1, <1>2, <1>3, <1>5, <1>6, <1>7 DEF Drains

(* flRequestGeometry takes the releases ahead of the answer one at a time. *)
LEMMA DrainOne ==
  ASSUME ChannelAssumption, TypeOK, NEW p \in Producers, GeometryRelease(p)
  PROVE  Drains(p, Append(pReleases[p], Head(down[p])))
<1>1. PICK q : q = Append(pReleases[p], Head(down[p]))
  OBVIOUS
<1>2. PICK m : m = Head(down[p])
  OBVIOUS
<1>3. down[p] # <<>> /\ Taken(p) /\ m.type = "FrameReleased"
  BY <1>2 DEF GeometryRelease, Arrived
<1>4. m \in ReleaseMessage /\ pReleases[p] \in Seq(ReleaseMessage)
  BY <1>2, <1>3, LinkTyped, DownFields DEF TypeOK, SlotTypes
<1>5. q \in Seq(ReleaseMessage) /\ Pushes(pReleases[p], q, m)
  BY <1>1, <1>2, <1>4, AppendProperties DEF Pushes
<1>6. Pops(down[p], down'[p]) /\ down[p][1] = m
  BY <1>2, <1>3, LinkQueues
<1>7. PICK n \in 0 .. Len(q), w \in Values :
        /\ Advances(q, consumedValue[p], n, w)
        /\ pReleases' = [pReleases EXCEPT ![p] = Rest(q, n)] /\ consumedValue' = [consumedValue EXCEPT ![p] = w]
  BY <1>1 DEF GeometryRelease
<1>8. pReleases'[p] = Rest(q, n) /\ consumedValue'[p] = w
  BY <1>7 DEF TypeOK, SlotTypes
<1>9. ASSUME NEW v \in Nat
      PROVE  /\ Below(pReleases[p], v) /\ Below(down[p], v) => Below(q, v) /\ Below(down'[p], v)
             /\ Guarded(pReleases[p], v) /\ (Shielded(pReleases[p], v) \/ Guarded(down[p], v)) =>
                  /\ Guarded(q, v) /\ (Shielded(q, v) \/ Guarded(down'[p], v))
                  /\ Shielded(pReleases[p], v) \/ Shielded(down[p], v) => Shielded(q, v) \/ Shielded(down'[p], v)
  <2>1. /\ Shielded(pReleases[p], v) => Shielded(q, v)
        /\ m.fence /\ m.val >= v => Shielded(q, v)
        /\ Guarded(pReleases[p], v) /\ (m.val >= v => m.fence \/ Shielded(pReleases[p], v)) => Guarded(q, v)
        /\ Below(pReleases[p], v) /\ m.val <= v => Below(q, v)
    BY <1>3, <1>5, PushReleases
  <2>2. /\ Below(down[p], v) => Below(down'[p], v) /\ m.val <= v
        /\ Guarded(down[p], v) /\ m.val >= v => m.fence
        /\ Guarded(down[p], v) /\ ~(m.val >= v /\ m.fence) => Guarded(down'[p], v)
        /\ Shielded(down[p], v) /\ ~(m.val >= v /\ m.fence) => Shielded(down'[p], v)
    <3>1. (Reaches(down[p], 1, v) <=> m.val >= v) /\ (Fenced(down[p], 1, v) <=> m.val >= v /\ m.fence)
      BY <1>3, <1>6 DEF Reaches, Fenced
    <3> QED BY <1>3, <1>6, <3>1, PopReleases
  <2> QED BY <2>1, <2>2
<1> QED BY <1>1, <1>5, <1>7, <1>8, <1>9 DEF Drains

(* No frame that is read, pending, announced by p or leased is in slot s. *)
Unused(p, s) ==
  /\ \A x \in reads : x.slot # s
  /\ hasPending => pendingSlot # s
  /\ \A i \in 1 .. Len(up[p]) : up[p][i].type = "FrameReady" => up[p][i].slot # s
  /\ Leases => \A i \in 1 .. Len(ledger) : ledger[i].slot # s

(* A slot whose frame the owner knows to be consumed is used by nobody. *)
LEMMA UnusedSlot ==
  ASSUME ChannelAssumption, TypeOK, Core, NEW p \in Producers, Owns(p), NEW s \in Slots, NEW k \in Nat,
         image[s] <= k, k <= heldReady, \A x \in reads : k < x.val, Leases => k <= retiredValue
  PROVE  Unused(p, s)
<1>1. image[s] \in Nat /\ heldReady \in Nat /\ retiredValue \in Nat /\ \A x \in reads : x.val \in Nat
  BY CoreTypes
<1>2. \A x \in reads : x.slot # s
  BY <1>1 DEF Core, Pictures
<1>3. hasPending => pendingSlot # s
  <2>1. pendingReady \in Nat
    BY CoreTypes
  <2> QED BY <1>1, <2>1 DEF Core, Pictures
<1>4. ASSUME NEW i \in 1 .. Len(up[p]), up[p][i].type = "FrameReady" PROVE up[p][i].slot # s
  <2>1. image[up[p][i].slot] = up[p][i].val /\ up[p][i].val > heldReady
    BY <1>4 DEF Core, Pictures, Coming
  <2>2. up[p][i].val \in Nat
    BY <1>4, UpFields, ElementOfSeq, ConstantTypes DEF TypeOK, LinkTypes
  <2> QED BY <1>1, <2>1, <2>2
<1>5. ASSUME Leases, NEW i \in 1 .. Len(ledger) PROVE ledger[i].slot # s
  <2>1. image[ledger[i].slot] = ledger[i].val /\ retiredValue < ledger[i].val /\ ledger[i].val \in Nat
    BY <1>5, CoreTypes DEF Core, Leasing, Leased
  <2> QED BY <1>1, <1>5, <2>1
<1> QED BY <1>2, <1>3, <1>4, <1>5 DEF Unused

(* The owner of the ring changes images nobody uses, and its own books. *)
LEMMA DrawCore ==
  ASSUME ChannelAssumption, TypeOK, TypeOK', Links, Core, NEW p \in Producers, InSync(p), Apart(p),
         UNCHANGED consumerVars, UNCHANGED acceptVars, UNCHANGED <<reads, pc, pGeneration>>,
         \A s \in Slots : image'[s] = image[s] \/ Unused(p, s),
         Coming(p)', Drawings(p)', Returns(p)', Writes',
         Leases => /\ consumedValue'[p] <= retiredValue
                   /\ Below(pReleases'[p], retiredValue) /\ Below(down'[p], retiredValue)
  PROVE  Core'
<1>1. UNCHANGED <<generation, hasPending, pendingSlot, pendingReady, frameHeld, heldSlot, heldReady, retiredValue,
                  cReleases, ledger, peer, acc, serving>>
  BY Consuming
<1>2. Stays
  BY <1>1 DEF Stays
<1>3. Owns(p) /\ \A q \in Producers : Owns(q) => q = p
  BY DEF Links, Link, Opening, InSync, Owns
<1>4. \A q \in Producers : InSync(q) => q = p
  BY <1>3 DEF Links, Link, Opening, InSync
<1>5. Retirement' /\ ReadsGuarded' /\ Defaults'
  BY <1>1 DEF Core, Retirement, ReadsGuarded, Defaults
<1>6. Pictures'
  <2>1. \A x \in reads' : image'[x.slot] = x.val
    BY CoreTypes DEF Core, Pictures, Unused
  <2>2. hasPending' => pendingReady' > heldReady' /\ image'[pendingSlot'] = pendingReady'
    BY <1>1, CoreTypes DEF Core, Pictures, Unused
  <2> QED BY <1>2, <1>3, <2>1, <2>2, StaysPut DEF Pictures
<1>7. Starts'
  <2>1. Fresh' <=> Fresh
    BY <1>1 DEF Fresh
  <2>2. ~Unopened(p)
    BY DEF InSync, Attached, Unopened
  <2> QED BY <1>1, <1>2, <1>3, <2>1, <2>2, StaysPut DEF Core, Starts
<1>8. Producing'
  BY <1>2, <1>4, StaysPut DEF Producing
<1>9. Leasing'
  <2>1. CASE ~Leases
    BY <1>1, <2>1 DEF Core, Leasing
  <2>2. CASE Leases
    <3>1. \A i \in 1 .. Len(ledger') : Leased(i)'
      <4>1. SUFFICES ASSUME NEW i \in 1 .. Len(ledger) PROVE Leased(i)'
        BY <1>1
      <4>2. Leased(i) /\ ledger[i].slot \in Slots /\ image'[ledger[i].slot] = image[ledger[i].slot]
        BY <2>2, CoreTypes DEF Core, Leasing, Unused
      <4> QED BY <1>1, <4>2 DEF Leased
    <3>2. \A x \in reads' : LeasedRead(x)'
      BY <1>1, <2>2 DEF Core, Leasing, LeasedRead, HeldRead, Finished
    <3>3. cReleases' = <<>> /\ (frameHeld' => HeldRead' \in reads')
      BY <1>1, <2>2 DEF Core, Leasing, HeldRead
    <3>4. \A q \in Producers : InSync(q)' =>
            /\ consumedValue'[q] <= retiredValue'
            /\ Below(pReleases'[q], retiredValue') /\ Below(down'[q], retiredValue')
      BY <1>1, <1>2, <1>4, <2>2, StaysPut
    <3> QED BY <2>2, <3>1, <3>2, <3>3, <3>4 DEF Leasing
  <2> QED BY <2>1, <2>2
<1> QED BY <1>5, <1>6, <1>7, <1>8, <1>9 DEF Core

(* What holds of the producer whose calling thread acts on its slots. *)
LEMMA OwnerFacts ==
  ASSUME ChannelAssumption, TypeOK, Links, Core, NEW p \in Producers,
         pc[p] = "idle" \/ (pc[p] = "geometry" /\ pGeneration[p] = generation)
  PROVE  /\ InSync(p) /\ ~Unopened(p) /\ Owns(p) /\ Coming(p) /\ Drawings(p) /\ Returns(p)
         /\ slotSubmitValue[p] \in [Slots -> Nat] /\ readyValue[p] \in Nat
         /\ Leases => /\ consumedValue[p] <= retiredValue
                      /\ Below(pReleases[p], retiredValue) /\ Below(down[p], retiredValue)
<1>1. InSync(p) /\ ~Unopened(p) /\ Owns(p)
  BY DEF Links, Link, Opening, InSync, Attached, Unopened
<1>2. Coming(p) /\ Drawings(p) /\ Returns(p)
  BY <1>1 DEF Core, Pictures, Producing
<1>3. Leases => /\ consumedValue[p] <= retiredValue
                /\ Below(pReleases[p], retiredValue) /\ Below(down[p], retiredValue)
  BY <1>1 DEF Core, Leasing
<1>4. slotSubmitValue[p] \in [Slots -> Nat] /\ readyValue[p] \in Nat
  BY ConstantTypes DEF TypeOK, SlotTypes
<1> QED BY <1>1, <1>2, <1>3, <1>4

(* The buffer p gets is one that nobody reads. *)
LEMMA AcquiredSlot ==
  ASSUME ChannelAssumption, TypeOK, TypeOK', Links, Core, NEW p \in Producers, Producer(p), AcquireBuffer(p)
  PROVE  \/ UNCHANGED <<slotSubmitValue, image>>
         \/ \E s \in Slots : /\ slotSubmitValue[p][s] # Reserved /\ Unused(p, s)
                             /\ slotSubmitValue' = [slotSubmitValue EXCEPT ![p][s] = Reserved]
                             /\ image' = [image EXCEPT ![s] = 0]
<1>1. UNCHANGED <<heldReady, reads, cReleases, retiredValue>>
  BY ProducerApart, Consuming
<1>2. InSync(p) /\ Owns(p) /\ Drawings(p) /\ slotSubmitValue[p] \in [Slots -> Nat]
  BY OwnerFacts DEF AcquireBuffer
<1>3. /\ consumedValue'[p] \in Nat /\ consumedValue'[p] <= heldReady
      /\ \A x \in reads : consumedValue'[p] < x.val
      /\ Leases => consumedValue'[p] <= retiredValue
  BY <1>1, <1>2, DrainAll, DrainReturns
<1>4. \/ UNCHANGED <<slotSubmitValue, image>>
      \/ \E s \in Slots : /\ slotSubmitValue[p][s] <= consumedValue'[p]
                          /\ slotSubmitValue' = [slotSubmitValue EXCEPT ![p][s] = Reserved]
                          /\ image' = [image EXCEPT ![s] = 0]
  <2>1. PICK n, w \in Values :
          /\ consumedValue' = [consumedValue EXCEPT ![p] = w]
          /\ \/ \E s \in Slots : /\ slotSubmitValue[p][s] <= w
                                 /\ slotSubmitValue' = [slotSubmitValue EXCEPT ![p][s] = Reserved]
                                 /\ image' = [image EXCEPT ![s] = 0]
             \/ UNCHANGED <<slotSubmitValue, image>>
    BY DEF AcquireBuffer, Free
  <2>2. consumedValue'[p] = w
    BY <2>1 DEF TypeOK, SlotTypes
  <2> QED BY <2>1, <2>2
<1>5. ASSUME NEW s \in Slots, slotSubmitValue[p][s] <= consumedValue'[p]
      PROVE  slotSubmitValue[p][s] # Reserved /\ Unused(p, s)
  <2>1. slotSubmitValue[p][s] # Reserved
    <3>1. consumedValue'[p] <= MaxValue /\ MaxValue \in Nat /\ Reserved = MaxValue + 1
      BY DEF TypeOK, SlotTypes, Values, Reserved, ChannelAssumption
    <3> QED BY <1>2, <1>3, <1>5, <3>1
  <2>2. image[s] <= consumedValue'[p]
    BY <1>2, <1>5, <2>1 DEF Drawings
  <2> QED BY <1>2, <1>3, <2>1, <2>2, UnusedSlot
<1> QED BY <1>4, <1>5

(* flAcquireBuffer keeps the invariant: the slot it reserves and blanks is  *)
(* unused.                                                                  *)
LEMMA AcquireBufferCore ==
  ASSUME ChannelAssumption, TypeOK, TypeOK', Links, Core, NEW p \in Producers, Producer(p), AcquireBuffer(p)
  PROVE  Core'
<1>1. /\ Apart(p) /\ UNCHANGED consumerVars /\ UNCHANGED acceptVars /\ UNCHANGED reads
      /\ UNCHANGED <<generation, hasPending, pendingSlot, pendingReady, heldSlot, heldReady, retiredValue,
                     cReleases, ledger, peer>>
  BY ProducerApart, Consuming
<1>2. UNCHANGED <<pc, pGeneration, readyValue, submittingSlot, up, written>> /\ pc[p] = "idle"
  BY DEF AcquireBuffer, gpuVars
<1>3. /\ InSync(p) /\ ~Unopened(p) /\ Owns(p) /\ Coming(p) /\ Drawings(p)
      /\ slotSubmitValue[p] \in [Slots -> Nat] /\ readyValue[p] \in Nat
  BY <1>2, OwnerFacts
<1>4. /\ Returns(p)'
      /\ consumedValue'[p] \in Nat /\ consumedValue'[p] <= heldReady
      /\ \A x \in reads : consumedValue'[p] < x.val
      /\ Leases => /\ consumedValue'[p] <= retiredValue
                   /\ Below(pReleases'[p], retiredValue) /\ Below(down'[p], retiredValue)
  BY <1>1, <1>3, DrainAll, DrainReturns
<1>5. Writes'
  BY <1>1, <1>2, WritesFrame DEF Core, AsksIdle
<1>6. Announced(p)' = Announced(p)
  BY <1>2 DEF Announced
<1>7. \/ UNCHANGED <<slotSubmitValue, image>>
      \/ \E s \in Slots : /\ slotSubmitValue[p][s] <= consumedValue'[p]
                          /\ slotSubmitValue' = [slotSubmitValue EXCEPT ![p][s] = Reserved]
                          /\ image' = [image EXCEPT ![s] = 0]
  <2>1. PICK n, w \in Values :
          /\ consumedValue' = [consumedValue EXCEPT ![p] = w]
          /\ \/ \E s \in Slots : /\ slotSubmitValue[p][s] <= w
                                 /\ slotSubmitValue' = [slotSubmitValue EXCEPT ![p][s] = Reserved]
                                 /\ image' = [image EXCEPT ![s] = 0]
             \/ UNCHANGED <<slotSubmitValue, image>>
    BY DEF AcquireBuffer, Free
  <2>2. consumedValue'[p] = w
    BY <2>1 DEF TypeOK, SlotTypes
  <2> QED BY <2>1, <2>2
<1>8. CASE UNCHANGED <<slotSubmitValue, image>>
  <2>1. Coming(p)' /\ Drawings(p)'
    BY <1>1, <1>2, <1>3, <1>6, <1>8 DEF Coming, Drawings
  <2> QED BY <1>1, <1>2, <1>3, <1>4, <1>5, <1>8, <2>1, DrawCore
<1>9. ASSUME NEW s \in Slots, slotSubmitValue[p][s] <= consumedValue'[p],
             slotSubmitValue' = [slotSubmitValue EXCEPT ![p][s] = Reserved],
             image' = [image EXCEPT ![s] = 0]
      PROVE  Core'
  <2>1. /\ image'[s] = 0 /\ \A t \in Slots : t # s => image'[t] = image[t]
        /\ slotSubmitValue'[p][s] = Reserved /\ \A t \in Slots : t # s => slotSubmitValue'[p][t] = slotSubmitValue[p][t]
    BY <1>9, CoreTypes DEF TypeOK, SlotTypes
  <2>2. slotSubmitValue[p][s] # Reserved
    <3>1. consumedValue'[p] <= MaxValue /\ MaxValue \in Nat /\ Reserved = MaxValue + 1
      BY DEF TypeOK, SlotTypes, Values, Reserved, ChannelAssumption
    <3> QED BY <1>3, <1>4, <1>9, <3>1
  <2>3. image[s] <= consumedValue'[p]
    BY <1>3, <1>9, <2>2 DEF Drawings
  <2>4. Unused(p, s)
    BY <1>3, <1>4, <2>3, UnusedSlot
  <2>5. Coming(p)'
    <3>1. ASSUME NEW i \in 1 .. Len(up[p]), up[p][i].type = "FrameReady" PROVE image'[up[p][i].slot] = image[up[p][i].slot]
      <4>1. up[p][i].slot \in Slots
        BY <3>1, UpFields, ElementOfSeq DEF TypeOK, LinkTypes
      <4> QED BY <2>1, <2>4, <3>1, <4>1 DEF Unused
    <3> QED BY <1>1, <1>2, <1>3, <3>1 DEF Coming
  <2>6. Drawings(p)'
    <3>1. \A t \in Slots : slotSubmitValue'[p][t] = Reserved => image'[t] = 0
      BY <1>3, <2>1 DEF Drawings
    <3>2. \A t \in Slots : slotSubmitValue'[p][t] # Reserved =>
            image'[t] = slotSubmitValue'[p][t] /\ slotSubmitValue'[p][t] <= Announced(p)
      BY <1>3, <2>1 DEF Drawings
    <3>3. submittingSlot[p] # NoSlot => slotSubmitValue'[p][submittingSlot[p]] = Reserved
      <4>1. submittingSlot[p] # NoSlot => submittingSlot[p] \in Slots
        BY ConstantTypes DEF TypeOK, SlotTypes
      <4> QED BY <1>3, <2>1, <4>1 DEF Drawings
    <3> QED BY <1>1, <1>2, <1>3, <1>6, <3>1, <3>2, <3>3 DEF Drawings
  <2> QED BY <1>1, <1>2, <1>3, <1>4, <1>5, <2>1, <2>4, <2>5, <2>6, DrawCore
<1> QED BY <1>7, <1>8, <1>9

(* A release that arrives while the producer waits for its new ring. *)
LEMMA GeometryReleaseCore ==
  ASSUME ChannelAssumption, TypeOK, TypeOK', Links, Links', Core, NEW p \in Producers, Producer(p), GeometryRelease(p)
  PROVE  Core'
<1>1. /\ Apart(p) /\ UNCHANGED consumerVars /\ UNCHANGED acceptVars /\ UNCHANGED reads
      /\ UNCHANGED <<generation, hasPending, pendingSlot, pendingReady, heldSlot, heldReady, retiredValue,
                     cReleases, ledger, peer, acc, serving>>
  BY ProducerApart, Consuming
<1>2. /\ UNCHANGED <<pc, pGeneration, slotSubmitValue, readyValue, submittingSlot, up, written, image>>
      /\ pc[p] = "geometry"
  BY DEF GeometryRelease, gpuVars
<1>3. CASE pGeneration[p] = generation
  <2>1. InSync(p) /\ ~Unopened(p) /\ Coming(p) /\ Drawings(p)
    BY <1>2, <1>3, OwnerFacts
  <2>2. /\ Returns(p)'
        /\ Leases => /\ consumedValue'[p] <= retiredValue
                     /\ Below(pReleases'[p], retiredValue) /\ Below(down'[p], retiredValue)
    BY <1>1, <2>1, DrainOne, DrainReturns
  <2>3. Writes'
    BY <1>1, <1>2, WritesFrame DEF Core, AsksIdle
  <2>4. Announced(p)' = Announced(p)
    BY <1>2 DEF Announced
  <2>5. Coming(p)' /\ Drawings(p)'
    BY <1>1, <1>2, <2>1, <2>4 DEF Coming, Drawings
  <2> QED BY <1>1, <1>2, <2>1, <2>2, <2>3, <2>5, DrawCore
<1>4. CASE pGeneration[p] # generation
  <2>1. ~InSync(p)' /\ AsksIdle(p) /\ UpTurn(p) /\ (Unopened(p)' <=> Unopened(p))
    BY <1>1, <1>2, <1>4 DEF InSync, AsksIdle, UpTurn, Unopened
  <2> QED BY <1>1, <1>2, <2>1, ProducerTurn
<1> QED BY <1>3, <1>4

(* flCancelBuffer gives the slot back without a frame. *)
LEMMA CancelCore ==
  ASSUME ChannelAssumption, TypeOK, TypeOK', Links, Core, NEW p \in Producers, Producer(p),
         NEW s \in Slots, CancelBuffer(p, s)
  PROVE  Core'
<1>1. /\ Apart(p) /\ UNCHANGED consumerVars /\ UNCHANGED acceptVars /\ UNCHANGED reads
      /\ UNCHANGED <<generation, hasPending, pendingSlot, pendingReady, heldSlot, heldReady, retiredValue,
                     cReleases, ledger, peer>>
  BY ProducerApart, Consuming
<1>2. /\ UNCHANGED <<pc, pGeneration, readyValue, submittingSlot, up, down, written, image, consumedValue, pReleases>>
      /\ pc[p] = "idle" /\ slotSubmitValue[p][s] = Reserved /\ submittingSlot[p] # s
      /\ slotSubmitValue' = [slotSubmitValue EXCEPT ![p][s] = 0]
  BY DEF CancelBuffer, slotOnly
<1>3. /\ InSync(p) /\ ~Unopened(p) /\ Coming(p) /\ Drawings(p) /\ Returns(p) /\ readyValue[p] \in Nat
      /\ Leases => /\ consumedValue[p] <= retiredValue
                   /\ Below(pReleases[p], retiredValue) /\ Below(down[p], retiredValue)
  BY <1>2, OwnerFacts
<1>4. slotSubmitValue'[p][s] = 0 /\ \A t \in Slots : t # s => slotSubmitValue'[p][t] = slotSubmitValue[p][t]
  BY <1>2 DEF TypeOK, SlotTypes
<1>5. Announced(p)' = Announced(p) /\ 0 <= Announced(p) /\ Reserved # 0
  BY <1>2, <1>3, ConstantTypes DEF Announced, Core, Writes
<1>6. Drawings(p)'
  <2>1. \A t \in Slots : slotSubmitValue'[p][t] = Reserved => image'[t] = 0
    BY <1>2, <1>3, <1>4, <1>5 DEF Drawings
  <2>2. \A t \in Slots : slotSubmitValue'[p][t] # Reserved =>
          image'[t] = slotSubmitValue'[p][t] /\ slotSubmitValue'[p][t] <= Announced(p)
    BY <1>2, <1>3, <1>4, <1>5 DEF Drawings
  <2>3. submittingSlot[p] # NoSlot => slotSubmitValue'[p][submittingSlot[p]] = Reserved
    <3>1. submittingSlot[p] # NoSlot => submittingSlot[p] \in Slots
      BY ConstantTypes DEF TypeOK, SlotTypes
    <3> QED BY <1>2, <1>3, <1>4, <3>1 DEF Drawings
  <2> QED BY <1>1, <1>2, <1>3, <1>5, <2>1, <2>2, <2>3 DEF Drawings
<1>7. Coming(p)'
  BY <1>1, <1>2, <1>3 DEF Coming
<1>8. Returns(p)'
  BY <1>1, <1>2, <1>3 DEF Returns
<1>9. Writes'
  BY <1>1, <1>2, WritesFrame DEF Core, AsksIdle
<1> QED BY <1>1, <1>2, <1>3, <1>6, <1>7, <1>8, <1>9, DrawCore

(* The first half of flSubmitFrame: the value is taken and the GPU starts   *)
(* to write.                                                                *)
LEMMA BeginSubmitCore ==
  ASSUME ChannelAssumption, TypeOK, TypeOK', Links, Core, NEW p \in Producers, Producer(p),
         NEW s \in Slots, BeginSubmit(p, s)
  PROVE  Core'
<1>1. /\ Apart(p) /\ UNCHANGED consumerVars /\ UNCHANGED acceptVars /\ UNCHANGED reads
      /\ UNCHANGED <<generation, hasPending, pendingSlot, pendingReady, heldSlot, heldReady, retiredValue,
                     cReleases, ledger, peer>>
  BY ProducerApart, Consuming
<1>2. /\ UNCHANGED <<pc, pGeneration, slotSubmitValue, up, down, written, image, consumedValue, pReleases>>
      /\ pc[p] = "idle" /\ slotSubmitValue[p][s] = Reserved /\ submittingSlot[p] = NoSlot
      /\ submittingSlot' = [submittingSlot EXCEPT ![p] = s] /\ readyValue' = [readyValue EXCEPT ![p] = @ + 1]
  BY DEF BeginSubmit, slotOnly
<1>3. /\ InSync(p) /\ ~Unopened(p) /\ Coming(p) /\ Drawings(p) /\ Returns(p) /\ readyValue[p] \in Nat
      /\ Leases => /\ consumedValue[p] <= retiredValue
                   /\ Below(pReleases[p], retiredValue) /\ Below(down[p], retiredValue)
  BY <1>2, OwnerFacts
<1>4. submittingSlot'[p] = s /\ readyValue'[p] = readyValue[p] + 1
  BY <1>2 DEF TypeOK, SlotTypes
<1>5. Announced(p)' = Announced(p)
  BY <1>2, <1>3, <1>4, ConstantTypes DEF Announced
<1>6. Drawings(p)'
  BY <1>1, <1>2, <1>3, <1>4, <1>5 DEF Drawings
<1>7. Coming(p)'
  BY <1>1, <1>2, <1>3 DEF Coming
<1>8. Returns(p)'
  BY <1>1, <1>2, <1>3 DEF Returns
<1>9. Writes'
  <2>1. ASSUME NEW q \in Producers
        PROVE  /\ written'[q] <= readyValue'[q]
               /\ submittingSlot'[q] # NoSlot => readyValue'[q] > 0
               /\ submittingSlot'[q] # NoSlot => pc'[q] # "geometry"
    <3>1. CASE q = p
      <4>1. written[p] \in Nat /\ written[p] <= readyValue[p]
        BY ConstantTypes DEF Core, Writes, TypeOK, GpuTypes
      <4> QED BY <1>2, <1>3, <1>4, <3>1, <4>1
    <3>2. CASE q # p
      BY <1>1, <3>2 DEF Apart, Core, Writes
    <3> QED BY <3>1, <3>2
  <2> QED BY <1>1, <1>2, <2>1 DEF Core, Writes, Drawn, HeldRead
<1> QED BY <1>1, <1>2, <1>3, <1>6, <1>7, <1>8, <1>9, DrawCore

(* Its second half: the frame is announced, or the link is found broken. *)
LEMMA EndSubmitCore ==
  ASSUME ChannelAssumption, TypeOK, TypeOK', Links, Core, NEW p \in Producers, Producer(p), NEW f, EndSubmit(p, f)
  PROVE  Core'
<1>1. /\ Apart(p) /\ UNCHANGED consumerVars /\ UNCHANGED acceptVars /\ UNCHANGED reads
      /\ UNCHANGED <<generation, hasPending, pendingSlot, pendingReady, heldSlot, heldReady, retiredValue,
                     cReleases, ledger, peer>>
  BY ProducerApart, Consuming
<1>2. PICK s, v : s = submittingSlot[p] /\ v = readyValue[p]
  OBVIOUS
<1>3. /\ UNCHANGED <<pc, pGeneration, readyValue, down, consumedValue, pReleases>>
      /\ pc[p] = "idle" /\ s # NoSlot
      /\ slotSubmitValue' = [slotSubmitValue EXCEPT ![p][s] = v]
      /\ submittingSlot' = [submittingSlot EXCEPT ![p] = NoSlot]
      /\ up' = [up EXCEPT ![p] = Append(@, FrameReady(s, v))]
      /\ written' = written \/ written' = [written EXCEPT ![p] = v]
      /\ image' = [image EXCEPT ![s] = v]
  BY <1>2 DEF EndSubmit, slotOnly
<1>4. /\ InSync(p) /\ ~Unopened(p) /\ Owns(p) /\ Coming(p) /\ Drawings(p) /\ Returns(p) /\ readyValue[p] \in Nat
      /\ Leases => /\ consumedValue[p] <= retiredValue
                   /\ Below(pReleases[p], retiredValue) /\ Below(down[p], retiredValue)
  BY <1>3, OwnerFacts
<1>5. s \in Slots /\ v \in Values /\ v \in Nat /\ v > 0 /\ v # Reserved
  BY <1>2, <1>3, ConstantTypes DEF TypeOK, SlotTypes, Core, Writes
<1>6. /\ slotSubmitValue'[p][s] = v /\ \A t \in Slots : t # s => slotSubmitValue'[p][t] = slotSubmitValue[p][t]
      /\ submittingSlot'[p] = NoSlot /\ image'[s] = v /\ \A t \in Slots : t # s => image'[t] = image[t]
  BY <1>3, <1>5, CoreTypes DEF TypeOK, SlotTypes
<1>7. Announced(p) = v - 1 /\ Announced(p)' = v
  BY <1>2, <1>3, <1>6 DEF Announced
<1>8. slotSubmitValue[p][s] = Reserved /\ image[s] = 0
  BY <1>2, <1>3, <1>4, <1>5 DEF Drawings
<1>9. Unused(p, s)
  <2>1. 0 \in Nat /\ image[s] <= 0 /\ 0 <= heldReady /\ 0 <= retiredValue
    BY <1>8, CoreTypes
  <2>2. \A x \in reads : 0 < x.val
    BY CoreTypes DEF Core, ReadsGuarded
  <2> QED BY <1>4, <1>5, <2>1, <2>2, UnusedSlot
<1>10. PICK m : m = FrameReady(s, v)
  OBVIOUS
<1>11. m \in UpMessage /\ m.type = "FrameReady" /\ m.slot = s /\ m.val = v
  BY <1>5, <1>10, MessageTypes DEF FrameReady
<1>12. Pushes(up[p], up'[p], m)
  BY <1>3, <1>10, <1>11, LinkQueues
<1>13. /\ Len(up[p]) \in Nat /\ Len(up'[p]) = Len(up[p]) + 1
       /\ \A i \in 1 .. Len(up'[p]) :
            (i \in 1 .. Len(up[p]) /\ up'[p][i] = up[p][i]) \/ (i = Len(up'[p]) /\ up'[p][i] = m)
       /\ \A i \in 1 .. Len(up[p]) : up'[p][i] = up[p][i]
  BY <1>12, PushCases DEF Pushes
<1>14. \A i \in 1 .. Len(up[p]) : up[p][i].type = "FrameReady" =>
         /\ up[p][i].slot \in Slots /\ up[p][i].slot # s /\ up[p][i].val \in Nat /\ up[p][i].val <= v - 1
  <2>1. \A i \in 1 .. Len(up[p]) : up[p][i] \in UpMessage
    BY ElementOfSeq DEF TypeOK, LinkTypes
  <2> QED BY <1>4, <1>7, <1>9, <2>1, UpFields, ConstantTypes DEF Unused, Drawings
<1>15. heldReady <= v - 1 /\ (hasPending => pendingReady <= v - 1) /\ heldReady \in Nat /\ pendingReady \in Nat
  BY <1>4, <1>7, CoreTypes DEF Drawings
<1>16. Coming(p)'
  <2>1. SUFFICES ASSUME NEW i \in 1 .. Len(up'[p]), up'[p][i].type = "FrameReady"
                 PROVE  /\ image'[up'[p][i].slot] = up'[p][i].val
                        /\ up'[p][i].val > heldReady /\ (hasPending => up'[p][i].val > pendingReady)
                        /\ \A j \in 1 .. i - 1 : up'[p][j].type = "FrameReady" => up'[p][j].val < up'[p][i].val
    BY <1>1 DEF Coming
  <2>2. CASE i \in 1 .. Len(up[p]) /\ up'[p][i] = up[p][i]
    <3>1. \A j \in 1 .. i - 1 : up'[p][j] = up[p][j]
      BY <1>13, <2>2
    <3>2. image'[up[p][i].slot] = image[up[p][i].slot]
      BY <1>6, <1>14, <2>1, <2>2
    <3> QED BY <1>4, <2>1, <2>2, <3>1, <3>2 DEF Coming
  <2>3. CASE i = Len(up'[p]) /\ up'[p][i] = m
    <3>1. \A j \in 1 .. i - 1 : j \in 1 .. Len(up[p]) /\ up'[p][j] = up[p][j]
      BY <1>13, <2>3
    <3>2. image'[m.slot] = m.val /\ m.val > heldReady /\ (hasPending => m.val > pendingReady)
      BY <1>5, <1>6, <1>11, <1>15
    <3>3. ASSUME NEW j \in 1 .. i - 1, up'[p][j].type = "FrameReady" PROVE up'[p][j].val < m.val
      BY <1>5, <1>11, <1>14, <3>1, <3>3
    <3> QED BY <2>3, <3>2, <3>3
  <2> QED BY <1>13, <2>2, <2>3
<1>17. Drawings(p)'
  <2>1. \A t \in Slots : slotSubmitValue'[p][t] = Reserved => image'[t] = 0
    BY <1>4, <1>5, <1>6 DEF Drawings
  <2>2. ASSUME NEW t \in Slots, slotSubmitValue'[p][t] # Reserved
        PROVE  image'[t] = slotSubmitValue'[p][t] /\ slotSubmitValue'[p][t] <= v
    <3>1. CASE t = s
      BY <1>5, <1>6, <3>1
    <3>2. CASE t # s
      <4>1. slotSubmitValue[p][t] \in Nat
        BY ConstantTypes DEF TypeOK, SlotTypes
      <4>2. image[t] = slotSubmitValue[p][t] /\ slotSubmitValue[p][t] <= v - 1
        BY <1>4, <1>6, <1>7, <2>2, <3>2 DEF Drawings
      <4> QED BY <1>5, <1>6, <3>2, <4>1, <4>2
    <3> QED BY <3>1, <3>2
  <2>3. heldReady' <= v /\ (hasPending' => pendingReady' <= v)
    BY <1>1, <1>5, <1>15
  <2>4. ASSUME NEW i \in 1 .. Len(up'[p]), up'[p][i].type = "FrameReady" PROVE up'[p][i].val <= v
    <3>1. CASE i \in 1 .. Len(up[p]) /\ up'[p][i] = up[p][i]
      <4>1. up[p][i].val \in Nat /\ up[p][i].val <= v - 1 BY <1>14, <2>4, <3>1
      <4> QED BY <1>5, <3>1, <4>1
    <3>2. CASE up'[p][i] = m BY <1>5, <1>11, <3>2
    <3> QED BY <1>13, <3>1, <3>2
  <2> QED BY <1>3, <1>6, <1>7, <2>1, <2>2, <2>3, <2>4 DEF Drawings
<1>18. Returns(p)'
  BY <1>1, <1>3, <1>4 DEF Returns
<1>19. Writes'
  <2>1. \A q \in Producers : written[q] \in Nat /\ written[q] <= readyValue[q] /\ readyValue[q] \in Nat
    BY ConstantTypes DEF Core, Writes, TypeOK, GpuTypes, SlotTypes
  <2>2. ASSUME NEW q \in Producers
        PROVE  /\ written'[q] <= readyValue'[q] /\ written[q] <= written'[q] /\ written'[q] \in Nat
               /\ submittingSlot'[q] # NoSlot => readyValue'[q] > 0
               /\ submittingSlot'[q] # NoSlot => pc'[q] # "geometry"
    <3>1. CASE q = p
      <4>1. written'[p] = written[p] \/ written'[p] = v
        BY <1>3 DEF TypeOK, GpuTypes
      <4> QED BY <1>2, <1>3, <1>5, <1>6, <2>1, <3>1, <4>1
    <3>2. CASE q # p
      BY <1>1, <2>1, <3>2 DEF Apart, Core, Writes
    <3> QED BY <3>1, <3>2
  <2>3. Drawn(heldReady) => Drawn(heldReady)'
    <3>1. peer = None \/ peer \in Producers
      BY DEF TypeOK, PeerTypes
    <3> QED BY <1>1, <1>15, <2>1, <2>2, <3>1 DEF Drawn
  <2> QED BY <1>1, <2>2, <2>3 DEF Core, Writes, HeldRead
<1>20. \A t \in Slots : image'[t] = image[t] \/ Unused(p, t)
  BY <1>6, <1>9
<1> QED BY <1>1, <1>3, <1>4, <1>16, <1>17, <1>18, <1>19, <1>20, DrawCore

(* All of a producer's calls. *)
LEMMA ProducerCore ==
  ASSUME ChannelAssumption, TypeOK, TypeOK', Links, Links', Core, NEW p \in Producers, Producer(p)
  PROVE  Core'
<1>1. CASE AcquireBuffer(p)
  BY <1>1, AcquireBufferCore
<1>2. CASE \E s \in Slots : CancelBuffer(p, s) \/ BeginSubmit(p, s)
  BY <1>2, CancelCore, BeginSubmitCore
<1>3. CASE \E f \in Fences : EndSubmit(p, f)
  BY <1>3, EndSubmitCore
<1>4. CASE GeometryRelease(p)
  BY <1>4, GeometryReleaseCore
<1>5. CASE OpenRing(p) \/ (GeometryReply(p) /\ pGeneration'[p] # pGeneration[p])
  BY <1>5, ImportCore
<1>6. CASE \/ Connect(p) \/ OpenGreeted(p) \/ OpenBusy(p) \/ Leave(p)
           \/ \E s \in Slots : RetainBufferReference(p, s) \/ ReleaseBufferReference(p, s)
           \/ \E w \in Geometries : SendRequestGeometry(p, w)
           \/ GeometryReply(p) /\ pGeneration'[p] = pGeneration[p]
  BY <1>6, QuietCore
<1> QED BY <1>1, <1>2, <1>3, <1>4, <1>5, <1>6 DEF Producer

(* The inductive invariant. *)
Sound == TypeOK /\ Inv

(* The parts of the inductive invariant. *)
LEMMA SoundServes == ASSUME Sound PROVE TypeOK /\ Serves /\ Links /\ Peers /\ Core
BY DEF Sound, Inv, Peers, Serves

(* The consumer's creation establishes it. *)
LEMMA InitSound == ASSUME ChannelAssumption, Init PROVE Sound
<1> USE DEF Init
<1>1. TypeOK
  <2>1. /\ InitialGeometry \in Geometries /\ 0 \in Values /\ 0 \in Slots /\ NoSlot \in 0 .. NoSlot
        /\ 0 \in 0 .. Reserved /\ Blank \in [Slots -> Values]
    BY ConstantTypes DEF ChannelAssumption
  <2>2. RingTypes /\ PendingTypes /\ HeldTypes /\ PeerTypes /\ AcceptTypes
    BY <2>1 DEF RingTypes, PendingTypes, HeldTypes, PeerTypes, AcceptTypes
  <2>3. RetireTypes /\ GpuTypes /\ ImageTypes
    BY <2>1 DEF RetireTypes, GpuTypes, ImageTypes
  <2>4. SlotTypes
    BY <2>1 DEF SlotTypes
  <2>5. ProducerTypes /\ LinkTypes
    BY DEF ProducerTypes, LinkTypes
  <2> QED BY <2>2, <2>3, <2>4, <2>5 DEF TypeOK
<1>2. \A p \in Producers :
        /\ ~Owns(p) /\ ~Attached(p) /\ serving # p /\ Len(down[p]) = 0 /\ pc[p] = "new" /\ ~InSync(p)
  BY DEF Owns, Attached, InSync, ChannelAssumption
<1>3. Links
  BY <1>2 DEF Links, Link, Opening, Attached
<1>4. Peers
  BY DEF Peers
<1>5. Len(cReleases) = 0 /\ Len(ledger) = 0
  OBVIOUS
<1>6. Retirement /\ ReadsGuarded /\ Pictures /\ Starts /\ Producing /\ Defaults
  BY <1>2, <1>5 DEF Retirement, Below, ReadsGuarded, Pictures, Starts, Producing, Defaults
<1>7. Leasing
  BY <1>2, <1>5 DEF Leasing
<1>8. Writes
  BY DEF Writes
<1> QED BY <1>1, <1>3, <1>4, <1>6, <1>7, <1>8 DEF Sound, Inv, Core

(* A resize goes through or it leaves the ring as it was. *)
LEMMA ReallocCases ==
  ASSUME ChannelAssumption, TypeOK, PumpGeometryRealloc
  PROVE  \/ generation' # generation /\ image' = Blank /\ heldReady' = 0
         \/ generation' = generation /\ UNCHANGED <<heldReady, image>> /\ Settles
<1>1. generation \in Nat
  BY DEF TypeOK, RingTypes
<1>2. PICK n \in 0 .. Len(cReleases), w \in Values :
        /\ Advances(cReleases, retiredValue, n, w)
        /\ \/ generation' = generation + 1 /\ image' = Blank /\ heldReady' = 0
           \/ /\ retiredValue' = w /\ cReleases' = Rest(cReleases, n)
              /\ generation' = generation /\ UNCHANGED <<heldReady, image>>
  BY DEF PumpGeometryRealloc, ringVars
<1> QED BY <1>1, <1>2 DEF Settles

(* The accept thread preserves it, and changes generation only when nothing *)
(* is read.                                                                 *)
LEMMA AcceptThreadSound ==
  ASSUME ChannelAssumption, Sound, AcceptThread
  PROVE  Sound' /\ (generation' # generation => reads = {})
<1>1. TypeOK /\ Serves /\ Links /\ Peers /\ Core
  BY SoundServes
<1>2. TypeOK' /\ generation \in Nat
  BY <1>1, AcceptThreadTypes DEF TypeOK, RingTypes
<1>3. CASE \/ \E p \in Producers : Accept(p) \/ RefuseExtra(p)
           \/ HelloFails \/ AcceptEnds \/ Adopt \/ PumpEnds
  <2>1. Links' /\ Peers'
    BY <1>1, <1>2, <1>3, AcceptLinks, AttachLinks, PumpLinks
  <2>2. Core'
    BY <1>1, <1>2, <1>3, <2>1, AcceptCore
  <2>3. generation' = generation
    BY <1>3 DEF Accept, RefuseExtra, HelloFails, AcceptEnds, Adopt, PumpEnds, consumerVars, ringVars
  <2> QED BY <1>2, <2>1, <2>2, <2>3 DEF Sound, Inv
<1>4. CASE \/ AttachBusy \/ PumpGeometrySame \/ PumpGeometryRefused
           \/ PumpGeometryRealloc /\ generation' = generation
  <2>1. Links' /\ Peers'
    BY <1>1, <1>2, <1>4, AttachLinks, PumpLinks
  <2>2. Core'
    BY <1>1, <1>2, <1>4, <2>1, RefuseCore, ReallocCases
  <2>3. generation' = generation
    BY <1>4 DEF AttachBusy, PumpGeometrySame, PumpGeometryRefused, ringVars
  <2> QED BY <1>2, <2>1, <2>2, <2>3 DEF Sound, Inv
<1>5. CASE PumpFrame
  <2>1. Links' /\ Peers'
    BY <1>1, <1>2, <1>5, PumpLinks
  <2>2. Core'
    BY <1>1, <1>2, <1>5, PumpFrameCore
  <2>3. generation' = generation
    BY <1>5 DEF PumpFrame, ringVars
  <2> QED BY <1>2, <2>1, <2>2, <2>3 DEF Sound, Inv
<1>6. CASE AttachRing \/ (PumpGeometryRealloc /\ generation' # generation)
  <2>1. Links' /\ Peers'
    BY <1>1, <1>2, <1>6, AttachLinks, PumpLinks
  <2>2. Core' /\ reads = {}
    BY <1>1, <1>2, <1>6, <2>1, HandoverCore
  <2> QED BY <1>2, <2>1, <2>2 DEF Sound, Inv
<1> QED BY <1>3, <1>4, <1>5, <1>6 DEF AcceptThread

(* Every step preserves it. *)
LEMMA NextSound ==
  ASSUME ChannelAssumption, Sound, [Next]_vars
  PROVE  Sound' /\ (generation' # generation => reads = {})
<1>1. TypeOK /\ Serves /\ Links /\ Peers /\ Core
  BY SoundServes
<1>2. CASE AcceptThread
  BY <1>2, AcceptThreadSound
<1>3. CASE Consumer \/ Gpu
  <2>1. TypeOK' /\ Starts
    BY <1>1, <1>3, ConsumerTypes, GpuStepTypes DEF Core
  <2>2. Links' /\ Peers'
    BY <1>1, <1>3, <2>1, ConsumerLinks
  <2>3. Core'
    BY <1>1, <1>3, <2>1, ConsumerCore
  <2>4. generation' = generation
    BY <1>3 DEF Consumer, Gpu, LeaseStep, AcquireFrame, ReleaseSyncFd, ReleaseDeferred, SignalConsumed, LeaseFrame,
             CollectReadLeases, RetainReadLease, CompleteReadLease, CompleteReadLeaseSyncFd, CloseConsumer,
             GpuWriteDone, GpuReadDone, GpuLeaseDone, ledgerOnly, consumerVars, ringVars
  <2> QED BY <2>1, <2>2, <2>3, <2>4 DEF Sound, Inv
<1>4. ASSUME NEW p \in Producers, Producer(p) PROVE Sound' /\ generation' = generation
  <2>1. TypeOK'
    BY <1>1, <1>4, ProducerStepTypes
  <2>2. Links' /\ Peers'
    BY <1>1, <1>4, ProducerLinks
  <2>3. Core'
    BY <1>1, <1>4, <2>1, <2>2, ProducerCore
  <2>4. generation' = generation
    BY <1>1, <1>4, ProducerApart, Consuming
  <2> QED BY <2>1, <2>2, <2>3, <2>4 DEF Sound, Inv
<1>5. CASE UNCHANGED vars
  <2> USE <1>5 DEF vars, consumerVars, ringVars, pendingVars, heldVars, retireVars, peerVars, acceptVars, producerVars,
                  slotVars, linkVars, gpuVars
  <2>1. UNCHANGED <<generation, geometry, hasPending, pendingSlot, pendingReady, frameHeld, heldSlot, heldReady,
                    retiredValue, cReleases, ledger, peer, peerConnected, peerGone, stop, acc, serving, pc, pGeneration,
                    slotSubmitValue, consumedValue, readyValue, submittingSlot, pReleases, bufferRefs, up, down,
                    written, reads, image>>
    OBVIOUS
  <2>2. TypeOK'
    BY <1>1, TypesFrame DEF TypeOK
  <2>3. Links' /\ Peers'
    BY <1>1, <2>1, LinksFrame
  <2>4. Core'
    <3>1. Settles /\ \A q \in Producers :
             /\ AsksIdle(q) /\ UpTurn(q) /\ DownTurn(q) /\ (Owns(q)' <=> Owns(q)) /\ (Unopened(q)' <=> Unopened(q))
             /\ InSync(q)' <=> InSync(q)
      BY <2>1 DEF Settles, AsksIdle, UpTurn, DownTurn, Owns, Unopened, InSync, Attached
    <3> QED BY <1>1, <2>1, <2>2, <2>3, <3>1, TurnCore
  <2> QED BY <2>1, <2>2, <2>3, <2>4 DEF Sound, Inv
<1> QED BY <1>2, <1>3, <1>4, <1>5 DEF Next

(* For every ring size, capacity of the value space, set of producers and   *)
(* mode of the channel (GPU sync, deferred release, leases, fences), the    *)
(* inductive invariant holds in every reachable state: the types, the order *)
(* of the messages on every link, who owns the ring, and the values, fences *)
(* and leases that stand between a reader and the next writer of a slot     *)
(* (framelink_linux.cpp, framelink_android.cpp).                            *)
THEOREM ChannelSound == ASSUME ChannelAssumption PROVE Spec => []Sound
<1>1. Init => Sound
  BY InitSound
<1>2. Sound /\ [Next]_vars => Sound'
  BY NextSound
<1> QED BY <1>1, <1>2, PTL DEF Spec

(* What the inductive invariant says of one state. *)
LEMMA SoundIntact == ASSUME ChannelAssumption, Sound PROVE PosixIntact
<1>1. TypeOK /\ Links /\ Core
  BY SoundServes
<1>2. NoOverwrite /\ PendingIntact
  BY <1>1 DEF Core, Pictures, NoOverwrite, PendingIntact
<1>3. ASSUME NEW p \in Producers, pc[p] = "idle"
      PROVE  /\ consumedValue[p] <= readyValue[p]
             /\ \A i \in 1 .. Len(pReleases[p]) : pReleases[p][i].val <= readyValue[p]
             /\ \A i \in 1 .. Len(down[p]) :
                  down[p][i].type = "FrameReleased" /\ down[p][i].val <= readyValue[p]
  <2>1. Drawings(p) /\ Returns(p) /\ readyValue[p] \in Nat
    BY <1>1, <1>3, OwnerFacts
  <2>2. heldReady <= readyValue[p] /\ heldReady \in Nat
    BY <1>1, <2>1, CoreTypes DEF Drawings, Announced
  <2>3. down[p] \in Seq(ReleaseMessage) /\ pReleases[p] \in Seq(ReleaseMessage)
    BY <1>1, <1>3, QueueTyped
  <2>4. /\ \A i \in 1 .. Len(pReleases[p]) : pReleases[p][i] \in ReleaseMessage
        /\ \A i \in 1 .. Len(down[p]) : down[p][i] \in ReleaseMessage
    BY <2>3, ElementOfSeq
  <2>5. \A r \in ReleaseMessage : r.type = "FrameReleased" /\ r.val \in Nat
    BY ConstantTypes DEF ReleaseMessage
  <2>6. consumedValue[p] \in Nat
    BY <1>1, ConstantTypes DEF TypeOK, SlotTypes
  <2>7. /\ \A i \in 1 .. Len(pReleases[p]) : pReleases[p][i].val <= heldReady
        /\ \A i \in 1 .. Len(down[p]) : down[p][i].val <= heldReady
        /\ consumedValue[p] <= heldReady
    BY <2>1, <2>4, <2>5 DEF Returns, Below
  <2> QED BY <2>1, <2>2, <2>4, <2>5, <2>6, <2>7
<1> QED BY <1>1, <1>2, <1>3 DEF PosixIntact, ReleasesOnOwnTimeline

(* The invariant implies that one producer is attached and that a refusal   *)
(* has a cause.                                                             *)
LEMMA SoundHandedOut == ASSUME ChannelAssumption, Sound PROVE HandedOutWell
<1>1. TypeOK /\ Links /\ Core
  BY SoundServes
<1>2. OneProducer
  BY <1>1 DEF Links, Link, Opening, Owns, OneProducer
<1>3. LastIs(cReleases, heldReady) => cReleases # <<>> /\ cReleases[Len(cReleases)].val = heldReady
  BY <1>1, CoreTypes DEF LastIs
<1>4. BusyHasCause
  BY <1>1, <1>3 DEF Core, Defaults, BusyHasCause
<1> QED BY <1>2, <1>4 DEF HandedOutWell

(* The invariant implies that the held frame can be leased and a leased one *)
(* is unretired.                                                            *)
LEMMA SoundLeases == ASSUME ChannelAssumption, Sound PROVE LeasesHold
<1>1. TypeOK /\ Core
  BY SoundServes
<1>2. ASSUME Leases, frameHeld, NEW i \in 1 .. Len(ledger) PROVE ledger[i].slot # heldSlot /\ ledger[i].val < heldReady
  <2>1. HeldRead \in reads /\ Leased(i) /\ ledger[i].val \in Nat /\ heldReady \in Nat
    BY <1>1, <1>2, CoreTypes DEF Core, Leasing
  <2>2. image[heldSlot] = heldReady
    BY <1>1, <2>1 DEF Core, Pictures, HeldRead
  <2> QED BY <1>2, <2>1, <2>2 DEF Leased
<1>3. HeldFrameLeasable
  BY <1>2 DEF HeldFrameLeasable, Leasable
<1>4. LeasedMeansUnretired
  <2>1. SUFFICES ASSUME ledger # <<>> PROVE retiredValue < heldReady
    BY DEF LeasedMeansUnretired
  <2>2. Leases /\ 1 \in 1 .. Len(ledger)
    BY <1>1, <2>1, CoreTypes DEF Core, Leasing
  <2>3. retiredValue < ledger[1].val /\ ledger[1].val <= heldReady
    BY <1>1, <2>2 DEF Core, Leasing, Leased
  <2> QED BY <1>1, <2>2, <2>3, CoreTypes
<1> QED BY <1>3, <1>4 DEF LeasesHold

(* No image is overwritten while it is pending or read, whichever producer  *)
(* connects, resizes or leaves in between, and no FrameReleased of an       *)
(* earlier timeline reaches a producer that has opened a later one: what    *)
(* flAcquireBuffer relies on when it hands a slot out again.                *)
THEOREM ChannelIntact == ASSUME ChannelAssumption PROVE Spec => []PosixIntact
<1>1. Sound => PosixIntact
  BY SoundIntact
<1> QED BY <1>1, ChannelSound, PTL

(* At most one producer is attached to the ring, and on a default channel   *)
(* the consumer, once it holds and reads nothing, has retired or queued to  *)
(* retire its last frame, so that acceptLoop has no cause to answer Busy.   *)
THEOREM ChannelHandedOutWell == ASSUME ChannelAssumption PROVE Spec => []HandedOutWell
<1>1. Sound => HandedOutWell
  BY SoundHandedOut
<1> QED BY <1>1, ChannelSound, PTL

(* The frame in hand can always be leased, and while any lease is open the  *)
(* newest acquired frame is not retired, in whatever order the leases       *)
(* complete (flLeaseFrame, flCompleteReadLease, flCollectReadLeases).       *)
THEOREM ChannelLeasesHold == ASSUME ChannelAssumption PROVE Spec => []LeasesHold
<1>1. Sound => LeasesHold
  BY SoundLeases
<1> QED BY <1>1, ChannelSound, PTL

(* When a new producer takes the ring over, the frames of the old one are   *)
(* all drawn.                                                               *)
LEMMA ReattachStep ==
  ASSUME ChannelAssumption, Sound, [Next]_vars, generation' # generation, acc = "hello"
  PROVE  PendingSignalled /\ (heldReady > 0 => Drawn(heldReady))
<1>1. TypeOK /\ Serves /\ Links /\ Peers /\ Core
  BY SoundServes
<1>2. AttachRing
  <2>1. AcceptThread
    <3>1. ASSUME NEW p \in Producers, Producer(p) PROVE FALSE
      BY <1>1, <3>1, ProducerApart, Consuming
    <3>2. ~Consumer /\ ~Gpu
      BY DEF Consumer, Gpu, LeaseStep, AcquireFrame, ReleaseSyncFd, ReleaseDeferred, SignalConsumed, LeaseFrame,
             CollectReadLeases, RetainReadLease, CompleteReadLease, CompleteReadLeaseSyncFd, CloseConsumer,
             GpuWriteDone, GpuReadDone, GpuLeaseDone, ledgerOnly, consumerVars, ringVars
    <3>3. ~UNCHANGED vars
      BY DEF vars, consumerVars, ringVars
    <3> QED BY <3>1, <3>2, <3>3 DEF Next
  <2> QED BY <2>1 DEF AcceptThread, Accept, RefuseExtra, HelloFails, AcceptEnds, Adopt, PumpEnds, AttachBusy, PumpFrame,
                      PumpGeometrySame, PumpGeometryRefused, PumpGeometryRealloc, Incoming, consumerVars, ringVars
<1>3. PendingSignalled
  BY <1>2 DEF AttachRing, StorageBusy
<1>4. reads = {}
  BY NextSound
<1>5. heldReady > 0 => Drawn(heldReady)
  BY <1>1, <1>4 DEF Core, Writes, ChannelAssumption
<1> QED BY <1>3, <1>5

(* The ring's timeline starts over only when no read is outstanding, and    *)
(* for a new producer only when the previous one's pending and held frames  *)
(* were completely drawn (the StorageBusy test of acceptLoop and of         *)
(* RequestGeometry).                                                        *)
THEOREM ChannelQuietHandover == ASSUME ChannelAssumption PROVE Spec => QuietHandover
<1>1. Sound /\ [Next]_vars => [generation' # generation => reads = {}]_vars
  BY NextSound
<1>2. Sound /\ [Next]_vars =>
        [generation' # generation /\ acc = "hello" => PendingSignalled /\ (heldReady > 0 => Drawn(heldReady))]_vars
  BY ReattachStep
<1> QED BY <1>1, <1>2, ChannelSound, PTL DEF Spec, QuietHandover, NewTimelineOnlyWhenQuiet, ReattachAfterWrites

(* Only one handle is attached, and Drawing is what it has reserved. *)
LEMMA DrawingOf ==
  ASSUME Links, NEW p \in Producers, Attached(p)
  PROVE  Drawing = {s \in Slots : slotSubmitValue[p][s] = Reserved}
BY DEF Links, Link, Opening, Owns, Drawing

(* The same after a step. *)
LEMMA DrawingNext ==
  ASSUME Links', NEW p \in Producers, Attached(p)'
  PROVE  Drawing' = {s \in Slots : slotSubmitValue'[p][s] = Reserved}
BY DEF Links, Link, Opening, Owns, Drawing

(* Who draws is decided by the producers' states and their slots alone. *)
LEMMA DrawingKept ==
  ASSUME UNCHANGED <<pc, slotSubmitValue>>
  PROVE  Drawing' = Drawing
BY DEF Drawing, Attached

(* What FrameRing allows in one step of the channel. *)
RingStep == [Ring!Next]_(Ring!vars)

(* A step that changes none of the ring's pictures, reads and reservations. *)
LEMMA RingStutter ==
  ASSUME UNCHANGED <<image, heldReady, reads>>, Drawing' = Drawing
  PROVE  RingStep
BY DEF RingStep, Ring!vars

(* A step that only ends reads. *)
LEMMA RingFinish ==
  ASSUME UNCHANGED <<image, heldReady>>, Drawing' = Drawing, reads' \subseteq reads
  PROVE  RingStep
<1>1. PICK R : R = reads \ reads'
  OBVIOUS
<1>2. R \in SUBSET reads /\ reads' = reads \ R
  BY <1>1
<1>3. Ring!Finish(R)
  BY <1>2 DEF Ring!Finish
<1> QED BY <1>2, <1>3 DEF RingStep, Ring!Next

(* A step that only gives reservations up. *)
LEMMA RingAbandon ==
  ASSUME UNCHANGED <<image, heldReady, reads>>, Drawing' \subseteq Drawing
  PROVE  RingStep
<1>1. PICK S : S = Drawing \ Drawing'
  OBVIOUS
<1>2. S \in SUBSET Drawing /\ Drawing' = Drawing \ S
  BY <1>1
<1>3. Ring!Abandon(S)
  BY <1>2 DEF Ring!Abandon
<1> QED BY <1>2, <1>3 DEF RingStep, Ring!Next

(* The accept thread's turns, as steps of the ring. *)
LEMMA RingAccept ==
  ASSUME ChannelAssumption, Sound, AcceptThread
  PROVE  RingStep
<1>1. TypeOK /\ Serves /\ Links /\ Peers /\ Core
  BY SoundServes
<1>2. UNCHANGED <<pc, slotSubmitValue, reads>>
  BY DEF AcceptThread, Accept, RefuseExtra, HelloFails, AcceptEnds, Adopt, PumpEnds, AttachBusy, AttachRing, PumpFrame,
         PumpGeometrySame, PumpGeometryRefused, PumpGeometryRealloc, producerVars, slotVars, gpuVars
<1>3. Drawing' = Drawing
  BY <1>2, DrawingKept
<1>4. CASE AttachRing \/ (PumpGeometryRealloc /\ generation' # generation)
  <2>1. generation' # generation /\ image' = Blank /\ heldReady' = 0
    <3>1. CASE AttachRing
      BY <1>1, <3>1 DEF AttachRing, TypeOK, RingTypes
    <3>2. CASE PumpGeometryRealloc /\ generation' # generation
      BY <1>1, <3>2, ReallocCases
    <3> QED BY <1>4, <3>1, <3>2
  <2>2. reads = {}
    BY <2>1, AcceptThreadSound
  <2>3. ASSUME NEW p \in Producers, Attached(p), NEW s \in Slots, slotSubmitValue[p][s] = Reserved PROVE FALSE
    <3>1. Owns(p) /\ Upward(p)
      BY <1>1, <2>3 DEF Links, Link, Opening
    <3>2. CASE AttachRing
      BY <3>1, <3>2 DEF AttachRing, Owns
    <3>3. CASE PumpGeometryRealloc
      <4>1. acc = "pump" /\ serving = p /\ up[p] # <<>> /\ Head(up[p]).type = "RequestGeometry" /\ Received(p)
        BY <3>1, <3>3 DEF PumpGeometryRealloc, Incoming, Owns
      <4>2. Head(up[p]) = up[p][1] /\ Len(up[p]) \in Nat /\ Len(up[p]) # 0
        BY <1>1, <4>1, LinkQueues
      <4>3. 1 \in 1 .. Len(up[p])
        BY <4>2
      <4>4. pc[p] = "geometry" /\ ~Unopened(p)
        BY <2>3, <3>1, <4>1, <4>2, <4>3 DEF Upward, Attached
      <4>5. InSync(p)
        BY <2>3, <4>4 DEF InSync, Unopened
      <4> QED BY <1>1, <2>3, <4>4, <4>5 DEF Core, Producing, Drawings
    <3> QED BY <1>4, <3>2, <3>3
  <2>4. Drawing = {}
    BY <2>3 DEF Drawing
  <2>5. Ring!Restart
    BY <1>2, <1>3, <2>1, <2>2, <2>4 DEF Ring!Restart, Ring!Blank, Blank
  <2> QED BY <2>5 DEF RingStep, Ring!Next
<1>5. CASE ~(AttachRing \/ (PumpGeometryRealloc /\ generation' # generation))
  <2>1. UNCHANGED <<image, heldReady>>
    <3>1. CASE PumpGeometryRealloc
      BY <1>1, <1>5, <3>1, ReallocCases
    <3>2. CASE ~PumpGeometryRealloc
      BY <1>5, <3>2 DEF AcceptThread, Accept, RefuseExtra, HelloFails, AcceptEnds, Adopt, PumpEnds, AttachBusy, PumpFrame,
           PumpGeometrySame, PumpGeometryRefused, consumerVars, heldVars
    <3> QED BY <3>1, <3>2
  <2> QED BY <1>2, <1>3, <2>1, RingStutter
<1> QED BY <1>4, <1>5

(* The consumer's calls and the GPU's steps, as steps of the ring. *)
LEMMA RingConsumer ==
  ASSUME ChannelAssumption, Sound, Consumer \/ Gpu
  PROVE  RingStep
<1>1. TypeOK /\ Core
  BY SoundServes
<1>2. UNCHANGED <<pc, slotSubmitValue, image>>
  BY DEF Consumer, Gpu, LeaseStep, AcquireFrame, ReleaseSyncFd, ReleaseDeferred, SignalConsumed, LeaseFrame,
         CollectReadLeases, RetainReadLease, CompleteReadLease, CompleteReadLeaseSyncFd, CloseConsumer,
         GpuWriteDone, GpuReadDone, GpuLeaseDone, ledgerOnly, producerVars, slotVars
<1>3. Drawing' = Drawing
  BY <1>2, DrawingKept
<1>4. CASE AcquireFrame
  <2>1. /\ heldReady' = pendingReady /\ reads' = reads \union {[slot |-> pendingSlot, val |-> pendingReady]}
        /\ hasPending
    BY <1>4 DEF AcquireFrame
  <2>2. pendingReady > heldReady /\ image[pendingSlot] = pendingReady /\ pendingSlot \in Slots
    BY <1>1, <2>1, CoreTypes DEF Core, Pictures
  <2>3. Ring!Take(pendingSlot)
    BY <1>2, <1>3, <2>1, <2>2 DEF Ring!Take
  <2> QED BY <2>2, <2>3 DEF RingStep, Ring!Next
<1>5. CASE ~AcquireFrame
  <2>1. heldReady' = heldReady
    BY <1>5 DEF Consumer, Gpu, LeaseStep, ReleaseSyncFd, ReleaseDeferred, SignalConsumed, LeaseFrame,
         CollectReadLeases, RetainReadLease, CompleteReadLease, CompleteReadLeaseSyncFd, CloseConsumer,
         GpuWriteDone, GpuReadDone, GpuLeaseDone, ledgerOnly, consumerVars, heldVars
  <2>2. reads' \subseteq reads
    BY <1>5 DEF Consumer, Gpu, LeaseStep, ReleaseSyncFd, ReleaseDeferred, SignalConsumed, LeaseFrame,
         CollectReadLeases, RetainReadLease, CompleteReadLease, CompleteReadLeaseSyncFd, CloseConsumer,
         GpuWriteDone, GpuReadDone, GpuLeaseDone, ledgerOnly, gpuVars, ReadsAfter
  <2> QED BY <1>2, <1>3, <2>1, <2>2, RingFinish
<1> QED BY <1>4, <1>5

(* A producer's calls, as steps of the ring. *)
LEMMA RingProducer ==
  ASSUME ChannelAssumption, Sound, Sound', NEW p \in Producers, Producer(p)
  PROVE  RingStep
<1>1. TypeOK /\ Links /\ Core /\ TypeOK' /\ Links'
  BY SoundServes DEF Sound, Inv
<1>2. Apart(p) /\ UNCHANGED <<reads, heldReady>>
  BY <1>1, ProducerApart, Consuming
<1>3. pc \in [Producers -> {"new", "connecting", "greeted", "idle", "geometry", "gone"}]
      /\ slotSubmitValue \in [Producers -> [Slots -> 0 .. Reserved]] /\ image \in [Slots -> Values]
  BY <1>1 DEF TypeOK, ProducerTypes, SlotTypes, ImageTypes
<1>4. ASSUME ~Attached(p)', image' = image PROVE RingStep
  <2>1. Drawing' \subseteq Drawing
    BY <1>2, <1>4 DEF Drawing, Apart, Attached
  <2> QED BY <1>2, <1>4, <2>1, RingAbandon
<1>5. ASSUME Attached(p), Attached(p)', image' = image, slotSubmitValue'[p] = slotSubmitValue[p] PROVE RingStep
  <2>1. /\ Drawing = {s \in Slots : slotSubmitValue[p][s] = Reserved}
        /\ Drawing' = {s \in Slots : slotSubmitValue'[p][s] = Reserved}
    BY <1>1, <1>5, DrawingOf, DrawingNext
  <2> QED BY <1>2, <1>5, <2>1, RingStutter
<1>6. CASE \/ Connect(p) \/ OpenGreeted(p) \/ OpenBusy(p) \/ Leave(p)
  <2>1. pc'[p] \in {"connecting", "greeted", "new", "gone"} /\ image' = image
    BY <1>3, <1>6 DEF Connect, OpenGreeted, OpenBusy, Leave
  <2> QED BY <1>4, <2>1 DEF Attached
<1>7. CASE OpenRing(p) \/ GeometryReply(p)
  <2>1. pc'[p] = "idle" /\ image' = image
    BY <1>3, <1>7 DEF OpenRing, GeometryReply
  <2>2. Attached(p)'
    BY <2>1 DEF Attached
  <2>3. CASE slotSubmitValue' = slotSubmitValue /\ GeometryReply(p)
    <3>1. Attached(p)
      BY <2>3 DEF GeometryReply, Attached
    <3> QED BY <1>5, <2>1, <2>2, <2>3, <3>1
  <2>4. CASE slotSubmitValue' = [slotSubmitValue EXCEPT ![p] = [s \in Slots |-> 0]]
    <3>1. \A s \in Slots : slotSubmitValue'[p][s] = 0 /\ Reserved # 0
      BY <1>3, <2>4, ConstantTypes
    <3>2. Drawing' = {}
      BY <1>1, <2>2, <3>1, DrawingOf, DrawingNext
    <3> QED BY <1>2, <2>1, <3>2, RingAbandon
  <2> QED BY <1>7, <2>3, <2>4 DEF OpenRing, GeometryReply, ImportRing
<1>8. CASE \/ \E s \in Slots : RetainBufferReference(p, s) \/ ReleaseBufferReference(p, s) \/ BeginSubmit(p, s)
           \/ \E w \in Geometries : SendRequestGeometry(p, w)
           \/ GeometryRelease(p)
  <2>1. /\ image' = image /\ slotSubmitValue' = slotSubmitValue /\ pc[p] \in {"idle", "geometry"}
        /\ pc'[p] \in {"idle", "geometry"}
    BY <1>3, <1>8 DEF RetainBufferReference, ReleaseBufferReference, BeginSubmit, SendRequestGeometry, GeometryRelease,
                     slotVars, slotOnly, Attached
  <2> QED BY <1>5, <2>1 DEF Attached
<1>9. ASSUME NEW s \in Slots, CancelBuffer(p, s) PROVE RingStep
  <2>1. /\ image' = image /\ pc[p] = "idle" /\ pc' = pc
        /\ slotSubmitValue' = [slotSubmitValue EXCEPT ![p][s] = 0]
    BY <1>9 DEF CancelBuffer, slotOnly
  <2>2. Attached(p) /\ Attached(p)'
    BY <2>1 DEF Attached
  <2>3. \A t \in Slots : slotSubmitValue'[p][t] = Reserved => slotSubmitValue[p][t] = Reserved
    BY <1>3, <2>1, ConstantTypes
  <2>4. Drawing' \subseteq Drawing
    BY <1>1, <2>2, <2>3, DrawingOf, DrawingNext
  <2> QED BY <1>2, <2>1, <2>4, RingAbandon
<1>10. CASE AcquireBuffer(p)
  <2>1. pc[p] = "idle" /\ pc' = pc
    BY <1>10 DEF AcquireBuffer
  <2>2. Attached(p) /\ Attached(p)'
    BY <2>1 DEF Attached
  <2>3. CASE UNCHANGED <<slotSubmitValue, image>>
    BY <1>5, <2>2, <2>3
  <2>4. ASSUME NEW s \in Slots, slotSubmitValue[p][s] # Reserved, Unused(p, s),
               slotSubmitValue' = [slotSubmitValue EXCEPT ![p][s] = Reserved], image' = [image EXCEPT ![s] = 0]
        PROVE  RingStep
    <3>1. \A t \in Slots : slotSubmitValue'[p][t] = Reserved <=> (t = s \/ slotSubmitValue[p][t] = Reserved)
      BY <1>3, <2>4
    <3>2. s \notin Drawing /\ Drawing' = Drawing \union {s}
      BY <1>1, <2>2, <2>4, <3>1, DrawingOf, DrawingNext
    <3>3. Ring!Draw(s)
      BY <1>2, <2>4, <3>2 DEF Ring!Draw, Unused
    <3> QED BY <3>3 DEF RingStep, Ring!Next
  <2> QED BY <1>1, <1>10, <2>3, <2>4, AcquiredSlot
<1>11. ASSUME NEW f \in Fences, EndSubmit(p, f) PROVE RingStep
  <2>1. PICK s, v : s = submittingSlot[p] /\ v = readyValue[p]
    OBVIOUS
  <2>2. /\ pc[p] = "idle" /\ pc' = pc /\ s # NoSlot
        /\ slotSubmitValue' = [slotSubmitValue EXCEPT ![p][s] = v] /\ image' = [image EXCEPT ![s] = v]
    BY <1>11, <2>1 DEF EndSubmit, slotOnly
  <2>3. Attached(p) /\ Attached(p)'
    BY <2>2 DEF Attached
  <2>4. Drawings(p) /\ Announced(p) = v - 1 /\ v \in Nat /\ v \in Values
    BY <1>1, <2>1, <2>2, OwnerFacts DEF Announced, TypeOK, SlotTypes
  <2>5. s \in Slots /\ slotSubmitValue[p][s] = Reserved /\ v > 0 /\ v # Reserved
    BY <1>1, <2>1, <2>2, <2>4, ConstantTypes DEF TypeOK, SlotTypes, Drawings, Core, Writes
  <2>6. v \in 1 .. MaxValue
    BY <2>4, <2>5 DEF Values
  <2>7. \A t \in Slots : image[t] < v
    <3>1. \A t \in Slots : image[t] = 0 \/ image[t] <= v - 1
      BY <2>4 DEF Drawings
    <3>2. \A t \in Slots : image[t] \in Nat
      BY <1>3, ConstantTypes
    <3> QED BY <2>4, <2>5, <3>1, <3>2
  <2>8. \A t \in Slots : slotSubmitValue'[p][t] = Reserved <=> (t # s /\ slotSubmitValue[p][t] = Reserved)
    BY <1>3, <2>2, <2>5
  <2>9. s \in Drawing /\ Drawing' = Drawing \ {s}
    BY <1>1, <2>3, <2>5, <2>8, DrawingOf, DrawingNext
  <2>10. Ring!Publish(s, v)
    BY <1>2, <2>2, <2>7, <2>9 DEF Ring!Publish
  <2> QED BY <2>5, <2>6, <2>10 DEF RingStep, Ring!Next
<1> QED BY <1>6, <1>7, <1>8, <1>9, <1>10, <1>11 DEF Producer

(* A new channel is an empty ring. *)
LEMMA RingInit == ASSUME Init PROVE Ring!Init
<1>1. Drawing = {}
  <2>1. \A p \in Producers : ~Attached(p)
    BY DEF Init, Attached
  <2> QED BY <2>1 DEF Drawing
<1>2. image = Ring!Blank /\ reads = {} /\ heldReady = 0
  BY DEF Init, Ring!Blank, Blank
<1> QED BY <1>1, <1>2 DEF Ring!Init

(* Every step of the channel is a step of the ring or leaves it alone. *)
LEMMA RingMoves ==
  ASSUME ChannelAssumption, Sound, Sound', [Next]_vars
  PROVE  RingStep
<1>1. CASE UNCHANGED vars
  <2>1. UNCHANGED <<pc, slotSubmitValue, image, reads, heldReady>>
    BY <1>1 DEF vars, producerVars, slotVars, gpuVars, consumerVars, heldVars
  <2> QED BY <2>1, DrawingKept, RingStutter
<1> QED BY <1>1, RingAccept, RingConsumer, RingProducer DEF Next

(* The channel implements FrameRing: its two processes, the GPU and the     *)
(* messages between them appear to a client as one ring of slots in which   *)
(* no slot is drawn while it is read and frames are taken in increasing     *)
(* order.                                                                   *)
THEOREM ChannelImplementsFrameRing == ASSUME ChannelAssumption PROVE Spec => ImplementsFrameRing
<1>1. Init => Ring!Init
  BY RingInit
<1>2. Sound /\ Sound' /\ [Next]_vars => [Ring!Next]_(Ring!vars)
  BY RingMoves DEF RingStep
<1> QED BY <1>1, <1>2, ChannelSound, PTL DEF Spec, ImplementsFrameRing, Ring!Spec

=============================================================================
