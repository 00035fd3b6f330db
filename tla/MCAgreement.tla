---------------------------- MODULE MCAgreement ----------------------------
(***************************************************************************)
(* What the two ends of a session have to agree on, for TLC: the session   *)
(* clock, the session contract and the memory agreement.  A behaviour runs *)
(* one of the parts, the one `part' names, and leaves the others in an     *)
(* initial state.                                                          *)
(***************************************************************************)
EXTENDS SessionClock

CONSTANTS hd, sd, pcm, sample, render, dmabuf, ahb, copy, upload, alien

VARIABLES
  part,
  producer, consumer, wires, current, retired,
  offer, session, at, inbox, heard, accepted, result, applied, joined

contract == <<producer, consumer, wires, current, retired>>
memory   == <<offer, session, at, inbox, heard, accepted, result, applied, joined>>
mcvars   == <<vars, contract, memory, part>>

-----------------------------------------------------------------------------
(* Offers and configurations of the session contract.  Of the video formats, *)
(* two are the same rate written differently; the bad ones are no rates.     *)
V(p, n, d) == [picture |-> p, num |-> n, den |-> d]
A(s, r)    == [sample |-> s, rate |-> r]

Video ==
  {<<>>, <<V(hd, 30, 1)>>, <<V(hd, 60, 2)>>, <<V(sd, 30, 1), V(hd, 60, 2)>>, <<V(hd, 30, 1), V(sd, 30, 1)>>}
Audio == {<<>>, <<A(pcm, 44)>>, <<A(pcm, 44), A(pcm, 48)>>, <<A(pcm, 48), A(pcm, 44)>>, <<A(pcm, 48)>>}
NoVideo == [picture |-> 0, num |-> 0, den |-> 0]
NoAudio == [sample |-> 0, rate |-> 0]
BadVideo == {<<V(hd, 30, 0)>>, <<V(hd, 30, 1), V(sd, 0, 1)>>}

ManyOffers ==
  [version : {1, 2}, video : Video, audio : Audio]
    \union [version : {2, 3}, video : BadVideo, audio : {<<A(pcm, 48)>>}]
    \union [version : {2}, video : {<<>>}, audio : {<<A(pcm, 44), A(pcm, 48), A(pcm, 44)>>}]

FewOffers ==
  [version : {1, 2}, video : {<<V(hd, 60, 2)>>, <<V(sd, 30, 1), V(hd, 30, 1)>>},
   audio : {<<A(pcm, 48)>>, <<A(pcm, 44), A(pcm, 48)>>}]
    \union [version : {2}, video : {<<>>}, audio : {<<A(pcm, 48)>>}]

Config(ver, id, gen, vt, au) ==
  [version |-> ver, id |-> id, clock |-> 1, generation |-> gen, videoTrack |-> vt, audioTrack |-> au,
   video |-> IF vt = 0 THEN NoVideo ELSE V(hd, 30, 1),
   audio |-> IF au = 0 THEN NoAudio ELSE A(pcm, 48),
   epoch |-> 3, videoQueue |-> IF vt = 0 THEN 0 ELSE 1, audioQueue |-> IF au = 0 THEN 0 ELSE 1, timeout |-> 1]

ManyConfigs ==
  {Config(ver, 1, 1, t[1], t[2]) : ver \in {1, 2}, t \in {<<1, 2>>, <<1, 0>>, <<0, 2>>}}
    \union {Config(2, 1, 0, 1, 2), Config(2, 1, 1, 1, 1)}

FewConfigs ==
  {Config(2, 1, 1, 1, 2), Config(2, 1, 2, 1, 2), Config(2, 2, 3, 1, 2), Config(2, 1, 3, 3, 2),
   Config(1, 1, 1, 1, 2), Config(1, 1, 2, 1, 2), Config(2, 1, 2, 0, 2)}

Codec ==
  INSTANCE SessionContract WITH Pictures <- {hd, sd}, Samples <- {pcm}, Rates <- {44, 48}, Preferred <- 48,
    MaxFormats <- 2, MaxBudget <- 2, MaxTime <- 7, Offers <- ManyOffers, Configs <- ManyConfigs, Foreign <- {}

(* Another selection of the same generation; an older header; bytes in the   *)
(* reserved part; an epoch that would be negative; no time limit.            *)
FewForeign ==
  LET w == Codec!Encode(Config(2, 1, 2, 1, 2))
  IN  {w, [w EXCEPT !.magic = "FVS1"], [w EXCEPT !.reserved = 1],
       [w EXCEPT !.epoch = Codec!Unsigned(-1)], [w EXCEPT !.body.timeout = 0]}

Contract ==
  INSTANCE SessionContract WITH Pictures <- {hd, sd}, Samples <- {pcm}, Rates <- {44, 48}, Preferred <- 48,
    MaxFormats <- 2, MaxBudget <- 2, MaxTime <- 7, Offers <- FewOffers, Configs <- FewConfigs, Foreign <- FewForeign

-----------------------------------------------------------------------------
(* Offers of the memory agreement. *)
R(q, t, o) == [version |-> 1, required |-> q, preferred |-> {render}, resources |-> t, operations |-> o, reserved |-> 0]
P(t, u, o) == [version |-> 1, resources |-> t, usage |-> u, operations |-> o, reserved |-> 0]

Requirements ==
  {R({}, {dmabuf, ahb}, {}), R({sample}, {dmabuf}, {copy}), R({sample}, {dmabuf, ahb}, {copy, upload}),
   R({render}, {ahb}, {copy, upload})}
Paths == {P({dmabuf}, {sample}, {}), P({dmabuf}, {sample, render}, {copy}), P({ahb}, {sample}, {upload})}

(* Another version, an unknown bit, no resource, two of them, no binding. *)
BadOffers ==
  LET r == R({}, {dmabuf}, {copy}) p == P({dmabuf}, {sample}, {copy})
  IN  {[r |-> [r EXCEPT !.version = 2], p |-> p, binding |-> 1], [r |-> [r EXCEPT !.operations = {alien}], p |-> p, binding |-> 1],
       [r |-> [r EXCEPT !.resources = {}], p |-> p, binding |-> 1], [r |-> r, p |-> P({dmabuf, ahb}, {}, {}), binding |-> 1],
       [r |-> r, p |-> p, binding |-> 0]}

GoodOffers == [r : Requirements, p : Paths, binding : {1}]
BoundOffers ==
  [r : {R({sample}, {dmabuf}, {copy}), R({}, {dmabuf, ahb}, {})},
   p : {P({dmabuf}, {sample}, {}), P({dmabuf}, {sample, render}, {copy})}, binding : {1, 2}]

(* What a build with version 2 of the policy would send. *)
LaterOffers == {o \in BadOffers : o.r.version = 2}

Two == {"producer", "consumer"}
Own == [e \in Two |-> IF e = "producer" THEN {copy} ELSE {}]

Policy ==
  INSTANCE MemoryPolicy WITH Usages <- {sample, render}, Resources <- {dmabuf, ahb}, Operations <- {copy, upload},
    MaxEndpoints <- 3

NeighbourWires ==
  {Policy!Encode(r) : r \in Requirements} \union {[Policy!Encode(R({}, {dmabuf}, {copy})) EXCEPT !.magic = "FMR2"]}

(* Any operation failing, in the same and in different sessions; bindings    *)
(* that differ, with one native element; nothing failing.                    *)
Memory ==
  INSTANCE MemoryAgreement WITH Usages <- {sample, render}, Resources <- {dmabuf, ahb}, Operations <- {copy, upload},
    MaxEndpoints <- 3, MemoryOffers <- GoodOffers \union BadOffers, Sessions <- {1, 2}, Platform <- dmabuf, Mandatory <- Own,
    Native <- Two, Later <- LaterOffers, Neighbours <- NeighbourWires, Faults <- TRUE

Bound ==
  INSTANCE MemoryAgreement WITH Usages <- {sample, render}, Resources <- {dmabuf, ahb}, Operations <- {copy, upload},
    MaxEndpoints <- 3, MemoryOffers <- BoundOffers, Sessions <- {1}, Platform <- dmabuf, Mandatory <- Own,
    Native <- {"consumer"}, Later <- LaterOffers, Neighbours <- NeighbourWires, Faults <- TRUE

Fine ==
  INSTANCE MemoryAgreement WITH Usages <- {sample, render}, Resources <- {dmabuf, ahb}, Operations <- {copy, upload},
    MaxEndpoints <- 3, MemoryOffers <- GoodOffers \union BadOffers, Sessions <- {1}, Platform <- dmabuf, Mandatory <- Own,
    Native <- Two, Later <- LaterOffers, Neighbours <- NeighbourWires, Faults <- FALSE

ASSUME AgreementAssumption ==
  /\ Codec!ContractAssumption /\ Contract!ContractAssumption
  /\ Memory!MemoryAssumption /\ Bound!MemoryAssumption /\ Fine!MemoryAssumption

-----------------------------------------------------------------------------
StillClock    == epoch = 0 /\ source = 0 /\ target = 0 /\ samples = 0 /\ sent = 0 /\ next = Range
StillContract == producer = 0 /\ consumer = 0 /\ wires = {} /\ current = Codec!Unset /\ retired = {}
StillMemory   == Bound!Init /\ \A e \in Two : offer[e] = CHOOSE o \in BoundOffers : TRUE

MCInit ==
  /\ part \in {"clock", "offers", "messages", "memory", "bound", "fine"}
  /\ CASE part = "memory" -> Memory!Init
       [] part = "bound"  -> Bound!Init
       [] part = "fine"   -> Fine!Init
       [] OTHER           -> StillMemory
  /\ CASE part = "offers"   -> Codec!Init
       [] part = "messages" -> Contract!Init
       [] OTHER             -> StillContract
  /\ IF part = "clock" THEN Init ELSE StillClock

MCNext ==
  /\ \/ part = "clock"    /\ Next          /\ UNCHANGED <<contract, memory>>
     \/ part = "offers"   /\ Codec!Next    /\ UNCHANGED <<vars, memory>>
     \/ part = "messages" /\ Contract!Next /\ UNCHANGED <<vars, memory>>
     \/ part = "memory"   /\ Memory!Next   /\ UNCHANGED <<vars, contract>>
     \/ part = "bound"    /\ Bound!Next    /\ UNCHANGED <<vars, contract>>
     \/ part = "fine"     /\ Fine!Next     /\ UNCHANGED <<vars, contract>>
  /\ UNCHANGED part

MCSpec ==
  /\ MCInit /\ [][MCNext]_mcvars
  /\ \A n \in Bound!Fair : WF_memory(part = "bound" /\ Bound!FairStep(n))
  /\ \A n \in Fine!Fair  : WF_memory(part = "fine" /\ Fine!FairStep(n))

-----------------------------------------------------------------------------
(* SessionContract: negotiation finds a common selection exactly if there is *)
(* one, by the documented preference, and the peer's own check accepts it;   *)
(* what is accepted was offered by both ends and reads back as it was        *)
(* written; a configuration once replaced never comes back, however late or  *)
(* often it arrives (framelink_session.cpp).                                 *)
ContractSound ==
  /\ part = "offers" => Codec!NegotiationComplete /\ Codec!SelectionAccepted
  /\ part = "messages" => Contract!TypeOK /\ Contract!WireIsCanonical /\ Contract!AcceptedIsAgreed /\ Contract!NeverReturns

(* MemoryAgreement: the success of one end means that the other read and     *)
(* approved the very offer it sent, in the same session; both decide alike;  *)
(* nobody's operations or resources are ones that another end or neighbour   *)
(* forbids; and combining demands agrees with evaluating the boundary        *)
(* (av_memory_agreement.cpp, framelink_memory.cpp).                          *)
MemorySound ==
  /\ part = "memory" => Memory!TypeOK /\ Memory!SuccessIsMutual /\ Memory!SameVerdict /\ Memory!EverybodyConsents
  /\ part = "bound"  => Bound!SuccessIsMutual /\ Bound!EverybodyConsents
  /\ part = "fine"   => Fine!CombineAgrees

(* MemoryAgreement: both ends return however the exchange fails, and without *)
(* failures ends whose offers fit agree (av_memory_agreement.cpp:47-60).     *)
MemoryReturns ==
  /\ part = "bound" => Bound!BothReturn
  /\ part = "fine"  => Fine!Agree

=============================================================================
