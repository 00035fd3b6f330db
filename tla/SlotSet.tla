------------------------------ MODULE SlotSet ------------------------------
(***************************************************************************)
(* flOpenProducerSlot (src/src/framelink_slots.cpp): a producer walks the  *)
(* channels <prefix>.0 .. <prefix>.N-1 its consumer created and takes the  *)
(* first free one, sweep after sweep until a deadline.  Channels appear    *)
(* and vanish, and other producers take and leave them, between any two    *)
(* visits of a sweep; a sweep sees each channel once.                      *)
(*                                                                         *)
(* flOpenProducer is one step: PosixChannel and WinChannel model it.  It   *)
(* answers FL_BUSY not only while another producer is attached: a channel  *)
(* without one is refused too, as long as the consumer reads its old       *)
(* storage or its pending frame is still being written                     *)
(* (framelink_linux.cpp:325-328).  The geometry request that follows       *)
(* changes the ring, not the set.                                          *)
(***************************************************************************)
EXTENDS Naturals

CONSTANTS
  Walkers,   \* producers
  N,         \* slots of the set
  Churn,     \* may the consumer close channels again?
  Faults     \* may opening fail otherwise?

(* A channel without a producer: fresh or settled ("free"), with a frame a   *)
(* producer left that nobody took ("left"), with such a frame whose fence is *)
(* not ready ("unready"), with frames or leases the consumer holds ("kept"). *)
Open   == {"free", "left"}
Stored == {"unready", "kept"}

ASSUME SlotAssumption ==
  /\ N \in Nat \ {0} /\ {Churn, Faults} \subseteq BOOLEAN
  /\ ({"absent"} \union Open \union Stored) \intersect Walkers = {}

VARIABLES
  owner,       \* owner[i]: "absent", Open, Stored, or who produces into channel i
  pc,          \* "idle", "walking", "swept" or "holds"
  at,          \* next slot of the sweep
  anyExisted,  \* was a channel of this sweep occupied?
  expired,     \* has the deadline passed?
  answer,      \* "none", "ok", "busy", "not_found" or "error"
  lived,       \* history: channels that existed throughout this sweep,
  vacant,      \*   those that were free throughout it,
  taken        \*   and was one of them refused to others at some time of it?

walk    == <<pc, at, anyExisted, expired, answer>>
history == <<lived, vacant, taken>>
vars    == <<owner, walk, history>>

Set     == 0..(N - 1)
Exists(o) == {i \in Set : o[i] # "absent"}
Vacant(o) == {i \in Set : o[i] \in Open}
Refusing(o) == {i \in Set : o[i] \in Stored \union Walkers}

Init ==
  /\ owner = [i \in Set |-> "absent"]
  /\ pc = [w \in Walkers |-> "idle"] /\ at = [w \in Walkers |-> 0]
  /\ anyExisted = [w \in Walkers |-> FALSE] /\ expired = [w \in Walkers |-> FALSE]
  /\ answer = [w \in Walkers |-> "none"]
  /\ lived = [w \in Walkers |-> {}] /\ vacant = [w \in Walkers |-> {}]
  /\ taken = [w \in Walkers |-> FALSE]

(* What a change of the set does to the sweeps in progress; a walk that took *)
(* a slot has nothing to tell of its last sweep.                             *)
InSweep == {"walking", "swept"}

Observed(o) ==
  /\ lived' = [w \in Walkers |->
                  CASE pc'[w] \in InSweep -> lived[w] \intersect Exists(o)
                    [] pc'[w] = "holds"   -> {}
                    [] OTHER              -> lived[w]]
  /\ vacant' = [w \in Walkers |->
                  CASE pc'[w] \in InSweep -> vacant[w] \intersect Vacant(o)
                    [] pc'[w] = "holds"   -> {}
                    [] OTHER              -> vacant[w]]
  /\ taken' = [w \in Walkers |->
                  CASE pc'[w] \in InSweep -> taken[w] \/ Refusing(o) # {}
                    [] pc'[w] = "holds"   -> FALSE
                    [] OTHER              -> taken[w]]

-----------------------------------------------------------------------------
(* The consumer. *)

Create(i) ==
  /\ owner[i] = "absent" /\ owner' = [owner EXCEPT ![i] = "free"] /\ UNCHANGED walk
  /\ Observed(owner')

Close(i) ==
  /\ Churn /\ owner[i] # "absent" /\ owner' = [owner EXCEPT ![i] = "absent"] /\ UNCHANGED walk
  /\ Observed(owner')

(* It takes the frame a producer left, and later has released all it held.   *)
Hold(i) ==
  /\ owner[i] \in {"left", "unready"} /\ owner' = [owner EXCEPT ![i] = "kept"] /\ UNCHANGED walk
  /\ Observed(owner')

Settle(i) ==
  /\ owner[i] = "kept" /\ owner' = [owner EXCEPT ![i] = "free"] /\ UNCHANGED walk
  /\ Observed(owner')

(* The GPU finishes a frame whose producer has left. *)
Finish(i) ==
  /\ owner[i] = "unready" /\ owner' = [owner EXCEPT ![i] = "left"] /\ UNCHANGED walk
  /\ Observed(owner')

-----------------------------------------------------------------------------
(* A producer. *)

(* Mutant: anyExisted is kept from sweep to sweep. *)
BugSweep(w) ==
  /\ pc' = [pc EXCEPT ![w] = "walking"] /\ at' = [at EXCEPT ![w] = 0] /\ UNCHANGED anyExisted
  /\ lived' = [lived EXCEPT ![w] = Exists(owner)] /\ vacant' = [vacant EXCEPT ![w] = Vacant(owner)]
  /\ taken' = [taken EXCEPT ![w] = Refusing(owner) # {}]

(* A sweep starts over with a fresh anyExisted. *)
Sweep(w) ==
  /\ pc' = [pc EXCEPT ![w] = "walking"] /\ at' = [at EXCEPT ![w] = 0]
  /\ anyExisted' = [anyExisted EXCEPT ![w] = FALSE]
  /\ lived' = [lived EXCEPT ![w] = Exists(owner)] /\ vacant' = [vacant EXCEPT ![w] = Vacant(owner)]
  /\ taken' = [taken EXCEPT ![w] = Refusing(owner) # {}]

(* The call, with or without a timeout. *)
Begin(w, patient) ==
  /\ pc[w] = "idle" /\ Sweep(w)
  /\ expired' = [expired EXCEPT ![w] = ~patient] /\ answer' = [answer EXCEPT ![w] = "none"]
  /\ UNCHANGED owner

(* On to the next slot, or the sweep is over. *)
Advance(w) ==
  /\ at' = [at EXCEPT ![w] = @ + 1]
  /\ pc' = [pc EXCEPT ![w] = IF at[w] + 1 = N THEN "swept" ELSE @]

(* The call returns; its variables are gone. *)
Return(w, to, a) ==
  /\ pc' = [pc EXCEPT ![w] = to] /\ answer' = [answer EXCEPT ![w] = a] /\ at' = [at EXCEPT ![w] = 0]
  /\ anyExisted' = [anyExisted EXCEPT ![w] = FALSE] /\ expired' = [expired EXCEPT ![w] = FALSE]

(* FL_BUSY: occupied, by a producer or by what one left; not missing. *)
VisitBusy(w) ==
  /\ pc[w] = "walking" /\ at[w] \in Refusing(owner) /\ Advance(w)
  /\ anyExisted' = [anyExisted EXCEPT ![w] = TRUE]
  /\ UNCHANGED <<owner, expired, answer, history>>

(* FL_NOT_FOUND. *)
VisitMissing(w) ==
  /\ pc[w] = "walking" /\ owner[at[w]] = "absent" /\ Advance(w)
  /\ UNCHANGED <<owner, anyExisted, expired, answer, history>>

(* FL_OK: the slot is this producer's. *)
VisitFree(w) ==
  /\ pc[w] = "walking" /\ at[w] \in Vacant(owner)
  /\ Return(w, "holds", "ok")
  /\ owner' = [owner EXCEPT ![at[w]] = w] /\ Observed(owner')

(* Any other failure of an existing channel ends the walk. *)
VisitFails(w) ==
  /\ Faults /\ pc[w] = "walking" /\ owner[at[w]] # "absent" /\ Return(w, "idle", "error")
  /\ UNCHANGED <<owner, history>>

Expire(w) ==
  /\ pc[w] \in InSweep /\ ~expired[w] /\ expired' = [expired EXCEPT ![w] = TRUE]
  /\ UNCHANGED <<owner, pc, at, anyExisted, answer, history>>

(* Mutant: a walk waits for a set that does not exist, past its deadline. *)
BugGiveUp(w) ==
  /\ pc[w] = "swept" /\ expired[w] /\ Exists(owner) # {}
  /\ Return(w, "idle", IF anyExisted[w] THEN "busy" ELSE "not_found")
  /\ UNCHANGED <<owner, history>>

(* The sweep found nothing and the deadline has passed. *)
GiveUp(w) ==
  /\ pc[w] = "swept" /\ expired[w]
  /\ Return(w, "idle", IF anyExisted[w] THEN "busy" ELSE "not_found")
  /\ UNCHANGED <<owner, history>>

(* It has not: sleep 200 ms and sweep again. *)
SweepAgain(w) ==
  /\ pc[w] = "swept" /\ ~expired[w] /\ Sweep(w) /\ UNCHANGED <<owner, expired, answer>>

(* flClose of the channel it took, which may have vanished meanwhile; what   *)
(* it submitted stays with the consumer.                                     *)
LeaveAs(w, stored) ==
  /\ pc[w] = "holds" /\ pc' = [pc EXCEPT ![w] = "idle"]
  /\ owner' = [i \in Set |-> IF owner[i] = w THEN stored ELSE owner[i]] /\ Observed(owner')
  /\ UNCHANGED <<at, anyExisted, expired, answer>>

Leave(w) == \E stored \in Open \union Stored : LeaveAs(w, stored)

-----------------------------------------------------------------------------
Visit(w) == VisitBusy(w) \/ VisitMissing(w) \/ VisitFree(w) \/ VisitFails(w)

Next ==
  \/ (\E i \in Set : Create(i) \/ Close(i) \/ Hold(i) \/ Settle(i) \/ Finish(i))
  \/ (\E w \in Walkers, patient \in BOOLEAN : Begin(w, patient))
  \/ (\E w \in Walkers : Visit(w) \/ Expire(w) \/ GiveUp(w) \/ SweepAgain(w) \/ Leave(w))

Spec == Init /\ [][Next]_vars

Moves(w) == Visit(w) \/ GiveUp(w) \/ SweepAgain(w)

(* The caller's thread runs and its deadline comes. *)
Fair == Walkers \X {"move", "expire"}

FairStep(n) == IF n[2] = "move" THEN Moves(n[1]) ELSE Expire(n[1])

ReturnSpec == Spec /\ \A n \in Fair : WF_vars(FairStep(n))

(* The caller's thread runs, and the consumer creates every channel and      *)
(* releases what it holds.                                                   *)
ServeFair == Walkers \X {"move"} \union Set \X {"create", "settle", "finish"}

ServeStep(n) ==
  CASE n[2] = "move"   -> Moves(n[1])
    [] n[2] = "create" -> Create(n[1])
    [] n[2] = "settle" -> Settle(n[1])
    [] n[2] = "finish" -> Finish(n[1])

ServeSpec == Spec /\ \A n \in ServeFair : WF_vars(ServeStep(n))

-----------------------------------------------------------------------------
(* Properties. *)

TypeOK ==
  /\ owner \in [Set -> {"absent"} \union Open \union Stored \union Walkers]
  /\ pc \in [Walkers -> {"idle", "walking", "swept", "holds"}] /\ at \in [Walkers -> 0..N]
  /\ anyExisted \in [Walkers -> BOOLEAN] /\ expired \in [Walkers -> BOOLEAN]
  /\ answer \in [Walkers -> {"none", "ok", "busy", "not_found", "error"}]
  /\ lived \in [Walkers -> SUBSET Set] /\ vacant \in [Walkers -> SUBSET Set]
  /\ taken \in [Walkers -> BOOLEAN]
  /\ \A w \in Walkers : pc[w] = "walking" => at[w] < N

(* The answer of a walk that found nothing is about its last sweep, however  *)
(* the set changed under it: no slot was free throughout that sweep,         *)
(* FL_NOT_FOUND means no channel existed throughout it, and FL_BUSY that at  *)
(* some time of it a channel had a producer or storage still in use          *)
(* (framelink_slots.cpp:25-45, framelink_linux.cpp:325-328).                 *)
AnswerIsHonest ==
  \A w \in Walkers : pc[w] = "idle" =>
    /\ answer[w] \in {"busy", "not_found"} => vacant[w] = {}
    /\ answer[w] = "not_found" => lived[w] = {}
    /\ answer[w] = "busy" => taken[w]

(* FL_BUSY "when they all exist but are occupied"                            *)
(* (src/include/framelink_slots.h): no channel of the set was missing        *)
(* throughout the last sweep.                                                *)
BusyMeansAllExist ==
  \A w \in Walkers : (pc[w] = "swept" /\ expired[w] /\ anyExisted[w]) => Exists(owner) = Set

(* Every call returns (framelink_slots.cpp:44). *)
WalkReturns == \A w \in Walkers : pc[w] = "walking" ~> pc[w] \in {"idle", "holds"}

(* With a slot for each producer, a caller whose deadline never comes gets   *)
(* one, although it started before the consumer, others walk too and old     *)
(* frames are taken under it: unless producers keep coming and going for     *)
(* ever, each leaving storage that refuses the caller just when it asks.     *)
Served ==
  \A w \in Walkers :
    <>[](pc[w] \in InSweep /\ ~expired[w]) => []<><<\E v \in Walkers : Leave(v)>>_vars

=============================================================================
