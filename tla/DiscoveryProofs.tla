-------------------------- MODULE DiscoveryProofs --------------------------
(***************************************************************************)
(* Proofs about how a producer and a consumer find each other.             *)
(* Slot sets, for any number of producers and slots: what the slot walk    *)
(* answers is true of its last sweep.                                      *)
(* Rendezvous directory, for any number of producers and consumers: a      *)
(* producer past its first step holds the lock, and its record is whole    *)
(* before it has its name.                                                 *)
(* Setup of a local session, for any number of attempts of its two sides:  *)
(* what a marker says is true of a peer of the same session.               *)
(***************************************************************************)
EXTENDS MCDiscovery, SequenceTheorems, TLAPS

-----------------------------------------------------------------------------
(* The slot sets. *)

(* The slots the sweep of w has passed. *)
Passed(w) == {i \in Set : i < at[w]}

(* A sweep in progress: nothing it passed was free all along; if it was      *)
(* refused nowhere, nothing it passed existed all along; a channel that      *)
(* refuses now has been noticed.  What is free or exists all along is so     *)
(* now.                                                                      *)
Sweeping(w) ==
  /\ pc[w] = "swept" => at[w] = N
  /\ pc[w] \in InSweep =>
       /\ vacant[w] \subseteq Vacant(owner) /\ lived[w] \subseteq Exists(owner)
       /\ \A i \in vacant[w] : i \notin Passed(w)
       /\ ~anyExisted[w] => \A i \in lived[w] : i \notin Passed(w)
       /\ anyExisted[w] => taken[w]
       /\ Refusing(owner) # {} => taken[w]

Answered(w) ==
  /\ pc[w] = "holds" => answer[w] = "ok"
  /\ pc[w] = "idle" =>
       /\ answer[w] \in {"busy", "not_found"} => vacant[w] = {}
       /\ answer[w] = "not_found" => lived[w] = {}
       /\ answer[w] = "busy" => taken[w]

IInv == TypeOK /\ \A w \in Walkers : Sweeping(w) /\ Answered(w)

(* The inductive invariant holds initially. *)
LEMMA InitIInv == Init => IInv
  BY SlotAssumption DEF Init, IInv, TypeOK, Sweeping, Answered, InSweep, Exists, Vacant, Refusing, Set

(* What is observed of a changed set has its type. *)
LEMMA ObservedTypes ==
  ASSUME TypeOK, Observed(owner')
  PROVE  /\ lived' \in [Walkers -> SUBSET Set] /\ vacant' \in [Walkers -> SUBSET Set]
         /\ taken' \in [Walkers -> BOOLEAN]
<1>1. lived' \in [Walkers -> SUBSET Set]
  BY DEF TypeOK, Observed
<1>2. vacant' \in [Walkers -> SUBSET Set]
  BY DEF TypeOK, Observed
<1>3. taken' \in [Walkers -> BOOLEAN]
  BY DEF TypeOK, Observed
<1>4. QED
  BY <1>1, <1>2, <1>3

(* Type correctness is preserved by every step of the walk and of the set. *)
LEMMA TypeStep == TypeOK /\ [Next]_vars => TypeOK'
<1> SUFFICES ASSUME TypeOK, [Next]_vars PROVE TypeOK'
  OBVIOUS
<1> USE SlotAssumption DEF TypeOK, Set, Open, Stored, InSweep
<1>1. ASSUME NEW i \in Set, Create(i) PROVE TypeOK'
  BY <1>1, ObservedTypes DEF Create, walk
<1>2. ASSUME NEW i \in Set, Close(i) PROVE TypeOK'
  BY <1>2, ObservedTypes DEF Close, walk
<1>3. ASSUME NEW w \in Walkers, NEW patient \in BOOLEAN, Begin(w, patient) PROVE TypeOK'
  BY <1>3 DEF Begin, Sweep, Exists, Vacant, Refusing
<1>4. ASSUME NEW w \in Walkers, VisitBusy(w) PROVE TypeOK'
  BY <1>4 DEF VisitBusy, Advance, history
<1>5. ASSUME NEW w \in Walkers, VisitMissing(w) PROVE TypeOK'
  BY <1>5 DEF VisitMissing, Advance, history
<1>6. ASSUME NEW w \in Walkers, VisitFree(w) PROVE TypeOK'
  BY <1>6, ObservedTypes DEF VisitFree, Return, Vacant
<1>7. ASSUME NEW w \in Walkers, VisitFails(w) PROVE TypeOK'
  BY <1>7 DEF VisitFails, Return, history
<1>8. ASSUME NEW w \in Walkers, Expire(w) PROVE TypeOK'
  BY <1>8 DEF Expire, history
<1>9. ASSUME NEW w \in Walkers, GiveUp(w) PROVE TypeOK'
  BY <1>9 DEF GiveUp, Return, history
<1>10. ASSUME NEW w \in Walkers, SweepAgain(w) PROVE TypeOK'
  BY <1>10 DEF SweepAgain, Sweep, Exists, Vacant, Refusing
<1>11. ASSUME NEW w \in Walkers, Leave(w) PROVE TypeOK'
  BY <1>11, ObservedTypes DEF Leave, LeaveAs
<1>12. ASSUME NEW i \in Set, Hold(i) \/ Settle(i) \/ Finish(i) PROVE TypeOK'
  BY <1>12, ObservedTypes DEF Hold, Settle, Finish, walk
<1>13. CASE UNCHANGED vars
  BY <1>13 DEF vars, walk, history
<1>14. QED
  BY <1>1, <1>2, <1>3, <1>4, <1>5, <1>6, <1>7, <1>8, <1>9, <1>10, <1>11, <1>12, <1>13 DEF Next, Visit

(* A change of the set leaves what is known of a walk true, if the walk      *)
(* itself does not move.                                                     *)
LEMMA ObservedKeeps ==
  ASSUME IInv, TypeOK', Observed(owner'), NEW v \in Walkers,
         pc'[v] = pc[v], at'[v] = at[v], anyExisted'[v] = anyExisted[v], answer'[v] = answer[v]
  PROVE  Sweeping(v)' /\ Answered(v)'
<1>1. Sweeping(v) /\ Answered(v)
  BY DEF IInv
<1>2. /\ pc[v] \in InSweep =>
           /\ lived'[v] = lived[v] \intersect Exists(owner')
           /\ vacant'[v] = vacant[v] \intersect Vacant(owner')
           /\ taken[v] => taken'[v]
           /\ Refusing(owner') # {} => taken'[v]
      /\ pc[v] = "idle" => lived'[v] = lived[v] /\ vacant'[v] = vacant[v] /\ taken'[v] = taken[v]
  BY DEF Observed, IInv, TypeOK, InSweep
<1>3. Passed(v)' = Passed(v)
  BY DEF Passed
<1>4. /\ Exists(owner)' = Exists(owner') /\ Vacant(owner)' = Vacant(owner')
      /\ Refusing(owner)' = Refusing(owner')
  BY DEF Exists, Vacant, Refusing
<1>5. QED
  BY <1>1, <1>2, <1>3, <1>4 DEF Sweeping, Answered, InSweep

(* So does a step of another walk. *)
LEMMA OtherKeeps ==
  ASSUME IInv, NEW v \in Walkers, owner' = owner,
         pc'[v] = pc[v], at'[v] = at[v], anyExisted'[v] = anyExisted[v], answer'[v] = answer[v],
         lived'[v] = lived[v], vacant'[v] = vacant[v], taken'[v] = taken[v]
  PROVE  Sweeping(v)' /\ Answered(v)'
  BY DEF IInv, Sweeping, Answered, InSweep, Passed, Exists, Vacant, Refusing

(* A fresh sweep has passed nothing. *)
LEMMA SweepStarts ==
  ASSUME IInv, TypeOK', NEW w \in Walkers, Sweep(w), owner' = owner
  PROVE  Sweeping(w)' /\ Answered(w)'
<1> USE DEF IInv, TypeOK
<1>1. pc'[w] = "walking" /\ at'[w] = 0 /\ ~anyExisted'[w]
  BY DEF Sweep
<1>2. taken'[w] = (Refusing(owner) # {})
  BY DEF Sweep
<1>3. Passed(w)' = {}
  BY <1>1, SlotAssumption DEF Passed, Set
<1>4. /\ Exists(owner)' = Exists(owner) /\ Vacant(owner)' = Vacant(owner)
      /\ Refusing(owner)' = Refusing(owner)
      /\ vacant'[w] = Vacant(owner) /\ lived'[w] = Exists(owner)
  BY DEF Sweep, Exists, Vacant, Refusing
<1>5. QED
  BY <1>1, <1>2, <1>3, <1>4 DEF Sweeping, Answered, InSweep

(* Moving on from a slot that was not free: it was not free all along; if it *)
(* was missing, it did not exist all along either.                           *)
LEMMA AdvanceKeeps ==
  ASSUME IInv, TypeOK', NEW w \in Walkers, VisitBusy(w) \/ VisitMissing(w)
  PROVE  Sweeping(w)' /\ Answered(w)'
<1> USE SlotAssumption
<1>1. /\ Sweeping(w) /\ TypeOK /\ pc[w] = "walking" /\ at[w] \in Set /\ owner' = owner
      /\ at'[w] = at[w] + 1 /\ pc'[w] = (IF at[w] + 1 = N THEN "swept" ELSE "walking")
      /\ lived' = lived /\ vacant' = vacant /\ taken' = taken /\ answer' = answer
  BY DEF IInv, TypeOK, VisitBusy, VisitMissing, Advance, history, Set, Sweeping
<1>2. /\ Passed(w)' = Passed(w) \union {at[w]}
      /\ Exists(owner)' = Exists(owner) /\ Vacant(owner)' = Vacant(owner)
      /\ Refusing(owner)' = Refusing(owner)
  <2>1. Passed(w)' = {i \in Set : i < at[w] + 1}
    BY <1>1 DEF Passed
  <2>2. QED
    BY <1>1, <2>1 DEF Passed, Set, Exists, Vacant, Refusing
<1>3. at[w] \notin vacant[w]
  BY <1>1 DEF VisitBusy, VisitMissing, Sweeping, Vacant, Refusing, Open, Stored, InSweep
<1>4. CASE VisitBusy(w)
  <2>1. anyExisted'[w] = TRUE /\ at[w] \in Refusing(owner)
    BY <1>1, <1>4 DEF VisitBusy, TypeOK
  <2>2. taken[w]
    BY <1>1, <2>1 DEF Sweeping, InSweep
  <2>3. QED
    BY <1>1, <1>2, <1>3, <2>1, <2>2 DEF Sweeping, Answered, InSweep
<1>5. CASE VisitMissing(w)
  <2>1. anyExisted' = anyExisted /\ at[w] \notin lived[w]
    BY <1>1, <1>5 DEF VisitMissing, Sweeping, Exists, InSweep
  <2>2. QED
    BY <1>1, <1>2, <1>3, <2>1 DEF Sweeping, Answered, InSweep
<1>6. QED
  BY <1>4, <1>5

(* Giving up after a whole sweep: it has passed every slot. *)
LEMMA GiveUpKeeps ==
  ASSUME IInv, NEW w \in Walkers, GiveUp(w)
  PROVE  Sweeping(w)' /\ Answered(w)'
<1> USE SlotAssumption
<1>1. /\ Sweeping(w) /\ TypeOK /\ pc[w] = "swept" /\ pc'[w] = "idle" /\ at[w] = N
      /\ owner' = owner /\ lived' = lived /\ vacant' = vacant /\ taken' = taken
      /\ answer'[w] = (IF anyExisted[w] THEN "busy" ELSE "not_found")
  BY DEF IInv, TypeOK, GiveUp, Return, history, Sweeping
<1>2. Passed(w) = Set /\ Exists(owner)' = Exists(owner) /\ Vacant(owner)' = Vacant(owner)
  BY <1>1 DEF Passed, Set, Exists, Vacant, Refusing
<1>3. vacant[w] \subseteq Set /\ lived[w] \subseteq Set
  BY <1>1 DEF TypeOK
<1>4. vacant[w] = {} /\ (~anyExisted[w] => lived[w] = {}) /\ (anyExisted[w] => taken[w])
  BY <1>1, <1>2, <1>3 DEF Sweeping, InSweep
<1>5. QED
  BY <1>1, <1>2, <1>4 DEF Sweeping, Answered, InSweep

(* A walk that ends with a channel or an error leaves nothing to be honest   *)
(* about; nor does the channel's return.                                     *)
LEMMA EndKeeps ==
  ASSUME IInv, TypeOK', NEW w \in Walkers, VisitFree(w) \/ VisitFails(w) \/ Leave(w)
  PROVE  Sweeping(w)' /\ Answered(w)'
<1>1. pc'[w] \in {"holds", "idle"} /\ (pc'[w] = "holds" => answer'[w] = "ok")
      /\ answer'[w] \notin {"busy", "not_found"}
  BY DEF IInv, TypeOK, VisitFree, VisitFails, Return, Leave, LeaveAs, Answered
<1>2. QED
  BY <1>1 DEF Sweeping, Answered, InSweep

(* Every step preserves the inductive invariant. *)
LEMMA StepIInv == IInv /\ [Next]_vars => IInv'
<1> SUFFICES ASSUME IInv, [Next]_vars PROVE IInv'
  OBVIOUS
<1>1. TypeOK /\ TypeOK'
  BY TypeStep DEF IInv
<1> SUFFICES ASSUME NEW v \in Walkers PROVE Sweeping(v)' /\ Answered(v)'
  BY <1>1 DEF IInv
<1>2. ASSUME NEW i \in Set, Create(i) \/ Close(i) \/ Hold(i) \/ Settle(i) \/ Finish(i)
      PROVE  Sweeping(v)' /\ Answered(v)'
  BY <1>1, <1>2, ObservedKeeps DEF Create, Close, Hold, Settle, Finish, walk
<1>3. ASSUME NEW w \in Walkers, NEW patient \in BOOLEAN, Begin(w, patient)
      PROVE  Sweeping(v)' /\ Answered(v)'
  <2>1. CASE v = w
    BY <1>1, <1>3, <2>1, SweepStarts DEF Begin
  <2>2. CASE v # w
    BY <1>1, <1>3, <2>2, OtherKeeps DEF Begin, Sweep, TypeOK
  <2>3. QED
    BY <2>1, <2>2
<1>4. ASSUME NEW w \in Walkers, VisitBusy(w) \/ VisitMissing(w) PROVE Sweeping(v)' /\ Answered(v)'
  <2>1. CASE v # w
    BY <1>1, <1>4, <2>1, OtherKeeps DEF VisitBusy, VisitMissing, Advance, history, TypeOK
  <2>2. QED
    BY <1>1, <1>4, <2>1, AdvanceKeeps
<1>5. ASSUME NEW w \in Walkers, VisitFree(w) \/ Leave(w) PROVE Sweeping(v)' /\ Answered(v)'
  <2>1. CASE v # w
    BY <1>1, <1>5, <2>1, ObservedKeeps DEF VisitFree, Return, Leave, LeaveAs, TypeOK
  <2>2. QED
    BY <1>1, <1>5, <2>1, EndKeeps
<1>6. ASSUME NEW w \in Walkers, VisitFails(w) PROVE Sweeping(v)' /\ Answered(v)'
  <2>1. CASE v # w
    BY <1>1, <1>6, <2>1, OtherKeeps DEF VisitFails, Return, history, TypeOK
  <2>2. QED
    BY <1>1, <1>6, <2>1, EndKeeps
<1>7. ASSUME NEW w \in Walkers, GiveUp(w) PROVE Sweeping(v)' /\ Answered(v)'
  <2>1. CASE v # w
    BY <1>1, <1>7, <2>1, OtherKeeps DEF GiveUp, Return, history, TypeOK
  <2>2. QED
    BY <1>1, <1>7, <2>1, GiveUpKeeps
<1>8. ASSUME NEW w \in Walkers, SweepAgain(w) PROVE Sweeping(v)' /\ Answered(v)'
  <2>1. CASE v # w
    BY <1>1, <1>8, <2>1, OtherKeeps DEF SweepAgain, Sweep, TypeOK
  <2>2. QED
    BY <1>1, <1>8, <2>1, SweepStarts DEF SweepAgain
<1>9. ASSUME NEW w \in Walkers, Expire(w) PROVE Sweeping(v)' /\ Answered(v)'
  BY <1>9, OtherKeeps DEF Expire, history
<1>10. CASE UNCHANGED vars
  BY <1>10, OtherKeeps DEF vars, walk, history
<1>11. QED
  BY <1>2, <1>3, <1>4, <1>5, <1>6, <1>7, <1>8, <1>9, <1>10 DEF Next, Visit

LEMMA InvariantIInv == Spec => []IInv
  BY InitIInv, StepIInv, PTL DEF Spec

(* The walk and the set keep their types. *)
THEOREM SlotSetTypeOK == Spec => []TypeOK
<1>1. IInv => TypeOK
  BY DEF IInv
<1>2. QED
  BY <1>1, InvariantIInv, PTL

(* flOpenProducerSlot's answer is true of its last sweep                     *)
(* (src/src/framelink_slots.cpp:25-45), whatever the consumer and the other  *)
(* producers did meanwhile.                                                  *)
THEOREM SlotAnswers == Spec => []AnswerIsHonest
<1>1. IInv => AnswerIsHonest
  BY DEF IInv, Answered, AnswerIsHonest
<1>2. QED
  BY <1>1, InvariantIInv, PTL

-----------------------------------------------------------------------------
(* The rendezvous directory. *)

(* A producer that publishes, listens or closes holds the lock, has drawn a  *)
(* token, and has written its record whole before the record gets its name.  *)
Publishing(o) ==
  ownerAt[o] # "idle" =>
    /\ lock = o /\ token[o] \in R!Tokens
    /\ ownerAt[o] \in {"written", "published", "unlink"} => token[o] \in whole
    /\ ownerAt[o] \in {"published", "unlink"} => endpoint = token[o]

RInv ==
  /\ R!TypeOK /\ R!RecordsWhole /\ R!LockHeldByLive
  /\ \A o \in Owners : Publishing(o)
  /\ \A r \in Readers : reading[r] \in whole \union {R!NoFile}

(* The invariant holds of an empty directory. *)
LEMMA RInit == ASSUME R!RendezvousAssumption, R!Init PROVE RInv
  BY DEF R!RendezvousAssumption, R!Init, RInv, R!TypeOK, R!RecordsWhole, R!LockHeldByLive, Publishing,
         R!NoFile, R!NoLock, R!Tokens

(* Publishing preserves the invariant and never removes the record. *)
LEMMA PublishStep ==
  ASSUME R!RendezvousAssumption, RInv, NEW o \in Owners,
         R!TakeLock(o) \/ R!CreateTemp(o) \/ R!WriteTemp(o) \/ R!Rename(o) \/ R!PublishFails(o)
  PROVE  RInv' /\ (endpoint # R!NoFile => endpoint' # R!NoFile)
<1> USE DEF R!RendezvousAssumption, RInv, R!TypeOK, R!RecordsWhole, R!LockHeldByLive, Publishing,
            R!NoFile, R!NoLock, R!Tokens, R!readerVars
<1>1. CASE R!TakeLock(o) BY <1>1 DEF R!TakeLock
<1>2. CASE R!CreateTemp(o) BY <1>2 DEF R!CreateTemp
<1>3. CASE R!WriteTemp(o) BY <1>3 DEF R!WriteTemp
<1>4. CASE R!Rename(o)
  <2>1. token[o] \in whole /\ token[o] \in 1 .. MaxTokens /\ lock = o BY <1>4 DEF R!Rename
  <2>2. \A q \in Owners : q # o => ownerAt[q] = "idle" BY <2>1
  <2>3. R!TypeOK' BY <1>4, <2>1 DEF R!Rename
  <2> QED BY <1>4, <2>1, <2>2, <2>3 DEF R!Rename
<1>5. CASE R!PublishFails(o) BY <1>5 DEF R!PublishFails
<1> QED BY <1>1, <1>2, <1>3, <1>4, <1>5

(* Closing preserves the invariant, and removes the record only from the     *)
(* producer that published it.                                               *)
LEMMA CloseStep ==
  ASSUME R!RendezvousAssumption, RInv, NEW o \in Owners, R!CloseCompare(o) \/ R!CloseUnlink(o) \/ R!Crash(o)
  PROVE  RInv' /\ (endpoint # R!NoFile /\ endpoint' = R!NoFile => ownerAt[o] = "unlink" /\ token[o] = endpoint)
<1> USE DEF R!RendezvousAssumption, RInv, R!TypeOK, R!RecordsWhole, R!LockHeldByLive, Publishing,
            R!NoFile, R!NoLock, R!Tokens, R!readerVars
<1>1. CASE R!CloseCompare(o) BY <1>1 DEF R!CloseCompare
<1>2. CASE R!CloseUnlink(o) BY <1>2 DEF R!CloseUnlink
<1>3. CASE R!Crash(o) BY <1>3 DEF R!Crash
<1> QED BY <1>1, <1>2, <1>3

(* A consumer that reads changes nothing in the directory. *)
LEMMA ReadStep ==
  ASSUME R!RendezvousAssumption, RInv, NEW r \in Readers, R!Read(r)
  PROVE  RInv' /\ endpoint' = endpoint
<1> USE DEF R!RendezvousAssumption, RInv, R!TypeOK, R!RecordsWhole, R!LockHeldByLive, Publishing,
            R!NoFile, R!NoLock, R!Tokens
<1>1. CASE R!OpenRecord(r) BY <1>1 DEF R!OpenRecord
<1>2. CASE R!CheckRecord(r)
  <2>1. reading' \in [Readers -> 0 .. MaxTokens] /\ 0 \in 0 .. MaxTokens BY <1>2 DEF R!CheckRecord
  <2>2. checked' \in [Readers -> BOOLEAN] BY <1>2, Zenon DEF R!CheckRecord
  <2>3. R!TypeOK' BY <1>2, <2>1, <2>2 DEF R!CheckRecord
  <2>4. \A q \in Readers : reading'[q] \in {reading[q], 0} BY <1>2 DEF R!CheckRecord
  <2> QED BY <1>2, <2>3, <2>4 DEF R!CheckRecord
<1>3. CASE R!ReadRecord(r)
  <2>1. reading' \in [Readers -> 0 .. MaxTokens] /\ 0 \in 0 .. MaxTokens BY <1>3 DEF R!ReadRecord
  <2>2. checked' \in [Readers -> BOOLEAN] BY <1>3, Zenon DEF R!ReadRecord
  <2>3. found' \subseteq 1 .. MaxTokens
    <3>1. reading[r] \in whole BY <1>3 DEF R!ReadRecord
    <3> QED BY <1>3, <3>1 DEF R!ReadRecord
  <2>4. R!TypeOK' BY <1>3, <2>1, <2>2, <2>3 DEF R!ReadRecord
  <2>5. \A q \in Readers : reading'[q] \in {reading[q], 0} BY <1>3 DEF R!ReadRecord
  <2> QED BY <1>3, <2>4, <2>5 DEF R!ReadRecord
<1> QED BY <1>1, <1>2, <1>3 DEF R!Read

(* Every step preserves the invariant, and only its owner removes a record. *)
LEMMA RStep ==
  ASSUME R!RendezvousAssumption, RInv, [R!Next]_(R!vars)
  PROVE  /\ RInv'
         /\ endpoint # R!NoFile /\ endpoint' = R!NoFile
              => \E o \in Owners : ownerAt[o] = "unlink" /\ token[o] = endpoint
<1>1. CASE \E o \in Owners : R!Publish(o) \/ R!PublishFails(o)
  BY <1>1, PublishStep DEF R!Publish
<1>2. CASE \E o \in Owners : R!Close(o) \/ R!Crash(o)
  BY <1>2, CloseStep DEF R!Close
<1>3. CASE \E r \in Readers : R!Read(r)
  BY <1>3, ReadStep
<1>4. CASE UNCHANGED R!vars
  BY <1>4 DEF R!vars, RInv, R!TypeOK, R!RecordsWhole, R!LockHeldByLive, Publishing
<1> QED BY <1>1, <1>2, <1>3, <1>4 DEF R!Next

(* A run is, as far as the directory is concerned, one of the directory. *)
LEMMA RunsRendezvous == MCSpec => R!Spec
<1>1. MCInit => R!Init
  BY DEF MCInit
<1>2. [MCNext]_mcvars => [R!Next]_(R!vars)
  BY DEF MCNext, mcvars, rendezvous, R!vars
<1>3. MCSpec => MCInit /\ [][MCNext]_mcvars
  BY PTL DEF MCSpec
<1> QED BY <1>1, <1>2, <1>3, PTL DEF R!Spec

(* However producers publish, fail, crash and close over one another's       *)
(* records: a consumer reads whole records only, the record of a listening   *)
(* producer is its own, no dead producer keeps the lock and a record is      *)
(* removed only by the producer that published it                            *)
(* (av_rendezvous.cpp:143-222), for any number of producers and consumers.   *)
THEOREM DirectorySound == MCSpec => RendezvousSound
<1>0. R!RendezvousAssumption
  BY DiscoveryAssumption
<1>1. R!Spec => []RInv
  BY <1>0, RInit, RStep, PTL DEF R!Spec
<1> DEFINE Removed == endpoint # R!NoFile /\ endpoint' = R!NoFile
                        => \E o \in Owners : ownerAt[o] = "unlink" /\ token[o] = endpoint
<1>2. RInv /\ [R!Next]_(R!vars) => [Removed]_(R!vars)
  BY <1>0, RStep
<1>3. RInv => R!RecordsWhole /\ R!RecordIsOwners /\ R!LockHeldByLive
  BY DEF RInv, R!RecordIsOwners, Publishing
<1> QED BY RunsRendezvous, <1>1, <1>2, <1>3, PTL DEF R!Spec, RendezvousSound, R!RemovedByOwner

-----------------------------------------------------------------------------
(* The setup of a local session. *)

(* Every lemma below holds for any tracks T and any number M of attempts.    *)
S(T, M) == INSTANCE AvLocal WITH pc <- side, Tracks <- T, MaxAttempts <- M

(* What travels on the connection. *)
Names ==
  {"nothing", "auth", "ok", "offer", "selection", "confirm", "nonce", "time", "audio", "events",
   "V", "P", "R", "D"}
Mail == Names \X Nat

(* The marker m is on its way to s. *)
Sent(s, m) == \E i \in 1 .. Len(inbox[s]) : inbox[s][i] = <<m, 0>>

(* An end that is closed has no mail, and two open ends are of one session.  *)
Linked(T, M) ==
  /\ inbox \in [S(T, M)!Side -> Seq(Mail)]
  /\ \A s \in S(T, M)!Side : ~open[s] => inbox[s] = <<>>
  /\ open["P"] /\ open["C"] => cred["C"] = cred["P"]
  /\ side["C"] \in {"discover", "connect"} => ~open["C"]

(* The streams a session of the tracks T has, and the stages of the consumer.*)
StreamsOf(T) == (T \intersect {"audio"}) \union (IF "video" \in T THEN {"events"} ELSE {})
Before == {"discover", "connect", "proof", "select"}
Timing == {"clock", "time"}
SoundUp == {"audio", "audio proof"}
EventsUp == {"events", "events proof"}
Picture == {"create", "attached"}
Up == {"opened", "playing"}

(* What a consumer has set up when it is in a stage.                         *)
Consumes(T) ==
  /\ side["C"] \in Timing \union SoundUp \union EventsUp \union Picture \union Up =>
       cred["C"] # 0 /\ config["C"] = cred["C"]
  /\ side["C"] \in {"connect", "proof", "select"} => cred["C"] # 0
  /\ side["C"] \in SoundUp \union EventsUp \union Picture \union Up => mapped
  /\ side["C"] \in Before \union Timing \union SoundUp => streams["C"] = {}
  /\ side["C"] \in SoundUp => "audio" \in T
  /\ side["C"] \in EventsUp \union Picture => "video" \in T
  /\ side["C"] \in EventsUp => streams["C"] = T \intersect {"audio"}
  /\ side["C"] \in Picture \union Up => streams["C"] = StreamsOf(T)
  /\ side["C"] \in {"attached"} \union Up /\ "video" \in T => channel["C"]

(* What a producer has set up when it is in a stage.                         *)
Produces ==
  /\ side["P"] # "idle" => cred["P"] # 0
  /\ side["P"] \in {"clock", "audio", "events", "attach", "opened", "media"} => config["P"] = cred["P"]

(* A marker, on its way or taken, was sent by a consumer of this session,    *)
(* for the reason it stands for.                                             *)
Told ==
  /\ Sent("P", "R") \/ side["P"] = "media" => cred["P"] \in ready
  /\ Sent("P", "D") \/ side["P"] = "done" => cred["P"] \in drained

(* The attach was confirmed by a producer that has attached.                 *)
Confirmed(T) ==
  (Sent("C", "P") \/ (side["C"] = "opened" /\ "video" \in T)) /\ open["P"] => channel["P"]

SInv(T, M) ==
  /\ S(T, M)!TypeOK /\ S(T, M)!OpenFailureClean
  /\ Linked(T, M) /\ Consumes(T) /\ Produces /\ Told /\ Confirmed(T)

(* Steps in groups.  Every way to fail closes the side's end.                *)
Closing(T, M, s) ==
  /\ side[s] \notin S(T, M)!Ended
  /\ \E to \in {"openFailed", "failed", "idle"} :
       /\ side' = S(T, M)!Set(side, s, to)
       /\ to = "openFailed" /\ s = "P" => record' # cred["P"]
  /\ cancelled' = S(T, M)!Set(cancelled, s, TRUE) /\ channel' = S(T, M)!Set(channel, s, FALSE)
  /\ open' = S(T, M)!Set(open, s, FALSE) /\ inbox' = S(T, M)!Set(inbox, s, <<>>)
  /\ record' \in {record, 0}
  /\ UNCHANGED <<cred, attempts, config, mapped, streams, eos, ready, drained>>
ProducerStep(T, M) ==
  \/ S(T, M)!Publish \/ S(T, M)!Accept \/ S(T, M)!AuthServer \/ S(T, M)!Select \/ S(T, M)!ConfigureProducer \/ S(T, M)!ClockReply
  \/ \E k \in {"audio", "events"} : S(T, M)!StreamServer(k)
  \/ S(T, M)!Attach \/ S(T, M)!AwaitReady \/ S(T, M)!AwaitDrained \/ \E t \in T : S(T, M)!EndTrack(t)
ConsumerStep(T, M) ==
  \/ S(T, M)!Discover \/ S(T, M)!AuthClient \/ S(T, M)!ConfigureConsumer \/ S(T, M)!ClockRequest \/ S(T, M)!SetMapping
  \/ \E k \in {"audio", "events"} : S(T, M)!StreamClient(k) \/ S(T, M)!StreamPublish(k)
  \/ S(T, M)!CreateChannel \/ S(T, M)!Attached \/ S(T, M)!ReportReady \/ S(T, M)!ReportDrained \/ \E t \in T : S(T, M)!DeliverEnd(t)

(* The records that say something of the sender: ready, drained, attached.   *)
Markers == {"R", "D", "P"}

(* The marker m is sent to r in this step.                                   *)
News(T, M, r, m) ==
  /\ open[r]
  /\ \/ r = "P" /\ m = "R" /\ S(T, M)!ReportReady /\ open["C"]
     \/ r = "P" /\ m = "D" /\ S(T, M)!ReportDrained /\ open["C"]
     \/ r = "C" /\ m = "P" /\ S(T, M)!Attach

(* What a step may do to the mail.                                           *)
Moved(T, M) ==
  /\ inbox' \in [S(T, M)!Side -> Seq(Mail)] /\ \A r \in S(T, M)!Side : ~open'[r] => inbox'[r] = <<>>
  /\ \A r \in S(T, M)!Side : \A m \in Markers : Sent(r, m)' => Sent(r, m) \/ News(T, M, r, m)

(* An exchange of side s that gives give: an inbox holds what it held before *)
(* and, at the other end, what was given.                                    *)
Delivery(T, M, s, give) ==
  /\ inbox' \in [S(T, M)!Side -> Seq(Mail)] /\ open' = open
  /\ \A r \in S(T, M)!Side : ~open[r] /\ inbox[r] = <<>> => inbox'[r] = <<>>
  /\ \A r \in S(T, M)!Side : \A i \in 1 .. Len(inbox'[r]) :
       \/ \E j \in 1 .. Len(inbox[r]) : inbox[r][j] = inbox'[r][i]
       \/ inbox'[r][i] = give /\ r = S(T, M)!Other(s) /\ open[r]

(* An exchange delivers what it gives and nothing else, to an open end. *)
LEMMA Exchanges ==
  ASSUME NEW T, NEW M, inbox \in [S(T, M)!Side -> Seq(Mail)], open \in [S(T, M)!Side -> BOOLEAN],
         NEW s \in S(T, M)!Side, NEW take \in Mail, NEW give \in Mail,
         S(T, M)!Exchange(s, take, give)
  PROVE  Delivery(T, M, s, give)
<1> USE DEF Delivery
<1> DEFINE rest == IF take = S(T, M)!Nothing THEN inbox ELSE S(T, M)!Set(inbox, s, Tail(inbox[s]))
           o    == S(T, M)!Other(s)
<1>1. o \in S(T, M)!Side /\ o # s BY DEF S!Other, S!Side
<1>2. open' = open /\ open[s] /\ (take # S(T, M)!Nothing => inbox[s] # <<>>) BY DEF S!Exchange
<1>3. inbox' = IF give = S(T, M)!Nothing \/ ~open[o] THEN rest ELSE S(T, M)!Set(rest, o, Append(rest[o], give)) BY DEF S!Exchange
<1>4. rest \in [S(T, M)!Side -> Seq(Mail)] /\ rest[o] = inbox[o]
  BY <1>1, <1>2 DEF S!Set
<1>5. \A i \in 1 .. Len(rest[s]) : \E j \in 1 .. Len(inbox[s]) : inbox[s][j] = rest[s][i]
  <2>1. CASE take = S(T, M)!Nothing BY <2>1
  <2>2. CASE take # S(T, M)!Nothing
    <3>1. rest[s] = Tail(inbox[s]) /\ inbox[s] \in Seq(Mail) /\ inbox[s] # <<>> BY <1>2, <2>2 DEF S!Set
    <3>2. Len(rest[s]) = Len(inbox[s]) - 1 /\ Len(inbox[s]) \in Nat BY <3>1
    <3>3. \A i \in 1 .. Len(inbox[s]) - 1 : Tail(inbox[s])[i] = inbox[s][i + 1] BY <3>1
    <3>4. \A i \in 1 .. Len(inbox[s]) - 1 : i + 1 \in 1 .. Len(inbox[s]) BY <3>2
    <3> QED BY <3>1, <3>2, <3>3, <3>4
  <2> QED BY <2>1, <2>2
<1> HIDE DEF rest, o
<1>6. CASE give = S(T, M)!Nothing \/ ~open[o]
  <2>1. inbox' = rest BY <1>3, <1>6
  <2>2. \A r \in S(T, M)!Side : r = s \/ r = o BY DEF S!Side, S!Other, o
  <2> QED BY <1>1, <1>2, <1>4, <1>5, <2>1, <2>2 DEF o
<1>7. CASE ~(give = S(T, M)!Nothing \/ ~open[o])
  <2>1. inbox' = S(T, M)!Set(rest, o, Append(rest[o], give)) BY <1>3, <1>7
  <2>2. inbox'[s] = rest[s] /\ inbox'[o] = Append(inbox[o], give) /\ inbox' \in [S(T, M)!Side -> Seq(Mail)]
    BY <2>1, <1>1, <1>4 DEF S!Set
  <2>3. \A r \in S(T, M)!Side : r = s \/ r = o BY DEF S!Side, S!Other, o
  <2>4. ASSUME NEW i \in 1 .. Len(inbox'[o])
        PROVE  (i \in 1 .. Len(inbox[o]) /\ inbox'[o][i] = inbox[o][i]) \/ inbox'[o][i] = give
    <3>1. inbox[o] \in Seq(Mail) BY <1>1
    <3>2. Len(inbox'[o]) = Len(inbox[o]) + 1 /\ Len(inbox[o]) \in Nat BY <2>2, <3>1
    <3>3. CASE i \in 1 .. Len(inbox[o])
      <4>1. Append(inbox[o], give)[i] = inbox[o][i] BY <3>1, <3>3
      <4> QED BY <2>2, <3>3, <4>1
    <3>4. CASE i = Len(inbox[o]) + 1
      <4>1. Append(inbox[o], give)[i] = give BY <3>1, <3>4
      <4> QED BY <2>2, <4>1
    <3> QED BY <3>2, <3>3, <3>4
  <2>5. \A i \in 1 .. Len(inbox'[o]) :
          (\E j \in 1 .. Len(inbox[o]) : inbox[o][j] = inbox'[o][i]) \/ (inbox'[o][i] = give /\ open[o])
    BY <1>7, <2>4
  <2>6. \A i \in 1 .. Len(inbox'[s]) : \E j \in 1 .. Len(inbox[s]) : inbox[s][j] = inbox'[s][i]
    BY <1>5, <2>2
  <2>7. \A r \in S(T, M)!Side : ~open[r] /\ inbox[r] = <<>> => inbox'[r] = <<>>
    BY <1>2, <1>7, <2>3
  <2>8. \A r \in S(T, M)!Side : \A i \in 1 .. Len(inbox'[r]) :
          (\E j \in 1 .. Len(inbox[r]) : inbox[r][j] = inbox'[r][i]) \/ (inbox'[r][i] = give /\ r = o /\ open[r])
    BY <2>3, <2>5, <2>6
  <2> QED BY <1>2, <2>2, <2>7, <2>8 DEF o
<1> QED BY <1>6, <1>7

(* What an exchange says of the two inboxes, for a record by its name. *)
LEMMA Mailed ==
  ASSUME NEW T, NEW M, S(T, M)!TypeOK, Linked(T, M), NEW s \in S(T, M)!Side, NEW a \in Names,
         NEW v \in Nat, NEW b \in Names, NEW w \in Nat,
         S(T, M)!Exchange(s, <<a, v>>, <<b, w>>)
  PROVE  /\ inbox' \in [S(T, M)!Side -> Seq(Mail)] /\ open' = open /\ open[s]
         /\ \A r \in S(T, M)!Side : ~open'[r] => inbox'[r] = <<>>
         /\ \A r \in S(T, M)!Side : \A m : Sent(r, m)' => Sent(r, m) \/ (m = b /\ r # s /\ open[r])
         /\ v = 0 /\ a # "nothing" => Sent(s, a)
<1>1. inbox \in [S(T, M)!Side -> Seq(Mail)] /\ open \in [S(T, M)!Side -> BOOLEAN] /\ \A r \in S(T, M)!Side : ~open[r] => inbox[r] = <<>>
  BY DEF Linked, S!TypeOK
<1> DEFINE take == <<a, v>>
           give == <<b, w>>
<1>2. take \in Mail /\ give \in Mail /\ S(T, M)!Exchange(s, take, give)
  BY DEF Mail
<1> HIDE DEF take, give
<1>3. Delivery(T, M, s, give)
  BY <1>1, <1>2, Exchanges
<1> USE DEF Delivery
<1>4. ASSUME NEW r \in S(T, M)!Side, NEW m, Sent(r, m)' PROVE Sent(r, m) \/ (m = b /\ r # s /\ open[r])
  <2>1. PICK i \in 1 .. Len(inbox'[r]) : inbox'[r][i] = <<m, 0>> BY <1>4 DEF Sent
  <2>2. CASE \E j \in 1 .. Len(inbox[r]) : inbox[r][j] = inbox'[r][i] BY <2>1, <2>2 DEF Sent
  <2>3. CASE inbox'[r][i] = give /\ r = S(T, M)!Other(s) /\ open[r]
    <3>1. <<m, 0>> = <<b, w>> BY <2>1, <2>3 DEF give
    <3>2. m = b BY <3>1
    <3>3. r # s BY <2>3 DEF S!Other
    <3> QED BY <2>3, <3>2, <3>3
  <2> QED BY <1>3, <2>1, <2>2, <2>3
<1>5. v = 0 /\ a # "nothing" => Sent(s, a)
  <2>1. inbox[s] \in Seq(Mail) BY <1>1
  <2>2. a # "nothing" => <<a, v>> # S(T, M)!Nothing BY DEF S!Nothing
  <2>3. a # "nothing" => inbox[s] # <<>> /\ Head(inbox[s]) = <<a, v>> BY <2>2 DEF S!Exchange
  <2>4. inbox[s] # <<>> => Len(inbox[s]) \in Nat /\ Len(inbox[s]) > 0 /\ Head(inbox[s]) = inbox[s][1] BY <2>1
  <2>5. inbox[s] # <<>> => 1 \in 1 .. Len(inbox[s]) BY <2>4
  <2> QED BY <2>3, <2>4, <2>5 DEF Sent
<1>6. open[s] BY DEF S!Exchange
<1> QED BY <1>1, <1>3, <1>4, <1>5, <1>6

(* Every step is one of the producer, one of the consumer, the connection of *)

(* the two, or the start, failure, cancellation or reset of a side; all ways *)
(* to fail close the side's end alike.                                       *)
LEMMA Steps ==
  ASSUME NEW T, NEW M, Produces, [S(T, M)!Next]_local
  PROVE  \/ ProducerStep(T, M) \/ ConsumerStep(T, M) \/ S(T, M)!Connect
         \/ \E s \in S(T, M)!Side : S(T, M)!Start(s) \/ Closing(T, M, s) \/ S(T, M)!CancelSession(s) \/ S(T, M)!Reset(s)
         \/ UNCHANGED local
<1>1. "P" \in S(T, M)!Side /\ "C" \in S(T, M)!Side BY DEF S!Side
<1>2. ASSUME NEW s \in S(T, M)!Side, NEW r, S(T, M)!OpenFails(s, r) PROVE Closing(T, M, s)
  <2>1. s = "P" => record' # cred["P"] BY <1>2 DEF S!OpenFails, Produces, S!Opening
  <2>2. record' \in {record, 0} BY <1>2 DEF S!OpenFails
  <2> QED BY <1>2, <2>1, <2>2 DEF S!OpenFails, Closing, S!Opening, S!Ended
<1>3. ASSUME NEW s \in S(T, M)!Side, NEW r, S(T, M)!MediaFails(s, r) PROVE Closing(T, M, s)
  BY <1>3 DEF S!MediaFails, Closing, S!Ended
<1>4. ASSUME NEW s \in S(T, M)!Side, S(T, M)!Crash(s) PROVE Closing(T, M, s)
  BY <1>4 DEF S!Crash, Closing
<1>5. S(T, M)!Setup => ProducerStep(T, M) \/ ConsumerStep(T, M) \/ S(T, M)!Connect BY DEF S!Setup,
     ProducerStep, ConsumerStep
<1>6. S(T, M)!Media => ProducerStep(T, M) \/ ConsumerStep(T, M) BY DEF S!Media, ProducerStep, ConsumerStep
<1>7. S(T, M)!Refused \/ S(T, M)!Rejected \/ S(T, M)!AttachTimesOut \/ S(T, M)!AcceptTimesOut => \E s \in S(T, M)!Side : Closing(T, M, s)
  BY <1>1, <1>2 DEF S!Refused, S!Rejected, S!AttachTimesOut, S!AcceptTimesOut
<1>8. ASSUME NEW s \in S(T, M)!Side, S(T, M)!Failure(s) \/ S(T, M)!Deadline(s) PROVE Closing(T, M, s)
  BY <1>2, <1>3, <1>8 DEF S!Failure, S!Lost, S!Cancelled, S!Deadline
<1> QED BY <1>4, <1>5, <1>6, <1>7, <1>8 DEF S!Next

(* A step of one side leaves what the other side holds alone. *)
LEMMA Apart ==
  ASSUME NEW T, NEW M, S(T, M)!TypeOK
  PROVE  /\ ProducerStep(T, M) =>
              /\ side'["C"] = side["C"] /\ cred'["C"] = cred["C"] /\ config'["C"] = config["C"] /\ mapped' = mapped
              /\ streams'["C"] = streams["C"] /\ channel'["C"] = channel["C"] /\ open'["C"] = open["C"] /\ cancelled'["C"] = cancelled["C"]
         /\ ConsumerStep(T, M) =>
              /\ side'["P"] = side["P"] /\ cred'["P"] = cred["P"] /\ config'["P"] = config["P"] /\ record' = record
              /\ channel'["P"] = channel["P"] /\ open'["P"] = open["P"] /\ cancelled'["P"] = cancelled["P"]
<1> USE DEF S!TypeOK, S!Step, S!Set, S!Side, S!Exchange, S!linkVars, S!coordVars
<1>1. ASSUME ProducerStep(T, M)
      PROVE  /\ side'["C"] = side["C"] /\ cred'["C"] = cred["C"] /\ config'["C"] = config["C"] /\ mapped' = mapped
             /\ streams'["C"] = streams["C"] /\ channel'["C"] = channel["C"] /\ open'["C"] = open["C"] /\ cancelled'["C"] = cancelled["C"]
  BY <1>1 DEF ProducerStep, S!Publish, S!Accept, S!AuthServer, S!Select, S!ConfigureProducer,
      S!ClockReply, S!StreamServer, S!Attach,
     S!AwaitReady, S!AwaitDrained, S!EndTrack
<1>2. ASSUME ConsumerStep(T, M)
      PROVE  /\ side'["P"] = side["P"] /\ cred'["P"] = cred["P"] /\ config'["P"] = config["P"] /\ record' = record
             /\ channel'["P"] = channel["P"] /\ open'["P"] = open["P"] /\ cancelled'["P"] = cancelled["P"]
  BY <1>2 DEF ConsumerStep, S!Discover, S!AuthClient, S!ConfigureConsumer, S!ClockRequest,
      S!SetMapping, S!StreamClient, S!StreamPublish,
     S!CreateChannel, S!Attached, S!ReportReady, S!ReportDrained, S!DeliverEnd
<1> QED BY <1>1, <1>2

(* Type correctness is preserved. *)
LEMMA TypesKept ==
  ASSUME NEW T, NEW M, S(T, M)!LocalAssumption, S(T, M)!TypeOK, Linked(T, M), Consumes(T), Produces,
         [S(T, M)!Next]_local PROVE S(T, M)!TypeOK'
<1>0. /\ M \in Nat /\ 0 \in 0 .. M
      /\ \A c \in 0 .. M : c # 0 => c \in 1 .. M
      /\ \A c \in 0 .. M : c < M => c + 1 \in 0 .. M
  BY DEF S!LocalAssumption
<1> USE DEF S!TypeOK, S!Step, S!Set, S!Side, S!Both, S!Creds, S!Opening, S!Ended, S!linkVars,
     S!coordVars, S!Exchange
<1>1. ASSUME S(T, M)!Publish PROVE S(T, M)!TypeOK'
  BY <1>1 DEF S!Publish
<1>2. ASSUME S(T, M)!Accept PROVE S(T, M)!TypeOK'
  BY <1>2 DEF S!Accept
<1>3. ASSUME S(T, M)!AuthServer PROVE S(T, M)!TypeOK'
  BY <1>3 DEF S!AuthServer
<1>4. ASSUME S(T, M)!Select PROVE S(T, M)!TypeOK'
  BY <1>4 DEF S!Select
<1>5. ASSUME S(T, M)!ConfigureProducer PROVE S(T, M)!TypeOK'
  BY <1>5 DEF S!ConfigureProducer
<1>6. ASSUME S(T, M)!ClockReply PROVE S(T, M)!TypeOK'
  BY <1>6 DEF S!ClockReply, S!AfterClock
<1>7. ASSUME NEW k \in {"audio", "events"}, S(T, M)!StreamServer(k) PROVE S(T, M)!TypeOK'
  <2>1. record' \in 0 .. M BY <1>0, <1>7 DEF S!StreamServer
  <2>2. streams' \in [S(T, M)!Side -> SUBSET {"audio", "events"}] BY <1>7 DEF S!StreamServer
  <2> QED BY <1>7, <2>1, <2>2 DEF S!StreamServer, S!AfterStream, S!AfterAudio
<1>8. ASSUME S(T, M)!Attach PROVE S(T, M)!TypeOK'
  <2>1. record' \in 0 .. M BY <1>0, <1>8 DEF S!Attach
  <2> QED BY <1>8, <2>1 DEF S!Attach
<1>9. ASSUME S(T, M)!AwaitReady PROVE S(T, M)!TypeOK'
  BY <1>9 DEF S!AwaitReady
<1>10. ASSUME S(T, M)!AwaitDrained PROVE S(T, M)!TypeOK'
  BY <1>10 DEF S!AwaitDrained
<1>11. ASSUME NEW t \in T, S(T, M)!EndTrack(t) PROVE S(T, M)!TypeOK'
  BY <1>11 DEF S!EndTrack
<1>12. ASSUME S(T, M)!Discover PROVE S(T, M)!TypeOK'
  BY <1>12 DEF S!Discover
<1>13. ASSUME S(T, M)!AuthClient PROVE S(T, M)!TypeOK'
  BY <1>13 DEF S!AuthClient
<1>14. ASSUME S(T, M)!ConfigureConsumer PROVE S(T, M)!TypeOK'
  BY <1>14 DEF S!ConfigureConsumer
<1>15. ASSUME S(T, M)!ClockRequest PROVE S(T, M)!TypeOK'
  BY <1>15 DEF S!ClockRequest
<1>16. ASSUME S(T, M)!SetMapping PROVE S(T, M)!TypeOK'
  BY <1>16 DEF S!SetMapping, S!AfterClock
<1>17. ASSUME NEW k \in {"audio", "events"}, S(T, M)!StreamClient(k) PROVE S(T, M)!TypeOK'
  BY <1>17 DEF S!StreamClient, S!ProofOf
<1>18. ASSUME NEW k \in {"audio", "events"}, S(T, M)!StreamPublish(k) PROVE S(T, M)!TypeOK'
  BY <1>18 DEF S!StreamPublish, S!ProofOf, S!AfterStream, S!AfterAudio
<1>19. ASSUME S(T, M)!CreateChannel PROVE S(T, M)!TypeOK'
  BY <1>19 DEF S!CreateChannel
<1>20. ASSUME S(T, M)!Attached PROVE S(T, M)!TypeOK'
  BY <1>20 DEF S!Attached
<1>21. ASSUME S(T, M)!ReportReady PROVE S(T, M)!TypeOK'
  <2>1. cred["C"] \in 1 .. M BY <1>0, <1>21 DEF S!ReportReady, Consumes, Up
  <2>2. ready' \subseteq 1 .. M BY <1>21, <2>1 DEF S!ReportReady
  <2> QED BY <1>21, <2>2 DEF S!ReportReady
<1>22. ASSUME S(T, M)!ReportDrained PROVE S(T, M)!TypeOK'
  <2>1. cred["C"] \in 1 .. M BY <1>0, <1>22 DEF S!ReportDrained, Consumes, Up
  <2>2. drained' \subseteq 1 .. M BY <1>22, <2>1 DEF S!ReportDrained
  <2> QED BY <1>22, <2>2 DEF S!ReportDrained
<1>23. ASSUME NEW t \in T, S(T, M)!DeliverEnd(t) PROVE S(T, M)!TypeOK'
  BY <1>23 DEF S!DeliverEnd
<1>24. ASSUME S(T, M)!Connect PROVE S(T, M)!TypeOK'
  BY <1>24 DEF S!Connect, S!Listening
<1>25. ASSUME NEW s \in S(T, M)!Side, S(T, M)!Start(s) PROVE S(T, M)!TypeOK'
  <2>1. attempts[s] + 1 \in 0 .. M /\ 0 \in 0 .. M BY <1>0, <1>25 DEF S!Start
  <2>2. side' \in [S(T,
       M)!Side -> S(T, M)!Opening \union S(T,
           M)!Ended \union {"opened", "media", "playing"}] BY <1>25 DEF S!Start
  <2>3. cred' \in [S(T, M)!Side -> 0 .. M] /\ attempts' \in [S(T, M)!Side -> 0 .. M] /\ config' \in [S(T, M)!Side -> 0 .. M]
    BY <1>25, <2>1 DEF S!Start
  <2>4. mapped' \in BOOLEAN /\ cancelled' \in [S(T, M)!Side -> BOOLEAN] BY <1>25 DEF S!Start
  <2>5. streams' \in [S(T, M)!Side -> SUBSET {"audio", "events"}] /\ eos' \in [S(T, M)!Side -> SUBSET T] BY <1>25 DEF S!Start
  <2> QED BY <1>25, <2>2, <2>3, <2>4, <2>5 DEF S!Start
<1>26. ASSUME NEW s \in S(T, M)!Side, Closing(T, M, s) PROVE S(T, M)!TypeOK'
  <2>1. record' \in 0 .. M BY <1>0, <1>26 DEF Closing
  <2>2. open' \in [S(T,
       M)!Side -> BOOLEAN] /\ cancelled' \in [S(T, M)!Side -> BOOLEAN] /\ channel' \in [S(T,
           M)!Side -> BOOLEAN] BY <1>26 DEF Closing
  <2>3. side' \in [S(T,
       M)!Side -> S(T, M)!Opening \union S(T,
           M)!Ended \union {"opened", "media", "playing"}] BY <1>26 DEF Closing
  <2> QED BY <1>26, <2>1, <2>2, <2>3 DEF Closing
<1>27. ASSUME NEW s \in S(T, M)!Side, S(T, M)!CancelSession(s) PROVE S(T, M)!TypeOK'
  BY <1>27 DEF S!CancelSession
<1>28. ASSUME NEW s \in S(T, M)!Side, S(T, M)!Reset(s) PROVE S(T, M)!TypeOK'
  BY <1>28 DEF S!Reset
<1>29. ASSUME UNCHANGED local PROVE S(T, M)!TypeOK'
  BY <1>29 DEF local
<1> QED BY Steps, <1>1, <1>2, <1>3, <1>4, <1>5, <1>6, <1>7, <1>8, <1>9, <1>10, <1>11, <1>12, <1>13,
     <1>14, <1>15, <1>16, <1>17, <1>18, <1>19, <1>20, <1>21, <1>22, <1>23, <1>24, <1>25, <1>26, <1>27, <1>28, <1>29 DEF ProducerStep, ConsumerStep

(* The consumer holds what the stages behind it have set up. *)
LEMMA ConsumesKept ==
  ASSUME NEW T, NEW M, S(T, M)!LocalAssumption, S(T, M)!TypeOK, Linked(T, M), Consumes(T), Produces,
         [S(T, M)!Next]_local PROVE Consumes(T)'
<1>0. "audio" \notin T => T \intersect {"audio"} = {} /\ "video" \in T
  <2>1. T \subseteq {"video", "audio"} /\ \E x \in T : TRUE BY DEF S!LocalAssumption
  <2> QED BY <2>1
<1> USE DEF S!TypeOK, S!Step, S!Set, S!Side, Consumes, Before, Timing, SoundUp, EventsUp, Picture, Up,
     StreamsOf, S!coordVars
<1>1. ASSUME S(T, M)!Discover PROVE Consumes(T)'
  BY <1>1 DEF S!Discover
<1>2. ASSUME S(T, M)!AuthClient PROVE Consumes(T)'
  BY <1>2 DEF S!AuthClient
<1>3. ASSUME S(T, M)!ConfigureConsumer PROVE Consumes(T)'
  BY <1>3 DEF S!ConfigureConsumer
<1>4. ASSUME S(T, M)!ClockRequest PROVE Consumes(T)'
  BY <1>4 DEF S!ClockRequest
<1>5. ASSUME S(T, M)!SetMapping PROVE Consumes(T)'
  <2>1. streams'["C"] = {} /\ mapped' /\ cred'["C"] # 0 /\ config'["C"] = cred'["C"] BY <1>5 DEF S!SetMapping
  <2>2. CASE "audio" \in T BY <1>5, <2>1, <2>2 DEF S!SetMapping, S!AfterClock
  <2>3. CASE "audio" \notin T
    <3>1. T \intersect {"audio"} = {} /\ "video" \in T BY <1>0, <2>3
    <3> QED BY <1>5, <2>1, <2>3, <3>1 DEF S!SetMapping, S!AfterClock
  <2> QED BY <2>2, <2>3
<1>6. ASSUME NEW k \in {"audio", "events"}, S(T, M)!StreamClient(k) PROVE Consumes(T)'
  BY <1>6 DEF S!StreamClient, S!ProofOf
<1>7. ASSUME NEW k \in {"audio", "events"}, S(T, M)!StreamPublish(k) PROVE Consumes(T)'
  <2>1. CASE k = "audio"
    <3>1. side["C"] = "audio proof" /\ "audio" \in T /\ streams["C"] = {} BY <1>7,
         <2>1 DEF S!StreamPublish, S!ProofOf
    <3>2. /\ mapped' /\ cred'["C"] # 0 /\ config'["C"] = cred'["C"]
          /\ side'["C"] = S(T, M)!AfterAudio /\ streams'["C"] = {"audio"}
      BY <1>7, <2>1, <3>1 DEF S!StreamPublish, S!AfterStream
    <3>3. T \intersect {"audio"} = {"audio"} BY <3>1
    <3> QED BY <3>1, <3>2, <3>3 DEF S!AfterAudio
  <2>2. CASE k = "events"
    BY <1>7, <2>2 DEF S!StreamPublish, S!ProofOf, S!AfterStream, S!AfterAudio, S!LocalAssumption
  <2> QED BY <2>1, <2>2
<1>8. ASSUME S(T, M)!CreateChannel PROVE Consumes(T)'
  BY <1>8 DEF S!CreateChannel
<1>9. ASSUME S(T, M)!Attached PROVE Consumes(T)'
  BY <1>9 DEF S!Attached
<1>10. ASSUME S(T, M)!ReportReady PROVE Consumes(T)'
  BY <1>10 DEF S!ReportReady, S!Complete
<1>11. ASSUME S(T, M)!ReportDrained PROVE Consumes(T)'
  BY <1>11 DEF S!ReportDrained
<1>12. ASSUME NEW t \in T, S(T, M)!DeliverEnd(t) PROVE Consumes(T)'
  BY <1>12 DEF S!DeliverEnd
<1>13. ASSUME S(T, M)!Connect PROVE Consumes(T)'
  BY <1>13 DEF S!Connect, S!Listening
<1>14. ASSUME NEW s \in S(T, M)!Side, S(T, M)!Start(s) PROVE Consumes(T)'
  BY <1>14 DEF S!Start
<1>15. ASSUME NEW s \in S(T, M)!Side, Closing(T, M, s) PROVE Consumes(T)'
  BY <1>15 DEF Closing
<1>16. ASSUME NEW s \in S(T, M)!Side, S(T, M)!CancelSession(s) PROVE Consumes(T)'
  BY <1>16 DEF S!CancelSession
<1>17. ASSUME NEW s \in S(T, M)!Side, S(T, M)!Reset(s) PROVE Consumes(T)'
  BY <1>17 DEF S!Reset
<1>18. ASSUME ProducerStep(T, M) PROVE Consumes(T)'
  BY <1>18, Apart
<1>19. ASSUME UNCHANGED local PROVE Consumes(T)'
  BY <1>19 DEF local
<1> QED BY Steps, <1>1, <1>2, <1>3, <1>4, <1>5, <1>6, <1>7, <1>8, <1>9, <1>10, <1>11, <1>12, <1>13,
     <1>14, <1>15, <1>16, <1>17, <1>18, <1>19 DEF ConsumerStep

(* The producer configured its coordinator for its own credential. *)
LEMMA ProducesKept ==
  ASSUME NEW T, NEW M, S(T, M)!TypeOK, Linked(T, M), Produces, [S(T, M)!Next]_local PROVE Produces'
<1> USE DEF S!TypeOK, S!Step, S!Set, S!Side, Produces, S!coordVars
<1>1. ASSUME S(T, M)!Publish PROVE Produces'
  BY <1>1 DEF S!Publish
<1>2. ASSUME S(T, M)!Accept PROVE Produces'
  BY <1>2 DEF S!Accept
<1>3. ASSUME S(T, M)!AuthServer PROVE Produces'
  BY <1>3 DEF S!AuthServer
<1>4. ASSUME S(T, M)!Select PROVE Produces'
  BY <1>4 DEF S!Select
<1>5. ASSUME S(T, M)!ConfigureProducer PROVE Produces'
  BY <1>5 DEF S!ConfigureProducer
<1>6. ASSUME S(T, M)!ClockReply PROVE Produces'
  BY <1>6 DEF S!ClockReply, S!AfterClock
<1>7. ASSUME NEW k \in {"audio", "events"}, S(T, M)!StreamServer(k) PROVE Produces'
  BY <1>7 DEF S!StreamServer, S!AfterStream, S!AfterAudio
<1>8. ASSUME S(T, M)!Attach PROVE Produces'
  BY <1>8 DEF S!Attach
<1>9. ASSUME S(T, M)!AwaitReady PROVE Produces'
  BY <1>9 DEF S!AwaitReady
<1>10. ASSUME S(T, M)!AwaitDrained PROVE Produces'
  BY <1>10 DEF S!AwaitDrained
<1>11. ASSUME NEW t \in T, S(T, M)!EndTrack(t) PROVE Produces'
  BY <1>11 DEF S!EndTrack
<1>12. ASSUME S(T, M)!Connect PROVE Produces'
  BY <1>12 DEF S!Connect, S!Listening
<1>13. ASSUME NEW s \in S(T, M)!Side, S(T, M)!Start(s) PROVE Produces'
  BY <1>13 DEF S!Start
<1>14. ASSUME NEW s \in S(T, M)!Side, Closing(T, M, s) PROVE Produces'
  BY <1>14 DEF Closing, S!Ended
<1>15. ASSUME NEW s \in S(T, M)!Side, S(T, M)!CancelSession(s) PROVE Produces'
  BY <1>15 DEF S!CancelSession
<1>16. ASSUME NEW s \in S(T, M)!Side, S(T, M)!Reset(s) PROVE Produces'
  BY <1>16 DEF S!Reset
<1>17. ASSUME ConsumerStep(T, M) PROVE Produces'
  BY <1>17, Apart
<1>18. ASSUME UNCHANGED local PROVE Produces'
  BY <1>18 DEF local
<1> QED BY Steps, <1>1, <1>2, <1>3, <1>4, <1>5, <1>6, <1>7, <1>8, <1>9, <1>10, <1>11, <1>12, <1>13,
     <1>14, <1>15, <1>16, <1>17, <1>18 DEF ProducerStep

(* Steps that do not touch the connection move no mail. *)
LEMMA QuietMoves == ASSUME NEW T, NEW M, S(T, M)!TypeOK, Linked(T, M),
    UNCHANGED S(T, M)!linkVars PROVE Moved(T, M)
<1>1. inbox' = inbox /\ open' = open BY DEF S!linkVars
<1>2. \A r \in S(T, M)!Side : \A m \in Markers : Sent(r, m)' => Sent(r, m) BY <1>1 DEF Sent
<1> QED BY <1>1, <1>2 DEF Moved, Linked

(* An exchange that gives no marker brings no news. *)
LEMMA TalkMoves ==
  ASSUME NEW T, NEW M, S(T, M)!TypeOK, Linked(T, M), NEW s \in S(T, M)!Side, NEW a \in Names,
         NEW v \in Nat, NEW b \in Names, NEW w \in Nat,
         S(T, M)!Exchange(s, <<a, v>>, <<b, w>>), b \notin Markers
  PROVE  Moved(T, M)
<1>1. /\ inbox' \in [S(T, M)!Side -> Seq(Mail)]
      /\ \A r \in S(T, M)!Side : ~open'[r] => inbox'[r] = <<>>
      /\ \A r \in S(T, M)!Side : \A m : Sent(r, m)' => Sent(r, m) \/ (m = b /\ r # s /\ open[r])
  BY Mailed
<1>2. \A r \in S(T, M)!Side : \A m \in Markers : Sent(r, m)' => Sent(r, m) BY <1>1
<1> QED BY <1>1, <1>2 DEF Moved

(* The type of the pair of inboxes a connection starts with. *)
LEMMA PairType ==
  ASSUME NEW S0, NEW a \in S0, NEW b \in S0 PROVE [P |-> a, C |-> b] \in [{"P", "C"} -> S0]
OBVIOUS

(* The type of the pair of inboxes after both were written. *)
LEMMA BothType ==
  ASSUME NEW S0, NEW a \in S0, NEW b \in S0, NEW f \in [{"P", "C"} -> S0], NEW g,
         g = [f EXCEPT !["P"] = a, !["C"] = b]
  PROVE  g \in [{"P", "C"} -> S0] /\ g["P"] = a /\ g["C"] = b
OBVIOUS

(* Markers are on the way only when the step that sends them was taken, and  *)

(* the steps that wait for a marker found it.                                *)
LEMMA MailKept ==
  ASSUME NEW T, NEW M, S(T, M)!LocalAssumption, S(T, M)!TypeOK, Linked(T, M), Produces, [S(T, M)!Next]_local
  PROVE  /\ Moved(T, M)
         /\ S(T, M)!AwaitReady => Sent("P", "R")
         /\ S(T, M)!AwaitDrained => Sent("P", "D")
         /\ S(T, M)!Attached => Sent("C", "P")
<1>0. /\ "P" \in S(T, M)!Side /\ "C" \in S(T, M)!Side /\ cred["P"] \in Nat /\ cred["C"] \in Nat /\ 0 \in Nat
      /\ inbox \in [S(T, M)!Side -> Seq(Mail)] /\ open \in [S(T, M)!Side -> BOOLEAN]
  BY DEF S!Side, S!TypeOK, S!LocalAssumption, Linked
<1>a. \A b \in {"ok", "offer", "selection", "confirm", "nonce", "time", "nothing", "audio", "events", "V"} : b \in Names /\ b \notin Markers
  BY DEF Markers, Names
<1>e. "auth" \in Names /\ "P" \in Names /\ "R" \in Names /\ "D" \in Names /\ "V" \in Names /\ "nothing" \in Names BY DEF Names
<1>1. ASSUME S(T, M)!Publish PROVE Moved(T, M)
  <2>1. UNCHANGED S(T, M)!linkVars BY <1>1 DEF S!Publish
  <2> QED BY <2>1, QuietMoves
<1>2. ASSUME S(T, M)!Accept PROVE Moved(T, M)
  <2>1. UNCHANGED S(T, M)!linkVars BY <1>2 DEF S!Accept
  <2> QED BY <2>1, QuietMoves
<1>3. ASSUME NEW t \in T, S(T, M)!EndTrack(t) PROVE Moved(T, M)
  <2>1. UNCHANGED S(T, M)!linkVars BY <1>3 DEF S!EndTrack
  <2> QED BY <2>1, QuietMoves
<1>4. ASSUME S(T, M)!Discover PROVE Moved(T, M)
  <2>1. UNCHANGED S(T, M)!linkVars BY <1>4 DEF S!Discover
  <2> QED BY <2>1, QuietMoves
<1>5. ASSUME NEW t \in T, S(T, M)!DeliverEnd(t) PROVE Moved(T, M)
  <2>1. UNCHANGED S(T, M)!linkVars BY <1>5 DEF S!DeliverEnd
  <2> QED BY <2>1, QuietMoves
<1>6. ASSUME NEW s \in S(T, M)!Side, S(T, M)!Start(s) PROVE Moved(T, M)
  <2>1. UNCHANGED S(T, M)!linkVars BY <1>6 DEF S!Start
  <2> QED BY <2>1, QuietMoves
<1>7. ASSUME NEW s \in S(T, M)!Side, S(T, M)!CancelSession(s) PROVE Moved(T, M)
  <2>1. UNCHANGED S(T, M)!linkVars BY <1>7 DEF S!CancelSession
  <2> QED BY <2>1, QuietMoves
<1>8. ASSUME NEW s \in S(T, M)!Side, S(T, M)!Reset(s) PROVE Moved(T, M)
  <2>1. UNCHANGED S(T, M)!linkVars BY <1>8 DEF S!Reset
  <2> QED BY <2>1, QuietMoves
<1>9. ASSUME S(T, M)!AuthServer PROVE Moved(T, M)
  <2>1. S(T, M)!Exchange("P", <<"auth", cred["P"]>>, <<"ok", cred["P"]>>) BY <1>9 DEF S!AuthServer, S!Nothing
  <2> QED BY <1>0, <1>a, <1>e, <2>1, TalkMoves
<1>10. ASSUME S(T, M)!AuthClient PROVE Moved(T, M)
  <2>1. S(T, M)!Exchange("C", <<"ok", cred["C"]>>, <<"offer", 0>>) BY <1>10 DEF S!AuthClient, S!Nothing
  <2> QED BY <1>0, <1>a, <1>e, <2>1, TalkMoves
<1>11. ASSUME S(T, M)!Select PROVE Moved(T, M)
  <2>1. S(T, M)!Exchange("P", <<"offer", 0>>, <<"selection", cred["P"]>>) BY <1>11 DEF S!Select, S!Nothing
  <2> QED BY <1>0, <1>a, <1>e, <2>1, TalkMoves
<1>12. ASSUME S(T, M)!ConfigureConsumer PROVE Moved(T, M)
  <2>1. S(T, M)!Exchange("C", <<"selection", cred["C"]>>, <<"confirm", cred["C"]>>) BY <1>12 DEF S!ConfigureConsumer, S!Nothing
  <2> QED BY <1>0, <1>a, <1>e, <2>1, TalkMoves
<1>13. ASSUME S(T, M)!ConfigureProducer PROVE Moved(T, M)
  <2>1. S(T, M)!Exchange("P", <<"confirm", cred["P"]>>, <<"nothing", 0>>) BY <1>13 DEF S!ConfigureProducer, S!Nothing
  <2> QED BY <1>0, <1>a, <1>e, <2>1, TalkMoves
<1>14. ASSUME S(T, M)!ClockRequest PROVE Moved(T, M)
  <2>1. S(T, M)!Exchange("C", <<"nothing", 0>>, <<"nonce", 0>>) BY <1>14 DEF S!ClockRequest, S!Nothing
  <2> QED BY <1>0, <1>a, <1>e, <2>1, TalkMoves
<1>15. ASSUME S(T, M)!ClockReply PROVE Moved(T, M)
  <2>1. S(T, M)!Exchange("P", <<"nonce", 0>>, <<"time", 0>>) BY <1>15 DEF S!ClockReply, S!Nothing
  <2> QED BY <1>0, <1>a, <1>e, <2>1, TalkMoves
<1>16. ASSUME S(T, M)!SetMapping PROVE Moved(T, M)
  <2>1. S(T, M)!Exchange("C", <<"time", 0>>, <<"nothing", 0>>) BY <1>16 DEF S!SetMapping, S!Nothing
  <2> QED BY <1>0, <1>a, <1>e, <2>1, TalkMoves
<1>17. ASSUME NEW k \in {"audio", "events"}, S(T, M)!StreamClient(k) PROVE Moved(T, M)
  <2>1. S(T, M)!Exchange("C", <<"nothing", 0>>, <<k, cred["C"]>>) BY <1>17 DEF S!StreamClient, S!Nothing
  <2>2. k \in Names /\ k \notin Markers BY <1>a
  <2> QED BY <1>0, <1>a, <1>e, <2>1, <2>2, TalkMoves
<1>18. ASSUME NEW k \in {"audio", "events"}, S(T, M)!StreamServer(k) PROVE Moved(T, M)
  <2>1. S(T, M)!Exchange("P", <<k, cred["P"]>>, <<"ok", cred["P"]>>) BY <1>18 DEF S!StreamServer, S!Nothing
  <2>2. k \in Names /\ k \notin Markers BY <1>a
  <2> QED BY <1>0, <1>a, <1>e, <2>1, <2>2, TalkMoves
<1>19. ASSUME NEW k \in {"audio", "events"}, S(T, M)!StreamPublish(k) PROVE Moved(T, M)
  <2>1. S(T, M)!Exchange("C", <<"ok", cred["C"]>>, <<"nothing", 0>>) BY <1>19 DEF S!StreamPublish, S!Nothing
  <2>2. k \in Names /\ k \notin Markers BY <1>a
  <2> QED BY <1>0, <1>a, <1>e, <2>1, <2>2, TalkMoves
<1>20. ASSUME S(T, M)!CreateChannel PROVE Moved(T, M)
  <2>1. S(T, M)!Exchange("C", <<"nothing", 0>>, <<"V", 0>>) BY <1>20 DEF S!CreateChannel, S!Nothing
  <2> QED BY <1>0, <1>a, <1>e, <2>1, TalkMoves
<1>21. ASSUME S(T, M)!Attached PROVE Moved(T, M)
  <2>1. S(T, M)!Exchange("C", <<"P", 0>>, <<"nothing", 0>>) BY <1>21 DEF S!Attached, S!Nothing
  <2> QED BY <1>0, <1>a, <1>e, <2>1, TalkMoves
<1>22. ASSUME S(T, M)!AwaitReady PROVE Moved(T, M)
  <2>1. S(T, M)!Exchange("P", <<"R", 0>>, <<"nothing", 0>>) BY <1>22 DEF S!AwaitReady, S!Nothing
  <2> QED BY <1>0, <1>a, <1>e, <2>1, TalkMoves
<1>23. ASSUME S(T, M)!Attach PROVE Moved(T, M)
  <2>1. S(T, M)!Exchange("P", <<"V", 0>>, <<"P", 0>>) BY <1>23 DEF S!Attach, S!Nothing
  <2>2. /\ inbox' \in [S(T, M)!Side -> Seq(Mail)] /\ open["P"]
        /\ \A r \in S(T, M)!Side : ~open'[r] => inbox'[r] = <<>>
        /\ \A r \in S(T, M)!Side : \A m : Sent(r, m)' => Sent(r, m) \/ (m = "P" /\ r # "P" /\ open[r])
    BY <1>0, <1>e, <2>1, Mailed
  <2>3. \A r \in S(T, M)!Side : r # "P" => r = "C" BY DEF S!Side
  <2>4. \A r \in S(T, M)!Side : \A m \in Markers : Sent(r, m)' => Sent(r, m) \/ News(T, M, r, m) BY <1>23, <2>2, <2>3 DEF News
  <2> QED BY <2>2, <2>4 DEF Moved
<1>24. ASSUME S(T, M)!ReportReady PROVE Moved(T, M)
  <2>1. S(T, M)!Exchange("C", <<"nothing", 0>>, <<"R", 0>>) BY <1>24 DEF S!ReportReady, S!Nothing
  <2>2. /\ inbox' \in [S(T, M)!Side -> Seq(Mail)] /\ open["C"]
        /\ \A r \in S(T, M)!Side : ~open'[r] => inbox'[r] = <<>>
        /\ \A r \in S(T, M)!Side : \A m : Sent(r, m)' => Sent(r, m) \/ (m = "R" /\ r # "C" /\ open[r])
    BY <1>0, <1>e, <2>1, Mailed
  <2>3. \A r \in S(T, M)!Side : r # "C" => r = "P" BY DEF S!Side
  <2>4. \A r \in S(T, M)!Side : \A m \in Markers : Sent(r, m)' => Sent(r, m) \/ News(T, M, r, m) BY <1>24, <2>2, <2>3 DEF News
  <2> QED BY <2>2, <2>4 DEF Moved
<1>25. ASSUME S(T, M)!Connect PROVE Moved(T, M)
  <2>1. open' = S(T, M)!Both(TRUE) /\ inbox' = [P |-> <<<<"auth", cred["C"]>>>>, C |-> <<>>] BY <1>25 DEF S!Connect
  <2>2. inbox'["P"] = <<<<"auth", cred["C"]>>>> /\ inbox'["C"] = <<>> /\ inbox' \in [S(T, M)!Side -> Seq(Mail)]
    <3>1. <<"auth", cred["C"]>> \in Mail BY <1>0, <1>e DEF Mail
    <3>2. <<<<"auth", cred["C"]>>>> \in Seq(Mail) BY <3>1
    <3>3. <<>> \in Seq(Mail) OBVIOUS
    <3>4. inbox' \in [{"P", "C"} -> Seq(Mail)] BY <2>1, <3>2, <3>3, PairType
    <3>5. inbox'["P"] = <<<<"auth", cred["C"]>>>> /\ inbox'["C"] = <<>> BY <2>1
    <3> QED BY <3>4, <3>5 DEF S!Side
  <2>3. \A m \in Markers : ~Sent("P", m)'
    <3>1. ASSUME NEW m \in Markers, NEW i \in 1 .. Len(inbox'["P"]) PROVE inbox'["P"][i] # <<m, 0>>
      <4>1. Len(inbox'["P"]) = 1 /\ inbox'["P"][1] = <<"auth", cred["C"]>> BY <2>2
      <4>2. i = 1 BY <4>1
      <4>3. m # "auth" BY DEF Markers
      <4>4. <<m, 0>> # <<"auth", cred["C"]>> BY <4>3
      <4> QED BY <4>1, <4>2, <4>4
    <3> QED BY <3>1 DEF Sent
  <2>4. \A m : ~Sent("C", m)'
    <3>1. Len(inbox'["C"]) = 0 BY <2>2
    <3> QED BY <3>1 DEF Sent
  <2>5. \A r \in S(T, M)!Side : r = "P" \/ r = "C" BY DEF S!Side
  <2>6. \A r \in S(T, M)!Side : open'[r] BY <2>1 DEF S!Both
  <2> QED BY <2>2, <2>3, <2>4, <2>5, <2>6 DEF Moved
<1>26. ASSUME NEW s \in S(T, M)!Side, Closing(T, M, s) PROVE Moved(T, M)
  <2>1. open' = S(T, M)!Set(open, s, FALSE) /\ inbox' = S(T, M)!Set(inbox, s, <<>>) BY <1>26 DEF Closing
  <2>2. inbox'[s] = <<>> /\ inbox' \in [S(T, M)!Side -> Seq(Mail)] /\ \A r \in S(T, M)!Side : r # s => inbox'[r] = inbox[r] /\ open'[r] = open[r]
    BY <1>0, <2>1 DEF S!Set
  <2>3. Len(inbox'[s]) = 0 BY <2>2
  <2>4. \A r \in S(T, M)!Side : \A m \in Markers : Sent(r, m)' => Sent(r, m) BY <2>2, <2>3 DEF Sent
  <2>5. \A r \in S(T, M)!Side : ~open'[r] => inbox'[r] = <<>> BY <2>2 DEF Linked
  <2> QED BY <2>2, <2>4, <2>5 DEF Moved
<1>27. ASSUME S(T, M)!AwaitDrained PROVE Moved(T, M)
  <2>1. open' = S(T, M)!Set(open, "P", FALSE) /\ inbox' = S(T, M)!Set(inbox, "P", <<>>) BY <1>27 DEF S!AwaitDrained
  <2>2. inbox'["P"] = <<>> /\ inbox' \in [S(T, M)!Side -> Seq(Mail)] /\ \A r \in S(T, M)!Side : r # "P" => inbox'[r] = inbox[r] /\ open'[r] = open[r]
    BY <1>0, <2>1 DEF S!Set
  <2>3. Len(inbox'["P"]) = 0 BY <2>2
  <2>4. \A r \in S(T, M)!Side : \A m \in Markers : Sent(r, m)' => Sent(r, m) BY <2>2, <2>3 DEF Sent
  <2>5. \A r \in S(T, M)!Side : ~open'[r] => inbox'[r] = <<>> BY <2>2 DEF Linked
  <2> QED BY <2>2, <2>4, <2>5 DEF Moved
<1>28. ASSUME S(T, M)!ReportDrained PROVE Moved(T, M)
  <2>1. /\ open["C"] /\ open' = S(T, M)!Set(open, "C", FALSE)
        /\ inbox' = [inbox EXCEPT !["P"] = IF open["P"] THEN Append(@, <<"D", 0>>) ELSE @, !["C"] = <<>>]
    BY <1>28 DEF S!ReportDrained
  <2>2. /\ inbox'["C"] = <<>> /\ inbox' \in [S(T, M)!Side -> Seq(Mail)] /\ open'["P"] = open["P"]
        /\ inbox'["P"] = IF open["P"] THEN Append(inbox["P"], <<"D", 0>>) ELSE inbox["P"]
    <3>1. <<"D", 0>> \in Mail BY <1>0, <1>e DEF Mail
    <3> DEFINE new == IF open["P"] THEN Append(inbox["P"], <<"D", 0>>) ELSE inbox["P"]
    <3>2. new \in Seq(Mail) /\ <<>> \in Seq(Mail) BY <1>0, <3>1
    <3>3. inbox' = [inbox EXCEPT !["P"] = new, !["C"] = <<>>] BY <2>1
    <3>4. inbox \in [{"P", "C"} -> Seq(Mail)] BY <1>0 DEF S!Side
    <3> HIDE DEF new
    <3>5. inbox' \in [{"P", "C"} -> Seq(Mail)] /\ inbox'["P"] = new /\ inbox'["C"] = <<>>
      BY <3>2, <3>3, <3>4, BothType
    <3>6. open'["P"] = open["P"] BY <1>0, <2>1 DEF S!Set
    <3> QED BY <3>5, <3>6 DEF S!Side, new
  <2>3. Len(inbox'["C"]) = 0 BY <2>2
  <2>4. \A m : ~Sent("C", m)' BY <2>3 DEF Sent
  <2>5. ASSUME NEW m \in Markers, Sent("P", m)' PROVE Sent("P", m) \/ News(T, M, "P", m)
    <3>1. PICK i \in 1 .. Len(inbox'["P"]) : inbox'["P"][i] = <<m, 0>> BY <2>5 DEF Sent
    <3>2. CASE ~open["P"] BY <2>2, <3>1, <3>2 DEF Sent
    <3>3. CASE open["P"]
      <4>1. inbox["P"] \in Seq(Mail) /\ inbox'["P"] = Append(inbox["P"], <<"D", 0>>) BY <1>0, <2>2, <3>3
      <4>2. Len(inbox'["P"]) = Len(inbox["P"]) + 1 /\ Len(inbox["P"]) \in Nat BY <4>1
      <4>3. CASE i \in 1 .. Len(inbox["P"])
        <5>1. inbox'["P"][i] = inbox["P"][i] BY <4>1, <4>3
        <5> QED BY <3>1, <4>3, <5>1 DEF Sent
      <4>4. CASE i = Len(inbox["P"]) + 1
        <5>1. inbox'["P"][i] = <<"D", 0>> BY <4>1, <4>4
        <5>2. m = "D" BY <3>1, <5>1
        <5> QED BY <1>28, <2>1, <3>3, <5>2 DEF News
      <4> QED BY <4>2, <4>3, <4>4
    <3> QED BY <3>2, <3>3
  <2>6. \A r \in S(T, M)!Side : r = "P" \/ r = "C" BY DEF S!Side
  <2>7. \A r \in S(T, M)!Side : ~open'[r] => inbox'[r] = <<>> BY <2>2, <2>6 DEF Linked
  <2> QED BY <2>2, <2>4, <2>5, <2>6, <2>7 DEF Moved
<1>29. ASSUME UNCHANGED local PROVE Moved(T, M)
  <2>1. UNCHANGED S(T, M)!linkVars BY <1>29 DEF local, S!linkVars
  <2> QED BY <2>1, QuietMoves
<1>b. Moved(T, M) BY Steps, <1>1, <1>2, <1>3, <1>4, <1>5, <1>6, <1>7, <1>8, <1>9, <1>10, <1>11, <1>12,
     <1>13, <1>14, <1>15, <1>16, <1>17, <1>18, <1>19, <1>20, <1>21, <1>22, <1>23, <1>24, <1>25, <1>26, <1>27, <1>28, <1>29 DEF ProducerStep, ConsumerStep
<1>30. S(T, M)!AwaitReady => Sent("P", "R")
  <2>1. SUFFICES ASSUME S(T, M)!AwaitReady PROVE Sent("P", "R") OBVIOUS
  <2>2. S(T, M)!Exchange("P", <<"R", 0>>, <<"nothing", 0>>) BY <2>1 DEF S!AwaitReady, S!Nothing
  <2> QED BY <1>0, <1>a, <1>e, <2>2, Mailed
<1>31. S(T, M)!Attached => Sent("C", "P")
  <2>1. SUFFICES ASSUME S(T, M)!Attached PROVE Sent("C", "P") OBVIOUS
  <2>2. S(T, M)!Exchange("C", <<"P", 0>>, <<"nothing", 0>>) BY <2>1 DEF S!Attached, S!Nothing
  <2> QED BY <1>0, <1>a, <1>e, <2>2, Mailed
<1>c. S(T, M)!AwaitDrained => Sent("P", "D")
  <2>1. SUFFICES ASSUME S(T, M)!AwaitDrained PROVE Sent("P", "D") OBVIOUS
  <2>2. inbox["P"] # <<>> /\ Head(inbox["P"]) = <<"D", 0>> /\ inbox["P"] \in Seq(Mail) BY <1>0,
       <2>1 DEF S!AwaitDrained
  <2>3. Len(inbox["P"]) \in Nat /\ Len(inbox["P"]) > 0 /\ Head(inbox["P"]) = inbox["P"][1] BY <2>2
  <2>4. 1 \in 1 .. Len(inbox["P"]) BY <2>3
  <2> QED BY <2>2, <2>3, <2>4 DEF Sent
<1> QED BY <1>b, <1>c, <1>30, <1>31

(* Who may open an end of the connection or change a credential. *)
LEMMA Ends ==
  ASSUME NEW T, NEW M, S(T, M)!TypeOK
  PROVE  /\ ProducerStep(T, M) => cred' = cred /\ (open'["P"] => open["P"])
         /\ ConsumerStep(T, M) =>
              /\ open'["C"] => open["C"]
              /\ cred' = cred \/ (side["C"] = "discover" /\ side'["C"] = "connect" /\ open' = open)
              /\ side'["C"] \in {"discover", "connect"} => side["C"] = "discover"
<1> USE DEF S!TypeOK, S!Step, S!Set, S!Side, S!Exchange, S!linkVars, S!coordVars
<1>1. ASSUME ProducerStep(T, M) PROVE cred' = cred /\ (open'["P"] => open["P"])
  BY <1>1 DEF ProducerStep, S!Publish, S!Accept, S!AuthServer, S!Select, S!ConfigureProducer,
      S!ClockReply, S!StreamServer, S!Attach,
     S!AwaitReady, S!AwaitDrained, S!EndTrack
<1>2. ASSUME ConsumerStep(T, M) PROVE open'["C"] => open["C"]
  BY <1>2 DEF ConsumerStep, S!Discover, S!AuthClient, S!ConfigureConsumer, S!ClockRequest,
      S!SetMapping, S!StreamClient, S!StreamPublish,
     S!CreateChannel, S!Attached, S!ReportReady, S!ReportDrained, S!DeliverEnd
<1>3. ASSUME ConsumerStep(T, M) PROVE cred' = cred \/ (side["C"] = "discover" /\ side'["C"] = "connect" /\ open' = open)
  BY <1>3 DEF ConsumerStep, S!Discover, S!AuthClient, S!ConfigureConsumer, S!ClockRequest,
      S!SetMapping, S!StreamClient, S!StreamPublish,
     S!CreateChannel, S!Attached, S!ReportReady, S!ReportDrained, S!DeliverEnd
<1>4. ASSUME ConsumerStep(T, M), side'["C"] \in {"discover", "connect"} PROVE side["C"] = "discover"
  <2>1. \A k \in {"audio", "events"} : ~S(T, M)!StreamClient(k) BY <1>4 DEF S!StreamClient, S!ProofOf
  <2>2. \A k \in {"audio", "events"} : ~S(T, M)!StreamPublish(k) BY <1>4 DEF S!StreamPublish,
       S!AfterStream, S!AfterAudio
  <2>3. \A t \in T : S(T, M)!DeliverEnd(t) => side'["C"] = "playing" BY DEF S!DeliverEnd
  <2> QED BY <1>4, <2>1, <2>2, <2>3 DEF ConsumerStep, S!Discover, S!AuthClient, S!ConfigureConsumer,
       S!ClockRequest, S!SetMapping,
     S!CreateChannel, S!Attached, S!ReportReady, S!ReportDrained, S!AfterClock
<1> QED BY <1>1, <1>2, <1>3, <1>4

(* The steps of neither side enter only these stages. *)
LEMMA Others ==
  ASSUME NEW T, NEW M, S(T, M)!TypeOK, NEW r \in S(T, M)!Side,
         \/ S(T, M)!Connect \/ UNCHANGED local
         \/ \E s \in S(T, M)!Side : S(T, M)!Start(s) \/ Closing(T, M, s) \/ S(T, M)!CancelSession(s) \/ S(T, M)!Reset(s)
  PROVE  side'[r] = side[r] \/ side'[r] \in {"publish", "discover", "proof", "openFailed", "failed", "idle"}
<1> USE DEF S!TypeOK, S!Set, S!Side, S!Step
<1>1. S(T, M)!Connect \/ UNCHANGED local => side'[r] = side[r] \/ side'[r] = "proof" BY DEF S!Connect, local
<1>2. ASSUME NEW s \in S(T, M)!Side,
             S(T, M)!Start(s) \/ Closing(T, M, s) \/ S(T, M)!CancelSession(s) \/ S(T, M)!Reset(s)
      PROVE  side'[r] = side[r] \/ side'[r] \in {"publish", "discover", "openFailed", "failed", "idle"}
  BY <1>2 DEF S!Start, Closing, S!CancelSession, S!Reset
<1> QED BY <1>1, <1>2

(* Two open ends belong to one session, a closed end has no mail. *)
LEMMA LinkedKept ==
  ASSUME NEW T, NEW M, S(T, M)!LocalAssumption, S(T, M)!TypeOK, Linked(T, M), Produces,
         [S(T, M)!Next]_local PROVE Linked(T, M)'
<1> DEFINE Goal == /\ open["P"] /\ open["C"] => cred["C"] = cred["P"]
                   /\ side["C"] \in {"discover", "connect"} => ~open["C"]
<1>0. Goal BY DEF Linked
<1>1. ASSUME ProducerStep(T, M) PROVE Goal'
  BY <1>0, <1>1, Apart, Ends
<1>2. ASSUME ConsumerStep(T, M) PROVE Goal'
  BY <1>0, <1>2, Apart, Ends
<1>3. ASSUME S(T, M)!Connect PROVE Goal'
  BY <1>3 DEF S!Connect, S!Listening, S!Step, S!Set, S!TypeOK, S!Side
<1>4. ASSUME NEW s \in S(T, M)!Side, S(T, M)!Start(s) PROVE Goal'
  BY <1>0, <1>4 DEF S!Start, S!Set, S!TypeOK, S!Side, S!linkVars
<1>5. ASSUME NEW s \in S(T, M)!Side, Closing(T, M, s) PROVE Goal'
  BY <1>0, <1>5 DEF Closing, S!Set, S!TypeOK, S!Side
<1>6. ASSUME NEW s \in S(T, M)!Side, S(T, M)!CancelSession(s) PROVE Goal'
  BY <1>0, <1>6 DEF S!CancelSession, S!linkVars
<1>7. ASSUME NEW s \in S(T, M)!Side, S(T, M)!Reset(s) PROVE Goal'
  BY <1>0, <1>7 DEF S!Reset, S!Step, S!Set, S!TypeOK, S!Side, S!linkVars
<1>8. ASSUME UNCHANGED local PROVE Goal'
  BY <1>0, <1>8 DEF local, S!linkVars
<1>9. Goal' BY <1>1, <1>2, <1>3, <1>4, <1>5, <1>6, <1>7, <1>8, Steps
<1>10. Moved(T, M) BY MailKept
<1> QED BY <1>9, <1>10 DEF Moved, Linked

(* A closed end has been told nothing. *)
LEMMA Untold ==
  ASSUME NEW T, NEW M, Linked(T, M), NEW r \in S(T, M)!Side, ~open[r] PROVE \A m : ~Sent(r, m)
<1>1. Len(inbox[r]) = 0 BY DEF Linked
<1> QED BY <1>1 DEF Sent

(* A producer that was told ready or drained, or went on because it was, was *)

(* told so by a consumer of its own session.                                 *)
LEMMA ToldKept ==
  ASSUME NEW T, NEW M, S(T, M)!LocalAssumption, S(T, M)!TypeOK, Linked(T, M), Consumes(T), Produces,
         Told, [S(T, M)!Next]_local PROVE Told'
<1>0. "P" \in S(T, M)!Side /\ "R" \in Markers /\ "D" \in Markers BY DEF S!Side, Markers
<1>1. /\ Sent("P", "R")' => Sent("P", "R") \/ News(T, M, "P", "R")
      /\ Sent("P", "D")' => Sent("P", "D") \/ News(T, M, "P", "D")
  BY <1>0, MailKept DEF Moved
<1>2. ready \subseteq ready' /\ drained \subseteq drained'
  <2> USE DEF ProducerStep, S!Publish, S!Accept, S!AuthServer, S!Select, S!ConfigureProducer,
       S!ClockReply, S!StreamServer, S!Attach,
     S!AwaitReady, S!AwaitDrained, S!EndTrack, ConsumerStep, S!Discover, S!AuthClient,
         S!ConfigureConsumer, S!ClockRequest, S!SetMapping,
     S!StreamClient, S!StreamPublish, S!CreateChannel, S!Attached, S!ReportReady, S!ReportDrained,
         S!DeliverEnd
  <2>1. ProducerStep(T, M) => ready' = ready /\ drained' = drained OBVIOUS
  <2>2. ConsumerStep(T, M) => ready \subseteq ready' /\ drained \subseteq drained' OBVIOUS
  <2> QED BY <2>1, <2>2, Steps DEF S!Connect, S!Start, Closing, S!CancelSession, S!Reset, local
<1>3. News(T, M, "P", "R") => cred'["P"] \in ready'
  <2>1. SUFFICES ASSUME News(T, M, "P", "R") PROVE cred'["P"] \in ready' OBVIOUS
  <2>2. S(T, M)!ReportReady /\ open["P"] /\ open["C"] BY <2>1 DEF News
  <2>3. side["C"] = "opened" /\ cred' = cred BY <2>2 DEF S!ReportReady, S!Step
  <2>4. cred["C"] = cred["P"] BY <2>2 DEF Linked
  <2>5. S(T, M)!Complete("C")
    <3>1. config["C"] = cred["C"] /\ streams["C"] = StreamsOf(T) /\ ("video" \in T => channel["C"])
      BY <2>3 DEF Consumes, Up
    <3> QED BY <3>1 DEF S!Complete, StreamsOf
  <2>6. mapped BY <2>3 DEF Consumes, Up
  <2> QED BY <2>2, <2>3, <2>4, <2>5, <2>6 DEF S!ReportReady
<1>4. News(T, M, "P", "D") => cred'["P"] \in drained'
  <2>1. SUFFICES ASSUME News(T, M, "P", "D") PROVE cred'["P"] \in drained' OBVIOUS
  <2>2. S(T, M)!ReportDrained /\ open["P"] /\ open["C"] BY <2>1 DEF News
  <2>3. cred["C"] = cred["P"] BY <2>2 DEF Linked
  <2> QED BY <2>2, <2>3 DEF S!ReportDrained
<1>5. cred'["P"] = cred["P"] \/ (~Sent("P", "R")' /\ ~Sent("P", "D")' /\ side'["P"] \notin {"media", "done"})
  <2> DEFINE None == ~Sent("P", "R")' /\ ~Sent("P", "D")' /\ side'["P"] \notin {"media", "done"}
  <2>1. ASSUME NEW s \in S(T, M)!Side, S(T, M)!Start(s) PROVE cred'["P"] = cred["P"] \/ None
    <3>1. CASE s = "P"
      <4>1. ~open["P"] /\ inbox' = inbox /\ side'["P"] = "publish" BY <2>1, <3>1 DEF S!Start, S!TypeOK,
           S!Set, S!Side, S!linkVars
      <4>2. ~Sent("P", "R") /\ ~Sent("P", "D") BY <1>0, <4>1, Untold
      <4>3. ~Sent("P", "R")' /\ ~Sent("P", "D")' BY <4>1, <4>2 DEF Sent
      <4> QED BY <4>1, <4>3
    <3>2. CASE s = "C" BY <2>1, <3>2 DEF S!Start, S!TypeOK, S!Set, S!Side
    <3> QED BY <3>1, <3>2 DEF S!Side
  <2>2. ProducerStep(T, M) \/ ConsumerStep(T, M) => cred'["P"] = cred["P"] BY Apart, Ends
  <2> QED BY <2>1, <2>2, Steps DEF S!Connect, Closing, S!CancelSession, S!Reset, local
<1>6. side'["P"] = "media" => side["P"] = "media" \/ S(T, M)!AwaitReady
  <2>1. ProducerStep(T, M) /\ side'["P"] = "media" => side["P"] = "media" \/ S(T, M)!AwaitReady
    BY DEF ProducerStep, S!Publish, S!Accept, S!AuthServer, S!Select, S!ConfigureProducer,
        S!ClockReply, S!StreamServer, S!Attach,
      S!AwaitDrained, S!EndTrack, S!Step, S!Set, S!TypeOK, S!Side, S!AfterClock, S!AfterStream, S!AfterAudio
  <2>2. ConsumerStep(T, M) => side'["P"] = side["P"] BY Apart
  <2> QED BY <2>1, <2>2, <1>0, Steps, Others
<1>7. side'["P"] = "done" => side["P"] = "done" \/ S(T, M)!AwaitDrained
  <2>1. ProducerStep(T, M) /\ side'["P"] = "done" => side["P"] = "done" \/ S(T, M)!AwaitDrained
    BY DEF ProducerStep, S!Publish, S!Accept, S!AuthServer, S!Select, S!ConfigureProducer,
        S!ClockReply, S!StreamServer, S!Attach,
      S!AwaitReady, S!EndTrack, S!Step, S!Set, S!TypeOK, S!Side, S!AfterClock, S!AfterStream, S!AfterAudio
  <2>2. ConsumerStep(T, M) => side'["P"] = side["P"] BY Apart
  <2> QED BY <2>1, <2>2, <1>0, Steps, Others
<1>8. (S(T, M)!AwaitReady => Sent("P", "R")) /\ (S(T, M)!AwaitDrained => Sent("P", "D")) BY MailKept
<1>9. Sent("P", "R")' \/ side'["P"] = "media" => cred'["P"] \in ready'
  BY <1>1, <1>2, <1>3, <1>5, <1>6, <1>8 DEF Told
<1>10. Sent("P", "D")' \/ side'["P"] = "done" => cred'["P"] \in drained'
  BY <1>1, <1>2, <1>4, <1>5, <1>7, <1>8 DEF Told
<1> QED BY <1>9, <1>10 DEF Told

(* A consumer that was told of the attach has a producer on the channel, as  *)

(* long as that producer is connected.                                       *)
LEMMA ConfirmedKept ==
  ASSUME NEW T, NEW M, S(T, M)!LocalAssumption, S(T, M)!TypeOK, Linked(T, M), Produces, Confirmed(T),
         [S(T, M)!Next]_local PROVE Confirmed(T)'
<1>0. "C" \in S(T, M)!Side /\ "P" \in S(T, M)!Side /\ "P" \in Markers BY DEF S!Side, Markers
<1> DEFINE Op == side["C"] = "opened" /\ "video" \in T
           Ch == open["P"] => channel["P"]
<1>1. Sent("C", "P")' => Sent("C", "P") \/ News(T, M, "C", "P") BY <1>0, MailKept DEF Moved
<1>2. News(T, M, "C", "P") => channel'["P"]
  BY DEF News, S!Attach, S!Set, S!TypeOK, S!Side
<1>3. Op' => Op \/ S(T, M)!Attached
  <2>1. ConsumerStep(T, M) /\ Op' => Op \/ S(T, M)!Attached
    BY DEF ConsumerStep, S!Discover, S!AuthClient, S!ConfigureConsumer, S!ClockRequest, S!SetMapping,
        S!StreamClient, S!StreamPublish,
      S!CreateChannel, S!ReportReady, S!ReportDrained, S!DeliverEnd, S!Step, S!Set, S!TypeOK, S!Side,
          S!AfterClock, S!ProofOf, S!AfterStream, S!AfterAudio
  <2>2. ProducerStep(T, M) => side'["C"] = side["C"] BY Apart
  <2> QED BY <2>1, <2>2, <1>0, Steps, Others
<1>4. S(T, M)!Attached => Sent("C", "P") BY MailKept
<1>5. (Ch => Ch') \/ (~Sent("C", "P")' /\ ~Op')
  <2>1. ProducerStep(T, M) => (Ch => Ch')
    BY DEF ProducerStep, S!Publish, S!Accept, S!AuthServer, S!Select, S!ConfigureProducer,
        S!ClockReply, S!StreamServer, S!Attach,
      S!AwaitReady, S!AwaitDrained, S!EndTrack, S!Exchange, S!Set, S!TypeOK, S!Side, S!linkVars
  <2>2. ConsumerStep(T, M) => (Ch => Ch') BY Apart
  <2>3. S(T, M)!Connect => ~Sent("C", "P")' /\ ~Op'
    <3>1. SUFFICES ASSUME S(T, M)!Connect PROVE ~Sent("C", "P")' /\ ~Op' OBVIOUS
    <3>2. Len(inbox'["C"]) = 0 BY <3>1 DEF S!Connect
    <3>3. side'["C"] = "proof" BY <3>1 DEF S!Connect, S!Step, S!Set, S!TypeOK, S!Side
    <3> QED BY <3>2, <3>3 DEF Sent
  <2> QED BY <2>1, <2>2, <2>3, Steps DEF S!Start, Closing, S!CancelSession, S!Reset, local, S!Set,
       S!TypeOK, S!Side, S!linkVars
<1> QED BY <1>1, <1>2, <1>3, <1>4, <1>5 DEF Confirmed

(* Nothing is left of a failed open. *)
LEMMA CleanKept ==
  ASSUME NEW T, NEW M, S(T, M)!TypeOK, Produces, S(T, M)!OpenFailureClean,
         [S(T, M)!Next]_local PROVE S(T, M)!OpenFailureClean'
<1> DEFINE P1 == side["P"] = "openFailed" => cancelled["P"] /\ ~channel["P"] /\ ~open["P"] /\ record # cred["P"]
           C1 == side["C"] = "openFailed" => cancelled["C"] /\ ~channel["C"] /\ ~open["C"]
<1>0. S(T, M)!OpenFailureClean <=> P1 /\ C1 BY DEF S!OpenFailureClean, S!Side
<1>1. ASSUME ProducerStep(T, M) PROVE (P1 /\ C1)'
  <2>1. C1' BY <1>0, <1>1, Apart
  <2>2. side'["P"] # "openFailed"
    BY <1>1 DEF ProducerStep, S!Publish, S!Accept, S!AuthServer, S!Select, S!ConfigureProducer,
        S!ClockReply, S!StreamServer, S!Attach,
      S!AwaitReady, S!AwaitDrained, S!EndTrack, S!Step, S!Set, S!TypeOK, S!Side, S!AfterClock,
          S!AfterStream, S!AfterAudio
  <2> QED BY <2>1, <2>2
<1>2. ASSUME ConsumerStep(T, M) PROVE (P1 /\ C1)'
  <2>1. P1' BY <1>0, <1>2, Apart
  <2>2. side'["C"] # "openFailed"
    BY <1>2 DEF ConsumerStep, S!Discover, S!AuthClient, S!ConfigureConsumer, S!ClockRequest,
        S!SetMapping, S!StreamClient, S!StreamPublish,
      S!CreateChannel, S!Attached, S!ReportReady, S!ReportDrained, S!DeliverEnd, S!Step, S!Set,
          S!TypeOK, S!Side, S!AfterClock, S!ProofOf, S!AfterStream, S!AfterAudio
  <2> QED BY <2>1, <2>2
<1>3. ASSUME S(T, M)!Connect PROVE (P1 /\ C1)'
  BY <1>3 DEF S!Connect, S!Step, S!Set, S!TypeOK, S!Side
<1>4. ASSUME NEW s \in S(T, M)!Side, S(T, M)!Start(s) PROVE (P1 /\ C1)'
  BY <1>0, <1>4 DEF S!Start, S!Set, S!TypeOK, S!Side, S!linkVars
<1>5. ASSUME NEW s \in S(T, M)!Side, Closing(T, M, s) PROVE (P1 /\ C1)'
  <2>1. CASE s = "P" BY <1>0, <1>5, <2>1 DEF Closing, S!Set, S!TypeOK, S!Side
  <2>2. CASE s = "C"
    <3>1. side'["P"] = "openFailed" => record' # cred'["P"]
      BY <1>0, <1>5, <2>2 DEF Closing, S!Set, S!TypeOK, S!Side, Produces
    <3> QED BY <1>0, <1>5, <2>2, <3>1 DEF Closing, S!Set, S!TypeOK, S!Side
  <2> QED BY <2>1, <2>2 DEF S!Side
<1>6. ASSUME NEW s \in S(T, M)!Side, S(T, M)!CancelSession(s) PROVE (P1 /\ C1)'
  BY <1>0, <1>6 DEF S!CancelSession, S!Set, S!TypeOK, S!Side, S!linkVars
<1>7. ASSUME NEW s \in S(T, M)!Side, S(T, M)!Reset(s) PROVE (P1 /\ C1)'
  BY <1>0, <1>7 DEF S!Reset, S!Step, S!Set, S!TypeOK, S!Side, S!linkVars, S!coordVars
<1>8. ASSUME UNCHANGED local PROVE (P1 /\ C1)'
  BY <1>0, <1>8 DEF local, S!linkVars, S!coordVars
<1>9. (P1 /\ C1)' BY <1>1, <1>2, <1>3, <1>4, <1>5, <1>6, <1>7, <1>8, Steps
<1> QED BY <1>9 DEF S!OpenFailureClean, S!Side

(* The invariant holds before the first session. *)
LEMMA Starts == ASSUME NEW T, NEW M, S(T, M)!LocalAssumption, S(T, M)!Init PROVE SInv(T, M)
<1>0. 0 \in 0 .. M BY DEF S!LocalAssumption
<1>1. S(T, M)!TypeOK
  BY <1>0 DEF S!Init, S!Both, S!Side, S!TypeOK, S!Ended, S!Creds
<1>2. \A s \in S(T, M)!Side : inbox[s] = <<>> /\ ~open[s] /\ side[s] = "idle" BY DEF S!Init, S!Both
<1>3. "P" \in S(T, M)!Side /\ "C" \in S(T, M)!Side BY DEF S!Side
<1>4. inbox \in [S(T, M)!Side -> Seq(Mail)] BY DEF S!Init, S!Both
<1>5. Linked(T, M) BY <1>2, <1>3, <1>4 DEF Linked
<1>6. \A m : ~Sent("P", m) /\ ~Sent("C", m) BY <1>2, <1>3, <1>5, Untold
<1>7. Consumes(T)
  BY <1>3, <1>2 DEF Consumes, Before, Timing, SoundUp, EventsUp, Picture, Up
<1> QED BY <1>1, <1>2, <1>3, <1>5, <1>6, <1>7 DEF SInv, Produces, Told, Confirmed, S!OpenFailureClean

(* The invariant is inductive. *)
LEMMA Kept == ASSUME NEW T, NEW M, S(T, M)!LocalAssumption, SInv(T, M), [S(T, M)!Next]_local PROVE SInv(T, M)'
<1> USE DEF SInv
<1>1. S(T, M)!TypeOK' BY TypesKept
<1>2. Linked(T, M)' BY LinkedKept
<1>3. Consumes(T)' BY ConsumesKept
<1>4. Produces' BY ProducesKept
<1>5. Told' BY ToldKept
<1>6. Confirmed(T)' BY ConfirmedKept
<1>7. S(T, M)!OpenFailureClean' BY CleanKept
<1> QED BY <1>1, <1>2, <1>3, <1>4, <1>5, <1>6, <1>7

(* The invariant implies what the setup promises (MediaAfterReady,           *)

(* DrainedBeforeEnd, OpenFailureClean, AttachedBeforeOpened of               *)
(* framelink_session_transport.cpp).                                         *)
LEMMA Promises ==
  ASSUME NEW T, NEW M PROVE SInv(T, M) => S(T, M)!TypeOK /\ S(T, M)!MediaAfterReady /\ S(T, M)!DrainedBeforeEnd /\ S(T, M)!OpenFailureClean /\ S(T, M)!AttachedBeforeOpened
BY DEF SInv, Told, Produces, Confirmed, S!MediaAfterReady, S!DrainedBeforeEnd, S!AttachedBeforeOpened

(* Each session of the run is an instance of the setup: its steps are steps  *)
(* of it, the ones without failures included.                                *)
LEMMA SessionSteps ==
  /\ L!Next \/ Quiet!Next => S(Both, MaxAttempts)!Next
  /\ Audio!Next => S({"audio"}, 2)!Next
<1>1. L!Next => S(Both, MaxAttempts)!Next
  BY ZenonT(60) DEF
    L!Next, L!Setup, L!Media, L!Refused, L!Rejected, L!AttachTimesOut, L!AcceptTimesOut, L!Accepting, L!Start, L!Failure,
    L!Deadline, L!CancelSession, L!Crash, L!Reset, L!Lost, L!PeerGone, L!Cancelled, L!OpenFails,
    L!MediaFails, L!Listening, L!Publish, L!Discover, L!Connect, L!Accept, L!AuthServer,
    L!AuthClient, L!Select, L!ConfigureConsumer, L!ConfigureProducer, L!ClockRequest,
    L!ClockReply, L!SetMapping, L!StreamClient, L!StreamServer, L!StreamPublish,
    L!CreateChannel, L!Attach, L!Attached, L!ReportReady, L!AwaitReady, L!EndTrack,
    L!DeliverEnd, L!ReportDrained, L!AwaitDrained, L!Exchange, L!Step, L!Set, L!Other,
    L!Nothing, L!Side, L!Both, L!Opening, L!Ended, L!AfterClock, L!AfterAudio, L!AfterStream,
    L!ProofOf, L!Complete, L!linkVars, L!coordVars, L!inputVars, S!Next, S!Setup, S!Media,
    S!Refused, S!Rejected, S!AttachTimesOut, S!AcceptTimesOut, S!Accepting, S!Start, S!Failure, S!Deadline, S!CancelSession,
    S!Crash, S!Reset, S!Lost, S!PeerGone, S!Cancelled, S!OpenFails, S!MediaFails, S!Listening,
    S!Publish, S!Discover, S!Connect, S!Accept, S!AuthServer, S!AuthClient, S!Select,
    S!ConfigureConsumer, S!ConfigureProducer, S!ClockRequest, S!ClockReply, S!SetMapping,
    S!StreamClient, S!StreamServer, S!StreamPublish, S!CreateChannel, S!Attach, S!Attached,
    S!ReportReady, S!AwaitReady, S!EndTrack, S!DeliverEnd, S!ReportDrained, S!AwaitDrained,
    S!Exchange, S!Step, S!Set, S!Other, S!Nothing, S!Side, S!Both, S!Opening, S!Ended,
    S!AfterClock, S!AfterAudio, S!AfterStream, S!ProofOf, S!Complete, S!linkVars, S!coordVars,
    S!inputVars
<1>2. Quiet!Next => S(Both, MaxAttempts)!Next
  BY ZenonT(60) DEF
    Quiet!Next, Quiet!Setup, Quiet!Media, Quiet!Refused, Quiet!Rejected, Quiet!AttachTimesOut, Quiet!AcceptTimesOut, Quiet!Accepting,
    Quiet!Start, Quiet!Failure, Quiet!Deadline, Quiet!CancelSession, Quiet!Crash, Quiet!Reset,
    Quiet!Lost, Quiet!PeerGone, Quiet!Cancelled, Quiet!OpenFails, Quiet!MediaFails,
    Quiet!Listening, Quiet!Publish, Quiet!Discover, Quiet!Connect, Quiet!Accept,
    Quiet!AuthServer, Quiet!AuthClient, Quiet!Select, Quiet!ConfigureConsumer,
    Quiet!ConfigureProducer, Quiet!ClockRequest, Quiet!ClockReply, Quiet!SetMapping,
    Quiet!StreamClient, Quiet!StreamServer, Quiet!StreamPublish, Quiet!CreateChannel,
    Quiet!Attach, Quiet!Attached, Quiet!ReportReady, Quiet!AwaitReady, Quiet!EndTrack,
    Quiet!DeliverEnd, Quiet!ReportDrained, Quiet!AwaitDrained, Quiet!Exchange, Quiet!Step,
    Quiet!Set, Quiet!Other, Quiet!Nothing, Quiet!Side, Quiet!Both, Quiet!Opening, Quiet!Ended,
    Quiet!AfterClock, Quiet!AfterAudio, Quiet!AfterStream, Quiet!ProofOf, Quiet!Complete,
    Quiet!linkVars, Quiet!coordVars, Quiet!inputVars, S!Next, S!Setup, S!Media, S!Refused,
    S!Rejected, S!AttachTimesOut, S!AcceptTimesOut, S!Accepting, S!Start, S!Failure, S!Deadline, S!CancelSession, S!Crash,
    S!Reset, S!Lost, S!PeerGone, S!Cancelled, S!OpenFails, S!MediaFails, S!Listening, S!Publish,
    S!Discover, S!Connect, S!Accept, S!AuthServer, S!AuthClient, S!Select, S!ConfigureConsumer,
    S!ConfigureProducer, S!ClockRequest, S!ClockReply, S!SetMapping, S!StreamClient,
    S!StreamServer, S!StreamPublish, S!CreateChannel, S!Attach, S!Attached, S!ReportReady,
    S!AwaitReady, S!EndTrack, S!DeliverEnd, S!ReportDrained, S!AwaitDrained, S!Exchange, S!Step,
    S!Set, S!Other, S!Nothing, S!Side, S!Both, S!Opening, S!Ended, S!AfterClock, S!AfterAudio,
    S!AfterStream, S!ProofOf, S!Complete, S!linkVars, S!coordVars, S!inputVars
<1>3. Audio!Next => S({"audio"}, 2)!Next
  BY ZenonT(60) DEF
    Audio!Next, Audio!Setup, Audio!Media, Audio!Refused, Audio!Rejected, Audio!AttachTimesOut, Audio!AcceptTimesOut, Audio!Accepting,
    Audio!Start, Audio!Failure, Audio!Deadline, Audio!CancelSession, Audio!Crash, Audio!Reset,
    Audio!Lost, Audio!PeerGone, Audio!Cancelled, Audio!OpenFails, Audio!MediaFails,
    Audio!Listening, Audio!Publish, Audio!Discover, Audio!Connect, Audio!Accept,
    Audio!AuthServer, Audio!AuthClient, Audio!Select, Audio!ConfigureConsumer,
    Audio!ConfigureProducer, Audio!ClockRequest, Audio!ClockReply, Audio!SetMapping,
    Audio!StreamClient, Audio!StreamServer, Audio!StreamPublish, Audio!CreateChannel,
    Audio!Attach, Audio!Attached, Audio!ReportReady, Audio!AwaitReady, Audio!EndTrack,
    Audio!DeliverEnd, Audio!ReportDrained, Audio!AwaitDrained, Audio!Exchange, Audio!Step,
    Audio!Set, Audio!Other, Audio!Nothing, Audio!Side, Audio!Both, Audio!Opening, Audio!Ended,
    Audio!AfterClock, Audio!AfterAudio, Audio!AfterStream, Audio!ProofOf, Audio!Complete,
    Audio!linkVars, Audio!coordVars, Audio!inputVars, S!Next, S!Setup, S!Media, S!Refused,
    S!Rejected, S!AttachTimesOut, S!AcceptTimesOut, S!Accepting, S!Start, S!Failure, S!Deadline, S!CancelSession, S!Crash,
    S!Reset, S!Lost, S!PeerGone, S!Cancelled, S!OpenFails, S!MediaFails, S!Listening, S!Publish,
    S!Discover, S!Connect, S!Accept, S!AuthServer, S!AuthClient, S!Select, S!ConfigureConsumer,
    S!ConfigureProducer, S!ClockRequest, S!ClockReply, S!SetMapping, S!StreamClient,
    S!StreamServer, S!StreamPublish, S!CreateChannel, S!Attach, S!Attached, S!ReportReady,
    S!AwaitReady, S!EndTrack, S!DeliverEnd, S!ReportDrained, S!AwaitDrained, S!Exchange, S!Step,
    S!Set, S!Other, S!Nothing, S!Side, S!Both, S!Opening, S!Ended, S!AfterClock, S!AfterAudio,
    S!AfterStream, S!ProofOf, S!Complete, S!linkVars, S!coordVars, S!inputVars
<1> QED BY <1>1, <1>2, <1>3

SetupInv ==
  /\ part \in {"session", "quiet session"} => SInv(Both, MaxAttempts)
  /\ part = "audio session" => SInv({"audio"}, 2)

(* MCDiscovery's SetupSound (framelink_session_transport.cpp), for any       *)
(* number of attempts of either side, with every failure, cancellation and   *)
(* crash in between, with both tracks and with audio alone: media only into  *)
(* a session whose consumer, of the same credential, reported ready; a       *)
(* normal end only after it drained; nothing left of a failed open; no       *)
(* consumer open without a producer on its channel.                          *)
THEOREM SessionSetup == MCSpec => []SetupSound
<1> USE DiscoveryAssumption
<1>1. S(Both, MaxAttempts)!LocalAssumption /\ S({"audio"}, 2)!LocalAssumption
  BY DEF L!LocalAssumption, Audio!LocalAssumption, S!LocalAssumption
<1>2. MCInit => SetupInv
  <2>1. L!Init \/ Quiet!Init => S(Both, MaxAttempts)!Init /\ S({"audio"}, 2)!Init
    BY DEF L!Init, Quiet!Init, S!Init, L!Both, Quiet!Both, S!Both, L!Side, Quiet!Side, S!Side
  <2>2. MCInit => L!Init \/ Quiet!Init BY DEF MCInit
  <2> QED BY <1>1, <2>1, <2>2, Starts DEF SetupInv
<1>3. SetupInv /\ [MCNext]_mcvars => SetupInv'
  <2>1. SUFFICES ASSUME SetupInv, [MCNext]_mcvars PROVE SetupInv'
    OBVIOUS
  <2>2. part' = part BY <2>1 DEF MCNext, mcvars
  <2>3. CASE part \in {"session", "quiet session"}
    <3>1. L!Next \/ Quiet!Next \/ UNCHANGED local BY <2>1, <2>3 DEF MCNext, mcvars
    <3>2. [S(Both, MaxAttempts)!Next]_local BY <3>1, SessionSteps
    <3>3. SInv(Both, MaxAttempts) BY <2>1, <2>3 DEF SetupInv
    <3>4. SInv(Both, MaxAttempts)' BY <1>1, <3>2, <3>3, Kept
    <3> QED BY <2>2, <2>3, <3>4 DEF SetupInv
  <2>4. CASE part = "audio session"
    <3>1. Audio!Next \/ UNCHANGED local BY <2>1, <2>4 DEF MCNext, mcvars
    <3>2. [S({"audio"}, 2)!Next]_local BY <3>1, SessionSteps
    <3>3. SInv({"audio"}, 2) BY <2>1, <2>4 DEF SetupInv
    <3>4. SInv({"audio"}, 2)' BY <1>1, <3>2, <3>3, Kept
    <3> QED BY <2>2, <2>4, <3>4 DEF SetupInv
  <2>5. CASE part \notin {"session", "quiet session", "audio session"}
    BY <2>2, <2>5 DEF SetupInv
  <2> QED BY <2>3, <2>4, <2>5
<1>4. SetupInv => SetupSound
  <2>1. part \in {"session", "quiet session"} /\ SetupInv =>
          L!TypeOK /\ L!MediaAfterReady /\ L!DrainedBeforeEnd /\ L!OpenFailureClean /\ L!AttachedBeforeOpened
    <3>1. SInv(Both, MaxAttempts) =>
            /\ S(Both, MaxAttempts)!TypeOK /\ S(Both, MaxAttempts)!MediaAfterReady /\ S(Both, MaxAttempts)!DrainedBeforeEnd
            /\ S(Both, MaxAttempts)!OpenFailureClean /\ S(Both, MaxAttempts)!AttachedBeforeOpened
      BY Promises
    <3> QED BY <3>1 DEF SetupInv, L!TypeOK, L!MediaAfterReady, L!DrainedBeforeEnd, L!OpenFailureClean,
         L!AttachedBeforeOpened,
         L!Side, L!Opening, L!Ended, L!Creds, S!TypeOK, S!MediaAfterReady, S!DrainedBeforeEnd, S!OpenFailureClean,
         S!AttachedBeforeOpened, S!Side, S!Opening, S!Ended, S!Creds
  <2>2. part = "audio session" /\ SetupInv =>
          Audio!TypeOK /\ Audio!MediaAfterReady /\ Audio!DrainedBeforeEnd /\ Audio!OpenFailureClean
    <3>1. SInv({"audio"}, 2) =>
            /\ S({"audio"}, 2)!TypeOK /\ S({"audio"}, 2)!MediaAfterReady
            /\ S({"audio"}, 2)!DrainedBeforeEnd /\ S({"audio"}, 2)!OpenFailureClean
      BY Promises
    <3> QED BY <3>1 DEF SetupInv, Audio!TypeOK, Audio!MediaAfterReady, Audio!DrainedBeforeEnd,
         Audio!OpenFailureClean,
         Audio!Side, Audio!Opening, Audio!Ended, Audio!Creds, S!TypeOK, S!MediaAfterReady, S!DrainedBeforeEnd, S!OpenFailureClean,
         S!Side, S!Opening, S!Ended, S!Creds
  <2> QED BY <2>1, <2>2 DEF SetupSound
<1> QED BY <1>2, <1>3, <1>4, PTL DEF MCSpec

=============================================================================
