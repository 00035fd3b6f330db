---------------------------- MODULE MediaProofs ----------------------------
(***************************************************************************)
(* Proofs about the tracks of the GStreamer elements.                      *)
(* Native memory, for any ring, any number of memories and of frames: an   *)
(* image is written by one memory at a time and never while it is read,    *)
(* and each end of the channel is closed once, by its last user.           *)
(* The video track of a session, for any ring, any number of frames, gaps  *)
(* and pauses, with and without an audio track: what the source delivers   *)
(* is a prefix of what was sent.                                           *)
(* The video elements outside a session, for any ring, geometries, frames  *)
(* and restarts, dialling or delegated: what is pushed is described by its *)
(* caps, breaks are marked, and a lease is neither replaced nor redialled. *)
(***************************************************************************)
EXTENDS MCMedia, Sequences, WellFoundedInduction, SequenceTheorems, TLAPS

-----------------------------------------------------------------------------
(* Native memory. *)

(* Leases, and a sequence of them in the order of their frames. *)
Lease == [value : 1..MaxSubmits, done : BOOLEAN]
Growing(ls) == \A i, j \in 1..Len(ls) : i < j => ls[i].value < ls[j].value

(* No two memories refer to one slot. *)
Distinct ==
  \A m, n \in Mems : m # n /\ res[m] # Native!Free /\ res[n] # Native!Free => res[m].slot # res[n].slot

(* The slot of a reservation is reserved. *)
Writing ==
  \A m \in Mems : res[m] # Native!Free
      /\ res[m].state = "writable" => sub[res[m].slot] = Native!Reserved

(* The frames leased and pending are in order, and newer than the newest     *)
(* frame the producer was told it may reuse.                                 *)
Ordered ==
  /\ Growing(leases)
  /\ \A i \in 1..Len(leases) : leases[i].value > consumed /\ leases[i].value <= submits
  /\ pending # 0 => pending > consumed /\ \A i \in 1..Len(leases) : leases[i].value < pending

(* The inductive invariant. *)
NInv == Native!TypeOK /\ Distinct /\ Writing /\ Ordered /\ Native!ReadIntact /\ Native!ClosedByLast

(* Whoever waits for an image holds the producer, so it is open when an      *)
(* image is handed out after the sink stopped.                               *)
Waiters ==
  /\ (waiting = "signal" => active) /\ (waiting = "pool" => pool) /\ (checked => waiting # "none")
  /\ Native!Revoked

(* The leases that are left of ls when the first n are dropped. *)
Dropped(ls, n) ==
  /\ leases' \in Seq(Lease) /\ Len(leases') = Len(ls) - n
  /\ \A i \in 1..Len(leases') : i + n \in 1..Len(ls) /\ leases'[i] = ls[i + n]
  /\ consumed' = IF n = 0 THEN consumed ELSE ls[n].value

(* A set of numbers that is not empty has a first. *)
LEMMA Least ==
  ASSUME NEW U \in SUBSET Nat, U # {} PROVE \E x \in U : \A y \in U : x <= y
<1> DEFINE Less == {ss \in Nat \X Nat : ss[1] < ss[2]}
<1>1. IsWellFoundedOn(Less, Nat) BY NatLessThanWellFounded, Zenon DEF OpToRel
<1>2. PICK x \in U : \A y \in U : ~(<<y, x>> \in Less) BY <1>1, WFMin, Zenon
<1>3. \A y \in U : ~(y < x) BY <1>2, Zenon
<1> QED BY <1>3

(* The leases retired are the longest prefix whose readers are done. *)
LEMMA RetiredIs ==
  ASSUME NEW ls \in Seq(Lease)
  PROVE  /\ Native!Retired(ls) \in 0..Len(ls) /\ \A i \in 1..Native!Retired(ls) : ls[i].done
         /\ Native!Retired(ls) < Len(ls) => ~ls[Native!Retired(ls) + 1].done
<1> DEFINE Ok(n) == (\A i \in 1..n : ls[i].done) /\ (n < Len(ls) => ~ls[n + 1].done)
           U == {i \in 1..Len(ls) : ~ls[i].done}
<1>1. Len(ls) \in Nat OBVIOUS
<1>2. \E n \in 0..Len(ls) : Ok(n)
  <2>1. CASE U = {}
    <3>1. Ok(Len(ls)) BY <1>1, <2>1
    <3> QED BY <1>1, <3>1
  <2>2. CASE U # {}
    <3>1. U \in SUBSET Nat BY <1>1
    <3> HIDE DEF U
    <3>2. PICK x \in U : \A y \in U : x <= y BY <2>2, <3>1, Least
    <3>3. x \in 1..Len(ls) /\ ~ls[x].done BY <3>2 DEF U
    <3>4. \A i \in 1..(x - 1) : i \in 1..Len(ls) /\ i < x BY <1>1, <3>3
    <3>5. \A i \in 1..(x - 1) : ls[i].done BY <3>2, <3>3, <3>4 DEF U
    <3>6. x - 1 \in 0..Len(ls) /\ x - 1 + 1 = x BY <1>1, <3>3
    <3>7. Ok(x - 1) BY <3>3, <3>5, <3>6
    <3> QED BY <3>6, <3>7
  <2> QED BY <2>1, <2>2
<1>3. Native!Retired(ls) = CHOOSE n \in 0..Len(ls) : Ok(n) BY DEF Native!Retired
<1> HIDE DEF Ok
<1>4. Native!Retired(ls) \in 0..Len(ls) /\ Ok(Native!Retired(ls)) BY <1>2, <1>3
<1> QED BY <1>4 DEF Ok

(* Collecting drops that prefix, tells the producer its last value, and      *)
(* leaves unread what was unread.                                            *)
LEMMA Collects ==
  ASSUME NEW ls \in Seq(Lease), Native!Collect(ls)
  PROVE  /\ Dropped(ls, Native!Retired(ls)) /\ Native!Retired(ls) \in 0..Len(ls) /\ Len(ls) \in Nat
         /\ \A i \in 1..Native!Retired(ls) : ls[i].done
         /\ Native!Unread(leases') = {} <=> Native!Unread(ls) = {}
<1> DEFINE n == Native!Retired(ls)
<1>1. n \in 0..Len(ls) /\ Len(ls) \in Nat /\ (\A i \in 1..n : ls[i].done)
    /\ (n < Len(ls) => ~ls[n + 1].done)
  BY RetiredIs
<1>2. leases' = SubSeq(ls, n + 1, Len(ls)) /\ consumed' = IF n = 0 THEN consumed ELSE ls[n].value
  BY DEF Native!Collect
<1> HIDE DEF n
<1>3. leases' \in Seq(Lease)
  <2>1. \A i \in (n + 1)..Len(ls) : ls[i] \in Lease BY <1>1
  <2> QED BY <1>1, <1>2, <2>1
<1>4. Len(leases') = Len(ls) - n BY <1>1, <1>2
<1>5. \A i \in 1..Len(leases') : i + n \in 1..Len(ls) /\ leases'[i] = ls[i + n]
  <2>1. ASSUME NEW i \in 1..(Len(ls) - n)
    PROVE i + n \in 1..Len(ls) /\ SubSeq(ls, n + 1, Len(ls))[i] = ls[i + n]
    BY <1>1
  <2> QED BY <1>2, <1>4, <2>1, Zenon
<1>6. Dropped(ls, n) BY <1>2, <1>3, <1>4, <1>5 DEF Dropped
<1>7. DOMAIN leases' = 1..Len(leases') /\ DOMAIN ls = 1..Len(ls) BY <1>3
<1>8. Native!Unread(leases') = {} <=> Native!Unread(ls) = {}
  <2>1. CASE n = Len(ls)
    <3>1. \A i \in 1..Len(ls) : ls[i].done BY <1>1, <2>1
    <3>2. Len(leases') = 0 BY <1>1, <1>4, <2>1
    <3> QED BY <1>7, <3>1, <3>2 DEF Native!Unread
  <2>2. CASE n < Len(ls)
    <3>1. 1 \in 1..Len(leases') /\ n + 1 \in 1..Len(ls) /\ 1 + n = n + 1 BY <1>1, <1>4, <2>2
    <3>2. ~ls[n + 1].done /\ leases'[1] = ls[n + 1] BY <1>1, <1>5, <2>2, <3>1
    <3>3. 1 \in Native!Unread(leases') /\ n + 1 \in Native!Unread(ls) BY <1>7, <3>1,
         <3>2 DEF Native!Unread
    <3> QED BY <3>3
  <2> QED BY <1>1, <2>1, <2>2
<1> QED BY <1>1, <1>6, <1>8 DEF n

(* What is left after collecting is in order, newer than what the producer   *)
(* was told it may reuse, and still shown by its slots.                      *)
LEMMA CollectKeeps ==
  ASSUME Native!TypeOK, NEW ls \in Seq(Lease), Native!Collect(ls), submits' = submits, sub' = sub,
      pending' \in {0, pending},
         Growing(ls), \A i \in 1..Len(ls) : ls[i].value > consumed /\ ls[i].value <= submits,
         pending' # 0 => pending > consumed /\ \A i \in 1..Len(ls) : ls[i].value < pending,
         \A i \in 1..Len(ls) : ~ls[i].done => \E s \in Slots : sub[s] = ls[i].value,
         pending # 0 => \E s \in Slots : sub[s] = pending
  PROVE  /\ Ordered' /\ Native!ReadIntact' /\ leases' \in Seq(Lease) /\ consumed' \in 0..submits
         /\ Native!Unread(leases') = {} <=> Native!Unread(ls) = {}
<1> DEFINE n == Native!Retired(ls)
<1>1. /\ Dropped(ls, n) /\ n \in 0..Len(ls) /\ Len(ls) \in Nat /\ \A i \in 1..n : ls[i].done
      /\ Native!Unread(leases') = {} <=> Native!Unread(ls) = {}
  BY Collects
<1> HIDE DEF n
<1>2. /\ leases' \in Seq(Lease) /\ Len(leases') = Len(ls) - n
      /\ \A i \in 1..Len(leases') : i + n \in 1..Len(ls) /\ leases'[i] = ls[i + n]
      /\ consumed' = IF n = 0 THEN consumed ELSE ls[n].value
  BY <1>1 DEF Dropped
<1>3. \A i \in 1..Len(ls) : ls[i].value \in Nat
  <2>1. \A i \in 1..Len(ls) : ls[i] \in Lease OBVIOUS
  <2> QED BY <2>1, MediaAssumption DEF Lease, Native!NativeAssumption
<1>4. /\ consumed \in 0..submits /\ submits \in 0..MaxSubmits /\ pending \in 0..submits
           /\ MaxSubmits \in Nat
  BY MediaAssumption DEF Native!TypeOK, Native!NativeAssumption
<1>5. n # 0 => n \in 1..Len(ls) BY <1>1
<1>6. consumed' \in 0..submits /\ consumed' \in Nat BY <1>2, <1>3, <1>4, <1>5
<1>7. \A i \in 1..Len(ls) : i > n => ls[i].value > consumed'
  <2>1. \A i \in 1..Len(ls) : i > n /\ n # 0 => ls[n].value < ls[i].value BY <1>1, <1>5 DEF Growing
  <2> QED BY <1>2, <1>3, <1>4, <1>5, <2>1
<1>8. \A i \in 1..Len(leases') : /\ i + n \in 1..Len(ls) /\ i + n > n /\ leases'[i] = ls[i + n]
    /\ i \in Nat
  BY <1>1, <1>2
<1>9. \A i \in 1..Len(leases') : leases'[i].value > consumed' /\ leases'[i].value <= submits'
  BY <1>7, <1>8
<1>10. Growing(leases')
  <2>1. \A i, j \in 1..Len(leases') : i < j => i + n < j + n BY <1>1, <1>8
  <2> QED BY <1>8, <2>1, Zenon DEF Growing
<1>11. pending' # 0 => pending' > consumed' /\ \A i \in 1..Len(leases') : leases'[i].value < pending'
  <2>1. SUFFICES ASSUME pending' # 0
    PROVE pending' > consumed' /\ \A i \in 1..Len(leases') : leases'[i].value < pending'
    OBVIOUS
  <2>2. pending' = pending /\ pending > consumed /\ \A i \in 1..Len(ls) : ls[i].value < pending BY <2>1
  <2>3. pending > consumed' BY <1>2, <1>5, <2>2
  <2> QED BY <1>8, <2>2, <2>3
<1>12. Ordered' BY <1>9, <1>10, <1>11 DEF Ordered
<1>13. Native!ReadIntact'
  <2>1. DOMAIN leases' = 1..Len(leases') BY <1>2
  <2>2. ASSUME NEW i \in 1..Len(leases'),
       ~leases'[i].done PROVE \E s \in Slots : sub'[s] = leases'[i].value
    BY <1>8, <2>2
  <2>3. pending' # 0 => \E s \in Slots : sub'[s] = pending' OBVIOUS
  <2> QED BY <2>1, <2>2, <2>3 DEF Native!ReadIntact, Native!ReadValues, Native!Unread
<1> QED BY <1>1, <1>2, <1>6, <1>12, <1>13
(* The types of the values frames and slots carry. *)
LEMMA Numbers ==
  ASSUME Native!TypeOK
  PROVE  /\ MaxSubmits \in Nat /\ Native!Reserved = MaxSubmits + 1 /\ submits \in 0..MaxSubmits
              /\ submits \in Nat
         /\ consumed \in 0..submits /\ pending \in 0..submits /\ 0 \in 0..Native!Reserved
         /\ sub \in [Slots -> 0..Native!Reserved] /\ leases \in Seq(Lease) /\ Len(leases) \in Nat
              /\ DOMAIN leases = 1..Len(leases)
         /\ Native!Reserved \in 0..Native!Reserved
              /\ \A v \in 0..MaxSubmits : v \in 0..Native!Reserved /\ v # Native!Reserved
<1>1. MaxSubmits \in Nat /\ leases \in Seq(Lease) BY MediaAssumption DEF Native!NativeAssumption,
     Native!TypeOK, Lease
<1>2. Len(leases) \in Nat /\ DOMAIN leases = 1..Len(leases) BY <1>1
<1>3. /\ submits \in 0..MaxSubmits /\ consumed \in 0..submits /\ pending \in 0..submits
           /\ sub \in [Slots -> 0..Native!Reserved]
    BY DEF Native!TypeOK
<1> QED BY <1>1, <1>2, <1>3 DEF Native!Reserved

(* A step keeps every image that is read or pending, if the slots it         *)
(* overwrites were retired or reserved.                                      *)
LEMMA ReadKept ==
  ASSUME NInv, leases' = leases, pending' = pending, consumed' = consumed, submits' = submits,
         \A s \in Slots : sub'[s] = sub[s] \/ sub[s] <= consumed \/ sub[s] = Native!Reserved
  PROVE  Ordered' /\ Native!ReadIntact'
<1>1. Ordered' BY DEF NInv, Ordered, Growing
<1>2. Native!ReadValues' = Native!ReadValues BY DEF Native!ReadValues, Native!Unread
<1>3. ASSUME NEW v \in Native!ReadValues PROVE \E s \in Slots : sub'[s] = v
  <2>1. PICK s \in Slots : sub[s] = v BY <1>3 DEF NInv, Native!ReadIntact
  <2>2. v > consumed /\ v # Native!Reserved
    <3>1. v \in {leases[i].value : i \in Native!Unread(leases)} \/ (pending # 0 /\ v = pending)
      BY DEF Native!ReadValues
    <3>2. Native!TypeOK /\ Ordered BY DEF NInv
    <3>3. CASE pending # 0 /\ v = pending BY <3>2, <3>3, Numbers DEF Ordered
    <3>4. CASE v \in {leases[i].value : i \in Native!Unread(leases)}
      <4>1. PICK i \in 1..Len(leases) : v = leases[i].value BY <3>2, <3>4, Numbers DEF Native!Unread
      <4>2. v > consumed /\ v <= submits BY <3>2, <4>1 DEF Ordered
      <4>3. leases[i] \in Lease BY <3>2, Numbers
      <4>4. v \in 1..MaxSubmits BY <4>1, <4>3 DEF Lease
      <4> QED BY <3>2, <4>2, <4>4, Numbers
    <3> QED BY <3>1, <3>3, <3>4
  <2>3. consumed \in Nat /\ v \in Nat BY <2>1, Numbers DEF NInv
  <2> QED BY <2>1, <2>2, <2>3
<1> QED BY <1>1, <1>2, <1>3 DEF Native!ReadIntact

(* The invariant holds initially. *)
LEMMA InitNInv == Native!Init => NInv
<1> SUFFICES ASSUME Native!Init PROVE NInv OBVIOUS
<1>1. MaxSubmits \in Nat /\ Native!Reserved \in Nat BY MediaAssumption DEF Native!NativeAssumption,
     Native!Reserved
<1>2. leases = <<>> /\ Len(leases) = 0 /\ pending = 0 /\ DOMAIN leases = {} BY DEF Native!Init
<1>3. leases \in Seq([value : 1..MaxSubmits, done : BOOLEAN]) BY <1>2
<1>4. res \in [Mems -> Native!Reservations] BY DEF Native!Init, Native!Reservations
<1>5. closes \in [{"producer", "consumer"} -> {0, 1}] /\ closes.producer = 0 /\ closes.consumer = 0
  BY DEF Native!Init
<1>6. Native!TypeOK
  <2>1. sub \in [Slots -> 0..Native!Reserved] BY <1>1 DEF Native!Init
  <2>2. submits \in 0..MaxSubmits /\ consumed \in 0..submits /\ pending \in 0..submits
    BY <1>1 DEF Native!Init
  <2>3. {active, pool, checked, pOpen, source, cOpen} \subseteq BOOLEAN
      /\ waiting \in {"none", "signal", "pool"} BY Zenon DEF Native!Init
  <2> QED BY <1>3, <1>4, <1>5, <2>1, <2>2, <2>3 DEF Native!TypeOK
<1>7. Distinct /\ Writing BY DEF Native!Init, Distinct, Writing
<1>8. Ordered /\ Native!ReadIntact BY <1>2 DEF Ordered, Growing, Native!ReadIntact,
     Native!ReadValues, Native!Unread
<1>9. Native!ClosedByLast BY <1>5, Zenon DEF Native!Init, Native!ClosedByLast, Native!Held
<1> QED BY <1>6, <1>7, <1>8, <1>9 DEF NInv

(* Steps that touch no image. *)
LEMMA IdleSteps ==
  ASSUME NInv, Native!ProposeAllocation \/ (\E who \in {"signal",
         "pool"} : Native!AcquireBegin(who)) \/ Native!AcquireSleep \/ Native!AcquireRetry
         \/ Native!AcquireGivesUp \/ UNCHANGED native
  PROVE  NInv'
<1>1. UNCHANGED <<active, res, sub, submits, pending, leases, source, consumed, pOpen, cOpen, closes>>
  BY DEF Native!ProposeAllocation, Native!AcquireBegin, Native!AcquireSleep, Native!AcquireRetry,
      Native!AcquireGivesUp, native, Native!producer, Native!consumer, Native!ends
<1>2. waiting' \in {"none", "signal", "pool"} /\ pool' \in BOOLEAN /\ checked' \in BOOLEAN
  BY Zenon DEF Native!ProposeAllocation, Native!AcquireBegin, Native!AcquireSleep, Native!AcquireRetry,
      Native!AcquireGivesUp, native, Native!producer, NInv, Native!TypeOK
<1>7. pool' = pool \/ active
  BY DEF Native!ProposeAllocation, Native!AcquireBegin, Native!AcquireSleep, Native!AcquireRetry,
      Native!AcquireGivesUp, native, Native!producer
<1>8. Native!Held(active, pool', res) = Native!Held(active, pool, res)
  BY <1>7 DEF Native!Held
<1>3. Native!TypeOK' BY <1>1, <1>2 DEF NInv, Native!TypeOK
<1>4. Distinct' /\ Writing' BY <1>1 DEF NInv, Distinct, Writing
<1>5. Ordered' /\ Native!ReadIntact' BY <1>1, ReadKept
<1>6. Native!ClosedByLast' BY <1>1, <1>8 DEF NInv, Native!ClosedByLast, Native!Unread
<1> QED BY <1>3, <1>4, <1>5, <1>6 DEF NInv

(* Reserving an image: its slot is retired, and no memory refers to it. *)
LEMMA TakeStep ==
  ASSUME NInv, Waiters, NEW m \in Mems, NEW s \in Slots, Native!AcquireTake(m, s) PROVE NInv'
<1> DEFINE new == [state |-> "writable", slot |-> s, ready |-> FALSE]
<1>1. /\ checked /\ res[m] = Native!Free /\ sub[s] <= consumed /\ ~Native!Busy(s)
      /\ res' = [res EXCEPT ![m] = new] /\ sub' = [sub EXCEPT ![s] = Native!Reserved]
           /\ waiting' = "none" /\ checked' = FALSE
      /\ UNCHANGED <<active, pool, submits, pending, leases, source, consumed, pOpen, cOpen, closes>>
  BY DEF Native!AcquireTake, Native!Usable, Native!consumer, Native!ends
<1>2. Native!TypeOK BY DEF NInv
<1>3. new \in Native!Reservations /\ new # Native!Free /\ new.slot = s /\ new.state = "writable"
  BY DEF Native!Reservations, Native!Free
<1> HIDE DEF new
<1>4. res' \in [Mems -> Native!Reservations] /\ res'[m] = new /\ \A n \in Mems \ {m} : res'[n] = res[n]
  BY <1>1, <1>2, <1>3 DEF Native!TypeOK
<1>5. sub' \in [Slots -> 0..Native!Reserved] /\ sub'[s] = Native!Reserved
    /\ \A t \in Slots \ {s} : sub'[t] = sub[t]
  BY <1>1, <1>2, Numbers
<1>6. Native!TypeOK' BY <1>1, <1>2, <1>4, <1>5 DEF Native!TypeOK
<1>7. \A n \in Mems : res[n] # Native!Free => res[n].slot # s /\ n # m BY <1>1 DEF Native!Busy,
     Native!Live
<1>8. Distinct' BY <1>3, <1>4, <1>7 DEF NInv, Distinct
<1>9. Writing'
  <2>1. ASSUME NEW n \in Mems, res'[n] # Native!Free,
       res'[n].state = "writable" PROVE sub'[res'[n].slot] = Native!Reserved
    <3>1. CASE n = m BY <1>3, <1>4, <1>5, <3>1
    <3>2. CASE n # m
      <4>1. res'[n] = res[n] /\ res[n].slot \in Slots BY <1>2, <1>4, <2>1, <3>2 DEF Native!TypeOK,
           Native!Reservations
      <4>2. res[n].slot # s BY <1>7, <2>1, <4>1
      <4> QED BY <1>5, <2>1, <4>1, <4>2 DEF NInv, Writing
    <3> QED BY <3>1, <3>2
  <2> QED BY <2>1 DEF Writing, Native!Reserved
<1>10. Ordered' /\ Native!ReadIntact' BY <1>1, <1>5, ReadKept
<1>11. Native!ClosedByLast'
  <2>1. active \/ pool BY <1>1, <1>2 DEF Waiters, Native!TypeOK
  <2> QED BY <1>1, <2>1 DEF NInv, Native!ClosedByLast, Native!Unread, Native!Held
<1> QED BY <1>6, <1>8, <1>9, <1>10, <1>11 DEF NInv

(* A reservation that cannot be wrapped is cancelled at once. *)
LEMMA WrapFailsStep ==
  ASSUME NInv, NEW s \in Slots, Native!AcquireWrapFails(s) PROVE NInv'
<1>1. /\ sub[s] <= consumed /\ ~Native!Busy(s) /\ sub' = [sub EXCEPT ![s] = 0]
      /\ waiting' = "none" /\ checked' = FALSE
      /\ UNCHANGED <<active, pool, res, submits, pending, leases, source, consumed, pOpen, cOpen,
           closes>>
  BY DEF Native!AcquireWrapFails, Native!Usable, Native!consumer, Native!ends
<1>2. Native!TypeOK BY DEF NInv
<1>3. sub' \in [Slots -> 0..Native!Reserved] /\ \A t \in Slots \ {s} : sub'[t] = sub[t] BY <1>1,
     <1>2, Numbers
<1>4. Native!TypeOK' BY <1>1, <1>2, <1>3 DEF Native!TypeOK
<1>5. Distinct' BY <1>1 DEF NInv, Distinct
<1>6. Writing'
  <2>1. ASSUME NEW n \in Mems, res'[n] # Native!Free,
       res'[n].state = "writable" PROVE sub'[res'[n].slot] = Native!Reserved
    <3>1. res[n].slot \in Slots /\ res[n].slot # s BY <1>1, <1>2, <2>1 DEF Native!TypeOK,
         Native!Reservations, Native!Busy, Native!Live
    <3> QED BY <1>1, <1>3, <2>1, <3>1 DEF NInv, Writing
  <2> QED BY <2>1 DEF Writing, Native!Reserved
<1>7. Ordered' /\ Native!ReadIntact' BY <1>1, <1>3, ReadKept
<1>8. Native!ClosedByLast' BY <1>1 DEF NInv, Native!ClosedByLast, Native!Unread, Native!Held
<1> QED BY <1>4, <1>5, <1>6, <1>7, <1>8 DEF NInv

(* A memory that changes its state only keeps its slot to itself. *)
LEMMA SameMemory ==
  ASSUME NInv, NEW m \in Mems, res[m] # Native!Free, res' \in [Mems -> Native!Reservations],
      res'[m] # Native!Free, res'[m].slot = res[m].slot,
         \A n \in Mems \ {m} : res'[n] = res[n]
  PROVE  Distinct' /\ \A a, p : Native!Held(a, p, res') = Native!Held(a, p, res)
<1>1. Distinct' BY DEF NInv, Distinct
<1>2. (\E n \in Mems : res'[n] # Native!Free) /\ (\E n \in Mems : res[n] # Native!Free) OBVIOUS
<1> QED BY <1>1, <1>2 DEF Native!Held

(* Setting the fence of a reservation. *)
LEMMA ReadyStep ==
  ASSUME NInv, NEW m \in Mems, Native!SetReady(m) PROVE NInv'
<1>1. /\ res[m] # Native!Free /\ res[m].state = "writable" /\ res' = [res EXCEPT ![m].ready = TRUE]
      /\ UNCHANGED <<active, pool, waiting, checked, sub, submits, pending, leases, source, consumed, pOpen,
           cOpen, closes>>
  BY DEF Native!SetReady, Native!consumer, Native!ends
<1>2. Native!TypeOK BY DEF NInv
<1>3. res \in [Mems -> Native!Reservations] BY <1>2 DEF Native!TypeOK
<1>4. res[m] \in [state : {"writable", "published", "cancelled"}, slot : Slots, ready : BOOLEAN]
  BY <1>1, <1>3 DEF Native!Reservations
<1>5. /\ res'[m] \in [state : {"writable", "published", "cancelled"}, slot : Slots, ready : BOOLEAN]
      /\ res'[m].slot = res[m].slot /\ res'[m].state = res[m].state
           /\ \A n \in Mems \ {m} : res'[n] = res[n]
  BY <1>1, <1>3, <1>4, Zenon
<1>6. res' \in [Mems -> Native!Reservations] /\ res'[m] # Native!Free
  <2>1. res'[m] \in Native!Reservations BY <1>5 DEF Native!Reservations
  <2>2. res'[m] # Native!Free BY <1>1, <1>5 DEF Native!Free
  <2> QED BY <1>1, <1>3, <1>5, <2>1, <2>2
<1>7. Distinct' /\ Native!Held(active, pool, res') = Native!Held(active, pool, res) BY <1>1, <1>5,
     <1>6, SameMemory, Zenon
<1>8. Native!TypeOK' BY <1>1, <1>2, <1>6 DEF Native!TypeOK
<1>9. Writing' BY <1>1, <1>5 DEF NInv, Writing
<1>10. Ordered' /\ Native!ReadIntact' BY <1>1, ReadKept
<1>11. Native!ClosedByLast' BY <1>1, <1>7 DEF NInv, Native!ClosedByLast, Native!Unread
<1> QED BY <1>7, <1>8, <1>9, <1>10, <1>11 DEF NInv

(* Publishing: the frame gets a value no earlier frame has, in the slot it   *)
(* was written to.                                                           *)
LEMMA SubmitStep ==
  ASSUME NInv, NEW m \in Mems, Native!Submit(m) PROVE NInv'
<1> DEFINE s == res[m].slot
<1>1. /\ res[m] # Native!Free /\ res[m].state = "writable"
           /\ res' = [res EXCEPT ![m].state = "published"]
      /\ submits < MaxSubmits /\ submits' = submits + 1 /\ sub' = [sub EXCEPT ![s] = submits']
           /\ pending' = submits'
      /\ UNCHANGED <<active, pool, waiting, checked, leases, source, consumed, pOpen, cOpen, closes>>
  BY DEF Native!Submit, Native!Accepts, Native!ends
<1>2. Native!TypeOK BY DEF NInv
<1>3. res \in [Mems -> Native!Reservations] BY <1>2 DEF Native!TypeOK
<1>4. res[m] \in [state : {"writable", "published", "cancelled"}, slot : Slots, ready : BOOLEAN]
  BY <1>1, <1>3 DEF Native!Reservations
<1>5. /\ res'[m] \in [state : {"writable", "published", "cancelled"}, slot : Slots, ready : BOOLEAN]
      /\ res'[m].slot = s /\ res'[m].state = "published" /\ \A n \in Mems \ {m} : res'[n] = res[n]
  BY <1>1, <1>3, <1>4
<1>6. res' \in [Mems -> Native!Reservations] /\ res'[m] # Native!Free
  <2>1. res'[m] \in Native!Reservations BY <1>5 DEF Native!Reservations
  <2>2. res'[m] # Native!Free BY <1>5 DEF Native!Free
  <2> QED BY <1>1, <1>3, <1>5, <2>1, <2>2
<1>7. Distinct' /\ Native!Held(active, pool, res') = Native!Held(active, pool, res) BY <1>1, <1>5,
     <1>6, SameMemory, Zenon
<1>8. s \in Slots /\ sub[s] = Native!Reserved BY <1>1, <1>4 DEF NInv, Writing
<1> HIDE DEF s
<1>9. /\ submits' \in 1..MaxSubmits /\ submits' \in 0..Native!Reserved /\ consumed \in 0..submits'
           /\ submits' \in 0..submits'
      /\ submits' > submits /\ submits' > consumed
  BY <1>1, <1>2, Numbers
<1>10. sub' \in [Slots -> 0..Native!Reserved] /\ sub'[s] = submits'
    /\ \A t \in Slots \ {s} : sub'[t] = sub[t]
  BY <1>1, <1>2, <1>8, <1>9, Numbers
<1>11. Native!TypeOK'
  <2>1. submits' \in 0..MaxSubmits /\ consumed' \in 0..submits' /\ pending' \in 0..submits'
    BY <1>1, <1>9
  <2> QED BY <1>1, <1>2, <1>6, <1>10, <2>1 DEF Native!TypeOK, Native!Reserved
<1>12. Writing'
  <2>1. ASSUME NEW n \in Mems, res'[n] # Native!Free,
       res'[n].state = "writable" PROVE sub'[res'[n].slot] = Native!Reserved
    <3>1. n # m /\ res'[n] = res[n] BY <1>5, <2>1
    <3>2. res[n].slot \in Slots BY <1>3, <2>1, <3>1 DEF Native!Reservations
    <3>3. res[n].slot # s BY <1>1, <2>1, <3>1 DEF NInv, Distinct, s
    <3> QED BY <1>10, <2>1, <3>1, <3>2, <3>3 DEF NInv, Writing
  <2> QED BY <2>1 DEF Writing, Native!Reserved
<1>13. \A i \in 1..Len(leases) : leases[i].value \in Nat /\ leases[i].value > consumed
    /\ leases[i].value <= submits
  <2>1. \A i \in 1..Len(leases) : leases[i] \in Lease BY <1>2, Numbers
  <2>2. \A i \in 1..Len(leases) : leases[i].value \in 1..MaxSubmits BY <2>1 DEF Lease
  <2> QED BY <1>2, <2>2, Numbers DEF NInv, Ordered
<1>14. \A i \in 1..Len(leases) : leases[i].value <= submits' /\ leases[i].value < submits'
    /\ leases[i].value # Native!Reserved
  BY <1>2, <1>9, <1>13, Numbers
<1>15. Ordered'
  <2>1. submits' # 0 BY <1>9
  <2> QED BY <1>1, <1>9, <1>13, <1>14, <2>1 DEF NInv, Ordered, Growing
<1>16. Native!ReadIntact'
  <2>1. ASSUME NEW i \in 1..Len(leases),
       ~leases[i].done PROVE \E t \in Slots : sub'[t] = leases[i].value
    <3>1. i \in Native!Unread(leases) BY <1>2, <2>1, Numbers DEF Native!Unread
    <3>2. PICK t \in Slots : sub[t] = leases[i].value BY <3>1, Zenon DEF NInv, Native!ReadIntact,
         Native!ReadValues
    <3>3. t # s BY <1>8, <1>14, <3>2
    <3> QED BY <1>10, <3>2, <3>3
  <2>2. DOMAIN leases = 1..Len(leases) BY <1>2, Numbers
  <2>3. \E t \in Slots : sub'[t] = pending' BY <1>1, <1>8, <1>10
  <2> QED BY <1>1, <2>1, <2>2, <2>3 DEF Native!ReadIntact, Native!ReadValues, Native!Unread
<1>17. Native!ClosedByLast' BY <1>1, <1>7 DEF NInv, Native!ClosedByLast, Native!Unread
<1> QED BY <1>7, <1>11, <1>12, <1>15, <1>16, <1>17 DEF NInv

(* The first half of letting a memory go. *)
LEMMA CancelStep ==
  ASSUME NInv, NEW m \in Mems, Native!MemCancel(m) PROVE NInv'
<1> DEFINE s == res[m].slot
<1>1. /\ res[m] # Native!Free /\ res' = [res EXCEPT ![m].state = "cancelled"]
      /\ sub' = IF res[m].state = "writable" THEN [sub EXCEPT ![s] = 0] ELSE sub
      /\ UNCHANGED <<active, pool, waiting, checked, submits, pending, leases, source, consumed, pOpen,
           cOpen, closes>>
  BY DEF Native!MemCancel, Native!consumer, Native!ends
<1>2. Native!TypeOK BY DEF NInv
<1>3. res \in [Mems -> Native!Reservations] BY <1>2 DEF Native!TypeOK
<1>4. res[m] \in [state : {"writable", "published", "cancelled"}, slot : Slots, ready : BOOLEAN]
  BY <1>1, <1>3 DEF Native!Reservations
<1>5. /\ res'[m] \in [state : {"writable", "published", "cancelled"}, slot : Slots, ready : BOOLEAN]
      /\ res'[m].slot = s /\ res'[m].state = "cancelled" /\ \A n \in Mems \ {m} : res'[n] = res[n]
  BY <1>1, <1>3, <1>4
<1>6. res' \in [Mems -> Native!Reservations] /\ res'[m] # Native!Free
  <2>1. res'[m] \in Native!Reservations BY <1>5 DEF Native!Reservations
  <2>2. res'[m] # Native!Free BY <1>5 DEF Native!Free
  <2> QED BY <1>1, <1>3, <1>5, <2>1, <2>2
<1>7. Distinct' /\ Native!Held(active, pool, res') = Native!Held(active, pool, res) BY <1>1, <1>5,
     <1>6, SameMemory, Zenon
<1>8. s \in Slots /\ (sub' = sub \/ sub[s] = Native!Reserved) BY <1>1, <1>4 DEF NInv, Writing
<1> HIDE DEF s
<1>9. sub' \in [Slots -> 0..Native!Reserved] /\ \A t \in Slots \ {s} : sub'[t] = sub[t]
  <2>1. sub' = sub \/ sub' = [sub EXCEPT ![s] = 0] BY <1>1
  <2> QED BY <1>2, <2>1, <1>8, Numbers
<1>10. Native!TypeOK' BY <1>1, <1>2, <1>6, <1>9 DEF Native!TypeOK
<1>11. Writing'
  <2>1. ASSUME NEW n \in Mems, res'[n] # Native!Free,
       res'[n].state = "writable" PROVE sub'[res'[n].slot] = Native!Reserved
    <3>1. n # m /\ res'[n] = res[n] BY <1>5, <2>1
    <3>2. res[n].slot \in Slots BY <1>3, <2>1, <3>1 DEF Native!Reservations
    <3>3. res[n].slot # s BY <1>1, <2>1, <3>1 DEF NInv, Distinct, s
    <3> QED BY <1>9, <2>1, <3>1, <3>2, <3>3 DEF NInv, Writing
  <2> QED BY <2>1 DEF Writing, Native!Reserved
<1>12. Ordered' /\ Native!ReadIntact' BY <1>1, <1>8, <1>9, ReadKept
<1>13. Native!ClosedByLast' BY <1>1, <1>7 DEF NInv, Native!ClosedByLast, Native!Unread
<1> QED BY <1>7, <1>10, <1>11, <1>12, <1>13 DEF NInv

(* The last owner closes the producer's end, once. *)
LEMMA OwnerStep ==
  ASSUME NInv, NEW a \in BOOLEAN, NEW p \in BOOLEAN, NEW r, Native!LastOwner(a, p, r), active' = a,
      pool' = p, res' = r,
         Native!Held(active, pool, res), leases' = leases, source' = source
  PROVE  Native!ClosedByLast' /\ pOpen' \in BOOLEAN /\ closes' \in [{"producer", "consumer"} -> {0, 1}]
<1>1. /\ pOpen' = (pOpen /\ Native!Held(a, p, r)) /\ cOpen' = cOpen
      /\ closes' = [closes EXCEPT !.producer = IF ~Native!Held(a, p, r) THEN @ + 1 ELSE @]
  BY DEF Native!LastOwner
<1>2. closes \in [{"producer", "consumer"} -> {0, 1}] BY DEF NInv, Native!TypeOK
<1>3. pOpen = TRUE /\ closes.producer = 0 BY Zenon DEF NInv, Native!ClosedByLast, Native!Held
<1>4. closes' \in [{"producer", "consumer"} -> {0, 1}] /\ closes'.consumer = closes.consumer
      /\ closes'.producer = IF Native!Held(a, p, r) THEN 0 ELSE 1
  BY <1>1, <1>2, <1>3
<1>5. pOpen' = Native!Held(a, p, r) BY <1>1, <1>3 DEF Native!Held
<1>6. Native!Held(active', pool', res') = Native!Held(a, p, r) /\ Native!Held(a, p, r) \in BOOLEAN
  BY DEF Native!Held
<1>7. cOpen' = (source' \/ Native!Unread(leases') # {}) /\ closes'.consumer = (IF cOpen' THEN 0 ELSE 1)
  BY <1>1, <1>4 DEF NInv, Native!ClosedByLast
<1>8. closes'.producer = (IF pOpen' THEN 0 ELSE 1) BY <1>4, <1>5
<1> QED BY <1>4, <1>5, <1>6, <1>7, <1>8 DEF Native!ClosedByLast

(* The second half of letting a memory go. *)
LEMMA FreeStep ==
  ASSUME NInv, NEW m \in Mems, Native!MemFree(m) PROVE NInv'
<1>1. /\ res[m] # Native!Free /\ res' = [res EXCEPT ![m] = Native!Free]
           /\ Native!LastOwner(active, pool, res')
      /\ UNCHANGED <<active, pool, waiting, checked, sub, submits, pending, leases, source, consumed>>
  BY DEF Native!MemFree, Native!consumer
<1>2. Native!TypeOK /\ active \in BOOLEAN /\ pool \in BOOLEAN BY DEF NInv, Native!TypeOK
<1>3. res' \in [Mems -> Native!Reservations] /\ res'[m] = Native!Free
    /\ \A n \in Mems \ {m} : res'[n] = res[n]
  BY <1>1, <1>2 DEF Native!TypeOK, Native!Reservations
<1>4. Native!Held(active, pool, res) BY <1>1 DEF Native!Held
<1>5. Native!ClosedByLast' /\ pOpen' \in BOOLEAN /\ closes' \in [{"producer", "consumer"} -> {0, 1}]
  BY <1>1, <1>2, <1>4, OwnerStep, Zenon
<1>6. Native!TypeOK' BY <1>1, <1>2, <1>3, <1>5 DEF Native!TypeOK, Native!LastOwner
<1>7. Distinct' BY <1>3 DEF NInv, Distinct
<1>8. Writing' BY <1>1, <1>3 DEF NInv, Writing
<1>9. Ordered' /\ Native!ReadIntact' BY <1>1, ReadKept
<1> QED BY <1>5, <1>6, <1>7, <1>8, <1>9 DEF NInv

(* The sink stops, or the pool is finalised, before or after the memories    *)
(* they issued.                                                              *)
LEMMA StopStep ==
  ASSUME NInv, Native!SinkStop \/ Native!PoolFinalize PROVE NInv'
<1>1. /\ active \/ pool
      /\ Native!LastOwner(active', pool', res)
      /\ UNCHANGED <<waiting, checked, res, sub, submits, pending, leases, source, consumed>>
      /\ active' \in {active, FALSE} /\ pool' \in {pool, FALSE}
  BY Zenon DEF Native!SinkStop, Native!PoolFinalize, Native!consumer
<1>2. Native!TypeOK /\ active' \in BOOLEAN /\ pool' \in BOOLEAN BY <1>1, Zenon DEF NInv, Native!TypeOK
<1>3. Native!Held(active, pool, res) BY <1>1 DEF Native!Held
<1>4. Native!ClosedByLast' /\ pOpen' \in BOOLEAN /\ closes' \in [{"producer", "consumer"} -> {0, 1}]
  BY <1>1, <1>2, <1>3, OwnerStep
<1>5. Native!TypeOK' BY <1>1, <1>2, <1>4 DEF Native!TypeOK, Native!LastOwner
<1>6. Distinct' /\ Writing' BY <1>1 DEF NInv, Distinct, Writing
<1>7. Ordered' /\ Native!ReadIntact' BY <1>1, ReadKept
<1> QED BY <1>4, <1>5, <1>6, <1>7 DEF NInv
(* What the consumer knows of its leases. *)
LEMMA LeaseFacts ==
  ASSUME NInv
  PROVE  /\ Growing(leases)
         /\ \A i \in 1..Len(leases) : leases[i] \in Lease /\ leases[i].value > consumed
              /\ leases[i].value <= submits
         /\ \A i \in 1..Len(leases) : ~leases[i].done => \E s \in Slots : sub[s] = leases[i].value
         /\ pending # 0 => /\ pending > consumed /\ \E s \in Slots : sub[s] = pending
                           /\ \A i \in 1..Len(leases) : leases[i].value < pending
<1>1. Native!TypeOK BY DEF NInv
<1>2. \A i \in 1..Len(leases) : leases[i] \in Lease BY <1>1, Numbers
<1>3. \A i \in 1..Len(leases) : ~leases[i].done => i \in Native!Unread(leases) BY <1>1,
     Numbers DEF Native!Unread
<1>4. pending # 0 => \E s \in Slots : sub[s] = pending BY DEF NInv, Native!ReadIntact, Native!ReadValues
<1>5. \A i \in 1..Len(leases) : ~leases[i].done => \E s \in Slots : sub[s] = leases[i].value
  BY <1>3, Zenon DEF NInv, Native!ReadIntact, Native!ReadValues
<1> QED BY <1>2, <1>4, <1>5 DEF NInv, Ordered

(* Leasing the pending frame keeps the leases in order. *)
LEMMA LeaseAppended ==
  ASSUME NInv, pending # 0, NEW d \in BOOLEAN
  PROVE  LET ls == Append(leases, [value |-> pending, done |-> d])
         IN  /\ ls \in Seq(Lease) /\ Len(ls) = Len(leases) + 1 /\ Growing(ls)
             /\ ls[Len(leases) + 1].done = d
             /\ \A i \in 1..Len(leases) : ls[i] = leases[i]
             /\ \A i \in 1..Len(ls) : ls[i].value > consumed /\ ls[i].value <= submits
             /\ \A i \in 1..Len(ls) : \/ i \in 1..Len(leases) /\ ls[i] = leases[i]
                                      \/ i = Len(leases) + 1 /\ ls[i].done = d /\ ls[i].value = pending
<1> DEFINE e == [value |-> pending, done |-> d]
           ls == Append(leases, e)
<1>1. Native!TypeOK /\ pending \in 1..MaxSubmits /\ pending <= submits
  <2>1. Native!TypeOK BY DEF NInv
  <2> QED BY <2>1, Numbers
<1>2. e \in Lease /\ e.value = pending /\ e.done = d BY <1>1 DEF Lease
<1> HIDE DEF e
<1>3. leases \in Seq(Lease) /\ Len(leases) \in Nat BY <1>1, Numbers
<1>4. ls \in Seq(Lease) /\ Len(ls) = Len(leases) + 1 BY <1>2, <1>3
<1>5. \A i \in 1..Len(leases) : ls[i] = leases[i] BY <1>2, <1>3
<1>6. ls[Len(leases) + 1] = e BY <1>2, <1>3
<1> HIDE DEF ls
<1>7. \A i \in 1..Len(ls) : i \in 1..Len(leases) \/ i = Len(leases) + 1 BY <1>3, <1>4
<1>8. \A i \in 1..Len(ls) : \/ i \in 1..Len(leases) /\ ls[i] = leases[i]
                            \/ i = Len(leases) + 1 /\ ls[i].done = d /\ ls[i].value = pending
  BY <1>2, <1>5, <1>6, <1>7
<1>9. \A i \in 1..Len(ls) : ls[i].value > consumed /\ ls[i].value <= submits
  BY <1>1, <1>8, LeaseFacts
<1>10. ASSUME NEW i \in 1..Len(ls), NEW j \in 1..Len(ls), i < j PROVE ls[i].value < ls[j].value
  <2>1. i \in 1..Len(leases) BY <1>3, <1>4, <1>10
  <2>2. CASE j \in 1..Len(leases) BY <1>5, <1>10, <2>1, <2>2, LeaseFacts DEF Growing
  <2>3. CASE j = Len(leases) + 1 BY <1>2, <1>5, <1>6, <2>1, <2>3, LeaseFacts
  <2> QED BY <1>7, <2>2, <2>3
<1>11. Growing(ls) BY <1>10 DEF Growing
<1>12. ls[Len(leases) + 1].done = d BY <1>2, <1>6
<1> QED BY <1>4, <1>5, <1>8, <1>9, <1>11, <1>12 DEF ls, e

(* The source leases and wraps a frame. *)
LEMMA CreateStep ==
  ASSUME NInv, Native!SrcCreate PROVE NInv'
<1> DEFINE ls == Append(leases, [value |-> pending, done |-> FALSE])
<1>1. /\ source /\ pending # 0 /\ leases' = ls /\ pending' = 0
      /\ UNCHANGED <<active, pool, waiting, checked, res, sub, submits, source, consumed, pOpen, cOpen, closes>>
  BY DEF Native!SrcCreate, Native!producer, Native!ends
<1>2. Native!TypeOK BY DEF NInv
<1>3. /\ ls \in Seq(Lease) /\ Growing(ls) /\ \A i \in 1..Len(ls) : ls[i].value > consumed
           /\ ls[i].value <= submits
      /\ \A i \in 1..Len(ls) : \/ i \in 1..Len(leases) /\ ls[i] = leases[i]
                               \/ i = Len(leases) + 1 /\ ls[i].done = FALSE /\ ls[i].value = pending
  BY <1>1, LeaseAppended, Zenon
<1> HIDE DEF ls
<1>4. Native!TypeOK'
  <2>1. pending' \in 0..submits BY <1>1, <1>2, Numbers
  <2> QED BY <1>1, <1>2, <1>3, <2>1 DEF Native!TypeOK, Lease
<1>5. Distinct' /\ Writing' BY <1>1 DEF NInv, Distinct, Writing
<1>6. Ordered' BY <1>1, <1>3 DEF Ordered
<1>7. Native!ReadIntact'
  <2>1. \A i \in 1..Len(ls) : ~ls[i].done => \E s \in Slots : sub[s] = ls[i].value BY <1>1, <1>3,
       LeaseFacts
  <2>2. DOMAIN ls = 1..Len(ls) BY <1>3
  <2> QED BY <1>1, <2>1, <2>2 DEF Native!ReadIntact, Native!ReadValues, Native!Unread
<1>8. Native!ClosedByLast' BY <1>1 DEF NInv, Native!ClosedByLast, Native!Held
<1> QED BY <1>4, <1>5, <1>6, <1>7, <1>8 DEF NInv

(* The source releases a frame it cannot wrap. *)
LEMMA ReleasesStep ==
  ASSUME NInv, Native!SrcReleases PROVE NInv'
<1> DEFINE ls == Append(leases, [value |-> pending, done |-> TRUE])
<1>1. /\ source /\ pending # 0 /\ Native!Collect(ls) /\ pending' = 0
      /\ UNCHANGED <<active, pool, waiting, checked, res, sub, submits, source, pOpen, cOpen, closes>>
  BY DEF Native!SrcReleases, Native!producer, Native!ends
<1>2. Native!TypeOK BY DEF NInv
<1>3. /\ ls \in Seq(Lease) /\ Growing(ls) /\ \A i \in 1..Len(ls) : ls[i].value > consumed
           /\ ls[i].value <= submits
      /\ \A i \in 1..Len(ls) : \/ i \in 1..Len(leases) /\ ls[i] = leases[i]
                               \/ i = Len(leases) + 1 /\ ls[i].done = TRUE /\ ls[i].value = pending
  BY <1>1, LeaseAppended, Zenon
<1> HIDE DEF ls
<1>4. \A i \in 1..Len(ls) : ~ls[i].done => \E s \in Slots : sub[s] = ls[i].value BY <1>3, LeaseFacts
<1>5. Ordered' /\ Native!ReadIntact' /\ leases' \in Seq(Lease) /\ consumed' \in 0..submits
  BY <1>1, <1>2, <1>3, <1>4, LeaseFacts, CollectKeeps
<1>6. Native!TypeOK'
  <2>1. pending' \in 0..submits BY <1>1, <1>2, Numbers
  <2> QED BY <1>1, <1>2, <1>5, <2>1 DEF Native!TypeOK, Lease
<1>7. Distinct' /\ Writing' BY <1>1 DEF NInv, Distinct, Writing
<1>8. Native!ClosedByLast' BY <1>1 DEF NInv, Native!ClosedByLast, Native!Held
<1> QED BY <1>5, <1>6, <1>7, <1>8 DEF NInv

(* The consumer's end is closed by whoever leaves nothing behind, once. *)
LEMMA LeftStep ==
  ASSUME NInv, cOpen = TRUE, NEW left \in BOOLEAN, cOpen' = left, pOpen' = pOpen,
         closes' = [closes EXCEPT !.consumer = IF left THEN @ ELSE @ + 1],
         UNCHANGED <<active, pool, res>>, left = (source' \/ Native!Unread(leases') # {})
  PROVE  Native!ClosedByLast' /\ closes' \in [{"producer", "consumer"} -> {0, 1}]
<1>1. closes \in [{"producer", "consumer"} -> {0, 1}] BY DEF NInv, Native!TypeOK
<1>2. closes.consumer = 0 BY DEF NInv, Native!ClosedByLast
<1>3. /\ closes' \in [{"producer", "consumer"} -> {0, 1}] /\ closes'.producer = closes.producer
      /\ closes'.consumer = IF left THEN 0 ELSE 1
  BY <1>1, <1>2
<1> QED BY <1>3 DEF NInv, Native!ClosedByLast, Native!Held

(* A reader is freed, in any order. *)
LEMMA ReaderStep ==
  ASSUME NInv, NEW i \in 1..Len(leases), Native!ReaderFree(i) PROVE NInv'
<1> DEFINE ls   == [leases EXCEPT ![i].done = TRUE]
           left == source \/ Native!Unread(ls) # {}
<1>1. /\ i \in Native!Unread(leases) /\ Native!Collect(ls) /\ cOpen' = left /\ pOpen' = pOpen
      /\ closes' = [closes EXCEPT !.consumer = IF left THEN @ ELSE @ + 1]
      /\ UNCHANGED <<active, pool, waiting, checked, res, sub, submits, pending, source>>
  BY DEF Native!ReaderFree, Native!producer
<1>2. Native!TypeOK /\ leases \in Seq(Lease) /\ Len(leases) \in Nat BY Numbers DEF NInv
<1>3. leases[i] \in Lease BY <1>2
<1> DEFINE new == [leases[i] EXCEPT !.done = TRUE]
<1>4. new \in Lease /\ new.value = leases[i].value /\ new.done = TRUE
  BY <1>3, Zenon DEF Lease
<1>17. ls = [leases EXCEPT ![i] = new] OBVIOUS
<1> HIDE DEF ls, new
<1>5. /\ ls \in Seq(Lease) /\ Len(ls) = Len(leases) /\ ls[i] = new
      /\ \A j \in 1..Len(leases) : j # i => ls[j] = leases[j]
  BY <1>2, <1>4, <1>17, ExceptSeq
<1>6. /\ \A j \in 1..Len(ls) : ls[j].value = leases[j].value
      /\ \A j \in 1..Len(ls) : ~ls[j].done => ~leases[j].done
  BY <1>4, <1>5
<1>7. Growing(ls) BY <1>5, <1>6, LeaseFacts DEF Growing
<1>8. \A j \in 1..Len(ls) : ls[j].value > consumed /\ ls[j].value <= submits BY <1>5, <1>6, LeaseFacts
<1>9. \A j \in 1..Len(ls) : ~ls[j].done => \E s \in Slots : sub[s] = ls[j].value BY <1>5, <1>6,
     LeaseFacts
<1>10. pending' # 0 => pending > consumed /\ \A j \in 1..Len(ls) : ls[j].value < pending BY <1>1,
     <1>5, <1>6, LeaseFacts
<1>11. /\ Ordered' /\ Native!ReadIntact' /\ leases' \in Seq(Lease) /\ consumed' \in 0..submits
       /\ Native!Unread(leases') = {} <=> Native!Unread(ls) = {}
  BY <1>1, <1>2, <1>5, <1>7, <1>8, <1>9, <1>10, LeaseFacts, CollectKeeps
<1>12. left = (source' \/ Native!Unread(leases') # {}) /\ left \in BOOLEAN BY <1>1, <1>11
<1>13. cOpen = TRUE BY <1>1, Zenon DEF NInv, Native!ClosedByLast
<1> HIDE DEF left
<1>14. Native!ClosedByLast' /\ closes' \in [{"producer", "consumer"} -> {0, 1}] BY <1>1, <1>12,
     <1>13, LeftStep, Zenon
<1>15. Native!TypeOK' BY <1>1, <1>2, <1>11, <1>12, <1>14 DEF Native!TypeOK, Lease
<1>16. Distinct' /\ Writing' BY <1>1 DEF NInv, Distinct, Writing
<1> QED BY <1>11, <1>14, <1>15, <1>16 DEF NInv

(* The source stops, before or after the memories it issued. *)
LEMMA SrcStopStep ==
  ASSUME NInv, Native!SrcStop PROVE NInv'
<1> DEFINE left == Native!Unread(leases) # {}
<1>1. /\ source /\ source' = FALSE /\ cOpen' = left /\ pOpen' = pOpen
      /\ closes' = [closes EXCEPT !.consumer = IF left THEN @ ELSE @ + 1]
      /\ UNCHANGED <<active, pool, waiting, checked, res, sub, submits, pending, leases, consumed>>
  BY DEF Native!SrcStop, Native!producer
<1>2. Native!TypeOK BY DEF NInv
<1>3. cOpen = TRUE BY <1>1, Zenon DEF NInv, Native!ClosedByLast
<1>4. left = (source' \/ Native!Unread(leases') # {}) /\ left \in BOOLEAN BY <1>1
<1> HIDE DEF left
<1>5. Native!ClosedByLast' /\ closes' \in [{"producer", "consumer"} -> {0, 1}] BY <1>1, <1>3, <1>4,
     LeftStep, Zenon
<1>6. Native!TypeOK' BY <1>1, <1>2, <1>4, <1>5, Zenon DEF Native!TypeOK
<1>7. Distinct' /\ Writing' BY <1>1 DEF NInv, Distinct, Writing
<1>8. Ordered' /\ Native!ReadIntact' BY <1>1, ReadKept
<1> QED BY <1>5, <1>6, <1>7, <1>8 DEF NInv

(* The waiters hold the producer, and one image at most is handed out late. *)
LEMMA WaiterSteps ==
  ASSUME NInv, Waiters, [Native!Next]_native PROVE Waiters'
<1> USE DEF Waiters, Native!Revoked
<1>0. checked \in BOOLEAN BY DEF NInv, Native!TypeOK
<1>1. CASE UNCHANGED <<active, pool, waiting, checked, late>> BY <1>1
<1>2. CASE \/ Native!ProposeAllocation \/ (\E who \in {"signal", "pool"} : Native!AcquireBegin(who))
           \/ Native!AcquireSleep \/ Native!AcquireRetry \/ Native!AcquireGivesUp
  BY <1>2, <1>0 DEF Native!ProposeAllocation, Native!AcquireBegin, Native!AcquireSleep,
      Native!AcquireRetry, Native!AcquireGivesUp
<1>3. CASE \E m \in Mems, s \in Slots : Native!AcquireTake(m, s)
  <2>1. /\ checked /\ waiting' = "none" /\ checked' = FALSE /\ active' = active /\ pool' = pool
        /\ late' = IF active THEN late ELSE late + 1
    BY <1>3 DEF Native!AcquireTake
  <2> QED BY <2>1
<1>4. CASE \E s \in Slots : Native!AcquireWrapFails(s)
  <2>1. waiting' = "none" /\ checked' = FALSE /\ active' = active /\ pool' = pool /\ late' = late
    BY <1>4 DEF Native!AcquireWrapFails
  <2> QED BY <2>1
<1>5. CASE Native!SinkStop
  <2>1. active' = FALSE /\ waiting # "signal" /\ UNCHANGED <<pool, waiting, checked, late>>
    BY <1>5 DEF Native!SinkStop
  <2> QED BY <2>1
<1>9. CASE Native!PoolFinalize
  <2>1. pool' = FALSE /\ waiting # "pool" /\ UNCHANGED <<active, waiting, checked, late>>
    BY <1>9 DEF Native!PoolFinalize
  <2> QED BY <2>1
<1>6. CASE (\E m \in Mems : Native!SetReady(m) \/ Native!Submit(m)) \/ (\E m \in Mems : Native!FreeMem(m))
  BY <1>1, <1>6 DEF Native!SetReady, Native!Submit, Native!FreeMem, Native!MemCancel, Native!MemFree
<1>7. CASE Native!FreeReader \/ Native!SrcCreate \/ Native!SrcReleases \/ Native!SrcStop
  BY <1>1, <1>7 DEF Native!FreeReader, Native!ReaderFree, Native!SrcCreate, Native!SrcReleases,
      Native!SrcStop, Native!producer
<1>8. CASE UNCHANGED native BY <1>1, <1>8 DEF native
<1> QED BY <1>2, <1>3, <1>4, <1>5, <1>6, <1>7, <1>8, <1>9 DEF Native!Next

(* The invariant is inductive. *)
LEMMA StepNInv == NInv /\ Waiters /\ [Native!Next]_native => NInv' /\ Waiters'
<1> SUFFICES ASSUME NInv, Waiters, [Native!Next]_native PROVE NInv' BY WaiterSteps
<1>1. DOMAIN leases = 1..Len(leases) BY Numbers DEF NInv
<1> QED BY <1>1, IdleSteps, TakeStep, WrapFailsStep, ReadyStep, SubmitStep, CancelStep, FreeStep,
     StopStep, CreateStep,
        ReleasesStep, ReaderStep, SrcStopStep DEF Native!Next, Native!FreeMem, Native!FreeReader

(* The invariant implies what the native memory promises. *)
LEMMA NativePromises ==
  NInv /\ Waiters => /\ Native!TypeOK /\ Native!WritableIsExclusive /\ Native!ReadIntact
                     /\ Native!ClosedByLast /\ Native!Revoked
BY DEF NInv, Waiters, Distinct, Writing, Native!WritableIsExclusive, Native!Live

(* MCMedia's NativeSound (fl_gst_dmabuf_producer.hpp, gstframelink.cpp), for *)
(* any slots, memories and number of frames, with readers freed in any order *)
(* and elements stopped at any time: an image that may be written is handed  *)
(* out once, an image that is read or pending stays as it is, each end of    *)
(* the channel is closed exactly once, by its last user, and a stopped sink  *)
(* hands out at most the image it had begun to.                              *)
THEOREM NativeImages == MCSpec => []NativeSound
<1> DEFINE I == part = "native" => NInv /\ Waiters
<1>1. MCInit => I
  <2>1. Native!Init => Waiters BY DEF Native!Init, Waiters, Native!Revoked
  <2> QED BY <2>1, InitNInv DEF MCInit
<1>2. I /\ [MCNext]_mcvars => I'
  <2>1. SUFFICES ASSUME I, [MCNext]_mcvars, part' = "native" PROVE NInv' /\ Waiters'
    OBVIOUS
  <2>2. part = "native" BY <2>1, Zenon DEF MCNext, mcvars
  <2>3. [Native!Next]_native BY <2>1, <2>2 DEF MCNext, mcvars
  <2> QED BY <2>1, <2>2, <2>3, StepNInv
<1>3. I => NativeSound BY NativePromises DEF NativeSound
<1> QED BY <1>1, <1>2, <1>3, PTL DEF MCSpec

-----------------------------------------------------------------------------
(* The video track, whatever its pool and the number of gaps the source      *)
(* keeps, with an audio track or with an age limit.                          *)
Cases == [pool : Nat \ {0}, audio : BOOLEAN, most : Nat]

(* What is sent and delivered, what the records are, and the images.         *)
Kinds   == {"frame", "gap", "eos"}
Records == {"BARRIER", "GAP", "FLUSH", "END"}
Image   == [seq : Nat, pts : Nat, discont : BOOLEAN]
NoImage == [seq |-> 0, pts |-> 0, discont |-> FALSE]

(* Is a delivery still possible, and do the records reach the consumer? *)
Live  == src \notin {"eos", "failed", "stopped"}
Alive == Live /\ ~cancelled["C"]

(* What was taken from the events and the ring so far. *)
Taken == Len(out) + Len(gaps)
Hand  == IF src \in {"barrier", "finish"} THEN frame.pts ELSE cLast

Typed ==
  /\ sent \in Seq(Kinds \X Nat) /\ out \in Seq(Kinds \X Nat) /\ events \in Seq(Records \X Nat)
  /\ ring \in Seq(Image) /\ gaps \in Seq(Nat) /\ frame \in Image /\ delivery \in Image
  /\ input \in 0..MaxInput /\ gapEvents \in 0..MaxGapEvents

(* What was sent: in order, and consistent with the sink's counters. *)
SentInOrder ==
  /\ \A i, j \in 1..Len(sent) : i < j /\ sent[i][1] = sent[j][1] => sent[i][2] < sent[j][2]
  /\ \A i \in 1..Len(sent) : sent[i][1] = "frame" => sent[i][2] \in 1..sLast
  /\ \A i \in 1..Len(sent) : sent[i][1] = "gap" => sent[i][2] \in 1..gapEvents
  /\ \A i \in 1..Len(sent) : sent[i][1] = "eos" => i = Len(sent) /\ sent[i][2] = 0 /\ ended # <<>>
  /\ ended # <<>> => /\ sent # <<>> /\ sent[Len(sent)][1] = "eos"
                     /\ ended = <<sFrames, sLast>> /\ sink \in {"ended", "stopped"}
  /\ sLast \in 0..input /\ sFrames \in 0..input
  /\ sink = "rendering" => sLast < input /\ sFrames < input
  /\ known \in {<<>>, ended}
  /\ sink = "adopted" => sFrames = 0 /\ sLast = 0 /\ ended = <<>>

(* A frame that does not start anew follows a frame. *)
Follows ==
  /\ sink \in {"running", "rendering"} /\ ~gapPending /\ sFrames > 0 => sent # <<>>
       /\ sent[Len(sent)][1] = "frame"
  /\ sink = "rendering" /\ ~mark => ~gapPending /\ sFrames > 0
  /\ ring # <<>> /\ ~ring[Len(ring)].discont =>
       \E i \in 2..Len(sent) : sent[i] = <<"frame", sLast>> /\ sent[i - 1][1] = "frame"

(* The ring holds frames not taken, the last one is the newest. *)
Newest ==
  /\ cSeq <= sFrames
  /\ ring # <<>> => /\ ring[Len(ring)].seq = sFrames /\ ring[Len(ring)].pts = sLast /\ cSeq < sFrames
                    /\ \E i \in 1..Len(sent) : sent[i] = <<"frame", sLast>>
  /\ \A i \in 1..Len(ring) : ring[i].pts <= sLast /\ ring[i].seq > 0
  /\ Live => /\ Hand <= sLast
             /\ \A i \in 1..Len(ring) : ring[i].pts > Hand
             /\ cSeq = sFrames => Hand = sLast
             /\ cSeq + 1 = sFrames =>
                  \A i \in 1..Len(sent) : sent[i][1] = "frame"
                      => sent[i][2] <= Hand \/ sent[i][2] = sLast

(* The stages of the source. *)
Stages ==
  /\ frame # NoImage => src \in {"barrier", "finish"}
  /\ src \in {"barrier", "finish"} => cSeq = cFrames + 1
  /\ Live /\ src \notin {"barrier", "finish"} => cSeq = cFrames
  /\ delivery # NoImage => src \in {"push", "idle", "failed"} /\ delivery.pts = cLast
  /\ src = "push" => delivery # NoImage
  /\ Live /\ gaps # <<>> => src \in {"barrier", "finish", "push", "ending"} \/ delivery # NoImage
  /\ src = "ending" => known # <<>> /\ known = <<cFrames, cLast>>
  /\ src = "adopted" => cSeq = 0 /\ cLast = 0 /\ out = <<>> /\ gaps = <<>>
  /\ src = "eos" => ring = <<>> /\ ended # <<>>
  /\ src \in {"failed", "stopped"} => cancelled["C"]

(* What left the source, and what it collected, begins what was sent. *)
Placed ==
  /\ Len(out) <= Len(sent) /\ \A i \in 1..Len(out) : out[i] = sent[i]
  /\ Live =>
       /\ Taken <= Len(sent)
       /\ \A i \in 1..Len(out) : sent[i][1] # "eos"
       /\ \A k \in 1..Len(gaps) : sent[Len(out) + k] = <<"gap", gaps[k]>>
       /\ \A i \in 1..Len(sent) : sent[i][1] = "frame" =>
            (i <= Len(out) <=> (sent[i][2] <= cLast /\ (delivery # NoImage => sent[i][2] # cLast)))
       /\ src = "finish" => Taken < Len(sent) /\ sent[Taken + 1] = <<"frame", frame.pts>>
       /\ delivery # NoImage => Taken < Len(sent) /\ sent[Taken + 1] = <<"frame", cLast>>
       /\ src \in {"barrier", "finish"} =>
            /\ frame.pts > cLast /\ \E i \in 1..Len(sent) : sent[i] = <<"frame", frame.pts>>
            /\ \A i \in 1..Len(sent) : sent[i][1] = "frame"
                 => sent[i][2] <= cLast \/ sent[i][2] >= frame.pts

(* The records on their way: the gaps not taken yet, and the barriers and    *)
(* the end in their places among them.                                       *)
InOrder ==
  /\ \A j \in 1..Len(events) : events[j][1] = "GAP" => events[j][2] <= gapEvents
  /\ \A j \in 1..Len(events) : events[j][1] = "BARRIER" => events[j][2] <= input
  /\ \A j, k \in 1..Len(events) : j < k /\ events[j][1] = events[k][1]
       /\ events[j][1] \in {"BARRIER", "GAP"} => events[j][2] < events[k][2]
  /\ sink = "rendering" => \A j \in 1..Len(events) : events[j] = <<"BARRIER", input>> => j = Len(events)
  /\ \A j \in 1..Len(events) : events[j][1] = "END" => j = Len(events) /\ ended # <<>>

GapsOnTheWay ==
  /\ \A j \in 1..Len(events) : events[j][1] = "GAP"
       => \E i \in (Taken + 1)..Len(sent) : sent[i] = <<"gap", events[j][2]>>
  /\ \A i \in (Taken + 1)..Len(sent) : sent[i][1] = "gap"
       => \E j \in 1..Len(events) : events[j] = <<"GAP", sent[i][2]>>

BarriersPlaced ==
  \A j, l \in 1..Len(events), i, k \in 1..Len(sent) :
    events[j] = <<"BARRIER", sent[i][2]>> /\ sent[i][1] = "frame"
        /\ events[l] = <<"GAP", sent[k][2]>> /\ sent[k][1] = "gap"
      => (l < j <=> k < i)

Announced(ev, p) == \E j \in 1..Len(ev) : ev[j] = <<"BARRIER", p>>

BarriersCome ==
  /\ \A i \in 1..Len(ring) : ring[i].discont => Announced(events, ring[i].pts)
  /\ src = "barrier" => Announced(events, frame.pts)
  /\ sink = "rendering" /\ mark => Announced(events, input)

OnTheWay == InOrder /\ (Alive => GapsOnTheWay /\ BarriersPlaced /\ BarriersCome)

VInv(c) == Track(c)!TypeOK /\ Typed /\ SentInOrder /\ Follows /\ Newest /\ Stages /\ Placed /\ OnTheWay

(* The bounds of every case are those of MCMedia. *)
LEMMA CaseIs == ASSUME NEW c \in Cases PROVE Track(c)!VideoAssumption
<1>1. {MaxInput, MaxGapEvents, MaxPauses} \subseteq Nat BY MediaAssumption DEF Track!VideoAssumption, Lone
<1>2. c.pool \in Nat \ {0} /\ c.audio \in BOOLEAN /\ c.most \in Nat BY DEF Cases
<1> QED BY <1>1, <1>2 DEF Track!VideoAssumption

(* There is one way to hold no frame. *)
LEMMA OneNone == ASSUME NEW c \in Cases PROVE Track(c)!None = NoImage
BY DEF Track!None, NoImage

(* The invariant holds initially. *)
LEMMA VideoBegins == ASSUME NEW c \in Cases, Track(c)!Init PROVE VInv(c)
<1>bounds. Track(c)!VideoAssumption BY CaseIs
<1> USE <1>bounds, OneNone DEF Track!Init, Track!VideoAssumption
<1>0. NoImage \in Image /\ NoImage.pts = 0 BY DEF NoImage, Image
<1>1. Track(c)!TypeOK
  <2>1. {sFrames, sLast, cFrames, cLast, cSeq} \subseteq 0..MaxInput OBVIOUS
  <2>2. Len(ring) <= c.pool /\ Len(gaps) <= c.most OBVIOUS
  <2> QED BY <2>1, <2>2, Zenon DEF Track!TypeOK, Track!Running
<1>2. Typed BY <1>0 DEF Typed
<1>3. SentInOrder BY DEF SentInOrder
<1>4. Follows BY DEF Follows
<1>5. Newest BY DEF Newest, Hand
<1>6. Stages BY DEF Stages
<1>7. Placed BY DEF Placed, Live, Taken
<1>8. OnTheWay BY DEF OnTheWay, InOrder, GapsOnTheWay, BarriersPlaced, BarriersCome, Taken, Alive, Live
<1> QED BY <1>1, <1>2, <1>3, <1>4, <1>5, <1>6, <1>7, <1>8 DEF VInv

(* The streams of the track. *)
streams == <<sent, out, events, ring, gaps>>

(* Steps that change no stream, and leave the source where it is. *)
LEMMA SinkQuiet ==
  ASSUME NEW c \in Cases, VInv(c), UNCHANGED <<src, cFrames, cLast, cSeq, frame, delivery>>,
         UNCHANGED streams,
         known' = known \/ (known' = ended /\ src # "ending"),
         UNCHANGED <<input, gapEvents, ended>>,
         UNCHANGED <<sFrames, sLast, mark, gapPending>>,
         {attached', flushing'} \subseteq BOOLEAN,
         cancelled' \in [{"P", "C"} -> BOOLEAN], cancelled["C"] => cancelled'["C"],
         sink' = sink \/ (sink' = "running" /\ sink = "rendering") \/ (sink' = "failed"
             /\ ended = <<>>) \/ sink' = "stopped"
  PROVE  VInv(c)'
<1> USE DEF VInv, streams
<1>0. src' = src /\ ring' = ring /\ events' = events /\ sent' = sent /\ out' = out /\ gaps' = gaps
    /\ input' = input
  OBVIOUS
<1>1. Track(c)!TypeOK' BY DEF Track!TypeOK
<1>2. Typed' BY DEF Typed
<1>3. SentInOrder' BY DEF SentInOrder
<1>4. Follows' BY DEF Follows
<1>5. Newest' BY DEF Newest, Hand, Live
<1>6. Stages' BY DEF Stages, Live
<1>7. Placed' BY Zenon DEF Placed, Live, Taken
<1>8. OnTheWay'
  <2>1. InOrder' BY DEF OnTheWay, InOrder
  <2>2. ASSUME Alive' PROVE GapsOnTheWay' /\ BarriersPlaced' /\ BarriersCome'
    <3>1. Alive BY <2>2 DEF Alive, Live
    <3>2. GapsOnTheWay' BY <3>1, Zenon DEF OnTheWay, GapsOnTheWay, Taken
    <3>3. BarriersPlaced' BY <3>1, SMTT(30) DEF OnTheWay, BarriersPlaced
    <3>4. BarriersCome' BY <3>1, Zenon DEF OnTheWay, BarriersCome, Announced
    <3> QED BY <3>2, <3>3, <3>4
  <2> QED BY <2>1, <2>2 DEF OnTheWay
<1> QED BY <1>1, <1>2, <1>3, <1>4, <1>5, <1>6, <1>7, <1>8

(* What a sequence is after an item is appended. *)
LEMMA Appended ==
  ASSUME NEW S, NEW s \in Seq(S), NEW e \in S
  PROVE  /\ Append(s, e) \in Seq(S) /\ Len(s) \in Nat /\ Len(Append(s, e)) = Len(s) + 1
         /\ \A i \in 1..Len(s) : Append(s, e)[i] = s[i]
         /\ Append(s, e)[Len(s) + 1] = e
         /\ \A i \in 1..(Len(s) + 1) : i \in 1..Len(s) \/ i = Len(s) + 1
         /\ \A i \in 1..Len(s) : i \in 1..(Len(s) + 1) /\ i # Len(s) + 1
         /\ Len(s) + 1 \in 1..(Len(s) + 1)
  OBVIOUS

(* The types of what is sent, delivered and recorded. *)
LEMMA Typing ==
  ASSUME Typed
  PROVE  /\ \A i \in 1..Len(sent) : sent[i][1] \in Kinds /\ sent[i][2] \in Nat
              /\ sent[i] = <<sent[i][1], sent[i][2]>>
         /\ \A i \in 1..Len(out) : out[i][1] \in Kinds /\ out[i][2] \in Nat
              /\ out[i] = <<out[i][1], out[i][2]>>
         /\ \A i \in 1..Len(events) : events[i][1] \in Records /\ events[i][2] \in Nat
              /\ events[i] = <<events[i][1], events[i][2]>>
         /\ Len(sent) \in Nat /\ Len(out) \in Nat /\ Len(events) \in Nat /\ Len(ring) \in Nat
              /\ Len(gaps) \in Nat
         /\ Taken \in Nat /\ input \in Nat /\ gapEvents \in Nat
<1>b. MaxInput \in Nat /\ MaxGapEvents \in Nat BY MediaAssumption DEF Track!VideoAssumption, Lone
<1> USE <1>b
<1>1. \A i \in 1..Len(sent) : sent[i] \in Kinds \X Nat BY DEF Typed
<1>2. \A i \in 1..Len(out) : out[i] \in Kinds \X Nat BY DEF Typed
<1>3. \A i \in 1..Len(events) : events[i] \in Records \X Nat BY DEF Typed
<1>4. Len(sent) \in Nat /\ Len(out) \in Nat /\ Len(events) \in Nat /\ Len(ring) \in Nat
    /\ Len(gaps) \in Nat BY DEF Typed
<1>5. input \in Nat /\ gapEvents \in Nat BY DEF Typed
<1>6. Taken \in Nat BY <1>4 DEF Taken
<1>7. \A A : \A x \in A \X Nat : x[1] \in A /\ x[2] \in Nat /\ x = <<x[1], x[2]>> OBVIOUS
<1>8. \A i \in 1..Len(sent) : sent[i][1] \in Kinds /\ sent[i][2] \in Nat
    /\ sent[i] = <<sent[i][1], sent[i][2]>> BY <1>1, <1>7
<1>9. \A i \in 1..Len(out) : out[i][1] \in Kinds /\ out[i][2] \in Nat
    /\ out[i] = <<out[i][1], out[i][2]>> BY <1>2, <1>7
<1>10. \A i \in 1..Len(events) : events[i][1] \in Records /\ events[i][2] \in Nat
    /\ events[i] = <<events[i][1], events[i][2]>> BY <1>3, <1>7
<1> QED BY <1>4, <1>5, <1>6, <1>8, <1>9, <1>10, Zenon

(* The sink starts. *)
LEMMA SinkStarts == ASSUME NEW c \in Cases, VInv(c), Track(c)!SinkStart PROVE VInv(c)'
<1> USE DEF VInv, Track!SinkStart, Track!srcVars
<1>0. src' = src /\ ring' = ring /\ events' = events /\ sent' = sent /\ out' = out /\ gaps' = gaps
    /\ input' = input
  OBVIOUS
<1>u. sFrames' = sFrames /\ sLast' = sLast /\ ended' = ended /\ sink = "adopted"
    /\ sink' = "running" /\ sFrames = 0 BY DEF SentInOrder
<1>1. Track(c)!TypeOK' BY <1>u, Zenon DEF Track!TypeOK
<1>2. Typed' BY DEF Typed
<1>3. SentInOrder' BY <1>u DEF SentInOrder
<1>4. Follows' BY <1>u DEF Follows
<1>5. Newest' BY <1>u DEF Newest, Hand, Live
<1>6. Stages' BY DEF Stages, Live
<1>7. Placed' BY Zenon DEF Placed, Live, Taken
<1>8. OnTheWay'
  <2>1. InOrder' BY <1>u DEF OnTheWay, InOrder
  <2>2. Alive' = Alive BY DEF Alive, Live
  <2>3. GapsOnTheWay' = GapsOnTheWay BY DEF GapsOnTheWay, Taken
  <2>4. BarriersPlaced' = BarriersPlaced BY DEF BarriersPlaced
  <2>5. BarriersCome => BarriersCome' BY <1>u DEF BarriersCome
  <2> QED BY <2>1, <2>2, <2>3, <2>4, <2>5 DEF OnTheWay
<1> QED BY <1>1, <1>2, <1>3, <1>4, <1>5, <1>6, <1>7, <1>8

(* The barriers keep their places when nothing is sent or recorded. *)
LEMMA StillPlaced ==
  ASSUME BarriersPlaced, sent' = sent, events' = events
  PROVE  BarriersPlaced'
BY SMTT(30) DEF BarriersPlaced

(* While nothing is sent, only the records decide whether the barriers are placed. *)
LEMMA PlacedWhere ==
  ASSUME sent' = sent,
         \A j, l \in 1..Len(events'), i, k \in 1..Len(sent) :
           events'[j] = <<"BARRIER", sent[i][2]>> /\ sent[i][1] = "frame"
               /\ events'[l] = <<"GAP", sent[k][2]>> /\ sent[k][1] = "gap"
             => (l < j <=> k < i)
  PROVE  BarriersPlaced'
BY SMTT(30) DEF BarriersPlaced

(* A frame arrives, and is announced when it starts anew: no record on its   *)
(* way names it yet.                                                         *)
LEMMA RenderBegins == ASSUME NEW c \in Cases, VInv(c), NEW d \in BOOLEAN, Track(c)!RenderBegin(d)
    PROVE VInv(c)'
<1>bounds. Track(c)!VideoAssumption BY CaseIs
<1> USE <1>bounds DEF VInv, Track!srcVars, Track!VideoAssumption
<1>0. /\ src' = src /\ ring' = ring /\ sent' = sent /\ out' = out /\ gaps' = gaps
           /\ input' = input + 1 /\ ended' = ended
      /\ sink = "running" /\ sink' = "rendering" /\ input < MaxInput /\ sFrames' = sFrames
           /\ sLast' = sLast /\ gapEvents' = gapEvents
      /\ UNCHANGED <<cFrames, cLast, cSeq, frame, delivery, known, flushing, attached, cancelled>>
  BY DEF Track!RenderBegin
<1>u. /\ mark' \in BOOLEAN /\ gapPending' \in BOOLEAN /\ (gapPending => gapPending')
           /\ (mark' => gapPending')
      /\ (~mark' => ~gapPending /\ ~gapPending' /\ sFrames # 0)
  BY Zenon DEF Track!RenderBegin, Track!TypeOK
<1>e. \/ events' = events /\ ~mark'
      \/ events' = events /\ cancelled["C"]
      \/ events' = Append(events, <<"BARRIER", input + 1>>) /\ ~cancelled["C"]
  BY <1>0 DEF Track!RenderBegin, Track!Send
<1>t. /\ events \in Seq(Records \X Nat) /\ Len(events) \in Nat /\ input \in Nat
           /\ input + 1 \in Nat /\ <<"BARRIER", input + 1>> \in Records \X Nat
      /\ sFrames \in 0..input /\ sLast \in 0..input /\ input + 1 \in 0..MaxInput
      /\ events' \in Seq(Records \X Nat)
  <2>1. input \in Nat /\ input + 1 \in Nat /\ input + 1 \in 0..MaxInput BY <1>0 DEF Typed
  <2>2. <<"BARRIER", input + 1>> \in Records \X Nat BY <2>1 DEF Records
  <2>3. events \in Seq(Records \X Nat) BY DEF Typed
  <2>4. Append(events, <<"BARRIER", input + 1>>) \in Seq(Records \X Nat) BY <2>2, <2>3, Appended
  <2>5. events' \in Seq(Records \X Nat) BY <1>e, <2>3, <2>4, Zenon
  <2> QED BY <2>1, <2>2, <2>3, <2>5 DEF SentInOrder
<1>1. Track(c)!TypeOK' BY <1>0, <1>u DEF Track!TypeOK
<1>2. Typed' BY <1>0, <1>t DEF Typed
<1>3. SentInOrder' BY <1>0, <1>t DEF SentInOrder
<1>4. Follows' BY <1>0, <1>u, <1>t, SMTT(30) DEF Follows
<1>5. Newest' BY <1>0 DEF Newest, Hand, Live
<1>6. Stages' BY <1>0 DEF Stages, Live
<1>7. Placed' BY <1>0, Zenon DEF Placed, Live, Taken
<1>n. ASSUME NEW j \in 1..Len(events) PROVE events[j] # <<"BARRIER", input + 1>>
  <2>1. SUFFICES ASSUME events[j] = <<"BARRIER", input + 1>> PROVE FALSE OBVIOUS
  <2>2. events[j][1] = "BARRIER" /\ events[j][2] = input + 1 BY <2>1
  <2>3. input + 1 <= input BY <2>2 DEF OnTheWay, InOrder
  <2> QED BY <1>t, <2>3
<1>8. CASE events' = events
  <2>1. InOrder'
    <3>0. InOrder BY DEF OnTheWay
    <3>t. \A j \in 1..Len(events) : events[j][2] \in Nat BY Typing, Zenon
    <3>1. \A j \in 1..Len(events) : events[j][1] = "BARRIER" => events[j][2] <= input + 1
      <4> SUFFICES ASSUME NEW j \in 1..Len(events), events[j][1] = "BARRIER"
        PROVE events[j][2] <= input + 1 OBVIOUS
      <4>1. events[j][2] <= input /\ events[j][2] \in Nat BY <3>0, <3>t DEF InOrder
      <4>2. input \in Nat BY <1>t
      <4> QED BY <4>1, <4>2
    <3>2. events' = events /\ input' = input + 1 /\ gapEvents' = gapEvents /\ ended' = ended
      BY <1>0, <1>8
    <3> QED BY <1>n, <3>0, <3>1, <3>2 DEF InOrder
  <2>2. ASSUME Alive' PROVE GapsOnTheWay' /\ BarriersPlaced' /\ BarriersCome'
    <3>1. Alive /\ ~mark' BY <1>0, <1>e, <1>8, <1>n, <2>2 DEF Alive, Live
    <3>2. GapsOnTheWay' BY <1>0, <1>8, <3>1, Zenon DEF OnTheWay, GapsOnTheWay, Taken
    <3>3. BarriersPlaced'
      <4>1. BarriersPlaced BY <3>1 DEF OnTheWay
      <4>2. sent' = sent /\ events' = events BY <1>0, <1>8
      <4> QED BY <4>1, <4>2, StillPlaced
    <3>4. BarriersCome' BY <1>0, <1>8, <3>1, Zenon DEF OnTheWay, BarriersCome, Announced
    <3> QED BY <3>2, <3>3, <3>4
  <2> QED BY <1>1, <1>2, <1>3, <1>4, <1>5, <1>6, <1>7, <2>1, <2>2 DEF OnTheWay
<1>9. CASE events' = Append(events, <<"BARRIER", input + 1>>) /\ ~cancelled["C"]
  <2> DEFINE n == Len(events)
  <2>a. /\ Len(events') = n + 1 /\ n \in Nat /\ events'[n + 1] = <<"BARRIER", input + 1>>
        /\ \A j \in 1..n : events'[j] = events[j]
        /\ \A j \in 1..(n + 1) : j \in 1..n \/ j = n + 1
        /\ \A i \in 1..n : i \in 1..(n + 1) /\ i # n + 1 /\ i < n + 1
        /\ n + 1 \in 1..(n + 1)
    BY <1>t, <1>9, Appended
  <2>b. events'[n + 1][1] = "BARRIER" /\ events'[n + 1][2] = input + 1 BY <2>a
  <2> HIDE DEF n
  <2>1. InOrder'
    <3>1. \A j \in 1..Len(events') : events'[j][1] = "BARRIER" => events'[j][2] <= input'
      <4>1. \A j \in 1..n : events[j][1] = "BARRIER" => events[j][2] <= input /\ events[j][2] \in Nat
        BY Typing, Zenon DEF OnTheWay, InOrder, n
      <4>2. \A j \in 1..n : events'[j][1] = "BARRIER" => events'[j][2] <= input + 1
        <5>1. \A x \in Nat : x <= input => x <= input + 1 BY <1>t
        <5>2. \A j \in 1..n : events[j][1] = "BARRIER" => events[j][2] <= input + 1 BY <4>1, <5>1
        <5> QED BY <2>a, <5>2
      <4>3. events'[n + 1][2] <= input + 1 BY <1>t, <2>b
      <4> QED BY <1>0, <2>a, <4>2, <4>3, Zenon
    <3>2. ASSUME NEW j \in 1..Len(events'), NEW k \in 1..Len(events'), j < k,
        events'[j][1] = events'[k][1], events'[j][1] \in {"BARRIER", "GAP"}
          PROVE  events'[j][2] < events'[k][2]
      <4>1. j \in 1..n BY <2>a, <3>2
      <4>2. CASE k \in 1..n BY <2>a, <3>2, <4>1, <4>2, Zenon DEF OnTheWay, InOrder, n
      <4>3. CASE k = n + 1
        <5>1. events[j][1] = "BARRIER" /\ events[j][2] <= input
          BY <2>a, <2>b, <3>2, <4>1, <4>3 DEF OnTheWay, InOrder, n
        <5>2. events[j][2] \in Nat
          <6>1. \A i \in 1..Len(events) : events[i][2] \in Nat BY Typing, Zenon
          <6> QED BY <4>1, <6>1, Zenon DEF n
        <5> QED BY <1>t, <2>a, <2>b, <4>1, <4>3, <5>1, <5>2, SMTT(30)
      <4> QED BY <2>a, <4>2, <4>3
    <3>3. \A j \in 1..Len(events') : events'[j] = <<"BARRIER", input'>> => j = Len(events')
      BY <1>0, <1>n, <2>a, Zenon DEF n
    <3>4. \A j \in 1..Len(events') : events'[j][1] = "END" => j = Len(events') /\ ended' # <<>>
      <4>1. ended = <<>> BY <1>0 DEF SentInOrder
      <4> QED BY <1>0, <2>a, <2>b, <4>1, Zenon DEF OnTheWay, InOrder, n
    <3>5. \A j \in 1..Len(events') : events'[j][1] = "GAP" => events'[j][2] <= gapEvents'
      BY <1>0, <2>a, <2>b, Zenon DEF OnTheWay, InOrder, n
    <3> QED BY <3>1, <3>2, <3>3, <3>4, <3>5, Zenon DEF InOrder
  <2>2. ASSUME Alive' PROVE GapsOnTheWay' /\ BarriersPlaced' /\ BarriersCome'
    <3>1. Alive BY <1>0, <2>2 DEF Alive, Live
    <3>2. GapsOnTheWay'
      <4>1. Taken' = Taken BY <1>0 DEF Taken
      <4>2. \A j \in 1..Len(events') : events'[j][1] = "GAP"
          => \E i \in (Taken + 1)..Len(sent) : sent[i] = <<"gap", events'[j][2]>>
        BY <2>a, <2>b, <3>1, Zenon DEF OnTheWay, GapsOnTheWay, n
      <4>3. \A i \in (Taken + 1)..Len(sent) : sent[i][1] = "gap"
          => \E j \in 1..n : events[j] = <<"GAP", sent[i][2]>>
        BY <3>1, Zenon DEF OnTheWay, GapsOnTheWay, n
      <4>4. \A i \in (Taken + 1)..Len(sent) : sent[i][1] = "gap"
          => \E j \in 1..Len(events') : events'[j] = <<"GAP", sent[i][2]>>
        BY <2>a, <4>3, Zenon
      <4> QED BY <1>0, <4>1, <4>2, <4>4, Zenon DEF GapsOnTheWay
    <3>3. BarriersPlaced'
      <4>0. sent' = sent BY <1>0
      <4> SUFFICES ASSUME NEW j \in 1..Len(events'), NEW l \in 1..Len(events'),
          NEW i \in 1..Len(sent), NEW k \in 1..Len(sent),
                          events'[j] = <<"BARRIER", sent[i][2]>>, sent[i][1] = "frame",
                              events'[l] = <<"GAP", sent[k][2]>>, sent[k][1] = "gap"
                   PROVE  l < j <=> k < i
        BY <4>0, PlacedWhere, Zenon
      <4>1. sent[i][2] \in 1..sLast BY Zenon DEF SentInOrder
      <4>5. \A x \in 1..sLast : x # input + 1 BY <1>t, SMTT(30)
      <4>4. sent[i][2] # input + 1 BY <4>1, <4>5, Zenon
      <4>2. j \in 1..n /\ l \in 1..n BY <2>a, <2>b, <4>4, SMTT(30)
      <4> QED BY <2>a, <3>1, <4>2, Zenon DEF OnTheWay, BarriersPlaced, n
    <3>4. BarriersCome'
      <4>1. \A p : Announced(events, p) => Announced(events', p) BY <2>a, Zenon DEF Announced, n
      <4>2. Announced(events', input') BY <1>0, <2>a DEF Announced
      <4> QED BY <1>0, <3>1, <4>1, <4>2 DEF OnTheWay, BarriersCome
    <3> QED BY <3>2, <3>3, <3>4
  <2> QED BY <1>1, <1>2, <1>3, <1>4, <1>5, <1>6, <1>7, <2>1, <2>2 DEF OnTheWay
<1> QED BY <1>e, <1>8, <1>9

(* An item that is sent is sent after all that was taken. *)
LEMMA PlacedGrows ==
  ASSUME Typed, Placed, NEW x \in Kinds \X Nat, sent' = Append(sent, x), UNCHANGED <<src, out,
         gaps, frame, delivery, cLast>>,
         cLast \in Nat, Live /\ x[1] = "frame" => x[2] > Hand
             /\ (src \in {"barrier", "finish"} => frame.pts > cLast)
  PROVE  Placed'
<1> DEFINE N == Len(sent)
<1>a. /\ Len(sent') = N + 1 /\ N \in Nat /\ sent'[N + 1] = x
      /\ \A j \in 1..N : sent'[j] = sent[j]
      /\ \A j \in 1..(N + 1) : j \in 1..N \/ j = N + 1
      /\ \A i \in 1..N : i \in 1..(N + 1) /\ i # N + 1 /\ i < N + 1
      /\ N + 1 \in 1..(N + 1)
  BY Appended, SMTT(30) DEF Typed
<1>t. /\ Len(out) \in Nat /\ Len(gaps) \in Nat /\ Taken \in Nat /\ Taken = Len(out) + Len(gaps)
           /\ x[2] \in Nat /\ frame.pts \in Nat
  <2>1. frame.pts \in Nat BY DEF Typed, Image
  <2> QED BY <2>1, Typing DEF Taken
<1>0. Live' = Live /\ Taken' = Taken BY DEF Live, Taken
<1>1. Len(out') <= Len(sent') /\ \A i \in 1..Len(out') : out'[i] = sent'[i]
  <2>1. Len(out) <= N /\ \A i \in 1..Len(out) : i \in 1..N BY <1>a, <1>t DEF Placed
  <2> QED BY <1>a, <1>t, <2>1 DEF Placed
<1>2. ASSUME Live PROVE
       /\ Taken <= Len(sent')
       /\ \A i \in 1..Len(out) : sent'[i][1] # "eos"
       /\ \A k \in 1..Len(gaps) : sent'[Len(out) + k] = <<"gap", gaps[k]>>
       /\ \A i \in 1..Len(sent') : sent'[i][1] = "frame" =>
            (i <= Len(out) <=> (sent'[i][2] <= cLast /\ (delivery # NoImage => sent'[i][2] # cLast)))
       /\ src = "finish" => Taken < Len(sent') /\ sent'[Taken + 1] = <<"frame", frame.pts>>
       /\ delivery # NoImage => Taken < Len(sent') /\ sent'[Taken + 1] = <<"frame", cLast>>
       /\ src \in {"barrier", "finish"} =>
            /\ frame.pts > cLast /\ \E i \in 1..Len(sent') : sent'[i] = <<"frame", frame.pts>>
            /\ \A i \in 1..Len(sent') : sent'[i][1] = "frame"
                 => sent'[i][2] <= cLast \/ sent'[i][2] >= frame.pts
  <2>0. Taken <= N BY <1>2 DEF Placed
  <2>1. /\ \A i \in 1..Len(out) : i \in 1..N /\ i < N + 1
        /\ \A k \in 1..Len(gaps) : Len(out) + k \in 1..N
        /\ Taken < N => Taken + 1 \in 1..N /\ Taken < N + 1
        /\ ~(N + 1 <= Len(out))
    BY <1>a, <1>t, <2>0
  <2>2. Taken <= Len(sent') BY <1>a, <1>t, <2>0
  <2>3. \A i \in 1..Len(out) : sent'[i][1] # "eos" BY <1>2, <1>a, <2>1 DEF Placed
  <2>4. \A k \in 1..Len(gaps) : sent'[Len(out) + k] = <<"gap", gaps[k]>> BY <1>2, <1>a, <2>1, Zenon DEF Placed
  <2>5. x[1] = "frame" => x[2] > cLast
    BY <1>2, <1>t DEF Hand
  <2>6. \A i \in 1..Len(sent') : sent'[i][1] = "frame" =>
            (i <= Len(out) <=> (sent'[i][2] <= cLast /\ (delivery # NoImage => sent'[i][2] # cLast)))
    <3>1. \A i \in 1..N : sent'[i][1] = "frame" =>
            (i <= Len(out) <=> (sent'[i][2] <= cLast /\ (delivery # NoImage => sent'[i][2] # cLast)))
      BY <1>2, <1>a DEF Placed
    <3>2. x[1] = "frame" => ~(x[2] <= cLast) BY <1>t, <2>5
    <3> QED BY <1>a, <2>1, <3>1, <3>2
  <2>7. src = "finish" => Taken < Len(sent') /\ sent'[Taken + 1] = <<"frame", frame.pts>>
    BY <1>2, <1>a, <2>1 DEF Placed
  <2>8. delivery # NoImage => Taken < Len(sent') /\ sent'[Taken + 1] = <<"frame", cLast>>
    BY <1>2, <1>a, <2>1 DEF Placed
  <2>9. ASSUME src \in {"barrier", "finish"} PROVE
            /\ frame.pts > cLast /\ \E i \in 1..Len(sent') : sent'[i] = <<"frame", frame.pts>>
            /\ \A i \in 1..Len(sent') : sent'[i][1] = "frame"
                 => sent'[i][2] <= cLast \/ sent'[i][2] >= frame.pts
    <3>1. frame.pts > cLast /\ \E i \in 1..Len(sent) : sent[i] = <<"frame", frame.pts>>
      BY <1>2, <2>9 DEF Placed
    <3>2. \A i \in 1..N : sent'[i][1] = "frame" => sent'[i][2] <= cLast \/ sent'[i][2] >= frame.pts
      BY <1>2, <1>a, <2>9 DEF Placed
    <3>3. x[1] = "frame" => x[2] >= frame.pts BY <1>2, <1>t, <2>9 DEF Hand
    <3>4. \A i \in 1..(N + 1) : sent'[i][1] = "frame"
        => sent'[i][2] <= cLast \/ sent'[i][2] >= frame.pts BY <1>a, <3>2, <3>3
    <3> QED BY <1>a, <3>1, <3>4, Zenon
  <2> QED BY <2>2, <2>3, <2>4, <2>6, <2>7, <2>8, <2>9, Zenon
<1> QED BY <1>0, <1>1, <1>2, Zenon DEF Placed

(* A frame is submitted: it is the newest of the ring, and the barriers on   *)
(* their way keep their places.                                              *)
LEMMA RenderSubmits == ASSUME NEW c \in Cases, VInv(c), Track(c)!RenderSubmit PROVE VInv(c)'
<1>bounds. Track(c)!VideoAssumption BY CaseIs
<1> USE <1>bounds DEF VInv, Track!VideoAssumption
<1> DEFINE N == Len(sent)
           R == Len(ring)
           x == <<"frame", input>>
           f == [seq |-> sFrames + 1, pts |-> input, discont |-> mark]
<1>0. /\ src' = src /\ events' = events /\ out' = out /\ gaps' = gaps /\ input' = input
           /\ ended' = ended /\ gapEvents' = gapEvents
      /\ sink = "rendering" /\ sink' = "running" /\ sFrames' = sFrames + 1 /\ sLast' = input
           /\ gapPending' = FALSE /\ mark' = mark
      /\ UNCHANGED <<cFrames, cLast, cSeq, frame, delivery, known, flushing, attached, cancelled>>
      /\ sent' = Append(sent, x) /\ ring' = Append(ring, f)
      /\ ~Track(c)!RingFull
  BY DEF Track!RenderSubmit, Track!srcVars
<1>t. /\ input \in Nat /\ input \in 0..MaxInput /\ sFrames \in Nat /\ sLast \in Nat
           /\ sFrames < input /\ sLast < input /\ cSeq \in Nat /\ cLast \in Nat
      /\ mark \in BOOLEAN
      /\ frame.pts \in Nat /\ Hand \in Nat
  <2>1. frame.pts \in Nat BY DEF Typed, Image
  <2> QED BY <1>0, <2>1, Typing DEF Track!TypeOK, Typed, SentInOrder, Hand
<1>x. x \in Kinds \X Nat /\ f \in Image /\ x[1] = "frame" /\ x[2] = input /\ f.seq = sFrames + 1
    /\ f.pts = input /\ f.discont = mark
  BY <1>t DEF Kinds, Image
<1> HIDE DEF x, f
<1>a. /\ Len(sent') = N + 1 /\ N \in Nat /\ sent'[N + 1] = x
      /\ \A j \in 1..N : sent'[j] = sent[j]
      /\ \A j \in 1..(N + 1) : j \in 1..N \/ j = N + 1
      /\ \A i \in 1..N : i \in 1..(N + 1) /\ i # N + 1 /\ i < N + 1
      /\ N + 1 \in 1..(N + 1) /\ sent' \in Seq(Kinds \X Nat)
  <2>1. sent \in Seq(Kinds \X Nat) BY DEF Typed
  <2>2. N \in Nat /\ \A i \in 1..N : i < N + 1 BY <2>1
  <2> QED BY <1>0, <1>x, <2>1, <2>2, Appended
<1>b. /\ Len(ring') = R + 1 /\ R \in Nat /\ ring'[R + 1] = f
      /\ \A j \in 1..R : ring'[j] = ring[j]
      /\ \A j \in 1..(R + 1) : j \in 1..R \/ j = R + 1
      /\ R + 1 \in 1..(R + 1) /\ ring' \in Seq(Image)
  BY <1>0, <1>x, Appended DEF Typed
<1> HIDE DEF N, R
<1>l. \A i \in 1..N : sent[i][1] = "frame" => sent[i][2] < input
  <2>1. \A z \in 1..sLast : z < input BY <1>t
  <2> QED BY <2>1, Zenon DEF SentInOrder, N
<1>1. Track(c)!TypeOK'
  <2>1. sFrames' \in 0..MaxInput /\ sLast' \in 0..MaxInput BY <1>0, <1>t
  <2>2. Len(ring') <= c.pool
    <3>1. ~(Len(ring) + Track(c)!Reading >= c.pool) BY <1>0 DEF Track!RingFull
    <3>2. Track(c)!Reading \in Nat BY DEF Track!Reading
    <3> QED BY <1>b, <3>1, <3>2 DEF R
  <2> QED BY <1>0, <2>1, <2>2, Zenon DEF Track!TypeOK
<1>2. Typed' BY <1>0, <1>a, <1>b DEF Typed
<1>3. SentInOrder'
  <2>1. ASSUME NEW i \in 1..Len(sent'), NEW j \in 1..Len(sent'), i < j, sent'[i][1] = sent'[j][1]
    PROVE sent'[i][2] < sent'[j][2]
    <3>1. i \in 1..N BY <1>a, <2>1
    <3>2. CASE j \in 1..N BY <1>a, <2>1, <3>1, <3>2, Zenon DEF SentInOrder, N
    <3>3. CASE j = N + 1 BY <1>a, <1>x, <1>l, <2>1, <3>1, <3>3, Zenon
    <3> QED BY <1>a, <3>2, <3>3
  <2>2. \A i \in 1..Len(sent') : sent'[i][1] = "frame" => sent'[i][2] \in 1..sLast'
    <3>1. \A z \in 1..sLast : z \in 1..input BY <1>t
    <3>2. input \in 1..input BY <1>t
    <3>3. \A i \in 1..N : sent[i][1] = "frame" => sent[i][2] \in 1..input BY <3>1, Zenon DEF SentInOrder, N
    <3> SUFFICES ASSUME NEW i \in 1..(N + 1), sent'[i][1] = "frame" PROVE sent'[i][2] \in 1..input
      <4>1. Len(sent') = N + 1 /\ sLast' = input BY <1>0, <1>a
      <4> QED BY <4>1, Zenon
    <3>4. CASE i \in 1..N
      <4>1. sent'[i] = sent[i] BY <1>a, <3>4
      <4> QED BY <3>3, <3>4, <4>1
    <3>5. CASE i = N + 1 BY <1>a, <1>x, <3>2, <3>5
    <3> QED BY <1>a, <3>4, <3>5
  <2>3. \A i \in 1..Len(sent') : sent'[i][1] = "gap" => sent'[i][2] \in 1..gapEvents'
    BY <1>0, <1>a, <1>x, Zenon DEF SentInOrder, N
  <2>4. ended = <<>> BY <1>0 DEF SentInOrder
  <2>5. \A i \in 1..Len(sent') : sent'[i][1] = "eos" => i = Len(sent') /\ sent'[i][2] = 0
      /\ ended' # <<>> BY <1>0, <1>a, <1>x, <2>4 DEF SentInOrder, N
  <2>6. sLast' \in 0..input' /\ sFrames' \in 0..input' BY <1>0, <1>t
  <2>7. known' \in {<<>>, ended'} BY <1>0 DEF SentInOrder
  <2> QED BY <1>0, <2>1, <2>2, <2>3, <2>4, <2>5, <2>6, <2>7, Zenon DEF SentInOrder
<1>4. Follows'
  <2>1. sent' # <<>> /\ sent'[Len(sent')][1] = "frame" BY <1>a, <1>x
  <2>2. ASSUME ~ring'[Len(ring')].discont
    PROVE \E i \in 2..Len(sent') : sent'[i] = <<"frame", sLast'>> /\ sent'[i - 1][1] = "frame"
    <3>1. ~mark BY <1>b, <1>x, <2>2
    <3>2. sent # <<>> /\ sent[N][1] = "frame" BY <1>0, <3>1 DEF Follows, N
    <3>3. N \in 1..N /\ N + 1 \in 2..(N + 1) /\ (N + 1) - 1 = N
      <4>1. N # 0 BY <3>2 DEF N, Typed
      <4>2. N \in Nat BY <1>a
      <4> QED BY <4>1, <4>2
    <3>4. sent'[N + 1] = <<"frame", sLast'>> BY <1>0, <1>a, Zenon DEF x
    <3>5. sent'[(N + 1) - 1][1] = "frame" BY <1>a, <3>2, <3>3
    <3>6. N + 1 \in 2..Len(sent') BY <1>a, <3>3
    <3> WITNESS N + 1 \in 2..Len(sent')
    <3> QED BY <3>4, <3>5
  <2> QED BY <1>0, <2>1, <2>2, Zenon DEF Follows
<1>5. Newest'
  <2>1. /\ ring'[Len(ring')].seq = sFrames' /\ ring'[Len(ring')].pts = sLast' /\ cSeq' < sFrames'
             /\ cSeq' <= sFrames'
    BY <1>0, <1>b, <1>x, <1>t DEF Newest
  <2>2. \E i \in 1..Len(sent') : sent'[i] = <<"frame", sLast'>> BY <1>0, <1>a, Zenon DEF x
  <2>3. \A i \in 1..R : ring[i] \in Image BY DEF Typed, R
  <2>4. \A i \in 1..R : ring[i].pts \in Nat /\ ring[i].pts <= sLast /\ ring[i].seq > 0
    BY <2>3 DEF Newest, Image, R
  <2>5. \A i \in 1..Len(ring') : ring'[i].pts <= sLast' /\ ring'[i].seq > 0
    <3>1. \A z \in Nat : z <= sLast => z <= input BY <1>t
    <3>2. \A i \in 1..R : ring[i].pts <= input BY <2>4, <3>1
    <3>3. input <= input /\ sFrames + 1 > 0 BY <1>t
    <3> QED BY <1>0, <1>b, <1>x, <2>4, <3>2, <3>3
  <2>6. ASSUME Live' PROVE
             /\ Hand' <= sLast'
             /\ \A i \in 1..Len(ring') : ring'[i].pts > Hand'
             /\ cSeq' = sFrames' => Hand' = sLast'
             /\ cSeq' + 1 = sFrames' =>
                  \A i \in 1..Len(sent') : sent'[i][1] = "frame"
                      => sent'[i][2] <= Hand' \/ sent'[i][2] = sLast'
    <3>1. Live /\ Hand' = Hand BY <1>0, <2>6 DEF Live, Hand
    <3>2. Hand <= sLast BY <3>1 DEF Newest
    <3>3. Hand < input /\ Hand <= input BY <1>t, <3>2
    <3>4. \A i \in 1..Len(ring') : ring'[i].pts > Hand' BY <1>b, <1>x, <1>t, <3>1, <3>3, Zenon DEF Newest, R
    <3>5. cSeq # sFrames + 1 BY <1>t DEF Newest
    <3>6. ASSUME cSeq + 1 = sFrames + 1, NEW i \in 1..N, sent[i][1] = "frame" PROVE sent[i][2] <= Hand
      <4>1. Hand = sLast BY <1>t, <3>1, <3>6 DEF Newest
      <4>2. sent[i][2] \in 1..sLast BY <3>6, Zenon DEF SentInOrder, N
      <4> QED BY <1>t, <4>1, <4>2
    <3>7. cSeq' + 1 = sFrames' =>
                  \A i \in 1..Len(sent') : sent'[i][1] = "frame"
                      => sent'[i][2] <= Hand' \/ sent'[i][2] = sLast'
      BY <1>0, <1>a, <1>x, <3>1, <3>6, Zenon
    <3> QED BY <1>0, <3>1, <3>3, <3>4, <3>5, <3>7, Zenon
  <2> QED BY <2>1, <2>2, <2>5, <2>6 DEF Newest
<1>6. Stages'
  <2>1. src # "eos"
    <3>1. ended = <<>> BY <1>0 DEF SentInOrder
    <3> QED BY <3>1 DEF Stages
  <2> QED BY <1>0, <2>1 DEF Stages, Live
<1>7. Placed'
  <2>1. Live => Hand < input /\ (src \in {"barrier", "finish"} => frame.pts > cLast)
    <3>1. Live => Hand <= sLast BY DEF Newest
    <3> QED BY <1>t, <3>1 DEF Placed
  <2> QED BY <1>0, <1>t, <1>x, <2>1, PlacedGrows, Zenon
<1>8. InOrder' BY <1>0, Zenon DEF OnTheWay, InOrder
<1>9. ASSUME Alive' PROVE GapsOnTheWay' /\ BarriersPlaced' /\ BarriersCome'
  <2>1. Alive BY <1>0, <1>9 DEF Alive, Live
  <2>2. Taken' = Taken /\ Taken \in Nat BY <1>0, Typing DEF Taken
  <2>3. /\ \A i \in (Taken + 1)..N : i \in (Taken + 1)..(N + 1) /\ i \in 1..N
        /\ \A i \in (Taken + 1)..(N + 1) : i \in (Taken + 1)..N \/ i = N + 1
    BY <2>2, <1>a
  <2>4. GapsOnTheWay'
    <3>1. \A j \in 1..Len(events) : events[j][1] = "GAP"
        => \E i \in (Taken + 1)..(N + 1) : sent'[i] = <<"gap", events[j][2]>>
      <4>1. \A j \in 1..Len(events) : events[j][1] = "GAP"
          => \E i \in (Taken + 1)..N : sent[i] = <<"gap", events[j][2]>>
        BY <2>1, Zenon DEF OnTheWay, GapsOnTheWay, N
      <4> QED BY <1>a, <2>3, <4>1, Zenon
    <3>2. \A i \in (Taken + 1)..(N + 1) : sent'[i][1] = "gap"
        => \E j \in 1..Len(events) : events[j] = <<"GAP", sent'[i][2]>>
      <4>1. \A i \in (Taken + 1)..N : sent[i][1] = "gap"
          => \E j \in 1..Len(events) : events[j] = <<"GAP", sent[i][2]>>
        BY <2>1, Zenon DEF OnTheWay, GapsOnTheWay, N
      <4> QED BY <1>a, <1>x, <2>3, <4>1, Zenon
    <3>3. events' = events /\ Len(sent') = N + 1 /\ Taken' = Taken BY <1>0, <1>a, <2>2
    <3> QED BY <3>1, <3>2, <3>3, ZenonT(30) DEF GapsOnTheWay
  <2>5. BarriersPlaced'
    <3> SUFFICES ASSUME NEW j \in 1..Len(events), NEW l \in 1..Len(events), NEW i \in 1..(N + 1),
        NEW k \in 1..(N + 1),
                        events[j] = <<"BARRIER", sent'[i][2]>>, sent'[i][1] = "frame",
                            events[l] = <<"GAP", sent'[k][2]>>, sent'[k][1] = "gap"
                 PROVE  l < j <=> k < i
      <4>1. events' = events /\ Len(sent') = N + 1 BY <1>0, <1>a
      <4> QED BY <4>1, ZenonT(30) DEF BarriersPlaced
    <3>1. k \in 1..N BY <1>a, <1>x, Zenon
    <3>2. CASE i \in 1..N BY <1>a, <2>1, <3>1, <3>2, Zenon DEF OnTheWay, BarriersPlaced, N
    <3>3. CASE i = N + 1
      <4>1. j = Len(events) BY <1>0, <1>a, <1>x, <3>3, Zenon DEF OnTheWay, InOrder
      <4>2. l # j
        <5>1. events[l][1] = "GAP" /\ events[j][1] = "BARRIER" OBVIOUS
        <5> QED BY <5>1
      <4>3. l < j BY <4>1, <4>2, Typing
      <4>4. k < i BY <1>a, <3>1, <3>3
      <4> QED BY <4>3, <4>4
    <3> QED BY <1>a, <3>2, <3>3
  <2>6. BarriersCome'
    <3>1. \A i \in 1..Len(ring') : ring'[i].discont => Announced(events, ring'[i].pts)
      BY <1>0, <1>b, <1>x, <2>1 DEF OnTheWay, BarriersCome, R
    <3> QED BY <1>0, <2>1, <3>1 DEF OnTheWay, BarriersCome
  <2> QED BY <2>4, <2>5, <2>6
<1> QED BY <1>1, <1>2, <1>3, <1>4, <1>5, <1>6, <1>7, <1>8, <1>9 DEF OnTheWay

(* A record that is sent comes after the others. *)
LEMMA RecordsGrow ==
  ASSUME Typed, InOrder, NEW r \in Records \X Nat, events' = Append(events, r), sink' # "rendering",
         r[1] # "BARRIER", r[1] = "GAP" => r[2] > gapEvents
             /\ r[2] <= gapEvents', gapEvents' \in Nat, gapEvents <= gapEvents',
         input' = input, ended = <<>>, r[1] = "END" => ended' # <<>>
  PROVE  InOrder'
<1> DEFINE n == Len(events)
<1>a. /\ Len(events') = n + 1 /\ n \in Nat /\ events'[n + 1] = r
      /\ \A j \in 1..n : events'[j] = events[j]
      /\ \A j \in 1..(n + 1) : j \in 1..n \/ j = n + 1
      /\ \A i \in 1..n : i \in 1..(n + 1) /\ i # n + 1
      /\ n + 1 \in 1..(n + 1)
  BY Appended, SMTT(30) DEF Typed
<1>t. gapEvents \in Nat /\ r[2] \in Nat BY Typing
<1>1. \A j \in 1..n : events[j][1] = "GAP" => events[j][2] <= gapEvents /\ events[j][2] \in Nat
  BY Typing, Zenon DEF InOrder
<1>2. \A j \in 1..n : events[j][1] # "END" BY DEF InOrder
<1>3. \A j \in 1..n : events[j][1] = "BARRIER" => events[j][2] <= input BY DEF InOrder
<1>4. \A j, k \in 1..n : j < k /\ events[j][1] = events[k][1]
    /\ events[j][1] \in {"BARRIER", "GAP"} => events[j][2] < events[k][2]
  BY DEF InOrder
<1> HIDE DEF n
<1>5. \A j \in 1..n : events[j][1] = "GAP" => events[j][2] <= gapEvents' BY <1>1, <1>t
<1>6. \A j \in 1..n : events[j][1] = "GAP" /\ r[1] = "GAP" => events[j][2] < r[2] BY <1>1, <1>t
<1>7. ASSUME NEW j \in 1..(n + 1), NEW k \in 1..(n + 1), j < k, events'[j][1] = events'[k][1],
    events'[j][1] \in {"BARRIER", "GAP"}
      PROVE  events'[j][2] < events'[k][2]
  <2>1. j \in 1..n BY <1>a, <1>7
  <2>2. CASE k \in 1..n BY <1>a, <1>4, <1>7, <2>1, <2>2
  <2>3. CASE k = n + 1 BY <1>a, <1>6, <1>7, <2>1, <2>3
  <2> QED BY <1>a, <2>2, <2>3
<1>8. \A j \in 1..(n + 1) : events'[j][1] = "GAP" => events'[j][2] <= gapEvents' BY <1>a, <1>5
<1>9. \A j \in 1..(n + 1) : events'[j][1] = "BARRIER" => events'[j][2] <= input' BY <1>a, <1>3
<1>10. \A j \in 1..(n + 1) : events'[j][1] = "END" => j = n + 1 /\ ended' # <<>> BY <1>a, <1>2
<1> QED BY <1>a, <1>7, <1>8, <1>9, <1>10, Zenon DEF InOrder

(* A record other than a barrier leaves the barriers announced. *)
LEMMA StillAnnounced ==
  ASSUME Typed, NEW r \in Records \X Nat, NEW p, Announced(events, p)
      PROVE Announced(Append(events, r), p)
<1>1. PICK j \in 1..Len(events) : events[j] = <<"BARRIER", p>> BY DEF Announced
<1>2. events \in Seq(Records \X Nat) BY DEF Typed
<1>3. j \in 1..Len(Append(events, r)) /\ Append(events, r)[j] = <<"BARRIER", p>> BY <1>1, <1>2, Appended
<1> QED BY <1>3 DEF Announced

(* A flush ends the session. *)
LEMMA SinkFlushes == ASSUME NEW c \in Cases, VInv(c), Track(c)!SinkFlush PROVE VInv(c)'
<1>bounds. Track(c)!VideoAssumption BY CaseIs
<1> USE <1>bounds DEF VInv, Track!VideoAssumption
<1> DEFINE r == <<"FLUSH", 0>>
<1>0. /\ src' = src /\ sent' = sent /\ ring' = ring /\ out' = out /\ gaps' = gaps /\ input' = input
           /\ ended' = ended /\ gapEvents' = gapEvents
      /\ sink = "running" /\ sink' = sink /\ sFrames' = sFrames /\ sLast' = sLast
           /\ gapPending' = gapPending /\ mark' = mark
      /\ UNCHANGED <<cFrames, cLast, cSeq, frame, delivery, known, flushing, attached>>
      /\ events' = events \/ events' = Append(events, r)
      /\ cancelled' = [cancelled EXCEPT !["P"] = TRUE]
  BY DEF Track!SinkFlush, Track!Send, Track!srcVars, Track!sinkVars
<1>r. r \in Records \X Nat /\ r[1] = "FLUSH" BY DEF Records
<1> HIDE DEF r
<1>c. cancelled' \in [{"P", "C"} -> BOOLEAN] /\ cancelled'["C"] = cancelled["C"]
  BY <1>0 DEF Track!TypeOK
<1>e. events' \in Seq(Records \X Nat)
  <2>1. events \in Seq(Records \X Nat) BY DEF Typed
  <2>2. Append(events, r) \in Seq(Records \X Nat) BY <1>r, <2>1, Appended
  <2> QED BY <1>0, <2>1, <2>2, Zenon
<1>1. Track(c)!TypeOK' BY <1>0, <1>c DEF Track!TypeOK
<1>2. Typed' BY <1>0, <1>e DEF Typed
<1>3. SentInOrder' BY <1>0 DEF SentInOrder
<1>4. Follows' BY <1>0 DEF Follows
<1>5. Newest' BY <1>0 DEF Newest, Hand, Live
<1>6. Stages' BY <1>0 DEF Stages, Live
<1>7. Placed' BY <1>0, Zenon DEF Placed, Live, Taken
<1>9. CASE events' = events
  <2>1. InOrder' BY <1>0, <1>9 DEF OnTheWay, InOrder
  <2>2. Alive' = Alive BY <1>0, <1>c DEF Alive, Live
  <2>3. GapsOnTheWay' = GapsOnTheWay BY <1>0, <1>9 DEF GapsOnTheWay, Taken
  <2>4. BarriersPlaced' = BarriersPlaced BY <1>0, <1>9 DEF BarriersPlaced
  <2>5. BarriersCome => BarriersCome' BY <1>0, <1>9 DEF BarriersCome
  <2> QED BY <1>1, <1>2, <1>3, <1>4, <1>5, <1>6, <1>7, <2>1, <2>2, <2>3, <2>4, <2>5 DEF OnTheWay
<1>10. CASE events' = Append(events, r)
  <2> DEFINE n == Len(events)
  <2>a. /\ Len(events') = n + 1 /\ n \in Nat /\ events'[n + 1] = r
        /\ \A j \in 1..n : events'[j] = events[j]
        /\ \A j \in 1..(n + 1) : j \in 1..n \/ j = n + 1
        /\ \A i \in 1..n : i \in 1..(n + 1) /\ i # n + 1
        /\ n + 1 \in 1..(n + 1)
    <3>1. events \in Seq(Records \X Nat) BY DEF Typed
    <3> QED BY <1>10, <1>r, <3>1, Appended
  <2> HIDE DEF n
  <2>1. InOrder'
    <3>1. ended = <<>> BY <1>0 DEF SentInOrder
    <3>2. gapEvents' \in Nat /\ gapEvents <= gapEvents' BY <1>0, Typing
    <3> QED BY <1>0, <1>r, <1>10, <3>1, <3>2, RecordsGrow DEF OnTheWay
  <2>2. ASSUME Alive' PROVE GapsOnTheWay' /\ BarriersPlaced' /\ BarriersCome'
    <3>1. Alive BY <1>0, <1>c, <2>2 DEF Alive, Live
    <3>2. GapsOnTheWay'
      <4>1. Taken' = Taken BY <1>0 DEF Taken
      <4>2. \A j \in 1..Len(events') : events'[j][1] = "GAP"
          => \E i \in (Taken + 1)..Len(sent) : sent[i] = <<"gap", events'[j][2]>>
        BY <1>r, <2>a, <3>1, ZenonT(30) DEF OnTheWay, GapsOnTheWay, n
      <4>3. \A i \in (Taken + 1)..Len(sent) : sent[i][1] = "gap"
          => \E j \in 1..n : events[j] = <<"GAP", sent[i][2]>>
        BY <3>1, Zenon DEF OnTheWay, GapsOnTheWay, n
      <4>4. \A i \in (Taken + 1)..Len(sent) : sent[i][1] = "gap"
          => \E j \in 1..Len(events') : events'[j] = <<"GAP", sent[i][2]>>
        BY <2>a, <4>3, Zenon
      <4> QED BY <1>0, <4>1, <4>2, <4>4, Zenon DEF GapsOnTheWay
    <3>3. BarriersPlaced'
      <4>0. sent' = sent BY <1>0
      <4> SUFFICES ASSUME NEW j \in 1..Len(events'), NEW l \in 1..Len(events'),
          NEW i \in 1..Len(sent), NEW k \in 1..Len(sent),
                          events'[j] = <<"BARRIER", sent[i][2]>>, sent[i][1] = "frame",
                              events'[l] = <<"GAP", sent[k][2]>>, sent[k][1] = "gap"
                   PROVE  l < j <=> k < i
        BY <4>0, PlacedWhere, Zenon
      <4>2. j \in 1..n /\ l \in 1..n BY <1>r, <2>a
      <4> QED BY <2>a, <3>1, <4>2, Zenon DEF OnTheWay, BarriersPlaced, n
    <3>4. BarriersCome' BY <1>0, <1>r, <1>10, <3>1, StillAnnounced DEF OnTheWay, BarriersCome
    <3> QED BY <3>2, <3>3, <3>4
  <2> QED BY <1>1, <1>2, <1>3, <1>4, <1>5, <1>6, <1>7, <2>1, <2>2 DEF OnTheWay
<1> QED BY <1>0, <1>9, <1>10

(* A gap or an end joins what was sent: the frames stay what they are. *)
LEMMA NewestGrows ==
  ASSUME Typed, Newest, Follows, NEW x \in Kinds \X Nat, x[1] # "frame", sent' = Append(sent, x),
         UNCHANGED <<ring, cSeq, sFrames, sLast, src, frame, cLast>>
  PROVE  /\ Newest'
         /\ ring' # <<>> /\ ~ring'[Len(ring')].discont =>
              \E i \in 2..Len(sent') : sent'[i] = <<"frame", sLast'>> /\ sent'[i - 1][1] = "frame"
<1> DEFINE N == Len(sent)
<1>a. /\ Len(sent') = N + 1 /\ N \in Nat /\ sent'[N + 1] = x
      /\ \A j \in 1..N : sent'[j] = sent[j]
      /\ \A j \in 1..(N + 1) : j \in 1..N \/ j = N + 1
      /\ \A i \in 1..N : i \in 1..(N + 1) /\ i # N + 1
      /\ \A i \in 2..N : i \in 2..(N + 1) /\ i \in 1..N /\ i - 1 \in 1..N
  <2>1. sent \in Seq(Kinds \X Nat) /\ N \in Nat BY DEF Typed
  <2>2. \A i \in 2..N : i \in 2..(N + 1) /\ i \in 1..N /\ i - 1 \in 1..N BY <2>1
  <2> QED BY <2>1, <2>2, Appended
<1>1. Live' = Live /\ Hand' = Hand BY DEF Live, Hand
<1>2. \A p : (\E i \in 1..N : sent[i] = <<"frame", p>>)
    => \E i \in 1..(N + 1) : sent'[i] = <<"frame", p>> BY <1>a
<1>3. ring # <<>> => \E i \in 1..N : sent[i] = <<"frame", sLast>> BY Zenon DEF Newest
<1>4. Live /\ cSeq + 1 = sFrames => \A i \in 1..N : sent[i][1] = "frame"
    => sent[i][2] <= Hand \/ sent[i][2] = sLast BY DEF Newest
<1>5. ring # <<>> /\ ~ring[Len(ring)].discont => \E i \in 2..N : sent[i] = <<"frame", sLast>>
    /\ sent[i - 1][1] = "frame" BY DEF Follows
<1> HIDE DEF N
<1>6. Live /\ cSeq + 1 = sFrames => \A i \in 1..(N + 1) : sent'[i][1] = "frame"
    => sent'[i][2] <= Hand \/ sent'[i][2] = sLast BY <1>a, <1>4
<1>7. ring # <<>> /\ ~ring[Len(ring)].discont
    => \E i \in 2..(N + 1) : sent'[i] = <<"frame", sLast>> /\ sent'[i - 1][1] = "frame" BY <1>a, <1>5, Zenon
<1>8. Newest' BY <1>a, <1>1, <1>2, <1>3, <1>6, Zenon DEF Newest
<1> QED BY <1>a, <1>7, <1>8, Zenon

(* And the records on their way keep their places. *)
LEMMA SentStays ==
  ASSUME Typed, Alive, GapsOnTheWay, BarriersPlaced, NEW x \in Kinds \X Nat, x[1] = "eos",
         sent' = Append(sent, x),
         NEW r \in Records \X Nat, r[1] = "END", events' = Append(events, r), UNCHANGED <<out, gaps>>
  PROVE  GapsOnTheWay' /\ BarriersPlaced'
<1> DEFINE n == Len(events)
           N == Len(sent)
<1>a. /\ Len(sent') = N + 1 /\ N \in Nat /\ sent'[N + 1] = x
      /\ \A j \in 1..N : sent'[j] = sent[j]
      /\ \A j \in 1..(N + 1) : j \in 1..N \/ j = N + 1
  <2>1. sent \in Seq(Kinds \X Nat) BY DEF Typed
  <2> QED BY <2>1, Appended
<1>b. /\ Len(events') = n + 1 /\ n \in Nat /\ events'[n + 1] = r
      /\ \A j \in 1..n : events'[j] = events[j]
      /\ \A j \in 1..(n + 1) : j \in 1..n \/ j = n + 1
      /\ \A i \in 1..n : i \in 1..(n + 1)
  <2>1. events \in Seq(Records \X Nat) BY DEF Typed
  <2> QED BY <2>1, Appended
<1>1. Taken' = Taken /\ Taken \in Nat BY Typing DEF Taken
<1>2. \A j \in 1..n : events[j][1] = "GAP"
    => \E i \in (Taken + 1)..N : sent[i] = <<"gap", events[j][2]>> BY Zenon DEF GapsOnTheWay
<1>3. \A i \in (Taken + 1)..N : sent[i][1] = "gap"
    => \E j \in 1..n : events[j] = <<"GAP", sent[i][2]>> BY Zenon DEF GapsOnTheWay
<1>4. \A j, l \in 1..n, i, k \in 1..N :
        events[j] = <<"BARRIER", sent[i][2]>> /\ sent[i][1] = "frame"
            /\ events[l] = <<"GAP", sent[k][2]>> /\ sent[k][1] = "gap"
          => (l < j <=> k < i)
  BY Zenon DEF BarriersPlaced
<1> HIDE DEF n, N
<1>5. /\ \A i \in (Taken + 1)..N : i \in (Taken + 1)..(N + 1) /\ i \in 1..N
      /\ \A i \in (Taken + 1)..(N + 1) : i \in (Taken + 1)..N \/ i = N + 1
  BY <1>1, <1>a
<1>6. \A j \in 1..(n + 1) : events'[j][1] = "GAP"
    => \E i \in (Taken + 1)..(N + 1) : sent'[i] = <<"gap", events'[j][2]>>
  <2>1. \A j \in 1..n : events'[j][1] = "GAP"
      => \E i \in (Taken + 1)..N : sent'[i] = <<"gap", events'[j][2]>> BY <1>a, <1>b, <1>2, <1>5, Zenon
  <2> QED BY <1>b, <1>5, <2>1, Zenon
<1>7. \A i \in (Taken + 1)..(N + 1) : sent'[i][1] = "gap"
    => \E j \in 1..(n + 1) : events'[j] = <<"GAP", sent'[i][2]>>
  <2>1. \A i \in (Taken + 1)..N : sent'[i][1] = "gap"
      => \E j \in 1..n : events'[j] = <<"GAP", sent'[i][2]>> BY <1>a, <1>b, <1>3, <1>5, Zenon
  <2> QED BY <1>a, <1>b, <1>5, <2>1, Zenon
<1>8. ASSUME NEW j \in 1..(n + 1), NEW l \in 1..(n + 1), NEW i \in 1..(N + 1), NEW k \in 1..(N + 1),
             events'[j] = <<"BARRIER", sent'[i][2]>>, sent'[i][1] = "frame", events'[l] = <<"GAP",
                 sent'[k][2]>>, sent'[k][1] = "gap"
      PROVE  l < j <=> k < i
  <2>1. j \in 1..n /\ l \in 1..n BY <1>b, <1>8
  <2>2. i \in 1..N /\ k \in 1..N BY <1>a, <1>8, Zenon
  <2>3. sent'[i] = sent[i] /\ sent'[k] = sent[k] /\ events'[j] = events[j] /\ events'[l] = events[l]
    BY <1>a, <1>b, <2>1, <2>2, Zenon
  <2>4. events[j] = <<"BARRIER", sent[i][2]>> /\ sent[i][1] = "frame"
      /\ events[l] = <<"GAP", sent[k][2]>> /\ sent[k][1] = "gap"
    BY <1>8, <2>3, Zenon
  <2> QED BY <1>4, <2>1, <2>2, <2>4, Zenon
<1>l. Len(sent') = N + 1 /\ Len(events') = n + 1 BY <1>a, <1>b
<1>9. GapsOnTheWay'
  <2>1. \A j \in 1..Len(events') : events'[j][1] = "GAP"
      => \E i \in (Taken' + 1)..Len(sent') : sent'[i] = <<"gap", events'[j][2]>>
    BY <1>l, <1>1, <1>6, Zenon
  <2>2. \A i \in (Taken' + 1)..Len(sent') : sent'[i][1] = "gap"
      => \E j \in 1..Len(events') : events'[j] = <<"GAP", sent'[i][2]>>
    BY <1>l, <1>1, <1>7, Zenon
  <2> QED BY <2>1, <2>2, Zenon DEF GapsOnTheWay
<1>10. BarriersPlaced'
  <2>1. \A j, l \in 1..Len(events'), i, k \in 1..Len(sent') :
          events'[j] = <<"BARRIER", sent'[i][2]>> /\ sent'[i][1] = "frame"
              /\ events'[l] = <<"GAP", sent'[k][2]>> /\ sent'[k][1] = "gap"
            => (l < j <=> k < i)
    <3> TAKE j, l \in 1..Len(events'), i, k \in 1..Len(sent')
    <3> HAVE events'[j] = <<"BARRIER", sent'[i][2]>> /\ sent'[i][1] = "frame"
        /\ events'[l] = <<"GAP", sent'[k][2]>> /\ sent'[k][1] = "gap"
    <3>1. j \in 1..(n + 1) /\ l \in 1..(n + 1) /\ i \in 1..(N + 1) /\ k \in 1..(N + 1) BY <1>l
    <3> QED BY <1>8, <3>1, Zenon
  <2> QED BY <2>1, Zenon DEF BarriersPlaced
<1> QED BY <1>9, <1>10

(* The end is sent after everything else. *)
LEMMA SinkEnds == ASSUME NEW c \in Cases, VInv(c), Track(c)!SinkEos PROVE VInv(c)'
<1>bounds. Track(c)!VideoAssumption BY CaseIs
<1> USE <1>bounds DEF VInv, Track!VideoAssumption
<1> DEFINE r == <<"END", sLast>>
           x == <<"eos", 0>>
           N == Len(sent)
<1>0. /\ src' = src /\ ring' = ring /\ out' = out /\ gaps' = gaps /\ input' = input /\ ended = <<>>
           /\ ended' = <<sFrames, sLast>>
      /\ sink = "running" /\ sink' = "ended" /\ sFrames' = sFrames /\ sLast' = sLast
           /\ gapPending' = gapPending /\ mark' = mark
      /\ UNCHANGED <<cFrames, cLast, cSeq, frame, delivery, known, flushing, attached, cancelled,
           gapEvents>>
      /\ \/ events' = events /\ cancelled["C"]
         \/ events' = Append(events, r) /\ ~cancelled["C"]
      /\ sent' = Append(sent, x)
  BY Zenon DEF Track!SinkEos, Track!Send, Track!srcVars, Track!sinkVars
<1>t. sLast \in Nat /\ cLast \in Nat BY DEF Track!TypeOK
<1>r. r \in Records \X Nat /\ r[1] = "END" /\ x \in Kinds \X Nat /\ x[1] = "eos" /\ x[2] = 0
  BY <1>t DEF Records, Kinds
<1> HIDE DEF r, x
<1>e. events' \in Seq(Records \X Nat)
  <2>1. events \in Seq(Records \X Nat) BY DEF Typed
  <2>2. Append(events, r) \in Seq(Records \X Nat) BY <1>r, <2>1, Appended
  <2> QED BY <1>0, <2>1, <2>2, Zenon
<1>a. /\ Len(sent') = N + 1 /\ N \in Nat /\ sent'[N + 1] = x
      /\ \A j \in 1..N : sent'[j] = sent[j]
      /\ \A j \in 1..(N + 1) : j \in 1..N \/ j = N + 1
      /\ \A i \in 1..N : i \in 1..(N + 1) /\ i # N + 1
      /\ N + 1 \in 1..(N + 1) /\ sent' \in Seq(Kinds \X Nat)
  <2>1. sent \in Seq(Kinds \X Nat) BY DEF Typed
  <2>2. sent' = Append(sent, x) BY <1>0
  <2> QED BY <1>r, <2>1, <2>2, Appended
<1>1. Track(c)!TypeOK' BY <1>0 DEF Track!TypeOK
<1>2. Typed' BY <1>0, <1>a, <1>e DEF Typed
<1>n. \A i \in 1..N : sent[i][1] # "eos" BY <1>0 DEF SentInOrder
<1>3. SentInOrder'
  <2> HIDE DEF N
  <2>1. \A i, j \in 1..Len(sent') : i < j /\ sent'[i][1] = sent'[j][1] => sent'[i][2] < sent'[j][2]
    <3> SUFFICES ASSUME NEW i \in 1..Len(sent'), NEW j \in 1..Len(sent'), i < j,
        sent'[i][1] = sent'[j][1] PROVE sent'[i][2] < sent'[j][2]
      OBVIOUS
    <3>1. i \in 1..N BY <1>a
    <3>2. j \in 1..N BY <1>a, <1>n, <1>r, <3>1, Zenon
    <3> QED BY <1>a, <3>1, <3>2, Zenon DEF SentInOrder, N
  <2>2. \A i \in 1..Len(sent') : sent'[i][1] = "frame" => sent'[i][2] \in 1..sLast'
    BY <1>0, <1>a, <1>r DEF SentInOrder, N
  <2>3. \A i \in 1..Len(sent') : sent'[i][1] = "gap" => sent'[i][2] \in 1..gapEvents'
    BY <1>0, <1>a, <1>r DEF SentInOrder, N
  <2>4. \A i \in 1..Len(sent') : sent'[i][1] = "eos" => i = Len(sent') /\ sent'[i][2] = 0
      /\ ended' # <<>> BY <1>0, <1>a, <1>n, <1>r
  <2>5. sent' # <<>> /\ sent'[Len(sent')][1] = "eos" BY <1>a, <1>r
  <2>6. known' \in {<<>>, ended'} BY <1>0 DEF SentInOrder
  <2> QED BY <1>0, <2>1, <2>2, <2>3, <2>4, <2>5, <2>6, Zenon DEF SentInOrder
<1>5. Newest' /\ (ring' # <<>> /\ ~ring'[Len(ring')].discont =>
              \E i \in 2..Len(sent') : sent'[i] = <<"frame", sLast'>> /\ sent'[i - 1][1] = "frame")
  BY <1>0, <1>r, NewestGrows, Zenon
<1>4. Follows' BY <1>0, <1>5, Zenon DEF Follows
<1>6. Stages' BY <1>0 DEF Stages, Live
<1>7. Placed' BY <1>0, <1>r, <1>t, PlacedGrows
<1>9. CASE events' = events /\ cancelled["C"]
  <2>1. InOrder'
    <3>1. ended' # <<>> BY <1>0
    <3> QED BY <1>0, <1>9, <3>1 DEF OnTheWay, InOrder
  <2>2. ~Alive' BY <1>0, <1>9 DEF Alive
  <2> QED BY <1>1, <1>2, <1>3, <1>4, <1>5, <1>6, <1>7, <2>1, <2>2 DEF OnTheWay
<1>10. CASE events' = Append(events, r) /\ ~cancelled["C"]
  <2>1. InOrder'
    <3>1. gapEvents' \in Nat /\ gapEvents <= gapEvents' /\ ended' # <<>> BY <1>0, Typing
    <3> QED BY <1>0, <1>r, <1>10, <3>1, RecordsGrow DEF OnTheWay
  <2>2. ASSUME Alive' PROVE GapsOnTheWay' /\ BarriersPlaced' /\ BarriersCome'
    <3>1. Alive BY <1>0, <2>2 DEF Alive, Live
    <3>2. GapsOnTheWay' /\ BarriersPlaced' BY <1>0, <1>r, <1>10, <3>1, SentStays DEF OnTheWay
    <3>4. BarriersCome' BY <1>0, <1>r, <1>10, <3>1, StillAnnounced DEF OnTheWay, BarriersCome
    <3> QED BY <3>2, <3>4
  <2> QED BY <1>1, <1>2, <1>3, <1>4, <1>5, <1>6, <1>7, <2>1, <2>2 DEF OnTheWay
<1> QED BY <1>0, <1>9, <1>10

(* A gap is sent, and recorded, after everything else. *)
LEMMA SinkGaps == ASSUME NEW c \in Cases, VInv(c), Track(c)!SinkGap PROVE VInv(c)'
<1>bounds. Track(c)!VideoAssumption BY CaseIs
<1> USE <1>bounds DEF VInv, Track!VideoAssumption
<1> DEFINE g == gapEvents + 1
           r == <<"GAP", g>>
           x == <<"gap", g>>
           N == Len(sent)
           n == Len(events)
<1>0. /\ src' = src /\ ring' = ring /\ out' = out /\ gaps' = gaps /\ input' = input /\ ended' = ended
      /\ sink = "running" /\ sink' = sink /\ sFrames' = sFrames /\ sLast' = sLast
           /\ gapPending' = TRUE /\ mark' = mark
      /\ UNCHANGED <<cFrames, cLast, cSeq, frame, delivery, known, flushing, attached, cancelled>>
      /\ gapEvents < MaxGapEvents /\ gapEvents' = g
      /\ \/ events' = events /\ cancelled["C"]
         \/ events' = Append(events, r) /\ ~cancelled["C"]
      /\ sent' = Append(sent, x)
  BY Zenon DEF Track!SinkGap, Track!Send, Track!srcVars, Track!sinkVars
<1>t. gapEvents \in Nat /\ cLast \in Nat /\ g \in Nat /\ gapEvents < g /\ gapEvents <= g
    /\ g \in 0..MaxGapEvents
  <2>1. cLast \in Nat BY DEF Track!TypeOK
  <2>2. gapEvents \in Nat /\ gapEvents < MaxGapEvents /\ MaxGapEvents \in Nat BY <1>0, Typing
  <2> QED BY <2>1, <2>2
<1>r. r \in Records \X Nat /\ r[1] = "GAP" /\ r[2] = g /\ x \in Kinds \X Nat /\ x[1] = "gap"
    /\ x[2] = g BY <1>t DEF Records, Kinds
<1> HIDE DEF g
<1>z. r = <<"GAP", g>> /\ x = <<"gap", g>> OBVIOUS
<1> HIDE DEF r, x
<1>e. events' \in Seq(Records \X Nat)
  <2>1. events \in Seq(Records \X Nat) BY DEF Typed
  <2>2. Append(events, r) \in Seq(Records \X Nat) BY <1>r, <2>1, Appended
  <2> QED BY <1>0, <2>1, <2>2, Zenon
<1>a. /\ Len(sent') = N + 1 /\ N \in Nat /\ sent'[N + 1] = x
      /\ \A j \in 1..N : sent'[j] = sent[j]
      /\ \A j \in 1..(N + 1) : j \in 1..N \/ j = N + 1
      /\ \A i \in 1..N : i \in 1..(N + 1) /\ i # N + 1
      /\ N + 1 \in 1..(N + 1) /\ sent' \in Seq(Kinds \X Nat)
  <2>1. sent \in Seq(Kinds \X Nat) BY DEF Typed
  <2>2. sent' = Append(sent, x) BY <1>0
  <2> QED BY <1>r, <2>1, <2>2, Appended
<1> HIDE DEF N
<1>1. Track(c)!TypeOK' BY <1>0 DEF Track!TypeOK
<1>2. Typed' BY <1>0, <1>a, <1>e, <1>t DEF Typed
<1>l. \A i \in 1..N : sent[i][1] = "gap" => sent[i][2] < g /\ sent[i][2] \in 1..g
  <2>1. \A z \in 1..gapEvents : z < g /\ z \in 1..g BY <1>t
  <2> QED BY <2>1, Zenon DEF SentInOrder, N
<1>n. ended = <<>> BY <1>0 DEF SentInOrder
<1>3. SentInOrder'
  <2>1. ASSUME NEW i \in 1..(N + 1), NEW j \in 1..(N + 1), i < j, sent'[i][1] = sent'[j][1]
    PROVE sent'[i][2] < sent'[j][2]
    <3>1. i \in 1..N BY <1>a, <2>1
    <3>2. CASE j \in 1..N
      <4>1. sent'[i] = sent[i] /\ sent'[j] = sent[j] BY <1>a, <3>1, <3>2, Zenon
      <4> QED BY <2>1, <3>1, <3>2, <4>1, Zenon DEF SentInOrder, N
    <3>3. CASE j = N + 1 BY <1>a, <1>r, <1>l, <2>1, <3>1, <3>3, Zenon
    <3> QED BY <1>a, <3>2, <3>3
  <2>2. \A i \in 1..(N + 1) : sent'[i][1] = "frame" => sent'[i][2] \in 1..sLast'
    BY <1>0, <1>a, <1>r DEF SentInOrder, N
  <2>3. \A i \in 1..(N + 1) : sent'[i][1] = "gap" => sent'[i][2] \in 1..gapEvents'
    <3>1. g \in 1..g BY <1>t
    <3> QED BY <1>0, <1>a, <1>r, <1>l, <3>1
  <2>4. \A i \in 1..(N + 1) : sent'[i][1] # "eos" BY <1>n, <1>a, <1>r, Zenon DEF SentInOrder, N
  <2>5. Len(sent') = N + 1 BY <1>a
  <2>6. known' \in {<<>>, ended'} /\ ended' = <<>> BY <1>0, <1>n DEF SentInOrder
  <2>7. sLast' \in 0..input' /\ sFrames' \in 0..input' /\ sink' = "running" BY <1>0 DEF SentInOrder
  <2> QED BY <2>1, <2>2, <2>3, <2>4, <2>5, <2>6, <2>7, Zenon DEF SentInOrder
<1>5. Newest' /\ (ring' # <<>> /\ ~ring'[Len(ring')].discont =>
              \E i \in 2..Len(sent') : sent'[i] = <<"frame", sLast'>> /\ sent'[i - 1][1] = "frame")
  BY <1>0, <1>r, NewestGrows, Zenon
<1>4. Follows' BY <1>0, <1>5, Zenon DEF Follows
<1>6. Stages' BY <1>0 DEF Stages, Live
<1>7. Placed' BY <1>0, <1>r, <1>t, PlacedGrows
<1>9. CASE events' = events /\ cancelled["C"]
  <2>1. InOrder'
    <3>1. \A j \in 1..n : events[j][1] = "GAP" => events[j][2] <= gapEvents /\ events[j][2] \in Nat
      BY Typing, Zenon DEF OnTheWay, InOrder
    <3>2. \A j \in 1..n : events[j][1] = "GAP" => events[j][2] <= g BY <1>t, <3>1, SMTT(30)
    <3> QED BY <1>0, <1>9, <3>2 DEF OnTheWay, InOrder
  <2>2. ~Alive' BY <1>0, <1>9 DEF Alive
  <2> QED BY <1>1, <1>2, <1>3, <1>4, <1>5, <1>6, <1>7, <2>1, <2>2 DEF OnTheWay
<1>10. CASE events' = Append(events, r) /\ ~cancelled["C"]
  <2>1. InOrder' BY <1>0, <1>r, <1>t, <1>n, <1>10, RecordsGrow DEF OnTheWay
  <2>2. ASSUME Alive' PROVE GapsOnTheWay' /\ BarriersPlaced' /\ BarriersCome'
    <3>1. Alive BY <1>0, <2>2 DEF Alive, Live
    <3>b. /\ Len(events') = n + 1 /\ n \in Nat /\ events'[n + 1] = r
          /\ \A j \in 1..n : events'[j] = events[j]
          /\ \A j \in 1..(n + 1) : j \in 1..n \/ j = n + 1
          /\ \A i \in 1..n : i \in 1..(n + 1) /\ i # n + 1
          /\ n + 1 \in 1..(n + 1)
      <4>1. events \in Seq(Records \X Nat) BY DEF Typed
      <4>2. events' = Append(events, r) BY <1>10
      <4> QED BY <1>r, <4>1, <4>2, Appended
    <3>t. Taken' = Taken /\ Taken \in Nat BY <1>0, Typing DEF Taken
    <3>k. Taken <= N BY <3>1 DEF Placed, Alive, N
    <3>5. /\ \A i \in (Taken + 1)..N : i \in (Taken + 1)..(N + 1) /\ i \in 1..N
          /\ \A i \in (Taken + 1)..(N + 1) : i \in (Taken + 1)..N \/ i = N + 1
          /\ N + 1 \in (Taken + 1)..(N + 1)
      BY <3>t, <3>k, <1>a, SMTT(30)
    <3>6. \A j \in 1..n : events[j][1] = "GAP"
        => \E i \in (Taken + 1)..N : sent[i] = <<"gap", events[j][2]>>
      BY <3>1, Zenon DEF OnTheWay, GapsOnTheWay, N
    <3>7. \A i \in (Taken + 1)..N : sent[i][1] = "gap"
        => \E j \in 1..n : events[j] = <<"GAP", sent[i][2]>>
      BY <3>1, Zenon DEF OnTheWay, GapsOnTheWay, N
    <3>8. \A j, l \in 1..n, i, k \in 1..N :
        events[j] = <<"BARRIER", sent[i][2]>> /\ sent[i][1] = "frame"
            /\ events[l] = <<"GAP", sent[k][2]>> /\ sent[k][1] = "gap"
          => (l < j <=> k < i)
      BY <3>1, Zenon DEF OnTheWay, BarriersPlaced, N
    <3>9. \A l \in 1..n : events[l] # r
      <4> SUFFICES ASSUME NEW l \in 1..n, events[l] = r PROVE FALSE OBVIOUS
      <4>1. PICK i \in (Taken + 1)..N : sent[i] = <<"gap", g>> BY <1>r, <3>6, Zenon
      <4>2. sent[i][1] = "gap" /\ sent[i][2] = g BY <4>1
      <4>3. i \in 1..N BY <3>5
      <4>4. g < g BY <1>l, <4>2, <4>3
      <4> QED BY <1>t, <4>4
    <3> HIDE DEF n
    <3>2. GapsOnTheWay'
      <4>2. \A j \in 1..(n + 1) : events'[j][1] = "GAP"
          => \E i \in (Taken + 1)..(N + 1) : sent'[i] = <<"gap", events'[j][2]>>
        <5>1. \A j \in 1..n : events'[j][1] = "GAP"
            => \E i \in (Taken + 1)..N : sent'[i] = <<"gap", events'[j][2]>> BY <1>a, <3>b, <3>5, <3>6, Zenon
        <5>2. sent'[N + 1] = <<"gap", events'[n + 1][2]>> BY <1>a, <1>r, <1>z, <3>b
        <5> QED BY <3>b, <3>5, <5>1, <5>2, Zenon
      <4>3. \A i \in (Taken + 1)..(N + 1) : sent'[i][1] = "gap"
          => \E j \in 1..(n + 1) : events'[j] = <<"GAP", sent'[i][2]>>
        <5>1. \A i \in (Taken + 1)..N : sent'[i][1] = "gap"
            => \E j \in 1..n : events'[j] = <<"GAP", sent'[i][2]>> BY <1>a, <3>b, <3>5, <3>7, Zenon
        <5>2. events'[n + 1] = <<"GAP", sent'[N + 1][2]>> BY <1>a, <1>r, <1>z, <3>b
        <5> QED BY <3>b, <3>5, <5>1, <5>2, Zenon
      <4>4. Len(sent') = N + 1 /\ Len(events') = n + 1 BY <1>a, <3>b
      <4> QED BY <3>t, <4>2, <4>3, <4>4, Zenon DEF GapsOnTheWay
    <3>3. BarriersPlaced'
      <4>1. ASSUME NEW j \in 1..(n + 1), NEW l \in 1..(n + 1), NEW i \in 1..(N + 1),
          NEW k \in 1..(N + 1),
                   events'[j] = <<"BARRIER", sent'[i][2]>>, sent'[i][1] = "frame",
                       events'[l] = <<"GAP", sent'[k][2]>>, sent'[k][1] = "gap"
            PROVE  l < j <=> k < i
        <5>1. j \in 1..n /\ i \in 1..N
          <6>1. i \in 1..N BY <1>a, <1>r, <4>1, Zenon
          <6>2. events'[j][1] = "BARRIER" BY <4>1
          <6>3. j # n + 1 BY <1>r, <3>b, <6>2, Zenon
          <6> QED BY <3>b, <6>1, <6>3
        <5>3. sent'[i] = sent[i] /\ events'[j] = events[j] BY <1>a, <3>b, <5>1, Zenon
        <5>4. CASE l \in 1..n
          <6>1. events[l] = <<"GAP", sent'[k][2]>> BY <3>b, <4>1, <5>4, Zenon
          <6>2. k # N + 1 BY <1>a, <1>r, <1>z, <3>9, <5>4, <6>1
          <6>3. k \in 1..N BY <1>a, <6>2
          <6>4. sent'[k] = sent[k] BY <1>a, <6>3, Zenon
          <6>5. events[j] = <<"BARRIER", sent[i][2]>> /\ sent[i][1] = "frame"
              /\ events[l] = <<"GAP", sent[k][2]>> /\ sent[k][1] = "gap"
            BY <4>1, <5>3, <6>1, <6>4
          <6> QED BY <3>8, <5>1, <5>4, <6>3, <6>5
        <5>5. CASE l = n + 1
          <6>1. sent'[k][2] = g
            <7>1. r = <<"GAP", sent'[k][2]>> BY <3>b, <4>1, <5>5, Zenon
            <7>2. r[2] = sent'[k][2] BY <7>1
            <7> QED BY <1>r, <7>2
          <6>2. k = N + 1
            <7>1. CASE k \in 1..N
              <8>1. sent[k][1] = "gap" /\ sent[k][2] = g BY <1>a, <4>1, <6>1, <7>1, Zenon
              <8>2. g < g BY <1>l, <7>1, <8>1
              <8> QED BY <1>t, <8>2
            <7> QED BY <1>a, <7>1
          <6>3. ~(l < j) BY <3>b, <5>1, <5>5
          <6>4. ~(k < i) BY <1>a, <5>1, <6>2
          <6> QED BY <6>3, <6>4
        <5> QED BY <3>b, <5>4, <5>5
      <4>4. Len(sent') = N + 1 /\ Len(events') = n + 1 BY <1>a, <3>b
      <4> QED BY <4>1, <4>4, Zenon DEF BarriersPlaced
    <3>4. BarriersCome' BY <1>0, <1>r, <1>10, <3>1, StillAnnounced DEF OnTheWay, BarriersCome
    <3> QED BY <3>2, <3>3, <3>4
  <2> QED BY <1>1, <1>2, <1>3, <1>4, <1>5, <1>6, <1>7, <2>1, <2>2 DEF OnTheWay
<1> QED BY <1>0, <1>9, <1>10

-----------------------------------------------------------------------------
(* The source. *)

(* The source fails or stops. *)
LEMMA SrcFalls ==
  ASSUME NEW c \in Cases, VInv(c), src' \in {"failed", "stopped"}, UNCHANGED Track(c)!sinkVars,
         UNCHANGED <<cFrames, cLast, cSeq, gaps, known, out>>,
         flushing' \in BOOLEAN, cancelled' = [cancelled EXCEPT !["C"] = TRUE], frame' = NoImage,
         delivery' \in {delivery, NoImage}, src' = "stopped"
             => delivery' = NoImage, ring' \in {ring, <<>>},
         events' \in Seq(Records \X Nat), InOrder'
  PROVE  VInv(c)'
<1>bounds. Track(c)!VideoAssumption BY CaseIs
<1> USE <1>bounds DEF VInv, Track!VideoAssumption, Track!sinkVars
<1>0. /\ sent' = sent /\ out' = out /\ gaps' = gaps /\ input' = input /\ ended' = ended
           /\ gapEvents' = gapEvents
      /\ sink' = sink /\ sFrames' = sFrames /\ sLast' = sLast /\ gapPending' = gapPending
           /\ mark' = mark
  OBVIOUS
<1>n. NoImage \in Image /\ ring' \in Seq(Image) /\ Len(ring') <= c.pool
  <2>1. NoImage \in Image BY DEF NoImage, Image
  <2>2. ring \in Seq(Image) /\ <<>> \in Seq(Image) BY DEF Typed
  <2>3. CASE ring' = <<>> BY <2>1, <2>2, <2>3
  <2>4. CASE ring' = ring BY <2>1, <2>2, <2>4 DEF Track!TypeOK
  <2> QED BY <2>3, <2>4
<1>1. Track(c)!TypeOK'
  <2>1. cancelled' \in [{"P", "C"} -> BOOLEAN] BY DEF Track!TypeOK
  <2> QED BY <1>0, <1>n, <2>1, Zenon DEF Track!TypeOK
<1>2. Typed' BY <1>0, <1>n, Zenon DEF Typed
<1>3. SentInOrder' BY <1>0 DEF SentInOrder
<1>4. Follows'
  <2>1. CASE ring' = <<>> BY <1>0, <2>1 DEF Follows
  <2>2. CASE ring' = ring BY <1>0, <2>2 DEF Follows
  <2> QED BY <2>1, <2>2
<1>d. ~Live' /\ ~Alive' BY DEF Live, Alive
<1>5. Newest'
  <2>1. CASE ring' = <<>> BY <1>0, <1>d, <2>1 DEF Newest
  <2>2. CASE ring' = ring BY <1>0, <1>d, <2>2 DEF Newest
  <2> QED BY <2>1, <2>2
<1>6. Stages'
  <2>1. cancelled'["C"] BY DEF Track!TypeOK
  <2> QED BY <1>0, <1>d, <2>1 DEF Stages
<1>7. Placed' BY <1>0, <1>d DEF Placed
<1>8. OnTheWay' BY <1>d DEF OnTheWay
<1> QED BY <1>1, <1>2, <1>3, <1>4, <1>5, <1>6, <1>7, <1>8

(* The source moves between stages in which it holds no frame. *)
LEMMA SrcMoves ==
  ASSUME NEW c \in Cases, VInv(c), UNCHANGED Track(c)!sinkVars, UNCHANGED <<cFrames, cLast, cSeq,
         gaps, out, frame, delivery, events, cancelled>>, ring' \in {ring, <<>>},
         flushing' \in BOOLEAN, Live, Live', src \notin {"barrier", "finish"}, src' \in {"idle",
             "loop", "acquire", "push", "ending"} \/ src' = src,
         known' \in {<<>>, ended}, Stages'
  PROVE  VInv(c)'
<1>bounds. Track(c)!VideoAssumption BY CaseIs
<1> USE <1>bounds DEF VInv, Track!VideoAssumption, Track!sinkVars
<1>0. /\ sent' = sent /\ out' = out /\ gaps' = gaps /\ input' = input /\ ended' = ended
           /\ gapEvents' = gapEvents
      /\ sink' = sink /\ sFrames' = sFrames /\ sLast' = sLast /\ gapPending' = gapPending
           /\ mark' = mark
      /\ events' = events /\ frame' = frame /\ delivery' = delivery /\ cancelled' = cancelled
      /\ cLast' = cLast /\ cSeq' = cSeq
  OBVIOUS
<1>h. Hand' = Hand /\ Taken' = Taken /\ Alive' = Alive /\ src' \notin {"barrier", "finish"}
  BY DEF Hand, Taken, Alive
<1>n. ring' \in Seq(Image) /\ Len(ring') <= c.pool
  <2>1. ring \in Seq(Image) /\ <<>> \in Seq(Image) BY DEF Typed
  <2>3. CASE ring' = <<>> BY <2>1, <2>3
  <2>4. CASE ring' = ring BY <2>1, <2>4 DEF Track!TypeOK
  <2> QED BY <2>3, <2>4
<1>1. Track(c)!TypeOK' BY <1>0, <1>n, Zenon DEF Track!TypeOK, Track!Running
<1>2. Typed' BY <1>0, <1>n DEF Typed
<1>3. SentInOrder' BY <1>0 DEF SentInOrder
<1>4. Follows'
  <2>1. CASE ring' = <<>> BY <1>0, <2>1 DEF Follows
  <2>2. CASE ring' = ring BY <1>0, <2>2 DEF Follows
  <2> QED BY <2>1, <2>2
<1>5. Newest'
  <2>1. CASE ring' = <<>> BY <1>0, <1>h, <2>1 DEF Newest
  <2>2. CASE ring' = ring BY <1>0, <1>h, <2>2 DEF Newest
  <2> QED BY <2>1, <2>2
<1>7. Placed' BY <1>0, <1>h, Zenon DEF Placed
<1>8. InOrder' BY <1>0, Zenon DEF OnTheWay, InOrder
<1>9. GapsOnTheWay' = GapsOnTheWay BY <1>0, <1>h DEF GapsOnTheWay
<1>10. BarriersPlaced' = BarriersPlaced BY <1>0 DEF BarriersPlaced
<1>11. BarriersCome => BarriersCome'
  <2>1. CASE ring' = <<>> BY <1>0, <1>h, <2>1 DEF BarriersCome
  <2>2. CASE ring' = ring BY <1>0, <1>h, <2>2 DEF BarriersCome
  <2> QED BY <2>1, <2>2
<1> QED BY <1>1, <1>2, <1>3, <1>4, <1>5, <1>7, <1>8, <1>9, <1>10, <1>11, <1>h DEF OnTheWay

(* The steps of the source that take nothing, or throw away what the ring    *)
(* holds.                                                                    *)
LEMMA SrcQuiet ==
  ASSUME NEW c \in Cases, VInv(c),
         Track(c)!SrcStart \/ Track(c)!CreateBegin \/ Track(c)!LoopFlushing \/ Track(c)!LoopEnd \/ Track(c)!AcquireTimeout \/ Track(c)!PushDiscarded \/ Track(c)!PushFails \/ Track(c)!AudioTerminal \/ Track(c)!AcquireExpired
  PROVE  VInv(c)'
<1>bounds. Track(c)!VideoAssumption BY CaseIs
<1> USE <1>bounds DEF VInv, Track!VideoAssumption, Track!SrcStep
<1>f. flushing \in BOOLEAN /\ known \in {<<>>, ended} BY DEF Track!TypeOK, SentInOrder
<1>s. <<"frame", 0>> # <<>> /\ Live => src \notin {"eos", "failed", "stopped"} BY DEF Live
<1>1. CASE Track(c)!SrcStart
  <2>1. /\ src = "adopted" /\ src' = "idle" /\ cFrames' = cFrames /\ cLast' = cLast /\ cSeq' = cSeq
             /\ gaps' = gaps
    BY <1>1 DEF Track!SrcStart, Stages, Live
  <2>2. Live /\ Live' BY <2>1 DEF Live
  <2>3. UNCHANGED Track(c)!sinkVars
      /\ UNCHANGED <<out, frame, delivery, ring, events, cancelled, known, flushing>>
    BY <1>1 DEF Track!SrcStart
  <2>4. Stages' BY <2>1, <2>2, <2>3 DEF Stages
  <2> QED BY <1>f, <2>1, <2>2, <2>3, <2>4, SrcMoves
<1>2. CASE Track(c)!CreateBegin
  <2>1. /\ src = "idle" /\ src' = (IF delivery # NoImage THEN "push" ELSE "loop")
        /\ UNCHANGED Track(c)!sinkVars
             /\ UNCHANGED <<cFrames, cLast, cSeq, gaps, out, frame, delivery, ring, events,
             cancelled, known, flushing>>
    BY <1>2, OneNone DEF Track!CreateBegin
  <2>2. Live /\ Live' BY <2>1 DEF Live
  <2>4. Stages' BY <2>1, <2>2 DEF Stages
  <2> QED BY <1>f, <2>1, <2>2, <2>4, SrcMoves
<1>3. CASE Track(c)!LoopFlushing
  <2>1. /\ src = "loop" /\ src' = "idle"
        /\ UNCHANGED Track(c)!sinkVars
             /\ UNCHANGED <<cFrames, cLast, cSeq, gaps, out, frame, delivery, ring, events,
             cancelled, known, flushing>>
    BY <1>3 DEF Track!LoopFlushing
  <2>2. Live /\ Live' BY <2>1 DEF Live
  <2>4. Stages' BY <2>1, <2>2 DEF Stages
  <2> QED BY <1>f, <2>1, <2>2, <2>4, SrcMoves
<1>4. CASE Track(c)!LoopEnd
  <2>1. /\ src = "loop" /\ src' = (IF Track(c)!Reached(Track(c)!PeekEnd) THEN "ending" ELSE "acquire") /\ known' = Track(c)!PeekEnd
        /\ Track(c)!Reached(Track(c)!PeekEnd) => <<cFrames, cLast>> = Track(c)!PeekEnd
        /\ UNCHANGED Track(c)!sinkVars
             /\ UNCHANGED <<cFrames, cLast, cSeq, gaps, out, frame, delivery, ring, events,
             cancelled, flushing>>
    BY <1>4 DEF Track!LoopEnd
  <2>2. Live /\ Live' BY <2>1 DEF Live
  <2>3. Track(c)!PeekEnd \in {<<>>, ended}
      /\ (Track(c)!Reached(Track(c)!PeekEnd) => Track(c)!PeekEnd # <<>>)
    BY <1>f DEF Track!PeekEnd, Track!Reached
  <2>4. Stages' BY <2>1, <2>2, <2>3 DEF Stages
  <2> QED BY <1>f, <2>1, <2>2, <2>3, <2>4, SrcMoves
<1>5. CASE Track(c)!AcquireTimeout
  <2>1. /\ src = "acquire" /\ src' = "loop"
        /\ UNCHANGED Track(c)!sinkVars
             /\ UNCHANGED <<cFrames, cLast, cSeq, gaps, out, frame, delivery, ring, events,
             cancelled, known, flushing>>
    BY <1>5 DEF Track!AcquireTimeout
  <2>2. Live /\ Live' BY <2>1 DEF Live
  <2>4. Stages' BY <2>1, <2>2 DEF Stages
  <2> QED BY <1>f, <2>1, <2>2, <2>4, SrcMoves
<1>6. CASE Track(c)!PushDiscarded \/ Track(c)!PushFails
  <2>1. /\ src = "push" /\ src' = "idle"
        /\ UNCHANGED Track(c)!sinkVars
             /\ UNCHANGED <<cFrames, cLast, cSeq, gaps, out, frame, delivery, ring, events,
             cancelled, known, flushing>>
    BY <1>6 DEF Track!PushDiscarded, Track!PushFails
  <2>2. Live /\ Live' BY <2>1 DEF Live
  <2>4. Stages' BY <2>1, <2>2 DEF Stages
  <2> QED BY <1>f, <2>1, <2>2, <2>4, SrcMoves
<1>7. CASE Track(c)!AudioTerminal
  <2>1. /\ src' = src /\ known = <<>> /\ known' = ended
        /\ UNCHANGED Track(c)!sinkVars
             /\ UNCHANGED <<cFrames, cLast, cSeq, gaps, out, frame, delivery, ring, events,
             cancelled, flushing>>
    BY <1>7 DEF Track!AudioTerminal
  <2>2. src # "ending" BY <2>1 DEF Stages
  <2>3. cancelled \in [{"P", "C"} -> BOOLEAN] /\ attached \in BOOLEAN BY DEF Track!TypeOK
  <2>4. UNCHANGED <<input, gapEvents, ended, sFrames, sLast, mark, gapPending, sink, attached, sent>>
    BY <2>1 DEF Track!sinkVars
  <2> QED BY <1>f, <2>1, <2>2, <2>3, <2>4, SinkQuiet DEF streams
<1>8. CASE Track(c)!AcquireExpired
  <2>1. /\ src = "acquire" /\ src' = "loop" /\ ring' = <<>>
        /\ UNCHANGED Track(c)!sinkVars
             /\ UNCHANGED <<cFrames, cLast, cSeq, gaps, out, frame, delivery, events, cancelled,
             known, flushing>>
    BY <1>8 DEF Track!AcquireExpired
  <2>2. Live /\ Live' BY <2>1 DEF Live
  <2>4. Stages' BY <2>1, <2>2 DEF Stages
  <2> QED BY <1>f, <2>1, <2>2, <2>4, SrcMoves
<1> QED BY <1>1, <1>2, <1>3, <1>4, <1>5, <1>6, <1>7, <1>8

(* The newest frame is taken, and no frame was skipped. *)
LEMMA FrameTaken == ASSUME NEW c \in Cases, VInv(c), Track(c)!AcquireFrame PROVE VInv(c)'
<1>bounds. Track(c)!VideoAssumption BY CaseIs
<1> USE <1>bounds DEF VInv, Track!VideoAssumption
<1> DEFINE f == ring[Len(ring)]
           N == Len(sent)
<1>0. /\ src = "acquire" /\ src' = (IF f.discont THEN "barrier" ELSE "finish") /\ ring # <<>>
           /\ f.seq = cSeq + 1
      /\ ring' = <<>> /\ frame' = f /\ cSeq' = cSeq + 1
      /\ UNCHANGED Track(c)!sinkVars
           /\ UNCHANGED <<cFrames, cLast, gaps, delivery, known, out, events, cancelled, flushing>>
  BY DEF Track!AcquireFrame, Track!SrcStep, Track!Latest
<1>u. UNCHANGED <<sink, input, gapEvents, sFrames, sLast, gapPending, mark, ended, attached, sent>>
  BY <1>0 DEF Track!sinkVars
<1>t. /\ cSeq \in Nat /\ cLast \in Nat /\ sFrames \in Nat /\ sFrames \in 0..MaxInput
           /\ sLast \in Nat /\ N \in Nat /\ Len(out) \in Nat /\ f \in Image /\ f.pts \in Nat
      /\ Len(ring) \in 1..Len(ring)
  <2>1. ring \in Seq(Image) BY DEF Typed
  <2>2. Len(ring) \in 1..Len(ring) BY <1>0, <2>1
  <2>3. f \in Image BY <2>1, <2>2
  <2>4. f.pts \in Nat BY <2>3 DEF Image
  <2>5. cSeq \in Nat /\ cLast \in Nat /\ sFrames \in Nat /\ sFrames \in 0..MaxInput /\ sLast \in Nat
    BY DEF Track!TypeOK
  <2> QED BY <2>2, <2>3, <2>4, <2>5, Typing, Zenon
<1>s. delivery = NoImage /\ frame = NoImage /\ gaps = <<>> /\ cSeq = cFrames /\ Live
    /\ Hand = cLast BY <1>0 DEF Stages, Live, Hand
<1>f. f.seq = sFrames /\ f.pts = sLast /\ f.pts > cLast /\ cSeq + 1 = sFrames
  BY <1>0, <1>s, <1>t, Zenon DEF Newest
<1>g. \E i \in 1..N : sent[i] = <<"frame", sLast>> BY <1>0 DEF Newest
<1>h. \A i \in 1..N : sent[i][1] = "frame" => sent[i][2] <= cLast \/ sent[i][2] = sLast
  BY <1>f, <1>s DEF Newest
<1>d. ~f.discont => \E i \in 2..N : sent[i] = <<"frame", sLast>> /\ sent[i - 1][1] = "frame"
  BY <1>0, Zenon DEF Follows
<1>b. f.discont /\ Alive => Announced(events, f.pts) BY <1>t DEF OnTheWay, BarriersCome
<1>k. Live' /\ Hand' = sLast /\ Taken' = Len(out) /\ Taken = Len(out) /\ Alive' = Alive
  <2>1. Len(gaps) = 0 BY <1>s
  <2> QED BY <1>0, <1>f, <1>s, <1>t, <2>1 DEF Live, Hand, Taken, Alive
<1> HIDE DEF f
<1>1. Track(c)!TypeOK'
  <2>1. cSeq' \in 0..MaxInput /\ Len(ring') <= c.pool BY <1>0, <1>f, <1>t
  <2>2. src' \in {"barrier", "finish"} BY <1>0
  <2> QED BY <1>0, <1>u, <2>1, <2>2 DEF Track!TypeOK, Track!Running
<1>2. Typed'
  <2>1. ring' \in Seq(Image) BY <1>0
  <2> QED BY <1>0, <1>u, <1>t, <2>1 DEF Typed
<1>3. SentInOrder' BY <1>0, <1>u DEF SentInOrder
<1>4. Follows' BY <1>0, <1>u DEF Follows
<1>5. Newest'
  <2>1. cSeq' <= sFrames' /\ cSeq' = sFrames' /\ cSeq' + 1 # sFrames' /\ sLast <= sLast
    BY <1>0, <1>u, <1>f, <1>t
  <2> QED BY <1>0, <1>u, <1>k, <2>1 DEF Newest
<1>6. Stages'
  <2>1. src' \in {"barrier", "finish"} BY <1>0
  <2> QED BY <1>0, <1>s, <2>1 DEF Stages
<1>7. Placed'
  <2>1. src' = "finish" => Taken' < Len(sent') /\ sent'[Taken' + 1] = <<"frame", frame'.pts>>
    <3> SUFFICES ASSUME src' = "finish" PROVE Len(out) < N /\ sent[Len(out) + 1] = <<"frame", sLast>>
      BY <1>0, <1>u, <1>k, <1>f, Zenon
    <3>1. PICK i \in 2..N : sent[i] = <<"frame", sLast>> /\ sent[i - 1][1] = "frame" BY <1>0, <1>d
    <3>2. i \in 1..N /\ i - 1 \in 1..N /\ i - 1 < i BY <1>t
    <3>3. sent[i][1] = "frame" /\ sent[i][2] = sLast BY <3>1
    <3>4. sent[i - 1][2] < sLast BY <3>1, <3>2, <3>3, Zenon DEF SentInOrder
    <3>5. sent[i - 1][2] \in Nat BY <3>2, Typing, Zenon
    <3>6. sent[i - 1][2] <= cLast BY <1>h, <1>t, <3>1, <3>2, <3>4, <3>5, SMTT(30)
    <3>7. i - 1 <= Len(out) BY <1>s, <3>1, <3>2, <3>6, Zenon DEF Placed
    <3>8. ~(sent[i][2] <= cLast) BY <1>f, <1>t, <3>3
    <3>9. ~(i <= Len(out)) BY <1>s, <3>2, <3>3, <3>8 DEF Placed
    <3>10. i = Len(out) + 1 /\ Len(out) < N BY <1>t, <3>2, <3>7, <3>9
    <3> QED BY <3>1, <3>10
  <2>2. frame'.pts > cLast' /\ (\E i \in 1..Len(sent') : sent'[i] = <<"frame", frame'.pts>>)
    BY <1>0, <1>u, <1>f, <1>g
  <2>3. \A i \in 1..Len(sent') : sent'[i][1] = "frame"
      => sent'[i][2] <= cLast' \/ sent'[i][2] >= frame'.pts
    <3>1. sLast >= sLast BY <1>t
    <3> QED BY <1>0, <1>u, <1>f, <1>h, <3>1
  <2>4. delivery' = NoImage /\ gaps' = gaps /\ out' = out /\ sent' = sent /\ cLast' = cLast
    BY <1>0, <1>u, <1>s
  <2> QED BY <1>k, <1>s, <2>1, <2>2, <2>3, <2>4 DEF Placed
<1>8. InOrder' BY <1>0, <1>u DEF OnTheWay, InOrder
<1>9. GapsOnTheWay' = GapsOnTheWay BY <1>0, <1>u, <1>k DEF GapsOnTheWay
<1>10. BarriersPlaced' = BarriersPlaced BY <1>0, <1>u DEF BarriersPlaced
<1>11. Alive /\ BarriersCome => BarriersCome' BY <1>0, <1>u, <1>b DEF BarriersCome
<1> QED BY <1>1, <1>2, <1>3, <1>4, <1>5, <1>6, <1>7, <1>8, <1>9, <1>10, <1>11, <1>k DEF OnTheWay

(* The frame taken is the next item to be delivered. *)
LEMMA FrameFinished == ASSUME NEW c \in Cases, VInv(c), Track(c)!FinishFrame PROVE VInv(c)'
<1>bounds. Track(c)!VideoAssumption BY CaseIs
<1> USE <1>bounds DEF VInv, Track!VideoAssumption
<1>0. /\ src = "finish" /\ src' = "push" /\ cFrames' = cFrames + 1 /\ cLast' = frame.pts
           /\ delivery' = frame /\ frame' = NoImage
      /\ UNCHANGED Track(c)!sinkVars
           /\ UNCHANGED <<cSeq, gaps, known, out, ring, events, cancelled, flushing>>
  BY OneNone DEF Track!FinishFrame, Track!SrcStep
<1>u. UNCHANGED <<sink, input, gapEvents, sFrames, sLast, gapPending, mark, ended, attached, sent>>
  BY <1>0 DEF Track!sinkVars
<1>s. delivery = NoImage /\ cSeq = cFrames + 1 /\ Live /\ Live' /\ Hand = frame.pts
    /\ Hand' = frame.pts /\ Taken' = Taken /\ Alive' = Alive
  BY <1>0 DEF Stages, Live, Hand, Taken, Alive
<1>t. /\ cLast \in Nat /\ sLast \in 0..MaxInput /\ sLast \in Nat /\ cSeq \in 0..MaxInput
           /\ frame.pts \in Nat
  <2>1. frame.pts \in Nat BY DEF Typed, Image
  <2> QED BY <2>1 DEF Track!TypeOK
<1>p. frame.pts > cLast /\ (\A i \in 1..Len(sent) : sent[i][1] = "frame"
    => sent[i][2] <= cLast \/ sent[i][2] >= frame.pts)
      /\ Taken < Len(sent) /\ sent[Taken + 1] = <<"frame", frame.pts>>
  BY <1>0, <1>s, Zenon DEF Placed
<1>n. frame # NoImage /\ NoImage \in Image
  <2>1. NoImage.pts = 0 /\ NoImage \in Image BY DEF NoImage, Image
  <2> QED BY <1>t, <1>p, <2>1
<1>1. Track(c)!TypeOK'
  <2>1. frame.pts <= sLast BY <1>s DEF Newest
  <2>2. cLast' \in 0..MaxInput /\ cFrames' \in 0..MaxInput BY <1>0, <1>s, <1>t, <2>1
  <2> QED BY <1>0, <1>u, <2>2 DEF Track!TypeOK, Track!Running
<1>2. Typed' BY <1>0, <1>u, <1>n DEF Typed
<1>3. SentInOrder' BY <1>0, <1>u DEF SentInOrder
<1>4. Follows' BY <1>0, <1>u, Zenon DEF Follows
<1>5. Newest' BY <1>0, <1>u, <1>s DEF Newest
<1>6. Stages' BY <1>0, <1>s, <1>n DEF Stages
<1>7. Placed'
  <2>1. ASSUME NEW i \in 1..Len(sent), sent[i][1] = "frame"
    PROVE i <= Len(out) <=> (sent[i][2] <= frame.pts /\ sent[i][2] # frame.pts)
    <3>1. i <= Len(out) <=> sent[i][2] <= cLast BY <1>s, <2>1 DEF Placed
    <3>2. sent[i][2] \in Nat BY Typing, Zenon
    <3>3. sent[i][2] <= cLast \/ sent[i][2] >= frame.pts BY <1>p, <2>1
    <3>4. sent[i][2] <= cLast <=> (sent[i][2] <= frame.pts /\ sent[i][2] # frame.pts)
      BY <1>p, <1>t, <3>2, <3>3, SMTT(30)
    <3> QED BY <3>1, <3>4
  <2>2. sent' = sent /\ out' = out /\ gaps' = gaps /\ delivery' # NoImage /\ cLast' = frame.pts
      /\ src' = "push" BY <1>0, <1>u, <1>n
  <2> QED BY <1>s, <1>p, <2>1, <2>2, Zenon DEF Placed
<1>8. InOrder' BY <1>0, <1>u DEF OnTheWay, InOrder
<1>9. GapsOnTheWay' = GapsOnTheWay BY <1>0, <1>u, <1>s DEF GapsOnTheWay
<1>10. BarriersPlaced' = BarriersPlaced BY <1>0, <1>u DEF BarriersPlaced
<1>11. BarriersCome => BarriersCome' BY <1>0, <1>u DEF BarriersCome
<1> QED BY <1>1, <1>2, <1>3, <1>4, <1>5, <1>6, <1>7, <1>8, <1>9, <1>10, <1>11, <1>s DEF OnTheWay

(* A function on an initial segment is a sequence. *)
LEMMA SeqOf ==
  ASSUME NEW S, NEW n \in Nat, NEW g \in [1..n -> S]
  PROVE  g \in Seq(S) /\ Len(g) = n
OBVIOUS

(* What is pushed downstream: the gaps collected, and the item they precede. *)
LEMMA Leaves ==
  ASSUME NEW c \in Cases, Typed, NEW x \in Kinds \X Nat
  PROVE  LET s == (out \o Track(c)!GapItems) \o <<x>>
         IN  /\ s \in Seq(Kinds \X Nat) /\ Len(s) = Taken + 1 /\ s[Taken + 1] = x
             /\ \A i \in 1..Len(out) : s[i] = out[i]
             /\ \A k \in 1..Len(gaps) : s[Len(out) + k] = <<"gap", gaps[k]>>
<1> DEFINE s == (out \o Track(c)!GapItems) \o <<x>>
           u == out \o Track(c)!GapItems
<1>1. out \in Seq(Kinds \X Nat) /\ gaps \in Seq(Nat) /\ Len(out) \in Nat /\ Len(gaps) \in Nat
  BY DEF Typed
<1>2. Track(c)!GapItems \in Seq(Kinds \X Nat) /\ Len(Track(c)!GapItems) = Len(gaps)
    /\ \A k \in 1..Len(gaps) : Track(c)!GapItems[k] = <<"gap", gaps[k]>>
  <2>1. DOMAIN gaps = 1..Len(gaps) /\ \A k \in 1..Len(gaps) : gaps[k] \in Nat BY <1>1
  <2>2. Track(c)!GapItems = [k \in 1..Len(gaps) |-> <<"gap", gaps[k]>>] BY <2>1 DEF Track!GapItems
  <2>3. \A k \in 1..Len(gaps) : <<"gap", gaps[k]>> \in Kinds \X Nat BY <2>1 DEF Kinds
  <2>4. Track(c)!GapItems \in [1..Len(gaps) -> Kinds \X Nat] BY <2>2, <2>3, Zenon
  <2>5. Track(c)!GapItems \in Seq(Kinds \X Nat) /\ Len(Track(c)!GapItems) = Len(gaps)
    BY <1>1, <2>4, SeqOf, Zenon
  <2> QED BY <2>2, <2>5, Zenon
<1>3. /\ u \in Seq(Kinds \X Nat) /\ Len(u) = Len(out) + Len(gaps)
      /\ \A i \in 1..Len(out) : u[i] = out[i]
      /\ \A k \in 1..Len(gaps) : u[Len(out) + k] = Track(c)!GapItems[k]
  <2>1. /\ u \in Seq(Kinds \X Nat) /\ Len(u) = Len(out) + Len(Track(c)!GapItems)
        /\ \A i \in 1..(Len(out) + Len(Track(c)!GapItems)) :
             u[i] = IF i <= Len(out) THEN out[i] ELSE Track(c)!GapItems[i - Len(out)]
    <3>1. /\ u \in Seq(Kinds \X Nat) /\ Len(u) = Len(out) + Len(Track(c)!GapItems)
      BY <1>1, <1>2, ConcatProperties
    <3>2. \A i \in 1..(Len(out) + Len(Track(c)!GapItems)) :
        u[i] = IF i <= Len(out) THEN out[i] ELSE Track(c)!GapItems[i - Len(out)]
      BY <1>1, <1>2
    <3> QED BY <3>1, <3>2
  <2>2. \A i \in 1..Len(out) : i \in 1..(Len(out) + Len(gaps)) /\ i <= Len(out) BY <1>1
  <2>3. \A k \in 1..Len(gaps) : Len(out) + k \in 1..(Len(out) + Len(gaps))
      /\ ~(Len(out) + k <= Len(out)) /\ (Len(out) + k) - Len(out) = k BY <1>1
  <2> QED BY <1>2, <2>1, <2>2, <2>3
<1>4. s = Append(u, x) BY <1>3, AppendIsConcat
<1>5. /\ \A i \in 1..Len(out) : i \in 1..Len(u)
      /\ \A k \in 1..Len(gaps) : Len(out) + k \in 1..Len(u)
  BY <1>1, <1>3
<1>6. Taken = Len(u) BY <1>3 DEF Taken
<1> HIDE DEF u, s
<1>7. s \in Seq(Kinds \X Nat) /\ Len(s) = Len(u) + 1 /\ s[Len(u) + 1] = x
    /\ \A i \in 1..Len(u) : s[i] = u[i]
  BY <1>3, <1>4, Appended
<1>8. \A i \in 1..Len(out) : s[i] = out[i] BY <1>3, <1>5, <1>7
<1>9. \A k \in 1..Len(gaps) : s[Len(out) + k] = <<"gap", gaps[k]>> BY <1>2, <1>3, <1>5, <1>7, Zenon
<1>10. s \in Seq(Kinds \X Nat) /\ Len(s) = Taken + 1 /\ s[Taken + 1] = x BY <1>6, <1>7
<1> QED BY <1>8, <1>9, <1>10, Zenon DEF s

(* If it is the next item sent, the source goes on with a prefix. *)
LEMMA LeavesPrefix ==
  ASSUME NEW c \in Cases, Typed, Placed, Live, NEW x \in Kinds \X Nat, Taken < Len(sent),
         sent[Taken + 1] = x,
         out' = (out \o Track(c)!GapItems) \o <<x>>, sent' = sent
  PROVE  /\ out' \in Seq(Kinds \X Nat) /\ Len(out') = Taken + 1
         /\ Len(out') <= Len(sent') /\ \A i \in 1..Len(out') : out'[i] = sent'[i]
<1>1. /\ out' \in Seq(Kinds \X Nat) /\ Len(out') = Taken + 1 /\ out'[Taken + 1] = x
      /\ \A i \in 1..Len(out) : out'[i] = out[i]
      /\ \A k \in 1..Len(gaps) : out'[Len(out) + k] = <<"gap", gaps[k]>>
  BY Leaves, ZenonT(30)
<1>2. Len(out) \in Nat /\ Len(gaps) \in Nat /\ Len(sent) \in Nat /\ Taken = Len(out) + Len(gaps)
  BY Typing DEF Taken
<1>3. ASSUME NEW i \in 1..(Taken + 1) PROVE out'[i] = sent[i]
  <2>1. i \in 1..Len(out) \/ i - Len(out) \in 1..Len(gaps) \/ i = Taken + 1 BY <1>2
  <2>2. CASE i \in 1..Len(out) BY <1>1, <2>2 DEF Placed
  <2>3. CASE i - Len(out) \in 1..Len(gaps)
    <3>1. Len(out) + (i - Len(out)) = i BY <1>2
    <3>2. out'[i] = <<"gap", gaps[i - Len(out)]>> BY <1>1, <2>3, <3>1, Zenon
    <3>3. sent[i] = <<"gap", gaps[i - Len(out)]>> BY <2>3, <3>1, Zenon DEF Placed
    <3> QED BY <3>2, <3>3, Zenon
  <2>4. CASE i = Taken + 1 BY <1>1, <2>4, Zenon
  <2> QED BY <2>1, <2>2, <2>3, <2>4, Zenon
<1>4. Taken + 1 <= Len(sent) BY <1>2
<1> QED BY <1>1, <1>3, <1>4, Zenon

(* The gaps before the frame are delivered, then the frame. *)
LEMMA FramePushed == ASSUME NEW c \in Cases, VInv(c), Track(c)!Push PROVE VInv(c)'
<1>bounds. Track(c)!VideoAssumption BY CaseIs
<1> USE <1>bounds DEF VInv, Track!VideoAssumption
<1> DEFINE x == <<"frame", delivery.pts>>
           N == Len(sent)
<1>0. /\ src = "push" /\ src' = "idle" /\ out' = (out \o Track(c)!GapItems) \o <<x>>
           /\ gaps' = <<>> /\ delivery' = NoImage
      /\ UNCHANGED Track(c)!sinkVars
           /\ UNCHANGED <<cFrames, cLast, cSeq, frame, known, ring, events, cancelled, flushing>>
  BY OneNone DEF Track!Push, Track!SrcStep
<1>u. UNCHANGED <<sink, input, gapEvents, sFrames, sLast, gapPending, mark, ended, attached, sent>>
  BY <1>0 DEF Track!sinkVars
<1>s. delivery # NoImage /\ delivery.pts = cLast /\ cSeq = cFrames /\ Live /\ Live'
    /\ Hand' = Hand /\ Alive' = Alive /\ frame = NoImage
  BY <1>0 DEF Stages, Live, Hand, Alive
<1>t. cLast \in Nat /\ x \in Kinds \X Nat /\ x = <<"frame", cLast>> /\ Len(out) \in Nat
    /\ Len(gaps) \in Nat /\ N \in Nat /\ Taken = Len(out) + Len(gaps) /\ Taken \in Nat
  <2>1. cLast \in Nat BY DEF Track!TypeOK
  <2>2. x \in Kinds \X Nat BY <1>s, <2>1 DEF Kinds
  <2> QED BY <1>s, <2>1, <2>2, Typing DEF Taken
<1>p. Taken < Len(sent) /\ sent[Taken + 1] = x BY <1>s DEF Placed
<1>l. /\ out' \in Seq(Kinds \X Nat) /\ Len(out') = Taken + 1
      /\ Len(out') <= Len(sent') /\ \A i \in 1..Len(out') : out'[i] = sent'[i]
  BY <1>0, <1>u, <1>s, <1>t, <1>p, LeavesPrefix, Zenon
<1>k. Taken' = Taken + 1
  <2>1. Len(gaps') = 0 BY <1>0
  <2> QED BY <1>l, <1>t, <2>1 DEF Taken
<1> HIDE DEF x, N
<1>n. NoImage \in Image BY DEF NoImage, Image
<1>1. Track(c)!TypeOK'
  <2>1. Len(gaps') <= c.most BY <1>0
  <2> QED BY <1>0, <1>u, <2>1 DEF Track!TypeOK, Track!Running
<1>2. Typed'
  <2>1. gaps' \in Seq(Nat) BY <1>0
  <2> QED BY <1>0, <1>u, <1>n, <1>l, <2>1 DEF Typed
<1>3. SentInOrder' BY <1>0, <1>u DEF SentInOrder
<1>4. Follows' BY <1>0, <1>u, Zenon DEF Follows
<1>5. Newest' BY <1>0, <1>u, <1>s, Zenon DEF Newest
<1>6. Stages' BY <1>0, <1>s DEF Stages
<1>7. Placed'
  <2>1. ASSUME NEW i \in 1..N, sent[i][1] = "frame" PROVE i <= Taken + 1 <=> sent[i][2] <= cLast
    <3>1. i <= Len(out) <=> (sent[i][2] <= cLast /\ sent[i][2] # cLast) BY <1>s, <2>1 DEF Placed, N
    <3>2. sent[i][2] \in Nat BY Typing, Zenon DEF N
    <3>3. CASE i <= Len(out) BY <1>t, <3>1, <3>3
    <3>4. CASE i - Len(out) \in 1..Len(gaps)
      <4>1. Len(out) + (i - Len(out)) = i BY <1>t
      <4>2. sent[i] = <<"gap", gaps[i - Len(out)]>> BY <1>s, <3>4, <4>1, Zenon DEF Placed
      <4>3. sent[i][1] = "gap" BY <4>2
      <4> QED BY <2>1, <4>3
    <3>5. CASE i = Taken + 1
      <4>1. sent[i][2] = cLast BY <1>p, <1>t, <3>5
      <4> QED BY <1>t, <3>5, <4>1
    <3>6. CASE i > Taken + 1
      <4>1. Taken + 1 \in 1..N /\ Taken + 1 < i BY <1>t, <1>p, <3>6 DEF N
      <4>2. sent[Taken + 1][1] = "frame" /\ sent[Taken + 1][2] = cLast BY <1>p, <1>t
      <4>3. cLast < sent[i][2] BY <2>1, <4>1, <4>2, Zenon DEF SentInOrder, N
      <4> QED BY <1>t, <3>2, <3>6, <4>3
    <3>7. \/ i <= Len(out) \/ i - Len(out) \in 1..Len(gaps) \/ i = Taken + 1 \/ i > Taken + 1
      <4>1. i \in Nat /\ Len(out) \in Nat /\ Len(gaps) \in Nat /\ Taken = Len(out) + Len(gaps)
        BY <1>t
      <4> HIDE DEF Taken
      <4> QED BY <4>1
    <3> QED BY <3>3, <3>4, <3>5, <3>6, <3>7, Zenon
  <2>2. sent' = sent /\ gaps' = <<>> /\ delivery' = NoImage /\ cLast' = cLast /\ src' = "idle"
    BY <1>0, <1>u
  <2>3. ASSUME NEW i \in 1..(Taken + 1) PROVE sent[i][1] # "eos"
    <3>1. i \in 1..Len(out) \/ i - Len(out) \in 1..Len(gaps) \/ i = Taken + 1 BY <1>t
    <3>2. CASE i \in 1..Len(out) BY <1>s, <3>2 DEF Placed
    <3>3. CASE i - Len(out) \in 1..Len(gaps)
      <4>1. Len(out) + (i - Len(out)) = i BY <1>t
      <4>2. sent[i] = <<"gap", gaps[i - Len(out)]>> BY <1>s, <3>3, <4>1, Zenon DEF Placed
      <4>3. sent[i][1] = "gap" BY <4>2
      <4> QED BY <4>3
    <3>4. CASE i = Taken + 1 BY <1>p, <1>t, <3>4
    <3> QED BY <3>1, <3>2, <3>3, <3>4
  <2>4. Taken + 1 <= N BY <1>p, <1>t DEF N
  <2>5. \A i \in 1..N : sent[i][1] = "frame" => (i <= Len(out') <=> sent[i][2] <= cLast) BY <1>l, <2>1
  <2>6. \A i \in 1..Len(out') : sent'[i][1] # "eos" BY <1>l, <2>2, <2>3
  <2>7. Taken' <= Len(sent') BY <1>k, <2>2, <2>4 DEF N
  <2>8. \A k \in 1..Len(gaps') : sent'[Len(out') + k] = <<"gap", gaps'[k]>>
    <3>1. Len(gaps') = 0 BY <2>2
    <3> QED BY <3>1
  <2> QED BY <1>l, <2>2, <2>5, <2>6, <2>7, <2>8 DEF Placed, N
<1>8. InOrder' BY <1>0, <1>u DEF OnTheWay, InOrder
<1>9. Alive /\ GapsOnTheWay => GapsOnTheWay'
  <2> SUFFICES ASSUME Alive, GapsOnTheWay PROVE GapsOnTheWay' OBVIOUS
  <2>1. sent[Taken + 1][1] = "frame" BY <1>p, <1>t
  <2>2. \A i \in (Taken + 1)..N : i # Taken + 1 => i \in (Taken + 2)..N BY <1>t, SMTT(30) DEF N
  <2>3. \A i \in (Taken + 2)..N : i \in (Taken + 1)..N BY <1>t DEF N
  <2>4. \A j \in 1..Len(events) : events[j][1] = "GAP"
      => \E i \in (Taken + 2)..N : sent[i] = <<"gap", events[j][2]>>
    <3> SUFFICES ASSUME NEW j \in 1..Len(events), events[j][1] = "GAP"
      PROVE \E i \in (Taken + 2)..N : sent[i] = <<"gap", events[j][2]>>
      BY Zenon
    <3>1. PICK i \in (Taken + 1)..N : sent[i] = <<"gap", events[j][2]>> BY Zenon DEF GapsOnTheWay, N
    <3>2. sent[i][1] = "gap" BY <3>1
    <3>3. i # Taken + 1 BY <2>1, <3>2
    <3> QED BY <2>2, <3>1, <3>3
  <2>5. \A i \in (Taken + 2)..N : sent[i][1] = "gap"
      => \E j \in 1..Len(events) : events[j] = <<"GAP", sent[i][2]>>
    BY <2>3, Zenon DEF GapsOnTheWay, N
  <2>6. Taken' + 1 = Taken + 2 /\ sent' = sent /\ events' = events /\ Len(sent') = N
    BY <1>0, <1>u, <1>k, <1>t DEF N
  <2> QED BY <2>4, <2>5, <2>6, Zenon DEF GapsOnTheWay
<1>10. BarriersPlaced' = BarriersPlaced BY <1>0, <1>u DEF BarriersPlaced
<1>11. BarriersCome => BarriersCome' BY <1>0, <1>u DEF BarriersCome
<1> QED BY <1>1, <1>2, <1>3, <1>4, <1>5, <1>6, <1>7, <1>8, <1>9, <1>10, <1>11, <1>s DEF OnTheWay

(* A record is taken from the events. *)
LEMMA TailIs ==
  ASSUME NEW S, NEW s \in Seq(S), s # <<>>
  PROVE  /\ Tail(s) \in Seq(S) /\ Len(s) \in Nat /\ Len(Tail(s)) = Len(s) - 1 /\ Head(s) = s[1]
              /\ 1 \in 1..Len(s)
         /\ Len(s) - 1 \in Nat
         /\ \A i \in 1..(Len(s) - 1) : Tail(s)[i] = s[i + 1] /\ i + 1 \in 1..Len(s) /\ i \in Nat
         /\ \A i \in 1..Len(s) : i = 1 \/ (i - 1 \in 1..(Len(s) - 1) /\ Tail(s)[i - 1] = s[i])
<1>1. Tail(s) \in Seq(S) /\ Len(s) \in Nat /\ Len(Tail(s)) = Len(s) - 1 /\ Head(s) = s[1]
    /\ 1 \in 1..Len(s) /\ Len(s) - 1 \in Nat OBVIOUS
<1>2. \A i \in 1..(Len(s) - 1) : Tail(s)[i] = s[i + 1] OBVIOUS
<1>3. \A i \in 1..(Len(s) - 1) : i + 1 \in 1..Len(s) /\ i \in Nat BY <1>1
<1>4. \A i \in 1..Len(s) : i = 1 \/ (i - 1 \in 1..(Len(s) - 1) /\ (i - 1) + 1 = i) BY <1>1
<1>5. \A i \in 1..Len(s) : i = 1 \/ (i - 1 \in 1..(Len(s) - 1) /\ Tail(s)[i - 1] = s[i]) BY <1>2, <1>4
<1> QED BY <1>1, <1>2, <1>3, <1>5

(* The records that are left, one place further. *)
LEMMA Shifted ==
  ASSUME Typed, events # <<>>, events' = Tail(events)
  PROVE  /\ events' \in Seq(Records \X Nat) /\ Len(events') \in Nat /\ Head(events) = events[1]
              /\ 1 \in 1..Len(events)
         /\ \A i \in 1..Len(events') : events'[i] = events[i + 1] /\ i + 1 \in 1..Len(events)
              /\ i \in Nat
         /\ \A i \in 1..Len(events) : i = 1 \/ (i - 1 \in 1..Len(events') /\ events'[i - 1] = events[i])
         /\ Len(events) = Len(events') + 1
<1>1. events \in Seq(Records \X Nat) BY DEF Typed
<1>2. /\ Tail(events) \in Seq(Records \X Nat) /\ Len(events) \in Nat
           /\ Len(Tail(events)) = Len(events) - 1 /\ Head(events) = events[1] /\ 1 \in 1..Len(events)
      /\ Len(events) - 1 \in Nat
      /\ \A i \in 1..(Len(events) - 1) : Tail(events)[i] = events[i + 1]
           /\ i + 1 \in 1..Len(events) /\ i \in Nat
      /\ \A i \in 1..Len(events) : i = 1 \/ (i - 1 \in 1..(Len(events) - 1)
           /\ Tail(events)[i - 1] = events[i])
  BY <1>1, TailIs
<1>3. Len(events) = (Len(events) - 1) + 1 BY <1>2
<1> QED BY <1>2, <1>3

(* Stepping past the first record moves every index by one. *)
LEMMA Successors == \A i, j \in Nat : (i < j <=> i + 1 < j + 1) /\ (i = j <=> i + 1 = j + 1)
OBVIOUS

(* The records that are left are in order, *)
LEMMA InOrderTail ==
  ASSUME Typed, InOrder, events # <<>>, events' = Tail(events), UNCHANGED <<input, gapEvents,
         ended, sink>> PROVE InOrder'
<1>a. /\ events' \in Seq(Records \X Nat) /\ Len(events') \in Nat
      /\ \A i \in 1..Len(events') : events'[i] = events[i + 1] /\ i + 1 \in 1..Len(events) /\ i \in Nat
      /\ Len(events) = Len(events') + 1
  BY Shifted, Zenon
<1>b. \A i, j \in Nat : (i < j <=> i + 1 < j + 1) /\ (i = j <=> i + 1 = j + 1) BY Successors, Zenon
<1>1. \A j \in 1..Len(events') : events'[j][1] = "GAP" => events'[j][2] <= gapEvents
  <2>1. \A j \in 1..Len(events) : events[j][1] = "GAP" => events[j][2] <= gapEvents BY DEF InOrder
  <2> QED BY <1>a, <2>1, Zenon
<1>2. \A j \in 1..Len(events') : events'[j][1] = "BARRIER" => events'[j][2] <= input
  <2>1. \A j \in 1..Len(events) : events[j][1] = "BARRIER" => events[j][2] <= input BY DEF InOrder
  <2> QED BY <1>a, <2>1, Zenon
<1>3. \A j, k \in 1..Len(events') : j < k /\ events'[j][1] = events'[k][1]
    /\ events'[j][1] \in {"BARRIER", "GAP"} => events'[j][2] < events'[k][2]
  <2> TAKE j, k \in 1..Len(events')
  <2> HAVE j < k /\ events'[j][1] = events'[k][1] /\ events'[j][1] \in {"BARRIER", "GAP"}
  <2>1. j + 1 \in 1..Len(events) /\ k + 1 \in 1..Len(events) /\ events'[j] = events[j + 1]
      /\ events'[k] = events[k + 1] BY <1>a
  <2>2. j + 1 < k + 1 BY <1>a, <1>b
  <2>3. events[j + 1][2] < events[k + 1][2] BY <2>1, <2>2 DEF InOrder
  <2> QED BY <2>1, <2>3
<1>4. sink = "rendering" => \A j \in 1..Len(events') : events'[j] = <<"BARRIER", input>>
    => j = Len(events')
  <2> HAVE sink = "rendering"
  <2> TAKE j \in 1..Len(events')
  <2> HAVE events'[j] = <<"BARRIER", input>>
  <2>1. j + 1 \in 1..Len(events) /\ events'[j] = events[j + 1] /\ j \in Nat BY <1>a
  <2>2. j + 1 = Len(events) BY <2>1, Zenon DEF InOrder
  <2>3. j + 1 = Len(events') + 1 /\ Len(events') \in Nat BY <1>a, <2>2, Zenon
  <2> QED BY <1>b, <2>1, <2>3, Zenon
<1>5. \A j \in 1..Len(events') : events'[j][1] = "END" => j = Len(events') /\ ended # <<>>
  <2> TAKE j \in 1..Len(events')
  <2> HAVE events'[j][1] = "END"
  <2>1. j + 1 \in 1..Len(events) /\ events[j + 1][1] = "END" /\ j \in Nat BY <1>a, Zenon
  <2>2. \A i \in 1..Len(events) : events[i][1] = "END" => i = Len(events) /\ ended # <<>>
    BY Zenon DEF InOrder
  <2>3. j + 1 = Len(events) /\ ended # <<>> BY <2>1, <2>2, Zenon
  <2>4. j + 1 = Len(events') + 1 /\ Len(events') \in Nat BY <1>a, <2>3, Zenon
  <2> QED BY <1>b, <2>1, <2>3, <2>4, Zenon
<1> QED BY <1>1, <1>2, <1>3, <1>4, <1>5 DEF InOrder

(* and the barriers keep their places among the gaps, *)
LEMMA PlacedTail ==
  ASSUME Typed, BarriersPlaced, events # <<>>, events' = Tail(events), sent' = sent
      PROVE BarriersPlaced'
<1>a. /\ \A i \in 1..Len(events') : events'[i] = events[i + 1] /\ i + 1 \in 1..Len(events) /\ i \in Nat
  BY Shifted
<1>b. \A i, j \in Nat : (i < j <=> i + 1 < j + 1) OBVIOUS
<1>c. \A j, l \in 1..Len(events'), i, k \in 1..Len(sent') :
        events'[j] = <<"BARRIER", sent'[i][2]>> /\ sent'[i][1] = "frame"
            /\ events'[l] = <<"GAP", sent'[k][2]>> /\ sent'[k][1] = "gap"
          => (l < j <=> k < i)
  <2> TAKE j, l \in 1..Len(events'), i, k \in 1..Len(sent')
  <2> HAVE events'[j] = <<"BARRIER", sent'[i][2]>> /\ sent'[i][1] = "frame"
      /\ events'[l] = <<"GAP", sent'[k][2]>> /\ sent'[k][1] = "gap"
  <2>1. j + 1 \in 1..Len(events) /\ l + 1 \in 1..Len(events) /\ j \in Nat /\ l \in Nat BY <1>a
  <2>2. events[j + 1] = <<"BARRIER", sent[i][2]>> /\ events[l + 1] = <<"GAP", sent[k][2]>> BY <1>a, Zenon
  <2>3. l + 1 < j + 1 <=> k < i BY <2>1, <2>2, Zenon DEF BarriersPlaced
  <2> QED BY <2>1, <2>3
<1> QED BY <1>c, Zenon DEF BarriersPlaced

(* and a barrier that was not the first is still announced. *)
LEMMA AnnouncedTail ==
  ASSUME Typed, events # <<>>, events' = Tail(events), NEW p, Announced(events, p),
         events[1] # <<"BARRIER", p>>
  PROVE  Announced(events', p)
<1>1. PICK j \in 1..Len(events) : events[j] = <<"BARRIER", p>> BY DEF Announced
<1>2. j - 1 \in 1..Len(events') /\ events'[j - 1] = events[j] BY <1>1, Shifted
<1> QED BY <1>1, <1>2, Zenon DEF Announced

(* No item is sent between the last one taken and the next gap. *)
LEMMA NextGap ==
  ASSUME NEW c \in Cases, VInv(c), Alive, src \in {"barrier", "ending"}, events # <<>>,
         events[1][1] = "GAP"
  PROVE  Taken < Len(sent) /\ sent[Taken + 1] = <<"gap", events[1][2]>>
<1> USE DEF VInv
<1> DEFINE N == Len(sent)
           t == Taken + 1
<1>0. Live /\ delivery = NoImage BY DEF Alive, Live, Stages
<1>t. /\ N \in Nat /\ Taken \in Nat /\ 1 \in 1..Len(events) /\ Taken = Len(out) + Len(gaps)
           /\ Len(out) \in Nat /\ Len(gaps) \in Nat
      /\ \A i \in 1..N : sent[i][1] \in Kinds /\ sent[i][2] \in Nat
           /\ sent[i] = <<sent[i][1], sent[i][2]>>
      /\ \A i \in 1..Len(events) : events[i][2] \in Nat /\ i \in Nat /\ i >= 1
  <2>1. 1 \in 1..Len(events) BY DEF Typed
  <2>2. Len(events) \in Nat BY Typing
  <2>3. \A i \in 1..Len(events) : i \in Nat /\ i >= 1 BY <2>2
  <2> QED BY <2>1, <2>3, Typing, Zenon DEF Taken
<1>1. PICK i \in t..N : sent[i] = <<"gap", events[1][2]>> BY <1>t, Zenon DEF OnTheWay, GapsOnTheWay
<1>2. sent[i][1] = "gap" /\ sent[i][2] = events[1][2] /\ i \in 1..N /\ t \in 1..N /\ t <= i
    /\ t \in t..N /\ Taken < N
  BY <1>t, <1>1
<1>3. SUFFICES ASSUME t # i PROVE FALSE BY <1>1, <1>2
<1>4. t < i BY <1>t, <1>2, <1>3
<1>5. CASE sent[t][1] = "eos"
  <2>1. t = N BY <1>2, <1>5 DEF SentInOrder
  <2> QED BY <1>t, <1>2, <1>4, <2>1
<1>6. CASE sent[t][1] = "gap"
  <2>1. sent[t][2] < sent[i][2] BY <1>2, <1>4, <1>6 DEF SentInOrder
  <2>2. PICK j \in 1..Len(events) : events[j] = <<"GAP", sent[t][2]>>
    BY <1>2, <1>6, Zenon DEF OnTheWay, GapsOnTheWay
  <2>3. events[j][1] = "GAP" /\ events[j][2] = sent[t][2] BY <2>2
  <2>4. CASE j = 1 BY <1>t, <1>2, <2>1, <2>3, <2>4
  <2>5. CASE j # 1
    <3>1. 1 < j BY <1>t, <2>5
    <3>2. events[1][2] < events[j][2] BY <1>t, <2>3, <3>1, Zenon DEF OnTheWay, InOrder
    <3> QED BY <1>t, <1>2, <2>1, <2>3, <3>2, SMTT(30)
  <2> QED BY <2>4, <2>5
<1>7. CASE sent[t][1] = "frame"
  <2>1. ~(t <= Len(out)) BY <1>t
  <2>2. ~(sent[t][2] <= cLast) BY <1>0, <1>2, <1>7, <2>1 DEF Placed
  <2>3. CASE src = "ending"
    <3>1. sLast = cLast
      <4>1. known # <<>> /\ known = <<cFrames, cLast>> BY <2>3 DEF Stages
      <4>2. ended # <<>> /\ known = ended /\ ended = <<sFrames, sLast>> BY <4>1 DEF SentInOrder
      <4> QED BY <4>1, <4>2
    <3>2. sent[t][2] \in 1..sLast BY <1>2, <1>7 DEF SentInOrder
    <3>3. sLast \in Nat BY DEF Track!TypeOK
    <3>4. sent[t][2] <= sLast BY <3>2, <3>3
    <3> QED BY <2>2, <3>1, <3>4
  <2>4. CASE src = "barrier"
    <3>1. sent[t][2] >= frame.pts /\ frame.pts \in Nat
      <4>1. frame.pts \in Nat BY DEF Typed, Image
      <4> QED BY <1>0, <1>2, <1>7, <2>2, <2>4, <4>1 DEF Placed
    <3>2. PICK f \in 1..N : sent[f] = <<"frame", frame.pts>> BY <1>0, <2>4 DEF Placed
    <3>3. sent[f][1] = "frame" /\ sent[f][2] = frame.pts BY <3>2
    <3>4. PICK j \in 1..Len(events) : events[j] = <<"BARRIER", frame.pts>>
      BY <2>4 DEF OnTheWay, BarriersCome, Announced
    <3>5. events[j][1] = "BARRIER" BY <3>4
    <3>6. 1 < j BY <1>t, <3>5
    <3>7. events[1] = <<"GAP", sent[i][2]>> /\ events[j] = <<"BARRIER", sent[f][2]>>
      BY <1>t, <1>2, <3>3, <3>4, Typing, Zenon
    <3>8. 1 < j <=> i < f BY <1>t, <1>2, <3>3, <3>7, Zenon DEF OnTheWay, BarriersPlaced
    <3>9. t < f BY <1>t, <1>4, <3>6, <3>8
    <3>10. sent[t][2] < frame.pts BY <1>2, <1>7, <3>3, <3>9, Zenon DEF SentInOrder
    <3> QED BY <1>t, <1>2, <3>1, <3>10, SMTT(30)
  <2> QED BY <2>3, <2>4
<1> QED BY <1>t, <1>2, <1>5, <1>6, <1>7 DEF Kinds

(* A gap is taken from the records. *)
LEMMA GapCollected ==
  ASSUME NEW c \in Cases, VInv(c), Track(c)!EventSkipped, events[1][1] = "GAP" PROVE VInv(c)'
<1>bounds. Track(c)!VideoAssumption BY CaseIs
<1> USE <1>bounds DEF VInv, Track!VideoAssumption
<1> DEFINE g == events[1][2]
           N == Len(sent)
<1>0. /\ src \in {"barrier", "ending"} /\ src' = src /\ ~cancelled["C"] /\ events # <<>>
      /\ UNCHANGED Track(c)!sinkVars
           /\ UNCHANGED <<cFrames, cLast, cSeq, frame, delivery, known, out, ring, cancelled, flushing>>
  BY DEF Track!EventSkipped, Track!SrcStep
<1>u. UNCHANGED <<sink, input, gapEvents, sFrames, sLast, gapPending, mark, ended, attached, sent>>
  BY <1>0 DEF Track!sinkVars
<1>x. events' = Tail(events) BY DEF Track!EventSkipped
<1>h. Head(events) = events[1] BY <1>0 DEF Typed
<1>y. Len(gaps) < c.most /\ gaps' = Append(gaps, g) BY <1>h DEF Track!EventSkipped
<1>s. delivery = NoImage /\ Live /\ Live' /\ Hand' = Hand /\ Alive /\ Alive'
  BY <1>0 DEF Stages, Live, Hand, Alive
<1>a. /\ events' \in Seq(Records \X Nat) /\ 1 \in 1..Len(events)
      /\ \A i \in 1..Len(events') : events'[i] = events[i + 1] /\ i + 1 \in 1..Len(events) /\ i \in Nat
      /\ \A i \in 1..Len(events) : i = 1 \/ (i - 1 \in 1..Len(events') /\ events'[i - 1] = events[i])
  BY <1>0, <1>x, Shifted
<1>t. g \in Nat /\ gaps \in Seq(Nat) /\ Len(gaps) \in Nat /\ Len(out) \in Nat /\ N \in Nat
    /\ Taken \in Nat /\ Taken = Len(out) + Len(gaps)
  BY <1>a, Typing, Zenon DEF Taken, Typed
<1>g. Taken < N /\ sent[Taken + 1] = <<"gap", g>> BY <1>0, <1>s, NextGap
<1>b. /\ gaps' \in Seq(Nat) /\ Len(gaps') = Len(gaps) + 1 /\ gaps'[Len(gaps) + 1] = g
      /\ \A k \in 1..Len(gaps) : gaps'[k] = gaps[k]
      /\ \A k \in 1..(Len(gaps) + 1) : k \in 1..Len(gaps) \/ k = Len(gaps) + 1
  BY <1>y, <1>t, Appended, SMTT(30)
<1>k. Taken' = Taken + 1 BY <1>0, <1>b, <1>t DEF Taken
<1>1. Track(c)!TypeOK'
  <2>1. Len(gaps') <= c.most BY <1>y, <1>b, <1>t
  <2> QED BY <1>0, <1>u, <2>1 DEF Track!TypeOK
<1>2. Typed' BY <1>0, <1>u, <1>a, <1>b DEF Typed
<1>3. SentInOrder' BY <1>0, <1>u DEF SentInOrder
<1>4. Follows' BY <1>0, <1>u, Zenon DEF Follows
<1>5. Newest' BY <1>0, <1>u, <1>s DEF Newest
<1>6. Stages' BY <1>0, <1>s DEF Stages
<1>7. Placed'
  <2>1. \A k \in 1..Len(gaps') : sent'[Len(out') + k] = <<"gap", gaps'[k]>>
    <3>1. \A k \in 1..Len(gaps) : sent[Len(out) + k] = <<"gap", gaps'[k]>> BY <1>s, <1>b, Zenon DEF Placed
    <3>2. Len(out) + (Len(gaps) + 1) = Taken + 1 BY <1>t
    <3>3. sent[Len(out) + (Len(gaps) + 1)] = <<"gap", gaps'[Len(gaps) + 1]>> BY <1>g, <1>b, <3>2
    <3> QED BY <1>0, <1>u, <1>b, <3>1, <3>3, Zenon
  <2>2. Taken' <= Len(sent') BY <1>g, <1>k, <1>t, <1>u
  <2>3. sent' = sent /\ out' = out /\ src' = src /\ src # "finish" /\ delivery' = NoImage
      /\ delivery = NoImage /\ cLast' = cLast /\ frame' = frame BY <1>0, <1>u, <1>s
  <2> QED BY <1>s, <2>1, <2>2, <2>3, Zenon DEF Placed
<1>8. InOrder' BY <1>0, <1>u, <1>x, InOrderTail DEF OnTheWay
<1>9. GapsOnTheWay'
  <2>0. GapsOnTheWay /\ InOrder BY <1>s DEF OnTheWay
  <2>n. sent[Taken + 1][1] = "gap" /\ sent[Taken + 1][2] = g /\ Taken + 1 \in 1..N BY <1>g, <1>t
  <2>2. /\ \A i \in (Taken + 1)..N : i # Taken + 1 => i \in (Taken + 2)..N
        /\ \A i \in (Taken + 2)..N : i \in (Taken + 1)..N /\ i \in 1..N /\ Taken + 1 < i
    <3>1. N \in Nat /\ Taken \in Nat BY <1>t
    <3> HIDE DEF N
    <3> QED BY <3>1
  <2>4. ASSUME NEW j \in 1..Len(events'), events'[j][1] = "GAP"
    PROVE \E i \in (Taken + 2)..N : sent[i] = <<"gap", events'[j][2]>>
    <3>1. j + 1 \in 1..Len(events) /\ events'[j] = events[j + 1] /\ 1 < j + 1 /\ j \in Nat
      <4>1. j + 1 \in 1..Len(events) /\ events'[j] = events[j + 1] /\ j \in Nat BY <1>a
      <4>2. Len(events') \in Nat BY <1>a
      <4>3. 1 < j + 1 BY <4>1, <4>2
      <4> QED BY <4>1, <4>3
    <3>2. PICK i \in (Taken + 1)..N : sent[i] = <<"gap", events'[j][2]>>
      BY <2>0, <2>4, <3>1, ZenonT(30) DEF GapsOnTheWay
    <3>3. g < events'[j][2]
      <4>1. \A l, k \in 1..Len(events) : l < k /\ events[l][1] = events[k][1]
          /\ events[l][1] \in {"BARRIER", "GAP"} => events[l][2] < events[k][2] BY <2>0, Zenon DEF InOrder
      <4>2. 1 \in 1..Len(events) /\ events[1][1] = "GAP" /\ events[1][2] = g BY <1>a, <2>0
      <4>3. events[j + 1][1] = "GAP" BY <2>4, <3>1
      <4> QED BY <3>1, <4>1, <4>2, <4>3, Zenon
    <3>4. sent[i][2] = events'[j][2] BY <3>2
    <3>5. i # Taken + 1
      <4>1. SUFFICES ASSUME i = Taken + 1 PROVE FALSE OBVIOUS
      <4>2. g < g BY <2>n, <3>3, <3>4, <4>1, Zenon
      <4> QED BY <1>t, <4>2
    <3> QED BY <2>2, <3>2, <3>5
  <2>5. ASSUME NEW i \in (Taken + 2)..N, sent[i][1] = "gap"
    PROVE \E j \in 1..Len(events') : events'[j] = <<"GAP", sent[i][2]>>
    <3>1. PICK j \in 1..Len(events) : events[j] = <<"GAP", sent[i][2]>>
      BY <2>0, <2>2, <2>5, Zenon DEF GapsOnTheWay
    <3>2. g < sent[i][2] BY <2>2, <2>5, <2>n, Zenon DEF SentInOrder
    <3>3. j # 1
      <4>1. SUFFICES ASSUME j = 1 PROVE FALSE OBVIOUS
      <4>2. events[1][2] = sent[i][2] BY <3>1, <4>1
      <4>3. g < g BY <3>2, <4>2
      <4> QED BY <1>t, <4>3
    <3>4. j - 1 \in 1..Len(events') /\ events'[j - 1] = events[j] BY <1>a, <3>3
    <3> QED BY <3>1, <3>4, Zenon
  <2>6. Taken' + 1 = Taken + 2 /\ sent' = sent /\ Len(sent') = N BY <1>u, <1>k, <1>t
  <2> HIDE DEF N
  <2> QED BY <2>4, <2>5, <2>6, Zenon DEF GapsOnTheWay
<1>10. BarriersPlaced' BY <1>0, <1>u, <1>x, <1>s, PlacedTail DEF OnTheWay
<1>11. BarriersCome'
  <2>1. ASSUME NEW p, Announced(events, p) PROVE Announced(events', p)
    <3>1. events[1] # <<"BARRIER", p>> OBVIOUS
    <3> QED BY <1>0, <1>x, <2>1, <3>1, AnnouncedTail
  <2>2. BarriersCome BY <1>s DEF OnTheWay
  <2> QED BY <1>0, <1>u, <2>1, <2>2 DEF BarriersCome
<1> QED BY <1>1, <1>2, <1>3, <1>4, <1>5, <1>6, <1>7, <1>8, <1>9, <1>10, <1>11 DEF OnTheWay

(* A barrier is taken, an old one or the one waited for: what else is        *)
(* announced stays announced.                                                *)
LEMMA BarrierTaken ==
  ASSUME NEW c \in Cases, VInv(c), Alive, Alive', src \in {"barrier", "ending"}, events # <<>>,
         events[1][1] = "BARRIER", events' = Tail(events),
         UNCHANGED Track(c)!sinkVars, UNCHANGED <<cFrames, cLast, cSeq, frame, delivery, known,
             out, ring, cancelled, flushing, gaps>>,
         (src' = src /\ events[1] # Track(c)!Awaited) \/ (src = "barrier" /\ src' = "finish"
             /\ events[1] = Track(c)!Awaited /\ Placed')
  PROVE  VInv(c)'
<1>bounds. Track(c)!VideoAssumption BY CaseIs
<1> USE <1>bounds DEF VInv, Track!VideoAssumption
<1>u. UNCHANGED <<sink, input, gapEvents, sFrames, sLast, gapPending, mark, ended, attached, sent>>
  BY DEF Track!sinkVars
<1>s. delivery = NoImage /\ Live /\ Live' /\ Hand' = Hand /\ Taken' = Taken
  BY DEF Stages, Live, Hand, Alive, Taken
<1>a. /\ events' \in Seq(Records \X Nat) /\ 1 \in 1..Len(events)
      /\ \A i \in 1..Len(events') : events'[i] = events[i + 1] /\ i + 1 \in 1..Len(events) /\ i \in Nat
      /\ \A i \in 1..Len(events) : i = 1 \/ (i - 1 \in 1..Len(events') /\ events'[i - 1] = events[i])
  BY Shifted
<1>1. Track(c)!TypeOK' BY <1>u, Zenon DEF Track!TypeOK, Track!Running
<1>2. Typed' BY <1>u, <1>a DEF Typed
<1>3. SentInOrder' BY <1>u DEF SentInOrder
<1>4. Follows' BY <1>u, Zenon DEF Follows
<1>5. Newest' BY <1>u, <1>s DEF Newest
<1>6. Stages' BY <1>s DEF Stages
<1>7. Placed' BY <1>u, <1>s, Zenon DEF Placed
<1>8. InOrder' BY <1>u, InOrderTail DEF OnTheWay
<1>9. GapsOnTheWay'
  <2>0. GapsOnTheWay BY DEF OnTheWay
  <2>4. ASSUME NEW j \in 1..Len(events'), events'[j][1] = "GAP"
    PROVE \E i \in (Taken + 1)..Len(sent) : sent[i] = <<"gap", events'[j][2]>>
    <3>1. j + 1 \in 1..Len(events) /\ events'[j] = events[j + 1] BY <1>a
    <3>2. events[j + 1][1] = "GAP" BY <2>4, <3>1
    <3>3. \E i \in (Taken + 1)..Len(sent) : sent[i] = <<"gap", events[j + 1][2]>>
      BY <2>0, <3>1, <3>2, Zenon DEF GapsOnTheWay
    <3> QED BY <3>1, <3>3
  <2>5. ASSUME NEW i \in (Taken + 1)..Len(sent), sent[i][1] = "gap"
    PROVE \E j \in 1..Len(events') : events'[j] = <<"GAP", sent[i][2]>>
    <3>1. PICK j \in 1..Len(events) : events[j] = <<"GAP", sent[i][2]>> BY <2>0, <2>5, Zenon DEF GapsOnTheWay
    <3>2. events[j][1] = "GAP" BY <3>1
    <3>3. j # 1 BY <3>2
    <3>4. j - 1 \in 1..Len(events') /\ events'[j - 1] = events[j] BY <1>a, <3>3
    <3> QED BY <3>1, <3>4, Zenon
  <2>7. \A j \in 1..Len(events') : events'[j][1] = "GAP"
      => \E i \in (Taken' + 1)..Len(sent') : sent'[i] = <<"gap", events'[j][2]>>
    BY <1>u, <1>s, <2>4, Zenon
  <2>8. \A i \in (Taken' + 1)..Len(sent') : sent'[i][1] = "gap"
      => \E j \in 1..Len(events') : events'[j] = <<"GAP", sent'[i][2]>>
    BY <1>u, <1>s, <2>5, Zenon
  <2> QED BY <2>7, <2>8, Zenon DEF GapsOnTheWay
<1>10. BarriersPlaced' BY <1>u, PlacedTail DEF OnTheWay
<1>11. BarriersCome'
  <2>0. BarriersCome BY DEF OnTheWay
  <2>t. sLast \in Nat /\ input \in Nat /\ frame.pts \in Nat /\ events[1][2] \in Nat
      /\ events[1] = <<"BARRIER", events[1][2]>> /\ Len(events) \in Nat
    <3>1. frame.pts \in Nat BY DEF Typed, Image
    <3>2. sLast \in Nat BY DEF Track!TypeOK
    <3>3. events[1][2] \in Nat /\ events[1] = <<events[1][1], events[1][2]>> /\ input \in Nat
        /\ Len(events) \in Nat BY <1>a, Typing, Zenon
    <3> QED BY <3>1, <3>2, <3>3
  <2>1. CASE src = "ending"
    <3>1. ended # <<>> /\ sink # "rendering" /\ cFrames = sFrames /\ cSeq = cFrames
      <4>1. known # <<>> /\ known = <<cFrames, cLast>> /\ cSeq = cFrames BY <1>s, <2>1 DEF Stages
      <4>2. ended # <<>> /\ known = ended /\ ended = <<sFrames, sLast>>
          /\ sink \in {"ended", "stopped"} BY <4>1, Zenon DEF SentInOrder
      <4> QED BY <4>1, <4>2
    <3>2. ring = <<>>
      <4>1. cSeq \in Nat /\ sFrames \in Nat BY DEF Track!TypeOK
      <4>2. ~(cSeq < sFrames) BY <3>1, <4>1
      <4> QED BY <4>2 DEF Newest
    <3>3. src' = "ending" /\ sink' # "rendering" /\ ring' = <<>> BY <1>u, <2>1, <3>1, <3>2
    <3> QED BY <3>3 DEF BarriersCome
  <2>2. CASE src = "barrier"
    <3>1. PICK j \in 1..Len(events) : events[j] = <<"BARRIER", frame.pts>>
      BY <2>0, <2>2 DEF BarriersCome, Announced
    <3>2. events[j][1] = "BARRIER" /\ events[j][2] = frame.pts /\ j \in Nat /\ j >= 1
        /\ j <= Len(events)
      <4>1. j \in Nat /\ j >= 1 /\ j <= Len(events) BY <2>t
      <4> QED BY <3>1, <4>1
    <3>3. events[1][2] <= frame.pts
      <4>1. CASE j = 1 BY <2>t, <3>2, <4>1
      <4>2. CASE j # 1
        <5>1. 1 < j BY <3>2, <4>2
        <5>2. events[1][2] < events[j][2] BY <1>a, <3>2, <5>1, Zenon DEF OnTheWay, InOrder
        <5> QED BY <2>t, <3>2, <5>2
      <4> QED BY <4>1, <4>2
    <3>4. frame.pts <= sLast /\ Hand = frame.pts BY <1>s, <2>2 DEF Newest, Hand
    <3>5. ASSUME NEW p, Announced(events, p), events[1][2] # p PROVE Announced(events', p)
      <4>1. events[1] # <<"BARRIER", p>> BY <3>5
      <4> QED BY <3>5, <4>1, AnnouncedTail
    <3>6. ASSUME NEW i \in 1..Len(ring), ring[i].discont PROVE Announced(events', ring[i].pts)
      <4>1. ring[i] \in Image BY SMTT(30) DEF Typed
      <4>2. ring[i].pts \in Nat BY <4>1 DEF Image
      <4>3. ring[i].pts > frame.pts BY <1>s, <3>4, Zenon DEF Newest
      <4>4. events[1][2] # ring[i].pts BY <2>t, <3>3, <4>2, <4>3
      <4>5. Announced(events, ring[i].pts) BY <2>0, <3>6, Zenon DEF BarriersCome
      <4> QED BY <3>5, <4>4, <4>5
    <3>7. ASSUME src' = "barrier" PROVE Announced(events', frame.pts)
      <4>1. events[1] # <<"BARRIER", frame.pts>> BY <2>2, <3>7 DEF Track!Awaited
      <4>2. events[1][2] # frame.pts BY <2>t, <4>1
      <4>3. Announced(events, frame.pts) BY <2>0, <2>2 DEF BarriersCome
      <4> QED BY <3>5, <4>2, <4>3
    <3>8. ASSUME sink = "rendering", mark PROVE Announced(events', input)
      <4>1. sLast < input BY <3>8 DEF SentInOrder
      <4>2. events[1][2] # input BY <2>t, <3>3, <3>4, <4>1
      <4>3. Announced(events, input) BY <2>0, <3>8 DEF BarriersCome
      <4> QED BY <3>5, <4>2, <4>3
    <3>9. \A i \in 1..Len(ring') : ring'[i].discont => Announced(events', ring'[i].pts) BY <3>6, Zenon
    <3>10. src' = "barrier" => Announced(events', frame'.pts) BY <3>7
    <3>11. sink' = "rendering" /\ mark' => Announced(events', input') BY <1>u, <3>8
    <3> QED BY <3>9, <3>10, <3>11, Zenon DEF BarriersCome
  <2> QED BY <2>1, <2>2
<1> QED BY <1>1, <1>2, <1>3, <1>4, <1>5, <1>6, <1>7, <1>8, <1>9, <1>10, <1>11 DEF OnTheWay

(* The barrier the source waits for is the next record: its frame is next.   *)
LEMMA NextFrame ==
  ASSUME NEW c \in Cases, VInv(c), Alive, src = "barrier", events # <<>>, events[1] = <<"BARRIER",
         frame.pts>>
  PROVE  Taken < Len(sent) /\ sent[Taken + 1] = <<"frame", frame.pts>>
<1> USE DEF VInv
<1> DEFINE N == Len(sent)
           t == Taken + 1
<1>0. Live /\ delivery = NoImage BY DEF Alive, Live, Stages
<1>t. /\ N \in Nat /\ Taken \in Nat /\ Taken = Len(out) + Len(gaps) /\ Len(out) \in Nat
           /\ Len(gaps) \in Nat
      /\ \A i \in 1..N : sent[i][1] \in Kinds /\ sent[i][2] \in Nat
  BY Typing, Zenon DEF Taken
<1>e. 1 \in 1..Len(events) /\ \A j \in 1..Len(events) : ~(j < 1)
  <2>1. 1 \in 1..Len(events) BY DEF Typed
  <2>2. Len(events) \in Nat BY Typing
  <2> QED BY <2>1, <2>2
<1>1. PICK f \in 1..N : sent[f] = <<"frame", frame.pts>> BY <1>0 DEF Placed
<1>2. sent[f][1] = "frame" /\ sent[f][2] = frame.pts BY <1>1
<1>3. frame.pts > cLast /\ frame.pts \in Nat /\ cLast \in Nat
  <2>1. frame.pts \in Nat BY DEF Typed, Image
  <2>2. cLast \in Nat BY DEF Track!TypeOK
  <2>3. frame.pts > cLast BY <1>0 DEF Placed
  <2> QED BY <2>1, <2>2, <2>3
<1>4. ~(f <= Len(out))
  <2>1. f <= Len(out) <=> sent[f][2] <= cLast BY <1>0, <1>2 DEF Placed
  <2>2. ~(sent[f][2] <= cLast) BY <1>2, <1>3
  <2> QED BY <2>1, <2>2
<1>5. ~(f - Len(out) \in 1..Len(gaps))
  <2> SUFFICES ASSUME f - Len(out) \in 1..Len(gaps) PROVE FALSE OBVIOUS
  <2>1. Len(out) + (f - Len(out)) = f BY <1>t
  <2>2. sent[f] = <<"gap", gaps[f - Len(out)]>> BY <1>0, <2>1, Zenon DEF Placed
  <2>3. sent[f][1] = "gap" BY <2>2
  <2> QED BY <1>2, <2>3
<1>6. t <= f /\ t \in 1..N /\ t \in t..N /\ Taken < N
  <2>1. N \in Nat /\ Taken = Len(out) + Len(gaps) /\ Len(out) \in Nat /\ Len(gaps) \in Nat BY <1>t
  <2> HIDE DEF N
  <2> QED BY <1>4, <1>5, <2>1
<1>7. SUFFICES ASSUME t # f PROVE FALSE BY <1>1, <1>6
<1>8. t < f BY <1>t, <1>6, <1>7
<1>9. CASE sent[t][1] = "eos"
  <2>1. t = N BY <1>6, <1>9 DEF SentInOrder
  <2> QED BY <1>t, <1>8, <2>1
<1>10. CASE sent[t][1] = "gap"
  <2>1. PICK j \in 1..Len(events) : events[j] = <<"GAP", sent[t][2]>>
    BY <1>6, <1>10, Zenon DEF OnTheWay, GapsOnTheWay
  <2>2. events[1] = <<"BARRIER", sent[f][2]>> BY <1>2
  <2>3. j < 1 <=> t < f BY <1>e, <1>2, <1>6, <1>10, <2>1, <2>2, Zenon DEF OnTheWay, BarriersPlaced
  <2> QED BY <1>e, <1>8, <2>3
<1>11. CASE sent[t][1] = "frame"
  <2>1. ~(t <= Len(out)) BY <1>t
  <2>2. ~(sent[t][2] <= cLast) BY <1>0, <1>6, <1>11, <2>1 DEF Placed
  <2>3. sent[t][2] >= frame.pts BY <1>0, <1>6, <1>11, <2>2 DEF Placed
  <2>4. sent[t][2] < frame.pts BY <1>2, <1>6, <1>8, <1>11 DEF SentInOrder
  <2> QED BY <1>t, <1>3, <1>6, <2>3, <2>4
<1> QED BY <1>t, <1>6, <1>9, <1>10, <1>11 DEF Kinds

(* An old barrier is skipped. *)
LEMMA BarrierSkipped ==
  ASSUME NEW c \in Cases, VInv(c), Track(c)!EventSkipped, events[1][1] = "BARRIER" PROVE VInv(c)'
<1>0. /\ src \in {"barrier", "ending"} /\ src' = src /\ ~cancelled["C"] /\ events # <<>>
           /\ events' = Tail(events)
      /\ UNCHANGED Track(c)!sinkVars
           /\ UNCHANGED <<cFrames, cLast, cSeq, frame, delivery, known, out, ring, cancelled, flushing>>
  BY DEF Track!EventSkipped, Track!SrcStep
<1>1. Head(events) = events[1] BY <1>0 DEF VInv, Typed
<1>2. gaps' = gaps /\ events[1] # Track(c)!Awaited BY <1>1 DEF Track!EventSkipped
<1>3. Alive /\ Alive' BY <1>0 DEF Alive, Live
<1> QED BY <1>0, <1>2, <1>3, BarrierTaken

(* The barrier the source waits for is taken. *)
LEMMA BarrierReached == ASSUME NEW c \in Cases, VInv(c), Track(c)!BarrierFound PROVE VInv(c)'
<1>0. /\ src = "barrier" /\ src' = "finish" /\ ~cancelled["C"] /\ events # <<>>
           /\ events' = Tail(events)
      /\ UNCHANGED Track(c)!sinkVars
           /\ UNCHANGED <<cFrames, cLast, cSeq, frame, delivery, known, out, ring, cancelled,
           flushing, gaps>>
  BY DEF Track!BarrierFound, Track!SrcStep
<1>1. Head(events) = events[1] BY <1>0 DEF VInv, Typed
<1>2. events[1] = Track(c)!Awaited BY <1>1 DEF Track!BarrierFound
<1>3. events[1] = <<"BARRIER", frame.pts>> /\ events[1][1] = "BARRIER" BY <1>0, <1>2 DEF Track!Awaited
<1>4. Alive /\ Alive' /\ Live /\ Live' BY <1>0 DEF Alive, Live
<1>5. Taken < Len(sent) /\ sent[Taken + 1] = <<"frame", frame.pts>> BY <1>0, <1>3, <1>4, NextFrame
<1>6. sent' = sent /\ Taken' = Taken BY <1>0 DEF Track!sinkVars, Taken
<1>7. Placed'
  <2>1. Placed BY DEF VInv
  <2>2. out' = out /\ gaps' = gaps /\ delivery' = delivery /\ cLast' = cLast /\ frame' = frame BY <1>0
  <2> QED BY <1>0, <1>4, <1>5, <1>6, <2>1, <2>2 DEF Placed
<1> QED BY <1>0, <1>2, <1>3, <1>4, <1>7, BarrierTaken, Zenon

(* The end of a video-only stream, or the one the audio source reported: all *)
(* that was sent has been taken.                                             *)
LEMMA NextEnd ==
  ASSUME NEW c \in Cases, VInv(c), Alive, src = "ending", events # <<>>, events[1][1] = "END"
  PROVE  Taken < Len(sent) /\ sent[Taken + 1] = <<"eos", 0>>
<1> USE DEF VInv
<1> DEFINE N == Len(sent)
           t == Taken + 1
<1>0. Live /\ delivery = NoImage BY DEF Alive, Live, Stages
<1>t. /\ N \in Nat /\ Taken \in Nat /\ Taken = Len(out) + Len(gaps) /\ Len(out) \in Nat
           /\ Len(gaps) \in Nat
      /\ \A i \in 1..N : sent[i][1] \in Kinds /\ sent[i][2] \in Nat
           /\ sent[i] = <<sent[i][1], sent[i][2]>>
  BY Typing DEF Taken
<1>e. 1 \in 1..Len(events) BY DEF Typed
<1>1. ended # <<>> /\ 1 = Len(events) BY <1>e, Zenon DEF OnTheWay, InOrder
<1>2. sent # <<>> /\ sent[N][1] = "eos" /\ ended = <<sFrames, sLast>> BY <1>1 DEF SentInOrder
<1>3. N \in 1..N
  <2>1. sent \in Seq(Kinds \X Nat) BY DEF Typed
  <2>2. N # 0 BY <1>2, <2>1, EmptySeq
  <2>3. N \in Nat BY <1>t
  <2> HIDE DEF N
  <2> QED BY <2>2, <2>3
<1>s. cLast = sLast
  <2>1. known # <<>> /\ known = <<cFrames, cLast>> BY DEF Stages
  <2>2. known = ended BY <2>1 DEF SentInOrder
  <2> QED BY <1>2, <2>1, <2>2
<1>4. ~(N \in 1..Len(out)) BY <1>0, <1>2 DEF Placed
<1>5. ~(N - Len(out) \in 1..Len(gaps))
  <2> SUFFICES ASSUME N - Len(out) \in 1..Len(gaps) PROVE FALSE OBVIOUS
  <2>1. Len(out) + (N - Len(out)) = N BY <1>t
  <2>2. sent[N] = <<"gap", gaps[N - Len(out)]>> BY <1>0, <2>1, Zenon DEF Placed
  <2>3. sent[N][1] = "gap" BY <2>2
  <2> QED BY <1>2, <2>3
<1>6. t <= N /\ t \in 1..N /\ t \in t..N /\ Taken < N
  <2>1. N \in Nat /\ N >= 1 /\ Taken = Len(out) + Len(gaps) /\ Len(out) \in Nat /\ Len(gaps) \in Nat
    BY <1>t, <1>3
  <2> HIDE DEF N
  <2> QED BY <1>4, <1>5, <2>1
<1>7. CASE sent[t][1] = "eos"
  <2>1. sent[t][2] = 0 BY <1>6, <1>7 DEF SentInOrder
  <2> QED BY <1>t, <1>6, <1>7, <2>1
<1>8. CASE sent[t][1] = "gap"
  <2>1. PICK j \in 1..Len(events) : events[j] = <<"GAP", sent[t][2]>>
    BY <1>6, <1>8, Zenon DEF OnTheWay, GapsOnTheWay
  <2>2. events[j][1] = "GAP" BY <2>1
  <2>3. j = 1
    <3>1. \A i \in 1..1 : i = 1 OBVIOUS
    <3>2. Len(events) = 1 BY <1>1
    <3> QED BY <3>1, <3>2, Zenon
  <2> QED BY <2>2, <2>3
<1>9. CASE sent[t][1] = "frame"
  <2>1. ~(t <= Len(out)) BY <1>t
  <2>2. ~(sent[t][2] <= cLast) BY <1>0, <1>6, <1>9, <2>1 DEF Placed
  <2>3. sent[t][2] \in 1..sLast BY <1>6, <1>9 DEF SentInOrder
  <2>4. sLast \in Nat BY DEF Track!TypeOK
  <2>5. sent[t][2] <= sLast BY <2>3, <2>4
  <2> QED BY <1>s, <2>2, <2>5
<1> QED BY <1>t, <1>6, <1>7, <1>8, <1>9 DEF Kinds

(* The end is delivered. *)
LEMMA EndReached == ASSUME NEW c \in Cases, VInv(c), Track(c)!EndFound PROVE VInv(c)'
<1>bounds. Track(c)!VideoAssumption BY CaseIs
<1> USE <1>bounds DEF VInv, Track!VideoAssumption
<1>0. /\ src = "ending" /\ src' = "eos" /\ ~cancelled["C"] /\ events # <<>> /\ events' = Tail(events)
      /\ out' = (out \o Track(c)!GapItems) \o <<<<"eos", 0>>>> /\ gaps' = <<>>
      /\ UNCHANGED Track(c)!sinkVars
           /\ UNCHANGED <<cFrames, cLast, cSeq, frame, delivery, known, ring, cancelled, flushing>>
  BY DEF Track!EndFound, Track!SrcStep
<1>u. UNCHANGED <<sink, input, gapEvents, sFrames, sLast, gapPending, mark, ended, attached, sent>>
  BY <1>0 DEF Track!sinkVars
<1>h. events[1][1] = "END"
  <2>1. Head(events) = events[1] BY <1>0 DEF Typed
  <2>2. events[1] = <<"END", known[2]>> BY <1>0, <2>1 DEF Track!EndFound, Track!Awaited
  <2> QED BY <2>2
<1>s. Alive /\ Live /\ ~Live' /\ ~Alive' /\ frame = NoImage /\ delivery = NoImage
  BY <1>0 DEF Alive, Live, Stages
<1>p. Taken < Len(sent) /\ sent[Taken + 1] = <<"eos", 0>> BY <1>0, <1>h, <1>s, NextEnd
<1>l. /\ out' \in Seq(Kinds \X Nat) /\ Len(out') = Taken + 1
      /\ Len(out') <= Len(sent') /\ \A i \in 1..Len(out') : out'[i] = sent'[i]
  <2>1. <<"eos", 0>> \in Kinds \X Nat BY DEF Kinds
  <2>2. out' = (out \o Track(c)!GapItems) \o <<<<"eos", 0>>>> /\ sent' = sent BY <1>0, <1>u
  <2> QED BY <1>s, <1>p, <2>1, <2>2, LeavesPrefix, Zenon
<1>1. Track(c)!TypeOK'
  <2>1. Len(gaps') <= c.most BY <1>0
  <2> QED BY <1>0, <1>u, <2>1 DEF Track!TypeOK, Track!Running
<1>2. Typed'
  <2>1. gaps' \in Seq(Nat) BY <1>0
  <2>2. events' \in Seq(Records \X Nat) BY <1>0, Shifted
  <2> QED BY <1>0, <1>u, <1>l, <2>1, <2>2 DEF Typed
<1>3. SentInOrder' BY <1>0, <1>u DEF SentInOrder
<1>4. Follows' BY <1>0, <1>u, Zenon DEF Follows
<1>5. Newest' BY <1>0, <1>u, <1>s DEF Newest
<1>6. Stages'
  <2>1. known # <<>> /\ known = <<cFrames, cLast>> /\ cSeq = cFrames BY <1>0, <1>s DEF Stages
  <2>2. ended # <<>> /\ known = ended /\ ended = <<sFrames, sLast>> BY <2>1 DEF SentInOrder
  <2>3. cSeq = sFrames BY <2>1, <2>2
  <2>4. cSeq \in Nat BY DEF Track!TypeOK
  <2>5. ~(cSeq < sFrames) BY <2>3, <2>4
  <2>6. ring = <<>> BY <2>5 DEF Newest
  <2> QED BY <1>0, <1>u, <1>s, <2>2, <2>6 DEF Stages
<1>7. Placed' BY <1>l, <1>s DEF Placed
<1>8. InOrder' BY <1>0, <1>u, InOrderTail DEF OnTheWay
<1> QED BY <1>1, <1>2, <1>3, <1>4, <1>5, <1>6, <1>7, <1>8, <1>s DEF OnTheWay

(* The steps at which the source gives up. *)
LEMMA SrcGivesUp ==
  ASSUME NEW c \in Cases, VInv(c),
         Track(c)!LoopFails \/ Track(c)!AcquireLost \/ Track(c)!AcquireReplaced \/ Track(c)!EventsFail \/ Track(c)!FinishFails \/ Track(c)!SrcStop
  PROVE  VInv(c)'
<1>1. CASE Track(c)!SrcFails /\ ring' \in {ring, <<>>} /\ events' = events
  <2>1. InOrder'
    <3>1. UNCHANGED <<sink, input, gapEvents, ended, events>>
      BY <1>1, OneNone DEF Track!SrcFails, Track!sinkVars
    <3>2. InOrder BY DEF VInv, OnTheWay
    <3> QED BY <3>1, <3>2 DEF InOrder
  <2>2. events' \in Seq(Records \X Nat) BY <1>1 DEF VInv, Typed
  <2>3. flushing' \in BOOLEAN BY <1>1, OneNone DEF Track!SrcFails, VInv, Track!TypeOK
  <2> QED BY <1>1, <2>1, <2>2, <2>3, SrcFalls, OneNone DEF Track!SrcFails
<1>2. CASE Track(c)!EventsFail
  <2>0. Track(c)!SrcFails /\ ring' = ring BY <1>2 DEF Track!EventsFail
  <2>1. CASE events = <<>> BY <1>1, <1>2, <2>0, <2>1 DEF Track!EventsFail
  <2>2. CASE events # <<>>
    <3>0. events' = Tail(events) BY <1>2, <2>2 DEF Track!EventsFail
    <3>1. InOrder'
      <4>1. UNCHANGED <<input, gapEvents, ended, sink>>
        BY <2>0, OneNone DEF Track!SrcFails, Track!sinkVars
      <4> QED BY <2>2, <3>0, <4>1, InOrderTail DEF VInv, OnTheWay
    <3>2. events' \in Seq(Records \X Nat) BY <2>2, <3>0, Shifted DEF VInv
    <3>3. flushing' \in BOOLEAN BY <2>0, OneNone DEF Track!SrcFails, VInv, Track!TypeOK
    <3> QED BY <2>0, <3>1, <3>2, <3>3, SrcFalls, OneNone DEF Track!SrcFails
  <2> QED BY <2>1, <2>2
<1>3. CASE Track(c)!SrcStop
  <2>0. /\ src' = "stopped" /\ delivery' = NoImage /\ cancelled' = [cancelled EXCEPT !["C"] = TRUE]
        /\ UNCHANGED Track(c)!sinkVars
             /\ UNCHANGED <<cFrames, cLast, cSeq, gaps, frame, known, flushing, out, ring, events>>
    BY <1>3, OneNone DEF Track!SrcStop
  <2>1. InOrder'
    <3>1. UNCHANGED <<sink, input, gapEvents, ended, events>> BY <2>0 DEF Track!sinkVars
    <3>2. InOrder BY DEF VInv, OnTheWay
    <3> QED BY <3>1, <3>2 DEF InOrder
  <2>2. events' \in Seq(Records \X Nat) BY <2>0 DEF VInv, Typed
  <2>3. flushing' \in BOOLEAN BY <2>0 DEF VInv, Track!TypeOK
  <2>4. frame' = NoImage BY <1>3, <2>0, OneNone DEF Track!SrcStop, VInv, Stages
  <2> QED BY <2>0, <2>1, <2>2, <2>3, <2>4, SrcFalls
<1> QED BY <1>1, <1>2, <1>3 DEF Track!LoopFails, Track!AcquireLost, Track!AcquireReplaced,
    Track!FinishFails

(* The steps of the sink, of the pipeline and of the application that leave  *)
(* the streams alone.                                                        *)
LEMMA OthersQuiet ==
  ASSUME NEW c \in Cases, VInv(c),
         Track(c)!RenderRefused \/ Track(c)!RenderDrop \/ Track(c)!RenderOverload \/ Track(c)!RenderFails \/ Track(c)!SinkStop \/ Track(c)!Unlock \/ Track(c)!UnlockStop
               \/ (\E s \in {"P", "C"} : Track(c)!CancelSession(s)) \/ UNCHANGED video
  PROVE  VInv(c)'
<1> USE DEF VInv, streams, Track!sinkVars, Track!srcVars
<1>t. attached \in BOOLEAN /\ flushing \in BOOLEAN /\ cancelled \in [{"P", "C"} -> BOOLEAN]
  BY DEF Track!TypeOK
<1>e. sink \in {"running", "rendering"} => ended = <<>> BY DEF SentInOrder
<1>c. ASSUME NEW s \in {"P", "C"}, cancelled' = [cancelled EXCEPT ![s] = TRUE]
      PROVE  cancelled' \in [{"P", "C"} -> BOOLEAN] /\ (cancelled["C"] => cancelled'["C"])
  BY <1>t, <1>c
<1>1. CASE Track(c)!SinkFails /\ attached' \in BOOLEAN /\ sink \in {"running", "rendering"}
  <2>1. cancelled' \in [{"P", "C"} -> BOOLEAN] /\ (cancelled["C"] => cancelled'["C"])
    BY <1>1, <1>c DEF Track!SinkFails
  <2> QED BY <1>1, <1>t, <1>e, <2>1, SinkQuiet DEF Track!SinkFails
<1>2. CASE Track(c)!RenderRefused BY <1>1, <1>2, <1>t DEF Track!RenderRefused
<1>3. CASE Track(c)!RenderOverload BY <1>1, <1>3, <1>t DEF Track!RenderOverload
<1>4. CASE Track(c)!RenderFails BY <1>1, <1>4, <1>t, Zenon DEF Track!RenderFails
<1>5. CASE Track(c)!RenderDrop BY <1>5, <1>t, SinkQuiet DEF Track!RenderDrop
<1>6. CASE Track(c)!SinkStop
  <2>1. cancelled' \in [{"P", "C"} -> BOOLEAN] /\ (cancelled["C"] => cancelled'["C"])
    BY <1>6, <1>c DEF Track!SinkStop
  <2> QED BY <1>6, <1>t, <2>1, SinkQuiet, Zenon DEF Track!SinkStop
<1>7. CASE Track(c)!Unlock BY <1>7, <1>t, SinkQuiet DEF Track!Unlock
<1>8. CASE Track(c)!UnlockStop BY <1>8, <1>t, SinkQuiet, Zenon DEF Track!UnlockStop
<1>9. CASE \E s \in {"P", "C"} : Track(c)!CancelSession(s)
  <2>1. PICK s \in {"P", "C"} : Track(c)!CancelSession(s) BY <1>9
  <2>2. cancelled' \in [{"P", "C"} -> BOOLEAN] /\ (cancelled["C"] => cancelled'["C"])
    BY <2>1, <1>c, Zenon DEF Track!CancelSession
  <2> QED BY <2>1, <2>2, <1>t, SinkQuiet DEF Track!CancelSession
<1>10. CASE UNCHANGED video BY <1>10, <1>t, SinkQuiet DEF video
<1> QED BY <1>2, <1>3, <1>4, <1>5, <1>6, <1>7, <1>8, <1>9, <1>10

(* The invariant is inductive. *)
LEMMA VideoSteps == ASSUME NEW c \in Cases, VInv(c), [Track(c)!Next]_video PROVE VInv(c)'
<1>1. CASE Track(c)!Sink
  <2>1. CASE \E d \in BOOLEAN : Track(c)!RenderBegin(d) BY <2>1, RenderBegins
  <2> QED BY <1>1, <2>1, SinkStarts, RenderSubmits, SinkGaps, SinkFlushes, SinkEnds,
      OthersQuiet DEF Track!Sink
<1>2. CASE Track(c)!EventSkipped
  <2>1. events # <<>> BY <1>2 DEF Track!EventSkipped
  <2>2. Head(events) = events[1] BY <2>1 DEF VInv, Typed
  <2>3. events[1][1] \in {"GAP", "BARRIER"} BY <1>2, <2>2 DEF Track!EventSkipped
  <2> QED BY <1>2, <2>3, GapCollected, BarrierSkipped
<1>3. CASE Track(c)!Create
  BY <1>2, <1>3, SrcQuiet, FrameTaken, BarrierReached, EndReached, FrameFinished, FramePushed,
      SrcGivesUp DEF Track!Create
<1>4. CASE Track(c)!CreateFails BY <1>4, SrcGivesUp DEF Track!CreateFails
<1>5. CASE Track(c)!SrcStart \/ Track(c)!AudioTerminal BY <1>5, SrcQuiet
<1>6. CASE Track(c)!Unlock \/ Track(c)!UnlockStop \/ (\E s \in {"P",
    "C"} : Track(c)!CancelSession(s)) \/ UNCHANGED video BY <1>6, OthersQuiet
<1>7. CASE Track(c)!SrcStop BY <1>7, SrcGivesUp
<1> QED BY <1>1, <1>3, <1>4, <1>5, <1>6, <1>7 DEF Track!Next

(* The invariant implies what the video track promises. *)
LEMMA VideoPromises == ASSUME NEW c \in Cases, VInv(c)
    PROVE Track(c)!TypeOK /\ Track(c)!DeliveryIsPrefix /\ Track(c)!BarrierComes
<1> USE DEF VInv
<1>1. Track(c)!DeliveryIsPrefix
  <2>1. out \in Seq(Kinds \X Nat) /\ sent \in Seq(Kinds \X Nat) BY DEF Typed
  <2>2. Len(out) <= Len(sent) /\ \A i \in 1..Len(out) : out[i] = sent[i] BY DEF Placed
  <2>4. SubSeq(sent, 1, Len(out)) = out
    <3>1. Len(out) \in Nat /\ Len(sent) \in Nat BY <2>1
    <3>2. SubSeq(sent, 1, Len(out)) = [i \in 1..Len(out) |-> sent[i]]
      <4>1. SubSeq(sent, 1, Len(out)) = [i \in 1..(1 + Len(out) - 1) |-> sent[i + 1 - 1]] BY <2>1, <3>1
      <4> QED BY <3>1, <4>1
    <3>3. out = [i \in 1..Len(out) |-> out[i]] BY <2>1
    <3> QED BY <2>2, <3>2, <3>3
  <2> QED BY <2>2, <2>4 DEF Track!DeliveryIsPrefix
<1>2. Track(c)!BarrierComes
  <2> SUFFICES ASSUME ~cancelled["P"], ~cancelled["C"]
               PROVE  /\ \A i \in DOMAIN ring : ring[i].discont
                           => \E j \in DOMAIN events : events[j] = <<"BARRIER", ring[i].pts>>
                      /\ src = "barrier" => \E j \in DOMAIN events : events[j] = Track(c)!Awaited
    BY DEF Track!BarrierComes
  <2>0. DOMAIN ring = 1..Len(ring) /\ DOMAIN events = 1..Len(events) BY DEF Typed
  <2>1. CASE Live
    <3>1. BarriersCome BY <2>1 DEF OnTheWay, Alive
    <3> QED BY <2>0, <3>1, Zenon DEF BarriersCome, Announced, Track!Awaited
  <2>2. CASE ~Live
    <3>1. src = "eos" /\ ring = <<>> BY <2>2 DEF Live, Stages
    <3>2. DOMAIN ring = {} BY <3>1
    <3> QED BY <3>1, <3>2
  <2> QED BY <2>1, <2>2
<1> QED BY <1>1, <1>2

(* MCMedia's VideoDelivered (gstframelink.cpp), for any pool, any number of  *)
(* frames, gaps and pauses and any number of gaps the source keeps, while    *)
(* frames are dropped, replaced or expire, deliveries are interrupted, steps *)
(* fail and elements stop: the source delivers a prefix of what the sink     *)
(* sent, and a frame that starts anew never waits for a barrier that cannot  *)
(* come.                                                                     *)
THEOREM VideoStream == MCSpec => []VideoDelivered
<1> DEFINE I == (part = "video" => VInv(Lone)) /\ (part = "both" => VInv(Paired))
<1>0. Lone \in Cases /\ Paired \in Cases
  <2>1. Images \in Nat \ {0} /\ MaxGaps \in Nat BY MediaAssumption DEF Track!VideoAssumption, Lone
  <2> QED BY <2>1 DEF Lone, Paired, Cases
<1>1. MCInit => I
  <2> SUFFICES ASSUME MCInit PROVE I OBVIOUS
  <2>1. part = "video" => Track(Lone)!Init BY DEF MCInit
  <2>2. part = "both" => Track(Paired)!Init BY DEF MCInit
  <2> QED BY <1>0, <2>1, <2>2, VideoBegins
<1>2. I /\ [MCNext]_mcvars => I'
  <2> SUFFICES ASSUME I, [MCNext]_mcvars PROVE I' OBVIOUS
  <2>1. part' = part BY Zenon DEF MCNext, mcvars
  <2>2. ASSUME part = "video" PROVE VInv(Lone)'
    <3>1. [Track(Lone)!Next]_video BY <2>2 DEF MCNext, mcvars
    <3> QED BY <1>0, <2>2, <3>1, VideoSteps
  <2>3. ASSUME part = "both" PROVE VInv(Paired)'
    <3>1. [Track(Paired)!Next]_video BY <2>3 DEF MCNext, mcvars
    <3> QED BY <1>0, <2>3, <3>1, VideoSteps
  <2> QED BY <2>1, <2>2, <2>3
<1>3. I => VideoDelivered BY <1>0, VideoPromises DEF VideoDelivered
<1> QED BY <1>1, <1>2, <1>3, PTL DEF MCSpec

-----------------------------------------------------------------------------
(* The video elements outside a session. *)

(* A buffer pushed downstream. *)
Pushed(d) == [frame : Plain(d)!Frame, discont : BOOLEAN, caps : Sizes \union {0}, lost : Nat, mark : BOOLEAN]

(* The rings there are, and the types of the elements. *)
PRing(d) ==
  [gen : 0..MaxRing, size : Sizes \union {0}, seq : 0..MaxFrames, retired : 0..MaxFrames,
   pending : Plain(d)!Frame]

PTyped(d) ==
  /\ Plain(d)!TypeOK
  /\ pRing \in PRing(d) /\ pts \in Nat
  /\ pOut \in Seq(Pushed(d)) /\ Len(pOut) <= 2

(* f was written in the ring as it is now. *)
Written(d, f) == f # Plain(d)!NoFrame => f.ring = pRing.gen /\ f.size = pRing.size /\ f.seq <= pRing.seq

(* An attached sink knows the ring, and the frames in it are of this         *)
(* generation.                                                               *)
Here(d) ==
  /\ Plain(d)!Attached => cinfo = pRing.size
  /\ Written(d, pRing.pending) /\ Written(d, held)

(* f is the frame stamped last: it continues the buffer b that was pushed    *)
(* last and the buffers discarded after it, unless one of these had the mark *)
(* of a break.                                                               *)
Continues(d, b, f) ==
  ~b.mark => /\ f.ring = b.frame.ring /\ f.seq = b.frame.seq + b.lost /\ f.pts >= b.frame.pts
             /\ ~d => f.stream = b.frame.stream

(* A source that runs knows the ring, or an older one; the last frame it     *)
(* stamped continues what it pushed.                                         *)
Sourced(d) ==
  pSrc \in {"running", "reading"} =>
    /\ pKnown <= pRing.gen /\ (pKnown = pRing.gen => caps = pRing.size)
    /\ Len(pOut) # 0 /\ Continues(d, pOut[Len(pOut)], last)
    /\ last # Plain(d)!NoFrame => last.ring = pKnown

(* What is promised. *)
Told(d) ==
  /\ Plain(d)!Balanced /\ Plain(d)!CapsDescribe /\ Plain(d)!BreaksMarked
  /\ Plain(d)!AgreementKept /\ (agreed # 0 => d)

(* The invariant of the elements outside a session. *)
PInv(d) == PTyped(d) /\ Here(d) /\ Sourced(d) /\ Told(d)

(* What the constants are assumed to be. *)
LEMMA PlainFacts ==
  ASSUME NEW d \in BOOLEAN
  PROVE  /\ {Images, MaxFrames, MaxStarts, MaxRing, MaxStream} \subseteq Nat \ {0} /\ (d => MaxRing > 1)
         /\ Sizes \subseteq Nat \ {0} /\ Plain(d)!Width \in Sizes
<1>1. /\ {Images, MaxFrames, MaxStarts, MaxRing, MaxStream} \subseteq Nat \ {0} /\ (d => MaxRing > 1)
      /\ Sizes \subseteq Nat \ {0} /\ Sizes # {}
  BY MediaAssumption DEF Plain!PlainAssumption
<1> QED BY <1>1 DEF Plain!Width

(* No frame is a frame of the type, and it is not one of the ring. *)
LEMMA NoFrameIs ==
  ASSUME NEW d \in BOOLEAN
  PROVE  /\ Plain(d)!NoFrame \in Plain(d)!Frame /\ Plain(d)!NoFrame.size = 0 /\ Plain(d)!NoFrame.seq = 0
         /\ Plain(d)!NoFrame = [seq |-> 0, pts |-> 0, stream |-> 0, ring |-> 0, size |-> 0]
  BY PlainFacts DEF Plain!NoFrame, Plain!Frame

(* The counts stay as they are with a sink that has failed or is stopped,    *)
(* and balance while it runs.                                                *)
LEMMA Accounted ==
  ASSUME NEW d \in BOOLEAN, PInv(d)
  PROVE  /\ pSink \notin {"failed", "null"} => unaccounted = 0
         /\ unaccounted' = 0 => Plain(d)!Balanced'
         /\ pSink' = pSink /\ unaccounted' = unaccounted => Plain(d)!Balanced'
         /\ pSink' \in {"failed", "null"} /\ unaccounted' = unaccounted => Plain(d)!Balanced'
  BY Zenon DEF PInv, Told, Plain!Balanced

(* A step of the sink that does not touch the ring: it may lose its channel. *)
LEMMA SinkOnly ==
  ASSUME NEW d \in BOOLEAN, PInv(d), ch' \in {ch, 0}, Plain(d)!Balanced',
         pSink' \in {"null", "connecting", "started", "failed", "ended"},
         vinfo' \in Sizes \union {0}, mayDial' \in BOOLEAN, stream' \in 0..MaxStream,
         UNCHANGED <<cinfo, pts, agreed, pSrc, starts, held, pKnown, caps, last, pOut, pRing>>
  PROVE  PInv(d)'
<1> USE PlainFacts, NoFrameIs DEF PInv
<1>1. PTyped(d)' BY SMTT(30) DEF PTyped, Plain!TypeOK
<1>2. Here(d)' BY DEF PTyped, Plain!TypeOK, Here, Written, Plain!Attached, Plain!Open
<1>3. Sourced(d)' BY DEF Sourced
<1>4. Told(d)'
  BY DEF PTyped, Plain!TypeOK, Told, Plain!CapsDescribe, Plain!BreaksMarked, Plain!AgreementKept,
    Plain!Attached, Plain!Open
<1> QED BY <1>1, <1>2, <1>3, <1>4

(* Starting, stopping and what goes wrong in render are such steps. *)
LEMMA SinkSteps ==
  ASSUME NEW d \in BOOLEAN, PInv(d),
         \/ Plain(d)!Second \/ Plain(d)!SinkStart \/ Plain(d)!ConnectDeadline \/ Plain(d)!SinkStop
         \/ Plain(d)!StreamStart \/ Plain(d)!Eos
         \/ Plain(d)!RenderPolicy \/ Plain(d)!RenderNoCaps \/ Plain(d)!RenderNoConsumer \/ Plain(d)!RenderMismatch
         \/ Plain(d)!RenderFull \/ Plain(d)!RenderLost \/ Plain(d)!RenderFails \/ Plain(d)!RenderSubmitFails
         \/ Plain(d)!RenderPitch
  PROVE  PInv(d)'
<1> USE PlainFacts DEF PInv, PTyped, Plain!TypeOK, Plain!srcVars
<1>1. CASE Plain(d)!Second BY <1>1, Accounted, SinkOnly, Zenon DEF Plain!Second
<1>2. CASE Plain(d)!SinkStart BY <1>2, Accounted, SinkOnly, Zenon DEF Plain!SinkStart
<1>3. CASE Plain(d)!ConnectDeadline BY <1>3, Accounted, SinkOnly, Zenon DEF Plain!ConnectDeadline, Plain!Disconnect
<1>4. CASE Plain(d)!SinkStop BY <1>4, Accounted, SinkOnly, Zenon DEF Plain!SinkStop, Plain!Disconnect
<1>5. CASE Plain(d)!StreamStart
  <2>1. stream + 1 \in 0..MaxStream BY <1>5 DEF Plain!StreamStart
  <2> QED BY <1>5, <2>1, Accounted, SinkOnly, Zenon DEF Plain!StreamStart
<1>6. CASE Plain(d)!Eos BY <1>6, Accounted, SinkOnly, Zenon DEF Plain!Eos
<1> USE DEF Plain!Dropped, Plain!SinkFails, Plain!Rendering, Plain!Ready
<1>7. CASE Plain(d)!RenderPolicy BY <1>7, Accounted, SinkOnly, Zenon DEF Plain!RenderPolicy
<1>8. CASE Plain(d)!RenderNoCaps BY <1>8, Accounted, SinkOnly, Zenon DEF Plain!RenderNoCaps
<1>9. CASE Plain(d)!RenderNoConsumer BY <1>9, Accounted, SinkOnly, Zenon DEF Plain!RenderNoConsumer, Plain!DialFails
<1>10. CASE Plain(d)!RenderMismatch BY <1>10, Accounted, SinkOnly, Zenon DEF Plain!RenderMismatch
<1>11. CASE Plain(d)!RenderFull BY <1>11, Accounted, SinkOnly, Zenon DEF Plain!RenderFull
<1>12. CASE Plain(d)!RenderLost BY <1>12, Accounted, SinkOnly, Zenon DEF Plain!RenderLost, Plain!Disconnect
<1>13. CASE Plain(d)!RenderFails BY <1>13, Accounted, SinkOnly, Zenon DEF Plain!RenderFails, Plain!Disconnect
<1>14. CASE Plain(d)!RenderSubmitFails BY <1>14, Accounted, SinkOnly, Zenon DEF Plain!RenderSubmitFails, Plain!Disconnect
<1>15. CASE Plain(d)!RenderPitch
  <2>1. unaccounted = 0 BY <1>15, Accounted, Zenon DEF Plain!RenderPitch
  <2>2. Plain(d)!Balanced' BY <1>15, <2>1 DEF Plain!RenderPitch, Plain!Balanced
  <2> QED BY <1>15, <2>2, SinkOnly, Zenon DEF Plain!RenderPitch, Plain!Disconnect
<1> QED BY <1>1, <1>2, <1>3, <1>4, <1>5, <1>6, <1>7, <1>8, <1>9, <1>10, <1>11, <1>12, <1>13, <1>14, <1>15

(* A ring in a later generation has no frame yet. *)
Later(r, q) == r.gen < q.gen /\ q.seq = r.seq /\ q.retired = r.seq

LEMMA RingRenewed ==
  ASSUME NEW d \in BOOLEAN, NEW r \in PRing(d), r.gen < MaxRing
  PROVE  LET q == Plain(d)!Renewed(r)
         IN  q \in PRing(d) /\ Later(r, q) /\ q.pending = Plain(d)!NoFrame /\ q.gen = r.gen + 1 /\ q.size = r.size
<1> DEFINE q == Plain(d)!Renewed(r)
<1>1. r.gen \in 0..MaxRing /\ r.seq \in 0..MaxFrames /\ MaxRing \in Nat /\ r.size \in Sizes \union {0}
  BY PlainFacts DEF PRing
<1>2. /\ q.gen = r.gen + 1 /\ q.size = r.size /\ q.seq = r.seq /\ q.retired = r.seq
      /\ q.pending = Plain(d)!NoFrame
  BY DEF PRing, Plain!Renewed
<1>3. r.gen + 1 \in 0..MaxRing /\ Plain(d)!NoFrame \in Plain(d)!Frame BY <1>1, NoFrameIs
<1>4. q \in PRing(d) BY <1>1, <1>3, Zenon DEF PRing, Plain!Renewed
<1> HIDE DEF q
<1>5. Later(r, q) /\ q.pending = Plain(d)!NoFrame /\ q.gen = r.gen + 1 /\ q.size = r.size
  BY <1>1, <1>2 DEF Later
<1> QED BY <1>4, <1>5 DEF q

LEMMA RingResized ==
  ASSUME NEW d \in BOOLEAN, NEW r \in PRing(d), NEW size \in Sizes
  PROVE  LET q == Plain(d)!Resized(r, size)
         IN  /\ q \in PRing(d)
             /\ \/ q = r
                \/ Later(r, q) /\ q.pending = Plain(d)!NoFrame /\ held = Plain(d)!NoFrame
<1> DEFINE m == Plain(d)!Renewed(r)
<1>1. CASE size = r.size \/ held # Plain(d)!NoFrame \/ r.gen = MaxRing BY <1>1 DEF Plain!Resized
<1>2. CASE ~(size = r.size \/ held # Plain(d)!NoFrame \/ r.gen = MaxRing)
  <2>1. r.gen < MaxRing BY <1>2, PlainFacts DEF PRing
  <2>2. m \in PRing(d) /\ Later(r, m) /\ m.pending = Plain(d)!NoFrame BY <2>1, RingRenewed
  <2>3. Plain(d)!Resized(r, size) = [m EXCEPT !.size = size] BY <1>2 DEF Plain!Resized
  <2> HIDE DEF m
  <2>4. [m EXCEPT !.size = size] \in PRing(d) /\ Later(r, [m EXCEPT !.size = size])
        /\ [m EXCEPT !.size = size].pending = Plain(d)!NoFrame
    BY <2>2 DEF PRing, Later
  <2> QED BY <1>2, <2>3, <2>4
<1> QED BY <1>1, <1>2

(* The sink attaches to the ring, or has it resized: the sink knows its      *)
(* geometry, and nothing of an earlier generation is left in it.             *)
LEMMA RingChanged ==
  ASSUME NEW d \in BOOLEAN, PInv(d), ~d \/ agreed = 0, pRing' \in PRing(d),
         Later(pRing, pRing'), pRing'.pending = Plain(d)!NoFrame, held = Plain(d)!NoFrame,
         cinfo' = pRing'.size, ch' \in {ch, starts}, vinfo' \in Sizes \union {0}, mayDial' \in BOOLEAN,
         pSink' \in {"null", "connecting", "started", "failed", "ended"},
         pSink = "started" \/ pSink = "connecting",
         UNCHANGED <<stream, pts, unaccounted, agreed, pSrc, starts, held, pKnown, caps, last, pOut>>
  PROVE  PInv(d)'
<1> USE DEF PInv
<1>1. /\ pRing.gen \in Nat /\ pRing'.gen \in Nat /\ pRing.gen < pRing'.gen /\ pRing'.retired <= pRing'.seq
      /\ pRing'.size \in Sizes \union {0} /\ pRing'.pending \in Plain(d)!Frame
  BY PlainFacts DEF PTyped, PRing, Later
<1>2. Plain(d)!TypeOK'
  <2>1. {held, last, pRing.pending}' \subseteq Plain(d)!Frame BY <1>1 DEF PTyped, Plain!TypeOK
  <2>2. ch' \in 0..starts
    <3>1. ch \in 0..starts /\ starts \in 0..MaxStarts BY DEF PTyped, Plain!TypeOK
    <3> QED BY <3>1, PlainFacts
  <2>3. (held' # Plain(d)!NoFrame) = (pSrc' = "reading") BY DEF PTyped, Plain!TypeOK
  <2> QED BY <1>1, <2>1, <2>2, <2>3 DEF PTyped, Plain!TypeOK
<1>3. PTyped(d)' BY <1>2 DEF PTyped
<1>4. Here(d)' BY DEF Here, Written
<1>5. Sourced(d)'
  <2>1. pKnown \in Nat BY PlainFacts DEF PTyped, Plain!TypeOK
  <2> QED BY <1>1, <2>1 DEF Sourced
<1>6. Told(d)'
  <2>1. Plain(d)!Balanced' BY Accounted
  <2> QED
    BY <2>1 DEF PTyped, Plain!TypeOK, Told, Plain!CapsDescribe, Plain!BreaksMarked, Plain!AgreementKept,
      Plain!Attached, Plain!Open
<1> QED BY <1>3, <1>4, <1>5, <1>6

(* The sink dials and is attached: the ring is renewed for it, and perhaps   *)
(* resized at once.                                                          *)
LEMMA Dialled ==
  ASSUME NEW d \in BOOLEAN, PInv(d), Plain(d)!DialOk, pSink' \in {"connecting", "started"},
         pSink = "started" \/ pSink = "connecting",
         UNCHANGED <<vinfo, stream, pts, unaccounted, agreed, pSrc, starts, held, pKnown, caps, last, pOut>>
  PROVE  PInv(d)'
<1> DEFINE r == Plain(d)!Renewed(pRing)
           q == Plain(d)!Resized(r, vinfo)
<1>1. /\ ch' = starts /\ mayDial' = FALSE /\ held = Plain(d)!NoFrame /\ pRing.gen < MaxRing /\ ~d
      /\ pRing' = (IF vinfo = 0 THEN r ELSE q) /\ cinfo' = pRing'.size
  BY DEF Plain!DialOk
<1>2. pRing \in PRing(d) /\ vinfo \in Sizes \union {0} BY DEF PInv, PTyped, Plain!TypeOK
<1>3. /\ r \in PRing(d) /\ Later(pRing, r) /\ r.pending = Plain(d)!NoFrame
  BY <1>1, <1>2, RingRenewed
<1> HIDE DEF r
<1>4. CASE vinfo = 0
  <2>1. pRing' = r BY <1>1, <1>4
  <2> QED BY <1>1, <1>2, <1>3, <2>1, RingChanged, Zenon
<1>5. CASE vinfo # 0
  <2>1. pRing' = q /\ vinfo \in Sizes BY <1>1, <1>2, <1>5
  <2>2. q \in PRing(d) /\ (q = r \/ (Later(r, q) /\ q.pending = Plain(d)!NoFrame)) BY <1>3, <2>1, RingResized
  <2> HIDE DEF q
  <2>3. {pRing.gen, r.gen, q.gen} \subseteq Nat BY <1>2, <1>3, <2>2, PlainFacts DEF PRing
  <2>4. Later(pRing, q) /\ q.pending = Plain(d)!NoFrame BY <1>3, <2>2, <2>3 DEF Later
  <2> QED BY <1>1, <1>2, <2>1, <2>2, <2>4, RingChanged, Zenon
<1> QED BY <1>4, <1>5

LEMMA DialSteps ==
  ASSUME NEW d \in BOOLEAN, PInv(d), Plain(d)!Connect \/ Plain(d)!RenderDials
  PROVE  PInv(d)'
<1>1. CASE Plain(d)!Connect
  <2>1. CASE Plain(d)!DialOk BY <1>1, <2>1, Dialled DEF Plain!Connect, Plain!srcVars
  <2>2. CASE Plain(d)!DialFails
    BY <1>1, <2>2, Accounted, SinkOnly, Zenon DEF Plain!Connect, Plain!DialFails, Plain!srcVars, PInv, PTyped, Plain!TypeOK
  <2> QED BY <1>1, <2>1, <2>2 DEF Plain!Connect
<1>2. CASE Plain(d)!RenderDials
  BY <1>2, Dialled DEF Plain!RenderDials, Plain!Rendering, Plain!srcVars
<1> QED BY <1>1, <1>2

(* New caps leave the ring as it is, or have it resized for this sink. *)
LEMMA CapsSteps ==
  ASSUME NEW d \in BOOLEAN, PInv(d), NEW size \in Sizes, Plain(d)!SetCaps(size)
  PROVE  PInv(d)'
<1>1. /\ vinfo' = size /\ pSink = "started" /\ pSink' \in {"started", "failed"}
      /\ UNCHANGED <<ch, mayDial, stream, pts, unaccounted, agreed, pSrc, starts, held, pKnown, caps, last, pOut>>
  BY DEF Plain!SetCaps, Plain!SinkFails, Plain!srcVars
<1>2. pRing \in PRing(d) /\ mayDial \in BOOLEAN /\ stream \in 0..MaxStream BY DEF PInv, PTyped, Plain!TypeOK
<1>3. CASE UNCHANGED <<pRing, cinfo>>
  <2>1. Plain(d)!Balanced' BY <1>1, Accounted
  <2> QED BY <1>1, <1>2, <1>3, <2>1, SinkOnly
<1>4. CASE ~UNCHANGED <<pRing, cinfo>>
  <2>1. /\ Plain(d)!Attached /\ ~(agreed # 0 /\ size # cinfo)
        /\ pRing' = Plain(d)!Resized(pRing, size) /\ cinfo' = pRing'.size
    BY <1>4 DEF Plain!SetCaps
  <2>2. cinfo = pRing.size BY <2>1 DEF PInv, Here
  <2>3. pRing' # pRing BY <1>4, <2>1, <2>2
  <2>4. ~d \/ agreed = 0 BY <2>1, <2>2, <2>3 DEF Plain!Resized
  <2>5. /\ pRing' \in PRing(d) /\ Later(pRing, pRing') /\ pRing'.pending = Plain(d)!NoFrame
        /\ held = Plain(d)!NoFrame
    BY <1>2, <2>1, <2>3, RingResized
  <2> QED BY <1>1, <1>2, <2>1, <2>4, <2>5, RingChanged
<1> QED BY <1>3, <1>4

(* The broker's channel is adopted by both ends. *)
LEMMA AdoptStep ==
  ASSUME NEW d \in BOOLEAN, PInv(d), Plain(d)!Adopt
  PROVE  PInv(d)'
<1> DEFINE n == Plain(d)!NewRing(1)
<1>1. /\ d /\ pSrc = "null" /\ starts < MaxStarts /\ starts' = starts + 1 /\ ch' = starts' /\ pSrc' = "adopted"
      /\ pRing' = Plain(d)!Renewed(n) /\ cinfo' = Plain(d)!Width /\ agreed' \in {0, pRing'.gen}
      /\ UNCHANGED <<pSink, vinfo, mayDial, stream, pts, unaccounted, held, pKnown, caps, last, pOut>>
  BY Zenon DEF Plain!Adopt
<1>2. n \in PRing(d) /\ n.gen = 1 /\ n.size = Plain(d)!Width
  BY PlainFacts, NoFrameIs DEF PRing, Plain!NewRing
<1>3. n.gen < MaxRing BY <1>1, <1>2, PlainFacts, Zenon
<1>4. /\ pRing' \in PRing(d) /\ Later(n, pRing') /\ pRing'.pending = Plain(d)!NoFrame
      /\ pRing'.size = Plain(d)!Width
  BY <1>1, <1>2, <1>3, RingRenewed, Zenon
<1> HIDE DEF n
<1>5. held = Plain(d)!NoFrame BY <1>1, Zenon DEF PInv, PTyped, Plain!TypeOK
<1>6. Plain(d)!TypeOK'
  <2>1. {held, last, pRing.pending}' \subseteq Plain(d)!Frame
    BY <1>1, <1>4, NoFrameIs, Zenon DEF PInv, PTyped, Plain!TypeOK
  <2>2. starts' \in 0..MaxStarts /\ ch' \in 0..starts'
    <3>1. starts \in 0..MaxStarts BY DEF PInv, PTyped, Plain!TypeOK
    <3>2. starts < MaxStarts /\ starts' = starts + 1 /\ ch' = starts' BY <1>1
    <3>3. starts \in Nat /\ starts' \in Nat BY <3>1, <3>2, PlainFacts
    <3> QED BY <3>2, <3>3, PlainFacts
  <2>3. agreed' \in 0..MaxRing
    <3>1. pRing'.gen \in 0..MaxRing BY <1>4 DEF PRing
    <3>2. agreed' = 0 \/ agreed' = pRing'.gen BY <1>1, Zenon
    <3> QED BY <3>1, <3>2, PlainFacts
  <2>4. pRing'.retired <= pRing'.seq BY <1>2, <1>4, PlainFacts DEF PRing, Later
  <2>5. cinfo' \in Sizes \union {0} BY <1>1, PlainFacts, Zenon
  <2>6. (held' # Plain(d)!NoFrame) = (pSrc' = "reading") BY <1>1, <1>5
  <2> QED BY <1>1, <2>1, <2>2, <2>3, <2>4, <2>5, <2>6, Zenon DEF PInv, PTyped, Plain!TypeOK
<1>7. PTyped(d)' BY <1>1, <1>4, <1>6, Zenon DEF PInv, PTyped
<1>8. Here(d)' BY <1>1, <1>4, <1>5, Zenon DEF Here, Written
<1>9. Sourced(d)' BY <1>1 DEF Sourced
<1>10. Told(d)'
  BY <1>1, Zenon DEF PInv, Told, Plain!Balanced, Plain!CapsDescribe, Plain!BreaksMarked, Plain!AgreementKept
<1> QED BY <1>7, <1>8, <1>9, <1>10 DEF PInv

(* A frame is submitted: it belongs to the ring as it is. *)
LEMMA PlainSubmits ==
  ASSUME NEW d \in BOOLEAN, PInv(d), NEW stamp \in {pts, pts + 1}, Plain(d)!RenderSubmit(stamp)
  PROVE  PInv(d)'
<1> DEFINE f == [seq |-> pRing.seq + 1, pts |-> stamp, stream |-> stream, ring |-> pRing.gen, size |-> cinfo]
<1>1. /\ Plain(d)!Attached /\ pRing.seq < MaxFrames /\ pts' = stamp
      /\ pRing' = [pRing EXCEPT !.seq = pRing.seq + 1, !.pending = f]
      /\ UNCHANGED <<pSink, ch, cinfo, vinfo, mayDial, stream, unaccounted, agreed, pSrc, starts, held, pKnown,
                     caps, last, pOut>>
  BY DEF Plain!RenderSubmit, Plain!srcVars
<1>2. /\ pRing \in PRing(d) /\ pRing.gen \in 0..MaxRing /\ pRing.seq \in 0..MaxFrames /\ pRing.retired \in 0..MaxFrames
      /\ pts \in Nat /\ stream \in 0..MaxStream
      /\ cinfo \in Sizes \union {0} /\ pRing.retired <= pRing.seq /\ {held, last} \subseteq Plain(d)!Frame
  BY DEF PInv, PTyped, Plain!TypeOK, PRing
<1>3. pRing.seq + 1 \in 0..MaxFrames /\ stamp \in Nat BY <1>1, <1>2, PlainFacts
<1>4. f \in Plain(d)!Frame BY <1>2, <1>3 DEF Plain!Frame
<1>5. f.ring = pRing.gen /\ f.size = cinfo /\ f.seq = pRing.seq + 1 OBVIOUS
<1> HIDE DEF f
<1>6. /\ pRing' \in PRing(d) /\ pRing'.gen = pRing.gen /\ pRing'.size = pRing.size
      /\ pRing'.seq = pRing.seq + 1 /\ pRing'.retired = pRing.retired /\ pRing'.pending = f
  BY <1>1, <1>2, <1>3, <1>4, Zenon DEF PRing
<1>7. Plain(d)!TypeOK'
  <2>1. {held, last, pRing.pending}' \subseteq Plain(d)!Frame BY <1>1, <1>2, <1>4, <1>6
  <2>2. pRing'.retired <= pRing'.seq BY <1>2, <1>6, PlainFacts
  <2>3. (held' # Plain(d)!NoFrame) = (pSrc' = "reading") BY <1>1 DEF PInv, PTyped, Plain!TypeOK
  <2> QED BY <1>1, <2>1, <2>2, <2>3 DEF PInv, PTyped, Plain!TypeOK
<1>8. PTyped(d)' BY <1>1, <1>3, <1>6, <1>7 DEF PInv, PTyped
<1>9. Here(d)'
  <2>1. cinfo = pRing.size BY <1>1 DEF PInv, Here
  <2>2. pRing.seq \in Nat /\ held.seq \in Nat BY <1>2, PlainFacts DEF Plain!Frame
  <2>3. f.ring = pRing'.gen /\ f.size = pRing'.size /\ f.seq <= pRing'.seq BY <1>5, <1>6, <2>1, <2>2
  <2>4. Written(d, held)' BY <1>1, <1>6, <2>2 DEF PInv, Here, Written
  <2> QED BY <1>1, <1>6, <2>1, <2>3, <2>4 DEF Here, Written
<1>10. Sourced(d)' BY <1>1, <1>6 DEF PInv, Sourced
<1>11. Told(d)'
  BY <1>1, <1>6 DEF PInv, Told, Plain!Balanced, Plain!CapsDescribe, Plain!BreaksMarked, Plain!AgreementKept,
    Plain!Attached, Plain!Open
<1> QED BY <1>8, <1>9, <1>10, <1>11 DEF PInv

(* The frame that was held is released: only the count of its images moves. *)
LEMMA Released ==
  ASSUME NEW d \in BOOLEAN, PInv(d), pSrc = "reading", pRing' = Plain(d)!Release
  PROVE  /\ held # Plain(d)!NoFrame /\ held.ring = pRing.gen /\ held.size = pRing.size
         /\ pRing' \in PRing(d) /\ pRing'.gen = pRing.gen /\ pRing'.size = pRing.size
         /\ pRing'.seq = pRing.seq /\ pRing'.pending = pRing.pending /\ pRing'.retired <= pRing'.seq
<1>1. held # Plain(d)!NoFrame /\ held \in Plain(d)!Frame /\ pRing \in PRing(d)
  BY DEF PInv, PTyped, Plain!TypeOK
<1>2. held.ring = pRing.gen /\ held.size = pRing.size /\ held.seq <= pRing.seq BY <1>1 DEF PInv, Here, Written
<1>3. held.seq \in 0..MaxFrames BY <1>1 DEF Plain!Frame
<1>4. pRing' = [pRing EXCEPT !.retired = held.seq] BY DEF Plain!Release
<1> QED BY <1>1, <1>2, <1>3, <1>4 DEF PRing

(* A read that ends without a push: the frame expired, or failed. *)
LEMMA DropSteps ==
  ASSUME NEW d \in BOOLEAN, PInv(d), Plain(d)!SrcExpire \/ Plain(d)!SrcReadFails
  PROVE  PInv(d)'
<1>1. /\ pSrc = "reading" /\ pSrc' \in {"running", "failed"} /\ held' = Plain(d)!NoFrame
      /\ pRing' = Plain(d)!Release
      /\ UNCHANGED <<pSink, ch, cinfo, vinfo, mayDial, stream, pts, unaccounted, agreed, starts, pKnown, caps,
                     last, pOut>>
  BY DEF Plain!SrcExpire, Plain!SrcReadFails, Plain!SrcFails, Plain!sinkVars
<1>2. /\ pRing' \in PRing(d) /\ pRing'.gen = pRing.gen /\ pRing'.size = pRing.size
      /\ pRing'.seq = pRing.seq /\ pRing'.pending = pRing.pending /\ pRing'.retired <= pRing'.seq
  BY <1>1, Released
<1>3. Plain(d)!TypeOK'
  <2>1. {held, last, pRing.pending}' \subseteq Plain(d)!Frame
    BY <1>1, <1>2, NoFrameIs DEF PInv, PTyped, Plain!TypeOK
  <2> QED BY <1>1, <1>2, <2>1 DEF PInv, PTyped, Plain!TypeOK
<1>4. PTyped(d)' BY <1>1, <1>2, <1>3 DEF PInv, PTyped
<1>5. Here(d)' BY <1>1, <1>2 DEF PInv, Here, Written, Plain!Attached, Plain!Open
<1>6. Sourced(d)' BY <1>1, <1>2 DEF PInv, Sourced
<1>7. Told(d)'
  BY <1>1, <1>2 DEF PInv, Told, Plain!Balanced, Plain!CapsDescribe, Plain!BreaksMarked, Plain!AgreementKept,
    Plain!Attached, Plain!Open
<1> QED BY <1>4, <1>5, <1>6, <1>7 DEF PInv

(* A frame is stamped and pushed with the caps of its ring. *)
LEMMA PushStep ==
  ASSUME NEW d \in BOOLEAN, PInv(d), Plain(d)!SrcPush(FALSE)
  PROVE  PInv(d)'
<1> DEFINE before == pOut[Len(pOut)]
           b == Plain(d)!Pushed(held, Plain(d)!Fresh(held), caps')
<1>1. /\ pSrc = "reading" /\ pSrc' = "running" /\ held' = Plain(d)!NoFrame /\ pRing' = Plain(d)!Release
      /\ pKnown' = pRing.gen /\ last' = held /\ pOut' = <<before, b>>
      /\ caps' = (IF pRing.gen # pKnown THEN pRing.size ELSE caps)
      /\ UNCHANGED <<pSink, ch, cinfo, vinfo, mayDial, stream, pts, unaccounted, agreed, starts>>
  BY DEF Plain!SrcPush, Plain!Renegotiated, Plain!sinkVars
<1>2. /\ held # Plain(d)!NoFrame /\ held.ring = pRing.gen /\ held.size = pRing.size
      /\ pRing' \in PRing(d) /\ pRing'.gen = pRing.gen /\ pRing'.size = pRing.size
      /\ pRing'.seq = pRing.seq /\ pRing'.pending = pRing.pending /\ pRing'.retired <= pRing'.seq
  BY <1>1, Released
<1>3. /\ pOut \in Seq(Pushed(d)) /\ Len(pOut) # 0 /\ Continues(d, before, last)
      /\ {held, last, pRing.pending} \subseteq Plain(d)!Frame /\ pRing \in PRing(d)
      /\ (last # Plain(d)!NoFrame => last.ring = pKnown) /\ (pKnown = pRing.gen => caps = pRing.size)
  BY <1>1 DEF PInv, PTyped, Plain!TypeOK, Sourced
<1>4. caps' = pRing.size /\ pRing.size \in Sizes \union {0} /\ pRing.gen \in 0..MaxRing
  BY <1>1, <1>3 DEF PRing
<1>5. before \in Pushed(d) BY <1>3
<1>6. Plain(d)!Fresh(held) \in BOOLEAN BY DEF Plain!Fresh
<1>7. /\ b \in Pushed(d) /\ b.frame = held /\ b.caps = caps' /\ b.discont = Plain(d)!Fresh(held)
      /\ b.lost = 0
  BY <1>3, <1>4, <1>6 DEF Pushed, Plain!Pushed
<1>8. before.caps = before.frame.size
  <2>1. Len(pOut) \in DOMAIN pOut BY <1>3
  <2> QED BY <2>1 DEF PInv, Told, Plain!CapsDescribe
<1> HIDE DEF before, b
<1>9. pOut' \in Seq(Pushed(d)) /\ Len(pOut') = 2 /\ pOut'[1] = before /\ pOut'[2] = b /\ DOMAIN pOut' = {1, 2}
  <2>1. 1..2 = {1, 2} OBVIOUS
  <2> QED BY <1>1, <1>5, <1>7, <2>1
<1>10. Plain(d)!TypeOK'
  <2>1. {held, last, pRing.pending}' \subseteq Plain(d)!Frame BY <1>1, <1>2, <1>3, NoFrameIs
  <2>2. caps' \in Sizes \union {0} /\ pKnown' \in 0..MaxRing BY <1>1, <1>4
  <2> QED BY <1>1, <1>2, <2>1, <2>2 DEF PInv, PTyped, Plain!TypeOK
<1>11. PTyped(d)' BY <1>1, <1>2, <1>9, <1>10 DEF PInv, PTyped
<1>12. Here(d)' BY <1>1, <1>2 DEF PInv, Here, Written, Plain!Attached, Plain!Open
<1>13. Sourced(d)'
  <2>1. Continues(d, b, held)
    <3>1. held.seq \in Nat /\ held.pts \in Nat BY <1>3, PlainFacts DEF Plain!Frame
    <3> QED BY <1>7, <3>1 DEF Continues
  <2>3. pOut'[Len(pOut')] = b /\ Len(pOut') # 0 BY <1>9
  <2>2. pKnown' <= pRing'.gen BY <1>1, <1>2, <1>4, PlainFacts
  <2> QED BY <1>1, <1>2, <1>4, <2>1, <2>2, <2>3 DEF Sourced
<1>14. Told(d)'
  <2>1. Plain(d)!CapsDescribe' BY <1>2, <1>4, <1>7, <1>8, <1>9 DEF Plain!CapsDescribe
  <2>2. Plain(d)!BreaksMarked'
    <3>1. SUFFICES ASSUME ~Plain(d)!Fresh(held), ~before.mark
                   PROVE  /\ before.frame.ring = held.ring /\ held.seq = before.frame.seq + before.lost + 1
                          /\ held.pts > before.frame.pts /\ (~d => before.frame.stream = held.stream)
      BY <1>7, <1>9 DEF Plain!BreaksMarked
    <3>2. /\ {held.pts, last.pts, before.frame.pts} \subseteq Nat
          /\ {held.seq, last.seq, before.frame.seq, before.lost} \subseteq Nat
      <4>1. {held, last, before.frame} \subseteq Plain(d)!Frame /\ before.lost \in Nat BY <1>3, <1>5 DEF Pushed
      <4>2. \A f \in Plain(d)!Frame : f.pts \in Nat /\ f.seq \in 0..MaxFrames BY DEF Plain!Frame
      <4> QED BY <4>1, <4>2, PlainFacts
    <3>3. /\ pRing.gen = pKnown /\ last # Plain(d)!NoFrame /\ ~(held.pts <= last.pts) /\ held.seq = last.seq + 1
          /\ ~d => held.stream = last.stream
      BY <3>1 DEF Plain!Fresh
    <3>4. /\ last.ring = before.frame.ring /\ last.seq = before.frame.seq + before.lost
          /\ last.pts >= before.frame.pts /\ (~d => last.stream = before.frame.stream)
      BY <1>3, <3>1 DEF Continues
    <3>5. held.seq = before.frame.seq + before.lost + 1 /\ held.pts > before.frame.pts BY <3>2, <3>3, <3>4
    <3> QED BY <1>2, <1>3, <3>3, <3>4, <3>5
  <2> QED BY <1>1, <1>2, <2>1, <2>2 DEF PInv, Told, Plain!Balanced, Plain!AgreementKept, Plain!Attached, Plain!Open
<1> QED BY <1>11, <1>12, <1>13, <1>14 DEF PInv

(* A frame is stamped and then discarded: what was pushed before it misses   *)
(* one more, and the mark if it had one.                                     *)
LEMMA DiscardStep ==
  ASSUME NEW d \in BOOLEAN, PInv(d), Plain(d)!SrcPush(TRUE)
  PROVE  PInv(d)'
<1> DEFINE n == Len(pOut)
           before == pOut[n]
           b == Plain(d)!Skipped(before)
<1>1. /\ pSrc = "reading" /\ pSrc' = "running" /\ held' = Plain(d)!NoFrame /\ pRing' = Plain(d)!Release
      /\ pKnown' = pRing.gen /\ last' = held /\ pOut' = [pOut EXCEPT ![n] = b]
      /\ caps' = (IF pRing.gen # pKnown THEN pRing.size ELSE caps)
      /\ UNCHANGED <<pSink, ch, cinfo, vinfo, mayDial, stream, pts, unaccounted, agreed, starts>>
  BY DEF Plain!SrcPush, Plain!Renegotiated, Plain!sinkVars
<1>2. /\ held # Plain(d)!NoFrame /\ held.ring = pRing.gen /\ held.size = pRing.size
      /\ pRing' \in PRing(d) /\ pRing'.gen = pRing.gen /\ pRing'.size = pRing.size
      /\ pRing'.seq = pRing.seq /\ pRing'.pending = pRing.pending /\ pRing'.retired <= pRing'.seq
  BY <1>1, Released
<1>3. /\ pOut \in Seq(Pushed(d)) /\ Len(pOut) # 0 /\ Len(pOut) <= 2 /\ Continues(d, before, last)
      /\ {held, last, pRing.pending} \subseteq Plain(d)!Frame /\ pRing \in PRing(d)
      /\ (last # Plain(d)!NoFrame => last.ring = pKnown) /\ (pKnown = pRing.gen => caps = pRing.size)
  BY <1>1 DEF PInv, PTyped, Plain!TypeOK, Sourced
<1>4. caps' = pRing.size /\ pRing.size \in Sizes \union {0} /\ pRing.gen \in 0..MaxRing
  BY <1>1, <1>3 DEF PRing
<1>5. before \in Pushed(d) /\ n \in DOMAIN pOut BY <1>3
<1>6. Plain(d)!Fresh(held) \in BOOLEAN BY DEF Plain!Fresh
<1>7. /\ b.frame = before.frame /\ b.caps = before.caps /\ b.discont = before.discont
      /\ b.lost = before.lost + 1 /\ b.mark = (before.mark \/ Plain(d)!Fresh(held))
  BY <1>5 DEF Pushed, Plain!Skipped
<1>8. b \in Pushed(d)
  <2>1. before.lost + 1 \in Nat /\ (before.mark \/ Plain(d)!Fresh(held)) \in BOOLEAN BY <1>5, <1>6 DEF Pushed
  <2>2. b = [before EXCEPT !.lost = before.lost + 1, !.mark = before.mark \/ Plain(d)!Fresh(held)]
    BY DEF Plain!Skipped
  <2> HIDE DEF before, b
  <2> QED BY <1>5, <2>1, <2>2, Zenon DEF Pushed
<1> HIDE DEF before, b
<1>9. /\ pOut' \in Seq(Pushed(d)) /\ Len(pOut') = n /\ DOMAIN pOut' = DOMAIN pOut
      /\ pOut'[n] = b /\ \A i \in DOMAIN pOut : i # n => pOut'[i] = pOut[i]
  BY <1>1, <1>3, <1>5, <1>8
<1>10. Plain(d)!TypeOK'
  <2>1. {held, last, pRing.pending}' \subseteq Plain(d)!Frame BY <1>1, <1>2, <1>3, NoFrameIs
  <2>2. caps' \in Sizes \union {0} /\ pKnown' \in 0..MaxRing BY <1>1, <1>4
  <2> QED BY <1>1, <1>2, <2>1, <2>2 DEF PInv, PTyped, Plain!TypeOK
<1>11. PTyped(d)' BY <1>1, <1>2, <1>3, <1>9, <1>10 DEF PInv, PTyped
<1>12. Here(d)' BY <1>1, <1>2 DEF PInv, Here, Written, Plain!Attached, Plain!Open
<1>13. Sourced(d)'
  <2>1. Continues(d, b, held)
    <3>1. SUFFICES ASSUME ~before.mark, ~Plain(d)!Fresh(held)
                   PROVE  /\ held.ring = before.frame.ring /\ held.seq = before.frame.seq + (before.lost + 1)
                          /\ held.pts >= before.frame.pts /\ (~d => held.stream = before.frame.stream)
      BY <1>7, <1>6 DEF Continues
    <3>2. /\ {held.pts, last.pts, before.frame.pts} \subseteq Nat
          /\ {held.seq, last.seq, before.frame.seq, before.lost} \subseteq Nat
      <4>1. {held, last, before.frame} \subseteq Plain(d)!Frame /\ before.lost \in Nat BY <1>3, <1>5 DEF Pushed
      <4>2. \A f \in Plain(d)!Frame : f.pts \in Nat /\ f.seq \in 0..MaxFrames BY DEF Plain!Frame
      <4> QED BY <4>1, <4>2, PlainFacts
    <3>3. /\ pRing.gen = pKnown /\ last # Plain(d)!NoFrame /\ ~(held.pts <= last.pts) /\ held.seq = last.seq + 1
          /\ ~d => held.stream = last.stream
      BY <3>1 DEF Plain!Fresh
    <3>4. /\ last.ring = before.frame.ring /\ last.seq = before.frame.seq + before.lost
          /\ last.pts >= before.frame.pts /\ (~d => last.stream = before.frame.stream)
      BY <1>3, <3>1 DEF Continues
    <3>5. held.seq = before.frame.seq + (before.lost + 1) /\ held.pts >= before.frame.pts BY <3>2, <3>3, <3>4
    <3> QED BY <1>2, <1>3, <3>3, <3>4, <3>5
  <2>2. pKnown' <= pRing'.gen BY <1>1, <1>2, <1>4, PlainFacts
  <2>3. pOut'[Len(pOut')] = b /\ Len(pOut') # 0 BY <1>3, <1>9
  <2> QED BY <1>1, <1>2, <1>4, <2>1, <2>2, <2>3 DEF Sourced
<1>14. Told(d)'
  <2>1. Plain(d)!CapsDescribe'
    <3>1. \A i \in DOMAIN pOut : pOut[i].caps = pOut[i].frame.size BY DEF PInv, Told, Plain!CapsDescribe
    <3>2. b.caps = b.frame.size BY <1>5, <1>7, <3>1 DEF before
    <3> QED BY <1>5, <1>9, <3>1, <3>2 DEF Plain!CapsDescribe
  <2>2. Plain(d)!BreaksMarked'
    <3>1. SUFFICES ASSUME n = 2 PROVE Plain(d)!BreaksMarked'
      BY <1>9 DEF Plain!BreaksMarked
    <3>2. 1 \in DOMAIN pOut BY <1>3, <3>1
    <3>3. pOut'[1] = pOut[1] /\ pOut'[2].frame = pOut[2].frame /\ pOut'[2].discont = pOut[2].discont
      BY <1>7, <1>9, <3>1, <3>2 DEF before
    <3> QED BY <1>9, <3>1, <3>3 DEF PInv, Told, Plain!BreaksMarked
  <2> QED BY <1>1, <1>2, <2>1, <2>2 DEF PInv, Told, Plain!Balanced, Plain!AgreementKept, Plain!Attached, Plain!Open
<1> QED BY <1>11, <1>12, <1>13, <1>14 DEF PInv

(* The source takes the frame of its ring, or sees that its producer left. *)
LEMMA AcquireSteps ==
  ASSUME NEW d \in BOOLEAN, PInv(d), Plain(d)!SrcAcquire \/ Plain(d)!SrcLost
  PROVE  PInv(d)'
<1>1. CASE Plain(d)!SrcAcquire
  <2>1. /\ pSrc = "running" /\ pSrc' = "reading" /\ held' = pRing.pending /\ pRing.pending # Plain(d)!NoFrame
        /\ pRing' = [pRing EXCEPT !.pending = Plain(d)!NoFrame]
        /\ UNCHANGED <<pSink, ch, cinfo, vinfo, mayDial, stream, pts, unaccounted, agreed, starts, pKnown, caps,
                       last, pOut>>
    BY <1>1 DEF Plain!SrcAcquire, Plain!sinkVars
  <2>2. pRing \in PRing(d) /\ {held, last, pRing.pending} \subseteq Plain(d)!Frame /\ pRing.retired <= pRing.seq
    BY DEF PInv, PTyped, Plain!TypeOK
  <2>3. /\ pRing' \in PRing(d) /\ pRing'.gen = pRing.gen /\ pRing'.size = pRing.size
        /\ pRing'.seq = pRing.seq /\ pRing'.retired = pRing.retired /\ pRing'.pending = Plain(d)!NoFrame
    BY <2>1, <2>2, NoFrameIs DEF PRing
  <2>4. Plain(d)!TypeOK'
    <3>1. {held, last, pRing.pending}' \subseteq Plain(d)!Frame BY <2>1, <2>2, <2>3, NoFrameIs
    <3> QED BY <2>1, <2>2, <2>3, <3>1 DEF PInv, PTyped, Plain!TypeOK
  <2>5. PTyped(d)' BY <2>1, <2>3, <2>4 DEF PInv, PTyped
  <2>6. Here(d)' BY <2>1, <2>3 DEF PInv, Here, Written, Plain!Attached, Plain!Open
  <2>7. Sourced(d)' BY <2>1, <2>3 DEF PInv, Sourced
  <2>8. Told(d)'
    BY <2>1, <2>3 DEF PInv, Told, Plain!Balanced, Plain!CapsDescribe, Plain!BreaksMarked, Plain!AgreementKept,
      Plain!Attached, Plain!Open
  <2> QED BY <2>5, <2>6, <2>7, <2>8 DEF PInv
<1>2. CASE Plain(d)!SrcLost
  <2>1. /\ pSrc = "running" /\ pSrc' = "failed"
        /\ UNCHANGED <<pSink, ch, cinfo, vinfo, mayDial, stream, pts, unaccounted, agreed, starts, held, pKnown,
                       caps, last, pOut, pRing>>
    BY <1>2 DEF Plain!SrcLost, Plain!SrcFails, Plain!sinkVars
  <2>2. PTyped(d)' BY <2>1 DEF PInv, PTyped, Plain!TypeOK
  <2>3. Here(d)' BY <2>1 DEF PInv, Here, Written, Plain!Attached, Plain!Open
  <2>4. Sourced(d)' BY <2>1 DEF Sourced
  <2>5. Told(d)'
    BY <2>1 DEF PInv, Told, Plain!Balanced, Plain!CapsDescribe, Plain!BreaksMarked, Plain!AgreementKept,
      Plain!Attached, Plain!Open
  <2> QED BY <2>2, <2>3, <2>4, <2>5 DEF PInv
<1> QED BY <1>1, <1>2

(* The source starts, on a ring of its own or the one it adopted, and stops. *)
LEMMA StartStep ==
  ASSUME NEW d \in BOOLEAN, PInv(d), Plain(d)!SrcStart
  PROVE  PInv(d)'
<1> DEFINE n == Plain(d)!NewRing(1)
           b == Plain(d)!Pushed(Plain(d)!NoFrame, TRUE, 0)
<1>1. /\ pSrc' = "running" /\ pKnown' = pRing'.gen /\ caps' = pRing'.size /\ last' = Plain(d)!NoFrame
      /\ pOut' = <<b>> /\ pSrc \in {"null", "adopted"}
      /\ UNCHANGED <<pSink, ch, cinfo, vinfo, mayDial, stream, pts, unaccounted, agreed, held>>
      /\ \/ d /\ pSrc = "adopted" /\ UNCHANGED <<starts, pRing>>
         \/ ~d /\ starts < MaxStarts /\ starts' = starts + 1 /\ pRing' = n
  BY DEF Plain!SrcStart, Plain!sinkVars
<1>2. /\ pRing \in PRing(d) /\ held = Plain(d)!NoFrame /\ starts \in 0..MaxStarts /\ ch \in 0..starts
      /\ pRing.retired <= pRing.seq
  BY <1>1 DEF PInv, PTyped, Plain!TypeOK
<1>3. /\ n \in PRing(d) /\ n.retired <= n.seq /\ n.pending = Plain(d)!NoFrame
  BY PlainFacts, NoFrameIs DEF PRing, Plain!NewRing
<1>4. b \in Pushed(d) /\ b.frame = Plain(d)!NoFrame /\ b.caps = 0 /\ b.lost = 0
  BY NoFrameIs DEF Pushed, Plain!Pushed
<1> HIDE DEF n, b
<1>5. pOut' \in Seq(Pushed(d)) /\ Len(pOut') = 1 /\ pOut'[1] = b /\ DOMAIN pOut' = {1}
  <2>1. 1..1 = {1} OBVIOUS
  <2> QED BY <1>1, <1>4, <2>1
<1>6. pRing' \in PRing(d) /\ pRing'.retired <= pRing'.seq /\ starts' \in 0..MaxStarts /\ ch' \in 0..starts'
  <2>1. CASE d BY <1>1, <1>2, <2>1, Zenon
  <2>2. CASE ~d
    <3>1. pRing' = n /\ starts < MaxStarts /\ starts' = starts + 1 /\ ch' = ch BY <1>1, <2>2
    <3>2. starts \in Nat /\ ch \in Nat /\ ch <= starts BY <1>2, PlainFacts
    <3>3. starts + 1 \in 0..MaxStarts /\ ch \in 0..(starts + 1) BY <3>1, <3>2, PlainFacts
    <3> QED BY <1>3, <3>1, <3>3
  <2> QED BY <2>1, <2>2
<1>7. pRing'.gen \in 0..MaxRing /\ pRing'.size \in Sizes \union {0} /\ pRing'.pending \in Plain(d)!Frame
  BY <1>6 DEF PRing
<1>8. Plain(d)!TypeOK'
  <2>1. {held, last, pRing.pending}' \subseteq Plain(d)!Frame BY <1>1, <1>2, <1>7, NoFrameIs
  <2> QED BY <1>1, <1>2, <1>6, <1>7, <2>1 DEF PInv, PTyped, Plain!TypeOK
<1>9. PTyped(d)' BY <1>1, <1>5, <1>6, <1>8 DEF PInv, PTyped
<1>10. Here(d)'
  <2>1. CASE d BY <1>1, <1>2, <2>1, Zenon DEF PInv, Here, Written, Plain!Attached, Plain!Open
  <2>2. CASE ~d
    <3>1. ~Plain(d)!Attached'
      <4>1. ch' = ch /\ starts' = starts + 1 BY <1>1, <2>2
      <4>2. ch # starts + 1
        <5>1. starts \in Nat /\ ch \in Nat /\ ch <= starts BY <1>2, PlainFacts
        <5> QED BY <5>1
      <4> QED BY <4>1, <4>2 DEF Plain!Attached
    <3> QED BY <1>1, <1>2, <1>3, <2>2, <3>1 DEF Here, Written
  <2> QED BY <2>1, <2>2
<1>11. Sourced(d)'
  <2>1. pKnown' <= pRing'.gen BY <1>1, <1>7, PlainFacts
  <2>2. pOut'[Len(pOut')] = b /\ Len(pOut') # 0 BY <1>5
  <2>3. Continues(d, b, Plain(d)!NoFrame) BY <1>4, NoFrameIs DEF Continues
  <2> QED BY <1>1, <2>1, <2>2, <2>3 DEF Sourced
<1>12. Told(d)'
  <2>1. Plain(d)!CapsDescribe' BY <1>4, <1>5, NoFrameIs DEF Plain!CapsDescribe
  <2>2. Plain(d)!BreaksMarked'
    <3>1. Len(pOut') # 2 BY <1>5
    <3> QED BY <3>1, Zenon DEF Plain!BreaksMarked
  <2> QED BY <1>1, <2>1, <2>2 DEF PInv, Told, Plain!Balanced, Plain!AgreementKept, Plain!Attached, Plain!Open
<1> QED BY <1>9, <1>10, <1>11, <1>12 DEF PInv

LEMMA SourceStops ==
  ASSUME NEW d \in BOOLEAN, PInv(d), Plain(d)!SrcStop
  PROVE  PInv(d)'
<1>1. /\ pSrc \in {"running", "failed"} /\ pSrc' = "null" /\ pRing' = Plain(d)!NoRing
      /\ UNCHANGED <<pSink, ch, cinfo, vinfo, mayDial, stream, pts, unaccounted, agreed, starts, held, pKnown, caps,
                     last, pOut>>
  BY DEF Plain!SrcStop, Plain!sinkVars
<1>2. /\ pRing' \in PRing(d) /\ pRing'.retired <= pRing'.seq /\ pRing'.pending = Plain(d)!NoFrame
  BY <1>1, PlainFacts, NoFrameIs DEF PRing, Plain!NoRing
<1>3. held = Plain(d)!NoFrame BY <1>1 DEF PInv, PTyped, Plain!TypeOK
<1>4. Plain(d)!TypeOK'
  <2>1. {held, last, pRing.pending}' \subseteq Plain(d)!Frame
    BY <1>1, <1>2, NoFrameIs DEF PInv, PTyped, Plain!TypeOK
  <2> QED BY <1>1, <1>2, <1>3, <2>1 DEF PInv, PTyped, Plain!TypeOK
<1>5. PTyped(d)' BY <1>1, <1>2, <1>4 DEF PInv, PTyped
<1>6. Here(d)' BY <1>1, <1>2, <1>3 DEF Here, Written, Plain!Attached, Plain!Open
<1>7. Sourced(d)' BY <1>1 DEF Sourced
<1>8. Told(d)'
  BY <1>1 DEF PInv, Told, Plain!Balanced, Plain!CapsDescribe, Plain!BreaksMarked, Plain!AgreementKept,
    Plain!Attached, Plain!Open
<1> QED BY <1>5, <1>6, <1>7, <1>8 DEF PInv

(* The elements before anything happens. *)
LEMMA PlainStarts ==
  ASSUME NEW d \in BOOLEAN, Plain(d)!Init
  PROVE  PInv(d)
<1>1. pRing \in PRing(d) /\ pRing.retired <= pRing.seq /\ pRing.pending = Plain(d)!NoFrame
  BY PlainFacts, NoFrameIs DEF Plain!Init, Plain!NoRing, PRing
<1>2. pOut \in Seq(Pushed(d)) /\ Len(pOut) = 0 /\ DOMAIN pOut = {}
  <2>1. pOut = <<>> BY DEF Plain!Init
  <2> QED BY <2>1
<1>3. Plain(d)!TypeOK BY <1>1, PlainFacts, NoFrameIs DEF Plain!Init, Plain!TypeOK
<1>4. PTyped(d) BY <1>1, <1>2, <1>3 DEF PTyped, Plain!Init
<1>5. Here(d) /\ Sourced(d) BY <1>1 DEF Plain!Init, Here, Written, Sourced, Plain!Attached
<1>6. Told(d)
  BY <1>2 DEF Plain!Init, Told, Plain!Balanced, Plain!CapsDescribe, Plain!BreaksMarked, Plain!AgreementKept
<1> QED BY <1>4, <1>5, <1>6 DEF PInv

(* Every step of the elements keeps the invariant. *)
LEMMA PlainSteps ==
  ASSUME NEW d \in BOOLEAN, PInv(d), Plain(d)!Next
  PROVE  PInv(d)'
<1>1. CASE Plain(d)!Render
  <2>1. CASE \E stamp \in {pts, pts + 1} : Plain(d)!RenderSubmit(stamp) BY <2>1, PlainSubmits
  <2>2. CASE Plain(d)!RenderDials BY <2>2, DialSteps
  <2> QED BY <1>1, <2>1, <2>2, SinkSteps DEF Plain!Render
<1>2. CASE \E size \in Sizes : Plain(d)!SetCaps(size) BY <1>2, CapsSteps
<1>3. CASE Plain(d)!Source BY <1>3, AcquireSteps, PushStep, Zenon DEF Plain!Source
<1>4. CASE \/ Plain(d)!Second \/ Plain(d)!SinkStart \/ Plain(d)!ConnectDeadline \/ Plain(d)!SinkStop
           \/ Plain(d)!StreamStart \/ Plain(d)!Eos
  BY <1>4, SinkSteps
<1>5. CASE Plain(d)!Adopt BY <1>5, AdoptStep
<1>6. CASE Plain(d)!Connect BY <1>6, DialSteps
<1>7. CASE Plain(d)!SrcStart \/ Plain(d)!SrcStop BY <1>7, StartStep, SourceStops
<1>8. CASE Plain(d)!SrcExpire \/ Plain(d)!SrcReadFails BY <1>8, DropSteps
<1>9. CASE Plain(d)!SrcPush(TRUE) BY <1>9, DiscardStep
<1> QED BY <1>1, <1>2, <1>3, <1>4, <1>5, <1>6, <1>7, <1>8, <1>9 DEF Plain!Next

(* An adopted channel that is gone is not dialled again. *)
LEMMA NotDialled ==
  ASSUME PInv(TRUE), Plain(TRUE)!Next
  PROVE  Plain(TRUE)!NoRedial
<1> SUFFICES ASSUME ch = 0, ch' # 0 PROVE Plain(TRUE)!Adopt
  BY DEF Plain!NoRedial, Plain!Adopt
<1>1. ~Plain(TRUE)!DialOk /\ ~Plain(TRUE)!DialFails BY DEF Plain!DialOk, Plain!DialFails
<1>2. ~Plain(TRUE)!Render
  BY <1>1, Zenon DEF Plain!Render, Plain!RenderPolicy, Plain!RenderNoCaps, Plain!RenderNoConsumer, Plain!RenderDials,
    Plain!RenderMismatch, Plain!RenderFull, Plain!RenderLost, Plain!RenderFails, Plain!RenderPitch,
    Plain!RenderSubmitFails, Plain!RenderSubmit, Plain!Disconnect
<1>3. ~Plain(TRUE)!Source /\ ~Plain(TRUE)!SrcPush(TRUE)
  BY Zenon DEF Plain!Source, Plain!SrcAcquire, Plain!SrcLost, Plain!SrcPush, Plain!sinkVars
<1>4. /\ ~Plain(TRUE)!SrcStart /\ ~Plain(TRUE)!SrcStop /\ ~Plain(TRUE)!SrcExpire /\ ~Plain(TRUE)!SrcReadFails
  BY Zenon DEF Plain!SrcStart, Plain!SrcStop, Plain!SrcExpire, Plain!SrcReadFails, Plain!sinkVars
<1>5. /\ ~Plain(TRUE)!Second /\ ~Plain(TRUE)!SinkStart /\ ~Plain(TRUE)!ConnectDeadline /\ ~Plain(TRUE)!SinkStop
      /\ ~Plain(TRUE)!StreamStart /\ ~Plain(TRUE)!Eos
  BY Zenon DEF Plain!Second, Plain!SinkStart, Plain!ConnectDeadline, Plain!SinkStop, Plain!StreamStart, Plain!Eos,
    Plain!Disconnect
<1>6. ~(\E size \in Sizes : Plain(TRUE)!SetCaps(size)) BY Zenon DEF Plain!SetCaps
<1>7. ~Plain(TRUE)!Connect BY <1>1, Zenon DEF Plain!Connect
<1> QED BY <1>2, <1>3, <1>4, <1>5, <1>6, <1>7, Zenon DEF Plain!Next

(* What holds of the elements that run. *)
PlainInv == (part = "plain" => PInv(FALSE)) /\ (part = "leased" => PInv(TRUE))

(* PlainSound for any ring, geometries, frames, starts and streams: whatever *)
(* the producers and the consumer do, a frame pushed goes with caps that     *)
(* describe it, a break is marked but for frames a pause discarded after     *)
(* create(), every frame is counted once but for one that fails a Windows    *)
(* sink, and a lease is neither replaced nor dialled again                   *)
(* (gstframelink.cpp).                                                       *)
THEOREM PlainElements == MCSpec => PlainSound
<1>1. MCInit => PlainInv
  <2>1. ASSUME MCInit PROVE PlainInv BY <2>1, PlainStarts, Zenon DEF MCInit, PlainInv
  <2> QED BY <2>1
<1>2. PlainInv /\ [MCNext]_mcvars => PlainInv' /\ (part = "leased" => [Plain(TRUE)!NoRedial]_plain)
  <2> SUFFICES ASSUME PlainInv, [MCNext]_mcvars
               PROVE  PlainInv' /\ (part = "leased" => [Plain(TRUE)!NoRedial]_plain)
    BY Zenon
  <2>1. CASE UNCHANGED <<plain, part>>
    <3>1. \A d \in BOOLEAN : PInv(d)' = PInv(d)
      BY <2>1 DEF plain, PInv, PTyped, Plain!TypeOK, Here, Written, Sourced, Told, Plain!Balanced, Plain!CapsDescribe,
        Plain!BreaksMarked, Plain!AgreementKept, Plain!Attached, Plain!Open
    <3> QED BY <2>1, <3>1, Zenon DEF PlainInv
  <2>2. CASE part = "plain" /\ Plain(FALSE)!Next /\ UNCHANGED part
    BY <2>2, PlainSteps, Zenon DEF PlainInv
  <2>3. CASE part = "leased" /\ Plain(TRUE)!Next /\ UNCHANGED part
    BY <2>3, PlainSteps, NotDialled, Zenon DEF PlainInv
  <2> QED BY <2>1, <2>2, <2>3, Zenon DEF MCNext, mcvars
<1>3. PlainInv =>
        /\ part = "plain"  => /\ Plain(FALSE)!TypeOK /\ Plain(FALSE)!Balanced
                              /\ Plain(FALSE)!CapsDescribe /\ Plain(FALSE)!BreaksMarked
        /\ part = "leased" => /\ Plain(TRUE)!TypeOK /\ Plain(TRUE)!Balanced
                              /\ Plain(TRUE)!AgreementKept
  BY Zenon DEF PlainInv, PInv, PTyped, Told
<1>4. (part = "leased" => [Plain(TRUE)!NoRedial]_plain) <=> [part = "leased" => Plain(TRUE)!NoRedial]_plain
  BY Zenon
<1> QED BY <1>1, <1>2, <1>3, <1>4, PTL DEF MCSpec, PlainSound

=============================================================================
