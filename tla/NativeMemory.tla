---------------------------- MODULE NativeMemory ----------------------------
(***************************************************************************)
(* native-memory=true: upstream and downstream elements hold the images of *)
(* the ring themselves, wrapped as GstMemory.                              *)
(*                                                                         *)
(* The sink hands out writable images as reservations                      *)
(* (src/gst/fl_gst_{dmabuf,ahb,d3d11}_producer.hpp), directly or through a *)
(* buffer pool (fl_gst_native_pool.hpp); the source wraps each frame with  *)
(* a read lease (src/gst/gstframelink.cpp:984-1277).  Memory is freed on   *)
(* any thread, before or after its element stopped, and whoever lets go    *)
(* last closes that end of the channel.                                    *)
(*                                                                         *)
(* The ring is PosixChannel's, reduced to which frame each slot carries;   *)
(* layouts and descriptors are left out, wrapping succeeds or fails.       *)
(***************************************************************************)
EXTENDS Naturals, Sequences, FiniteSets

CONSTANTS
  Slots,        \* images of the ring
  Mems,         \* writable memories the producer's side can hold
  Fenced,       \* POSIX: a ready fence must be set before submission
  Faults,       \* may wrapping and submitting fail?
  MaxSubmits    \* bound: frames published

NativeAssumption ==
  /\ Slots # {} /\ Mems # {} /\ {Fenced, Faults} \subseteq BOOLEAN /\ MaxSubmits \in Nat

VARIABLES
  active,     \* NativeSinkProducer::active: the sink has not stopped
  pool,       \* does a buffer pool hold the producer?
  waiting,    \* who is in acquire(): "signal", "pool" or "none"
  checked,    \* has it seen `active' and kept the mutex since?
  late,       \* history: images handed out after the sink stopped
  res,        \* res[m]: the reservation memory m carries, or Free
  sub,        \* sub[s]: slotSubmitValue, Reserved while a reservation writes it
  submits,    \* readyValue: frames published
  consumed,   \* highest value the producer was told it may reuse
  pOpen,      \* the producer's end of the channel
  pending,    \* value of the newest frame not read, 0: none
  leases,     \* leased frames in order: value, and is the reader done?
  source,     \* is framelinksrc running?
  cOpen,      \* the consumer's end
  closes      \* how often each end was closed

producer == <<active, pool, waiting, checked, late, res, sub, submits>>
consumer == <<pending, leases, source>>
ends     == <<pOpen, cOpen, closes>>
vars     == <<producer, consumer, consumed, ends>>

Reserved == MaxSubmits + 1
Free     == [state |-> "free"]

Init ==
  /\ active = TRUE /\ pool = FALSE /\ waiting = "none" /\ checked = FALSE /\ late = 0 /\ res = [m \in Mems |-> Free]
  /\ sub = [s \in Slots |-> 0] /\ submits = 0 /\ consumed = 0 /\ pOpen = TRUE
  /\ pending = 0 /\ leases = <<>> /\ source = TRUE /\ cOpen = TRUE
  /\ closes = [producer |-> 0, consumer |-> 0]

Live == {m \in Mems : res[m] # Free}

(* bufferReferences.busy: a live memory, published or not, refers to s. *)
Busy(s) == \E m \in Live : res[m].slot = s

(* flAcquireBuffer: the consumer promised not to read the slot again, and    *)
(* no memory of this process refers to it.                                   *)
Usable(s) == sub[s] <= consumed /\ ~Busy(s)

(* The producer object is shared by the sink, its pools and every memory;    *)
(* the last of them closes the channel.                                      *)
Held(a, p, r) == a \/ p \/ \E m \in Mems : r[m] # Free

LastOwner(a, p, r) ==
  /\ pOpen' = (pOpen /\ Held(a, p, r)) /\ UNCHANGED cOpen
  /\ closes' = [closes EXCEPT !.producer = IF ~Held(a, p, r) THEN @ + 1 ELSE @]

-----------------------------------------------------------------------------
(* Reserving an image. *)

(* The ALLOCATION query of an upstream that accepts the completion contract. *)
ProposeAllocation ==
  /\ active /\ ~pool /\ pool' = TRUE
  /\ UNCHANGED <<active, waiting, checked, late, res, sub, submits, consumer, consumed, ends>>

(* The action signal, or the pool while it is not flushing: lock, and look   *)
(* whether the sink has stopped.                                             *)
AcquireBegin(who) ==
  /\ active /\ waiting = "none" /\ (who = "pool" => pool)
  /\ waiting' = who /\ checked' = TRUE
  /\ UNCHANGED <<active, pool, late, res, sub, submits, consumer, consumed, ends>>

(* No slot yet: unlock and sleep; lock and look at `active' again. *)
AcquireSleep ==
  /\ checked /\ active /\ cOpen /\ (\A s \in Slots : ~Usable(s)) /\ checked' = FALSE
  /\ UNCHANGED <<active, pool, waiting, late, res, sub, submits, consumer, consumed, ends>>

AcquireRetry ==
  /\ waiting # "none" /\ ~checked /\ active /\ checked' = TRUE
  /\ UNCHANGED <<active, pool, waiting, late, res, sub, submits, consumer, consumed, ends>>

(* An attempt succeeds: reserve the slot, refer to it and wrap it, all under *)
(* the mutex.  The sink may have stopped since the check: it clears `active' *)
(* without the mutex.                                                        *)
AcquireTake(m, s) ==
  /\ checked /\ cOpen /\ res[m] = Free /\ Usable(s)
  /\ res' = [res EXCEPT ![m] = [state |-> "writable", slot |-> s, ready |-> FALSE]]
  /\ sub' = [sub EXCEPT ![s] = Reserved] /\ waiting' = "none" /\ checked' = FALSE
  /\ late' = IF active THEN late ELSE late + 1
  /\ UNCHANGED <<active, pool, submits, consumer, consumed, ends>>

(* The layout is not supported or the wrapping fails: the reservation is     *)
(* cancelled, the caller gets nothing.                                       *)
AcquireWrapFails(s) ==
  /\ Faults /\ checked /\ cOpen /\ Usable(s)
  /\ waiting' = "none" /\ checked' = FALSE /\ sub' = [sub EXCEPT ![s] = 0]
  /\ UNCHANGED <<active, pool, late, res, submits, consumer, consumed, ends>>

(* The last attempt, after the deadline, finds no usable slot, the peer is   *)
(* gone, or the sink stopped while the mutex was released.                   *)
AcquireGivesUp ==
  /\ waiting # "none" /\ ((~active /\ ~checked) \/ ~cOpen \/ (\A s \in Slots : ~Usable(s)) \/ Live = Mems)
  /\ waiting' = "none" /\ checked' = FALSE
  /\ UNCHANGED <<active, pool, late, res, sub, submits, consumer, consumed, ends>>

-----------------------------------------------------------------------------
(* Publishing. *)

(* set-native-ready-fd, once per reservation, under the mutex. *)
SetReady(m) ==
  /\ Fenced /\ ~checked /\ active /\ res[m] # Free /\ res[m].state = "writable" /\ ~res[m].ready
  /\ res' = [res EXCEPT ![m].ready = TRUE]
  /\ UNCHANGED <<active, pool, waiting, checked, late, sub, submits, consumer, consumed, ends>>

(* The memory is this producer's own, whole, not published before, and its   *)
(* fence is known.                                                           *)
Accepts(m) == active /\ res[m] # Free /\ res[m].state = "writable" /\ (Fenced => res[m].ready)

(* render: the frame is published in place, under the mutex; the memory      *)
(* stays, read only.                                                         *)
Submit(m) ==
  /\ ~checked /\ Accepts(m) /\ cOpen /\ submits < MaxSubmits
  /\ submits' = submits + 1 /\ sub' = [sub EXCEPT ![res[m].slot] = submits']
  /\ res' = [res EXCEPT ![m].state = "published"]
  /\ pending' = submits'
  /\ UNCHANGED <<active, pool, waiting, checked, late, leases, source, consumed, ends>>

-----------------------------------------------------------------------------
(* Letting go of writable memory, on any thread. *)

(* ~Reservation, first half: what was not published is cancelled, under the  *)
(* mutex.  The slot is still referred to.                                    *)
MemCancel(m) ==
  /\ res[m] # Free /\ (res[m].state = "published" \/ (res[m].state = "writable" /\ ~checked))
  /\ sub' = IF res[m].state = "writable" THEN [sub EXCEPT ![res[m].slot] = 0] ELSE sub
  /\ res' = [res EXCEPT ![m].state = "cancelled"]
  /\ UNCHANGED <<active, pool, waiting, checked, late, submits, consumer, consumed, ends>>

(* Second half: the reference is released, then the producer object. *)
MemFree(m) ==
  /\ res[m] # Free /\ res[m].state = "cancelled"
  /\ res' = [res EXCEPT ![m] = Free] /\ LastOwner(active, pool, res')
  /\ UNCHANGED <<active, pool, waiting, checked, late, sub, submits, consumer, consumed>>

(* The application stops calling the signal before it stops the sink, as the *)
(* signal asks of it; pools may be waited on.                                *)
SinkStop ==
  /\ active /\ waiting # "signal" /\ active' = FALSE /\ LastOwner(FALSE, pool, res)
  /\ UNCHANGED <<pool, waiting, checked, late, res, sub, submits, consumer, consumed>>

PoolFinalize ==
  /\ pool /\ waiting # "pool" /\ pool' = FALSE /\ LastOwner(active, FALSE, res)
  /\ UNCHANGED <<active, waiting, checked, late, res, sub, submits, consumer, consumed>>

-----------------------------------------------------------------------------
(* The source: each frame is leased and wrapped; the memory completes the    *)
(* lease when it is freed, and leases retire in order.                       *)

SrcCreate ==
  /\ source /\ pending # 0
  /\ leases' = Append(leases, [value |-> pending, done |-> FALSE]) /\ pending' = 0
  /\ UNCHANGED <<producer, source, consumed, ends>>

Unread(ls) == {i \in DOMAIN ls : ~ls[i].done}

(* Leases at the head whose readers are done. *)
Retired(ls) == CHOOSE n \in 0..Len(ls) : (\A i \in 1..n : ls[i].done) /\ (n < Len(ls) => ~ls[n + 1].done)

(* Mutant: the newest finished frame is acknowledged, not the prefix. *)
BugCollect(ls) ==
  LET n == Retired(ls)
      done == {ls[i].value : i \in DOMAIN ls \ Unread(ls)} \union {consumed}
  IN  /\ leases' = SubSeq(ls, n + 1, Len(ls))
      /\ consumed' = CHOOSE v \in done : \A w \in done : v >= w

(* flCollectReadLeases: tell the producer, then drop what is retired. *)
Collect(ls) ==
  LET n == Retired(ls)
  IN  /\ leases' = SubSeq(ls, n + 1, Len(ls))
      /\ consumed' = IF n = 0 THEN consumed ELSE ls[n].value

(* ~NativeSourceReader: complete and collect; the last one closes the        *)
(* channel once the source stopped.                                          *)
ReaderFree(i) ==
  /\ i \in Unread(leases)
  /\ LET done == [leases EXCEPT ![i].done = TRUE]
         left == source \/ Unread(done) # {}
     IN  /\ Collect(done) /\ cOpen' = left /\ UNCHANGED pOpen
         /\ closes' = [closes EXCEPT !.consumer = IF left THEN @ ELSE @ + 1]
  /\ UNCHANGED <<producer, pending, source>>

(* The frame cannot be wrapped: lease, complete and collect at once. *)
SrcReleases ==
  /\ Faults /\ source /\ pending # 0 /\ pending' = 0
  /\ Collect(Append(leases, [value |-> pending, done |-> TRUE]))
  /\ UNCHANGED <<producer, source, ends>>

SrcStop ==
  /\ source /\ source' = FALSE
  /\ LET left == Unread(leases) # {}
     IN  /\ cOpen' = left /\ UNCHANGED pOpen
         /\ closes' = [closes EXCEPT !.consumer = IF left THEN @ ELSE @ + 1]
  /\ UNCHANGED <<producer, pending, leases, consumed>>

-----------------------------------------------------------------------------
FreeMem(m) == MemCancel(m) \/ MemFree(m)
FreeReader == \E i \in DOMAIN leases : ReaderFree(i)

Next ==
  \/ ProposeAllocation \/ AcquireBegin("signal") \/ AcquireBegin("pool")
  \/ (\E m \in Mems, s \in Slots : AcquireTake(m, s))
  \/ AcquireSleep \/ AcquireRetry \/ (\E s \in Slots : AcquireWrapFails(s)) \/ AcquireGivesUp
  \/ (\E m \in Mems : SetReady(m) \/ Submit(m))
  \/ (\E m \in Mems : FreeMem(m)) \/ FreeReader \/ SinkStop \/ PoolFinalize
  \/ SrcCreate \/ SrcReleases \/ SrcStop

Spec == Init /\ [][Next]_vars

(* Both neighbours use what they hold for a finite time only, the source     *)
(* keeps reading, and acquire() has a deadline.  A thread that frees memory  *)
(* gets the mutex although others keep asking for images: FreeMem is         *)
(* disabled now and then, so its fairness is strong.                         *)
Fair == {"FreeReader", "SrcCreate", "Retry", "Acquire"} \union Mems

FairStep(n) ==
  \/ n = "FreeReader" /\ FreeReader
  \/ n = "SrcCreate" /\ SrcCreate
  \/ n = "Retry" /\ AcquireRetry
  \/ n = "Acquire" /\ (AcquireGivesUp \/ \E m \in Mems, s \in Slots : AcquireTake(m, s))
  \/ n \in Mems /\ FreeMem(n)

LiveSpec ==
  /\ Spec /\ (\A n \in Fair \ Mems : WF_vars(FairStep(n)))
  /\ \A m \in Mems : SF_vars(FairStep(m))

-----------------------------------------------------------------------------
(* Properties. *)

Reservations ==
  {Free} \union [state : {"writable", "published", "cancelled"}, slot : Slots, ready : BOOLEAN]

TypeOK ==
  /\ {active, pool, checked, pOpen, source, cOpen} \subseteq BOOLEAN
  /\ res \in [Mems -> Reservations] /\ sub \in [Slots -> 0..Reserved]
  /\ waiting \in {"none", "signal", "pool"}
  /\ submits \in 0..MaxSubmits /\ {consumed, pending} \subseteq 0..submits
  /\ leases \in Seq([value : 1..MaxSubmits, done : BOOLEAN])
  /\ closes \in [{"producer", "consumer"} -> {0, 1}]

ReadValues == {leases[i].value : i \in Unread(leases)} \union (IF pending = 0 THEN {} ELSE {pending})

(* An image that upstream may write is neither waiting to be read nor read,  *)
(* and no other memory refers to it: freeing, cancelling and publishing on   *)
(* three threads never hand an image out twice                               *)
(* (fl_gst_dmabuf_producer.hpp:26-73, gstframelink.cpp:998-1004).            *)
WritableIsExclusive ==
  \A m \in Live : res[m].state = "writable" =>
    /\ \A n \in Live \ {m} : res[n].slot # res[m].slot
    /\ sub[res[m].slot] = Reserved

(* What the source's memories show is not overwritten: the slot that carried *)
(* the frame carries it still.                                               *)
ReadIntact == \A v \in ReadValues : \E s \in Slots : sub[s] = v

(* Each end of the channel is open exactly as long as somebody uses it, and  *)
(* is closed once, although elements stop before the memory they issued      *)
(* (gstframelink.cpp:290-293, 981-1005; fl_gst_native_pool.hpp:44-47).       *)
ClosedByLast ==
  /\ pOpen = Held(active, pool, res) /\ cOpen = (source \/ Unread(leases) # {})
  /\ closes.producer = (IF pOpen THEN 0 ELSE 1) /\ closes.consumer = (IF cOpen THEN 0 ELSE 1)

(* A stopped sink hands out at most one more image, to a call whose check    *)
(* had passed when it stopped: not to a thread that sleeps between two       *)
(* attempts, and to nobody who calls later                                   *)
(* (fl_gst_dmabuf_producer.hpp:27-32, gstframelink.cpp:292).                 *)
Revoked == late \in {0, 1} /\ (late = 1 => ~active /\ ~checked)

(* A thread in acquire() returns. *)
AcquireReturns == waiting # "none" ~> waiting = "none"

(* No slot is lost: while the source reads, a slot that was reserved or      *)
(* published can be reserved again, or is still held by a memory             *)
(* (fl_gst_d3d11_producer.hpp:87-93).                                        *)
SlotsReturn == \A s \in Slots : [](sub[s] # 0 => <>(Usable(s) \/ ~cOpen \/ ~source))

=============================================================================
