----------------------------- MODULE ReadLedger -----------------------------
(***************************************************************************)
(* The reader ledger of a consumer channel (fl::ReadLedger,                *)
(* src/src/fl_read_ledger.hpp).  A frame that was leased downstream is     *)
(* recorded in a circular array; every reader of it holds a token.  The    *)
(* ledger retires frames strictly in acquisition order: a frame whose      *)
(* readers have all finished waits for the older frames before it.         *)
(*                                                                         *)
(* Every operation runs under the channel's pendingMutex, so it is one     *)
(* action.  A call that the code refuses leaves the ledger as it was and   *)
(* is a stuttering step.                                                   *)
(***************************************************************************)
EXTENDS Naturals, FiniteSets

CONSTANTS
  Cap,         \* FL_MAX_POOL_SIZE: capacity of frames_
  MaxReaders,  \* MaxReaders: capacity of readers_
  Slots,       \* ring slots a frame may live in
  MaxValue,    \* bound on the timeline values a caller presents
  MaxGen,      \* bound on the channel generations a caller presents
  TokenLimit   \* UINT64_MAX of the token counter: the first value not issued

ASSUME LedgerAssumption ==
  /\ Cap \in Nat \ {0}
  /\ MaxReaders \in Nat \ {0}
  /\ Slots # {}
  /\ MaxValue \in Nat
  /\ MaxGen \in Nat
  /\ TokenLimit \in Nat \ {0}

VARIABLES
  frames,      \* frames_: circular array of frame records
  head,        \* head_
  count,       \* count_
  readers,     \* readers_: array of reader records, token 0 = unused
  generation,  \* generation_ of the recorded frames, 0 after resetEpoch
  lastValue,   \* lastValue_ accepted in that generation
  nextToken,   \* nextToken_
  retiredTo    \* history: the last <<generation, value>> acknowledged

vars == <<frames, head, count, readers, generation, lastValue, nextToken, retiredTo>>

Index == 0 .. Cap - 1
Entry == 1 .. MaxReaders
AnySlot == CHOOSE s \in Slots : TRUE

Frame  == [gen : 0 .. MaxGen, val : 0 .. MaxValue, slot : Slots, readers : Nat]
Reader == [token : 0 .. TokenLimit, frame : Index, pending : BOOLEAN]

NoFrame  == [gen |-> 0, val |-> 0, slot |-> AnySlot, readers |-> 0]
NoReader == [token |-> 0, frame |-> 0, pending |-> FALSE]

Init ==
  /\ frames = [i \in Index |-> NoFrame]
  /\ head = 0
  /\ count = 0
  /\ readers = [e \in Entry |-> NoReader]
  /\ generation = 0
  /\ lastValue = 0
  /\ nextToken = 1
  /\ retiredTo = <<0, 0>>

-----------------------------------------------------------------------------
(* The array index of the i-th oldest recorded frame. *)
At(i) == (head + i) % Cap

Live(e) == readers[e].token # 0

(* find(t, pending) *)
Find(t, p) == {e \in Entry : t # 0 /\ readers[e].token = t /\ readers[e].pending = p}

(* Mutant: the index of the entry serves as the token. *)
BugTokenIsIndex(fs, f) ==
  /\ nextToken < TokenLimit
  /\ \E e \in Entry :
       /\ ~Live(e)
       /\ readers' = [readers EXCEPT ![e] =
                        [token |-> e, frame |-> f, pending |-> FALSE]]
  /\ frames' = [fs EXCEPT ![f].readers = @ + 1]
  /\ nextToken' = nextToken + 1

(* addReader and token(): an unused entry and a fresh token, fail closed at  *)
(* the last token.  fs is frames_ with the record the reader refers to.      *)
AddReader(fs, f) ==
  /\ nextToken < TokenLimit
  /\ \E e \in Entry :
       /\ ~Live(e)
       /\ \A d \in Entry : d < e => Live(d)
       /\ readers' = [readers EXCEPT ![e] =
                        [token |-> nextToken, frame |-> f, pending |-> FALSE]]
  /\ frames' = [fs EXCEPT ![f].readers = @ + 1]
  /\ nextToken' = nextToken + 1

(* Mutant: a value may be leased twice. *)
BugSameValueAgain(g, v, s) ==
  /\ count < Cap
  /\ IF generation # g THEN count = 0 ELSE v >= lastValue
  /\ \A i \in 0 .. count - 1 : frames[At(i)].slot # s
  /\ AddReader([frames EXCEPT ![At(count)] =
                  [gen |-> g, val |-> v, slot |-> s, readers |-> 0]], At(count))
  /\ generation' = g
  /\ lastValue' = v
  /\ count' = count + 1
  /\ UNCHANGED <<head, retiredTo>>

Acquire(g, v, s) ==
  /\ count < Cap
  /\ IF generation # g THEN count = 0 ELSE v > lastValue
  /\ \A i \in 0 .. count - 1 : frames[At(i)].slot # s
  /\ AddReader([frames EXCEPT ![At(count)] =
                  [gen |-> g, val |-> v, slot |-> s, readers |-> 0]], At(count))
  /\ generation' = g
  /\ lastValue' = v
  /\ count' = count + 1
  /\ UNCHANGED <<head, retiredTo>>

Retain(t) ==
  /\ \E e \in Find(t, FALSE) : AddReader(frames, readers[e].frame)
  /\ UNCHANGED <<head, count, generation, lastValue, retiredTo>>

(* Mutant: the reader goes, the frame still counts it. *)
BugNoDecrement(t, p) ==
  /\ \E e \in Find(t, p) : readers' = [readers EXCEPT ![e] = NoReader]
  /\ UNCHANGED <<frames, head, count, generation, lastValue, nextToken, retiredTo>>

(* The shared tail of complete() and finishDeferred(). *)
DropReader(t, p) ==
  /\ \E e \in Find(t, p) :
       /\ frames' = [frames EXCEPT ![readers[e].frame].readers = @ - 1]
       /\ readers' = [readers EXCEPT ![e] = NoReader]
  /\ UNCHANGED <<head, count, generation, lastValue, nextToken, retiredTo>>

Complete(t) == DropReader(t, FALSE)

Defer(t) ==
  /\ \E e \in Find(t, FALSE) : readers' = [readers EXCEPT ![e].pending = TRUE]
  /\ UNCHANGED <<frames, head, count, generation, lastValue, nextToken, retiredTo>>

FinishDeferred(t) == DropReader(t, TRUE)

(* Mutant: the loop of retirement() skips a frame in use and goes on. *)
BugSkipsFrameInUse(n) == frames[At(n - 1)].readers = 0

(* retirement(): n frames, counted from the oldest, have no reader left. *)
IsPrefix(n) ==
  /\ \A i \in 0 .. n - 1 : frames[At(i)].readers = 0
  /\ n < count => frames[At(n)].readers # 0

(* Mutants: retired() empties the ledger, or stops before the last frame. *)
BugPopsAll(m, value) == m = count
BugStopsEarly(m, value) ==
  /\ \A i \in 0 .. m - 1 : frames[At(i)].readers = 0 /\ frames[At(i)].val < value
  /\ m < count => (frames[At(m)].readers # 0 \/ frames[At(m)].val >= value)

(* retired(): the loop pops the m oldest frames that are free and not newer *)
(* than the acknowledged value.                                             *)
Pops(m, value) ==
  /\ \A i \in 0 .. m - 1 : frames[At(i)].readers = 0 /\ frames[At(i)].val <= value
  /\ m < count => (frames[At(m)].readers # 0 \/ frames[At(m)].val > value)

Retired ==
  /\ \E n \in 1 .. count :
       /\ IsPrefix(n)
       /\ frames[At(n - 1)].val # 0
       /\ \E m \in 0 .. count :
            /\ Pops(m, frames[At(n - 1)].val)
            /\ frames' = [j \in Index |->
                            IF \E i \in 0 .. m - 1 : j = At(i) THEN NoFrame ELSE frames[j]]
            /\ head' = At(m)
            /\ count' = count - m
       /\ retiredTo' = <<frames[At(n - 1)].gen, frames[At(n - 1)].val>>
  /\ UNCHANGED <<readers, generation, lastValue, nextToken>>

(* resetEpoch(): a new producer timeline; nothing happens while frames are  *)
(* recorded.                                                                *)
ResetEpoch ==
  /\ count = 0
  /\ generation' = 0
  /\ lastValue' = 0
  /\ retiredTo' = <<0, 0>>
  /\ UNCHANGED <<frames, head, count, readers, nextToken>>

(* token() of another ledger: nextToken_ is shared by the whole process. *)
TokenElsewhere ==
  /\ nextToken < TokenLimit
  /\ nextToken' = nextToken + 1
  /\ UNCHANGED <<frames, head, count, readers, generation, lastValue, retiredTo>>

Next ==
  \/ \E g \in 1 .. MaxGen, v \in 1 .. MaxValue, s \in Slots : Acquire(g, v, s)
  \/ \E t \in 1 .. TokenLimit : Retain(t)
  \/ \E t \in 1 .. TokenLimit : Complete(t)
  \/ \E t \in 1 .. TokenLimit : Defer(t)
  \/ \E t \in 1 .. TokenLimit : FinishDeferred(t)
  \/ Retired
  \/ ResetEpoch
  \/ TokenElsewhere

Spec == Init /\ [][Next]_vars

-----------------------------------------------------------------------------
(* Every variable has its type: reader counts and tokens stay natural. *)
TypeOK ==
  /\ frames \in [Index -> Frame]
  /\ head \in Index
  /\ count \in 0 .. Cap
  /\ readers \in [Entry -> Reader]
  /\ generation \in 0 .. MaxGen
  /\ lastValue \in 0 .. MaxValue
  /\ nextToken \in 1 .. TokenLimit
  /\ retiredTo \in (0 .. MaxGen) \X (0 .. MaxValue)

(* The array cells of the recorded frames. *)
Window == {At(i) : i \in 0 .. count - 1}

ReadersOf(f) == {e \in Entry : Live(e) /\ readers[e].frame = f}

(* A frame record counts exactly the readers that refer to it, and every    *)
(* reader refers to a recorded frame: a lost or doubled decrement would     *)
(* retire a frame under a reader, or never (frames_[f].readers).            *)
CountsMatch ==
  /\ \A f \in Index : frames[f].readers = Cardinality(ReadersOf(f))
  /\ \A e \in Entry : Live(e) => readers[e].frame \in Window

(* The recorded frames share one generation, their values increase from the *)
(* oldest to the newest, and no ring slot is recorded twice: without it the *)
(* pop loop of retired() would stop short of the retirement it acknowledges.*)
WindowOrdered ==
  \A i, j \in 0 .. count - 1 :
    /\ frames[At(i)].gen = generation
    /\ frames[At(i)].val \in 1 .. lastValue
    /\ i < j => /\ frames[At(i)].val < frames[At(j)].val
                /\ frames[At(i)].slot # frames[At(j)].slot

(* "A completed later frame cannot retire an earlier live reader on a       *)
(* timeline fence": whatever was acknowledged lies below every frame that   *)
(* some token still reads.                                                  *)
NoReaderRetired ==
  \A e \in Entry :
    LET f == frames[readers[e].frame]
    IN  Live(e) /\ f.gen = retiredTo[1] => f.val > retiredTo[2]

(* "Tokens are process-unique, never recycled": a token that appears in the *)
(* table was there before or has never been issued.                         *)
TokensNeverRecycled ==
  [][\A e \in Entry : readers'[e].token # 0 =>
       \/ readers'[e].token >= nextToken
       \/ readers'[e].token = readers[e].token]_vars

(* As long as a token lives, it resolves to the same frame: get() returns   *)
(* the canonical data recorded when the frame was leased.                   *)
TokenNamesOneFrame ==
  [][\A e \in Entry : readers[e].token # 0 /\ readers'[e].token = readers[e].token =>
       LET old == frames[readers[e].frame]
           new == frames'[readers'[e].frame]
       IN  <<new.gen, new.val, new.slot>> = <<old.gen, old.val, old.slot>>]_vars

(* The ledger implements the lease queue: the circular array, its counters  *)
(* and the reader table are one way to keep the queue of leased frames.     *)
LeasedFrame(f) ==
  [gen |-> frames[f].gen, val |-> frames[f].val, slot |-> frames[f].slot,
   holders |-> {readers[e].token : e \in ReadersOf(f)}]

LeasedQueue == [i \in 1 .. count |-> LeasedFrame(At(i - 1))]

Queue == INSTANCE LeaseQueue WITH
  Generations <- 1 .. MaxGen,
  Values <- 1 .. MaxValue,
  LeaseSlots <- Slots,
  Tokens <- 1 .. TokenLimit,
  queue <- LeasedQueue,
  issued <- 1 .. nextToken - 1

(* fl::ReadLedger keeps the promise of the lease queue. *)
ImplementsLeaseQueue == Queue!QueueSpec
=============================================================================
