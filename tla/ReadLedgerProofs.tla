-------------------------- MODULE ReadLedgerProofs --------------------------
(***************************************************************************)
(* Proofs about the reader ledger, for every capacity, number of readers,  *)
(* and limit of values, generations and tokens.                            *)
(***************************************************************************)
EXTENDS ReadLedger, FiniteSetTheorems, Sequences, TLAPS

-----------------------------------------------------------------------------
(* Arithmetic of the circular array. *)

(* An index wraps into the array. *)
LEMMA ModRange ==
  ASSUME NEW c \in Nat \ {0}, NEW x \in Nat
  PROVE  x % c \in 0 .. c - 1
  OBVIOUS

(* The wrapped index of an offset of at most one lap. *)
LEMMA ModOnce ==
  ASSUME NEW c \in Nat \ {0}, NEW h \in 0 .. c - 1, NEW i \in 0 .. c
  PROVE  (h + i) % c = IF h + i < c THEN h + i ELSE h + i - c
  <1>1. CASE h + i < c
    BY <1>1
  <1>2. CASE h + i >= c
    BY <1>2
  <1> QED BY <1>1, <1>2

(* The cell of the i-th recorded frame lies in the array. *)
LEMMA AtType ==
  ASSUME LedgerAssumption, head \in Index, NEW i \in Nat
  PROVE  At(i) \in Index
  BY ModRange DEF LedgerAssumption, Index, At

(* The empty records have their types. *)
LEMMA NothingType ==
  ASSUME LedgerAssumption
  PROVE  NoFrame \in Frame /\ NoReader \in Reader
  <1>1. AnySlot \in Slots
    BY DEF LedgerAssumption, AnySlot
  <1>2. 0 \in Index
    BY DEF LedgerAssumption, Index
  <1> QED BY <1>1, <1>2 DEF LedgerAssumption, NoFrame, NoReader, Frame, Reader

(* Offsets of less than one lap name different cells. *)
LEMMA AtInjective ==
  ASSUME LedgerAssumption, head \in Index,
         NEW i \in 0 .. Cap - 1, NEW j \in 0 .. Cap - 1, At(i) = At(j)
  PROVE  i = j
  <1>1. /\ Cap \in Nat \ {0} /\ head \in 0 .. Cap - 1
        /\ i \in 0 .. Cap /\ j \in 0 .. Cap
    BY DEF LedgerAssumption, Index
  <1>2. At(i) = IF head + i < Cap THEN head + i ELSE head + i - Cap
    BY <1>1, ModOnce DEF At
  <1>3. At(j) = IF head + j < Cap THEN head + j ELSE head + j - Cap
    BY <1>1, ModOnce DEF At
  <1>4. CASE head + i < Cap /\ head + j < Cap
    <2>1. head + i = head + j
      BY <1>2, <1>3, <1>4
    <2> QED BY <1>1, <2>1
  <1>5. CASE head + i < Cap /\ ~(head + j < Cap)
    <2>1. head + i = head + j - Cap
      BY <1>2, <1>3, <1>5
    <2> QED BY <1>1, <2>1
  <1>6. CASE ~(head + i < Cap) /\ head + j < Cap
    <2>1. head + j = head + i - Cap
      BY <1>2, <1>3, <1>6
    <2> QED BY <1>1, <2>1
  <1>7. CASE ~(head + i < Cap) /\ ~(head + j < Cap)
    <2>1. head + i - Cap = head + j - Cap
      BY <1>2, <1>3, <1>7
    <2> QED BY <1>1, <2>1
  <1> QED BY <1>4, <1>5, <1>6, <1>7

(* Advancing the head by m moves every later cell m places to the front. *)
LEMMA AtShift ==
  ASSUME LedgerAssumption, head \in Index,
         NEW m \in 0 .. Cap, NEW i \in 0 .. Cap, m <= i, head' = At(m)
  PROVE  At(i - m)' = At(i)
  <1>1. Cap \in Nat \ {0} /\ head \in 0 .. Cap - 1 /\ i - m \in 0 .. Cap
    BY DEF LedgerAssumption, Index
  <1>2. At(m) = IF head + m < Cap THEN head + m ELSE head + m - Cap
    BY <1>1, ModOnce DEF At
  <1>3. At(i) = IF head + i < Cap THEN head + i ELSE head + i - Cap
    BY <1>1, ModOnce DEF At
  <1>4. At(m) \in 0 .. Cap - 1
    BY <1>1, <1>2
  <1>5. (At(m) + (i - m)) % Cap = IF At(m) + (i - m) < Cap THEN At(m) + (i - m)
                                                         ELSE At(m) + (i - m) - Cap
    BY <1>1, <1>4, ModOnce
  <1>6. At(i - m)' = (At(m) + (i - m)) % Cap
    BY DEF At
  <1> QED BY <1>1, <1>2, <1>3, <1>5, <1>6

-----------------------------------------------------------------------------
(* What the shared parts of the operations do to the counts. *)

(* Only finitely many entries refer to a frame. *)
LEMMA ReadersFinite ==
  ASSUME LedgerAssumption, NEW f
  PROVE  /\ IsFiniteSet(ReadersOf(f)) /\ Cardinality(ReadersOf(f)) \in Nat
         /\ IsFiniteSet(ReadersOf(f))' /\ Cardinality(ReadersOf(f))' \in Nat
  <1>1. IsFiniteSet(Entry)
    BY FS_Interval DEF LedgerAssumption, Entry
  <1>2. ReadersOf(f) \in SUBSET Entry /\ ReadersOf(f)' \in SUBSET Entry
    BY DEF ReadersOf
  <1>3. IsFiniteSet(ReadersOf(f)) /\ IsFiniteSet(ReadersOf(f)')
    BY <1>1, <1>2, FS_Subset
  <1> QED BY <1>3, FS_CardinalityType

(* addReader keeps the types, given a well-typed array of frames. *)
LEMMA AddReaderType ==
  ASSUME LedgerAssumption, TypeOK,
         NEW fs \in [Index -> Frame], NEW f \in Index, AddReader(fs, f)
  PROVE  /\ frames' \in [Index -> Frame]
         /\ readers' \in [Entry -> Reader]
         /\ nextToken' \in 1 .. TokenLimit
  <1>1. nextToken' \in 1 .. TokenLimit
    BY DEF AddReader, TypeOK, LedgerAssumption
  <1>2. readers' \in [Entry -> Reader]
    <2>1. [token |-> nextToken, frame |-> f, pending |-> FALSE] \in Reader
      BY DEF TypeOK, Reader, LedgerAssumption
    <2> QED BY <2>1 DEF AddReader, TypeOK
  <1>3. frames' \in [Index -> Frame]
    <2>1. [fs[f] EXCEPT !.readers = @ + 1] \in Frame
      BY DEF Frame
    <2> QED BY <2>1 DEF AddReader
  <1> QED BY <1>1, <1>2, <1>3

(* addReader adds exactly one reader, of frame f, and counts it. *)
LEMMA AddReaderCounts ==
  ASSUME LedgerAssumption, TypeOK,
         NEW fs \in [Index -> Frame], NEW f \in Index, AddReader(fs, f),
         \A g \in Index : fs[g].readers = Cardinality(ReadersOf(g))
  PROVE  /\ \A g \in Index : frames'[g].readers = Cardinality(ReadersOf(g))'
         /\ \A g \in Index : /\ frames'[g].gen = fs[g].gen
                             /\ frames'[g].val = fs[g].val
                             /\ frames'[g].slot = fs[g].slot
         /\ \A e \in Entry : Live(e)' =>
              \/ readers'[e].frame = f /\ readers'[e].token = nextToken /\ ~Live(e)
              \/ Live(e) /\ readers'[e] = readers[e]
  <1>1. PICK e \in Entry :
          /\ ~Live(e)
          /\ readers' = [readers EXCEPT ![e] =
                           [token |-> nextToken, frame |-> f, pending |-> FALSE]]
    BY DEF AddReader
  <1>2. nextToken # 0
    BY DEF TypeOK
  <1>3. frames' = [fs EXCEPT ![f].readers = @ + 1]
    BY DEF AddReader
  <1>4. \A d \in Entry : d # e => readers'[d] = readers[d]
    BY <1>1 DEF TypeOK
  <1>5. readers'[e] = [token |-> nextToken, frame |-> f, pending |-> FALSE]
    BY <1>1 DEF TypeOK
  <1>6. ReadersOf(f)' = ReadersOf(f) \cup {e} /\ e \notin ReadersOf(f)
    BY <1>1, <1>2, <1>4, <1>5 DEF ReadersOf, Live
  <1>7. \A g \in Index : g # f => ReadersOf(g)' = ReadersOf(g)
    BY <1>1, <1>4, <1>5 DEF ReadersOf, Live
  <1>8. Cardinality(ReadersOf(f)') = Cardinality(ReadersOf(f)) + 1
    BY <1>6, ReadersFinite, FS_AddElement
  <1>9. frames'[f] = [fs[f] EXCEPT !.readers = @ + 1]
        /\ \A g \in Index : g # f => frames'[g] = fs[g]
    BY <1>3
  <1>10. frames'[f].readers = fs[f].readers + 1
         /\ frames'[f].gen = fs[f].gen
         /\ frames'[f].val = fs[f].val
         /\ frames'[f].slot = fs[f].slot
    BY <1>9 DEF Frame
  <1>11. \A g \in Index : frames'[g].readers = Cardinality(ReadersOf(g))'
    BY <1>7, <1>8, <1>9, <1>10
  <1>12. \A d \in Entry : Live(d)' =>
              \/ readers'[d].frame = f /\ readers'[d].token = nextToken /\ ~Live(d)
              \/ Live(d) /\ readers'[d] = readers[d]
    BY <1>1, <1>4, <1>5 DEF Live
  <1> QED BY <1>9, <1>10, <1>11, <1>12

(* complete and finishDeferred drop exactly one reader and its count. *)
LEMMA DropReaderCounts ==
  ASSUME LedgerAssumption, TypeOK, CountsMatch, NEW t, NEW p, DropReader(t, p)
  PROVE  /\ frames' \in [Index -> Frame]
         /\ readers' \in [Entry -> Reader]
         /\ \A g \in Index : frames'[g].readers = Cardinality(ReadersOf(g))'
         /\ \A g \in Index : /\ frames'[g].gen = frames[g].gen
                             /\ frames'[g].val = frames[g].val
                             /\ frames'[g].slot = frames[g].slot
         /\ \A e \in Entry : Live(e)' => Live(e) /\ readers'[e] = readers[e]
  <1>1. PICK e \in Entry :
          /\ Live(e)
          /\ frames' = [frames EXCEPT ![readers[e].frame].readers = @ - 1]
          /\ readers' = [readers EXCEPT ![e] = NoReader]
    BY DEF DropReader, Find, Live
  <1>2. PICK f \in Index : f = readers[e].frame
    BY DEF TypeOK, Reader
  <1>3. readers'[e] = NoReader /\ \A d \in Entry : d # e => readers'[d] = readers[d]
    BY <1>1 DEF TypeOK
  <1>4. readers' \in [Entry -> Reader]
    BY <1>1, NothingType DEF TypeOK
  <1>5. ReadersOf(f)' = ReadersOf(f) \ {e} /\ e \in ReadersOf(f)
    <2>1. e \in ReadersOf(f)
      BY <1>1, <1>2 DEF ReadersOf
    <2>2. readers'[e].token = 0
      BY <1>3 DEF NoReader
    <2>3. ASSUME NEW d \in Entry
          PROVE  d \in ReadersOf(f)' <=> d # e /\ d \in ReadersOf(f)
      BY <1>3, <2>2 DEF Live, ReadersOf
    <2> QED BY <2>1, <2>3 DEF ReadersOf
  <1>6. \A g \in Index : g # f => ReadersOf(g)' = ReadersOf(g)
    BY <1>2, <1>3 DEF ReadersOf, Live, NoReader
  <1>7. Cardinality(ReadersOf(f)') = Cardinality(ReadersOf(f)) - 1
    BY <1>5, ReadersFinite, FS_RemoveElement
  <1>8. Cardinality(ReadersOf(f)') \in Nat
    BY ReadersFinite
  <1>9. frames'[f] = [frames[f] EXCEPT !.readers = @ - 1]
        /\ \A g \in Index : g # f => frames'[g] = frames[g]
    BY <1>1, <1>2 DEF TypeOK
  <1>10. frames'[f].readers = frames[f].readers - 1
         /\ frames'[f].gen = frames[f].gen
         /\ frames'[f].val = frames[f].val
         /\ frames'[f].slot = frames[f].slot
    BY <1>2, <1>9 DEF TypeOK, Frame
  <1>11. frames[f].readers - 1 \in Nat
    BY <1>2, <1>7, <1>8 DEF CountsMatch
  <1>12. [frames[f] EXCEPT !.readers = @ - 1] \in Frame
    BY <1>2, <1>11 DEF TypeOK, Frame
  <1>13. frames' \in [Index -> Frame]
    BY <1>1, <1>2, <1>12 DEF TypeOK
  <1>14. \A g \in Index : frames'[g].readers = Cardinality(ReadersOf(g))'
    BY <1>6, <1>7, <1>9, <1>10 DEF CountsMatch
  <1>15. \A d \in Entry : Live(d)' => Live(d) /\ readers'[d] = readers[d]
    BY <1>1, <1>3 DEF Live, NoReader
  <1> QED BY <1>4, <1>9, <1>10, <1>13, <1>14, <1>15

-----------------------------------------------------------------------------
(* The inductive invariant. *)

(* What was acknowledged lies behind the recorded frames: an empty ledger    *)
(* has acknowledged its own generation, and no acknowledgement exceeds a     *)
(* recorded value.                                                           *)
RetiredBehind ==
  /\ count = 0 => retiredTo[1] = generation
  /\ retiredTo[1] = generation => retiredTo[2] <= lastValue
  /\ \A i \in 0 .. count - 1 :
       frames[At(i)].gen = retiredTo[1] => frames[At(i)].val > retiredTo[2]

IInv == TypeOK /\ CountsMatch /\ WindowOrdered /\ RetiredBehind

(* The recorded frames occupy array cells. *)
LEMMA WindowInIndex ==
  ASSUME LedgerAssumption, TypeOK, NEW i \in 0 .. count
  PROVE  At(i) \in Index
  BY AtType DEF TypeOK, LedgerAssumption

(* A step that leaves the window and the data of its frames alone keeps the  *)
(* order and the acknowledgement.                                            *)
LEMMA SameWindow ==
  ASSUME LedgerAssumption, IInv,
         UNCHANGED <<head, count, generation, lastValue, retiredTo>>,
         \A g \in Index : /\ frames'[g].gen = frames[g].gen
                          /\ frames'[g].val = frames[g].val
                          /\ frames'[g].slot = frames[g].slot
  PROVE  WindowOrdered' /\ RetiredBehind'
  <1>1. \A i \in 0 .. count - 1 : At(i) \in Index
    BY WindowInIndex DEF IInv, TypeOK, LedgerAssumption
  <1>2. \A i : At(i)' = At(i)
    BY DEF At
  <1>3. WindowOrdered'
    BY <1>1, <1>2 DEF IInv, WindowOrdered
  <1>4. RetiredBehind'
    BY <1>1, <1>2 DEF IInv, RetiredBehind
  <1> QED BY <1>3, <1>4

(* acquire(): the cell after the newest frame is unused, so the new record   *)
(* disturbs no reader.                                                       *)
LEMMA AcquireStep ==
  ASSUME LedgerAssumption, IInv,
         NEW g \in 1 .. MaxGen, NEW v \in 1 .. MaxValue, NEW s \in Slots, Acquire(g, v, s)
  PROVE  IInv'
  <1>1. PICK f \in Index : f = At(count)
    BY AtType DEF IInv, TypeOK, LedgerAssumption
  <1> DEFINE new == [gen |-> g, val |-> v, slot |-> s, readers |-> 0]
             fs  == [frames EXCEPT ![f] = new]
  <1>2. new \in Frame
    BY DEF Frame, LedgerAssumption
  <1>3. fs \in [Index -> Frame] /\ fs[f] = new /\ \A h \in Index : h # f => fs[h] = frames[h]
    BY <1>1, <1>2 DEF IInv, TypeOK
  <1>4. AddReader(fs, f)
    BY <1>1 DEF Acquire
  <1>5. count < Cap /\ count \in 0 .. Cap - 1
    BY DEF Acquire, IInv, TypeOK, LedgerAssumption
  <1>6. \A i \in 0 .. count - 1 : At(i) \in Index /\ At(i) # f
    BY <1>1, <1>5, AtInjective, WindowInIndex DEF IInv, TypeOK, LedgerAssumption
  <1>7. ReadersOf(f) = {}
    BY <1>6 DEF IInv, CountsMatch, Window, ReadersOf
  <1>8. \A h \in Index : fs[h].readers = Cardinality(ReadersOf(h))
    BY <1>3, <1>7, FS_EmptySet DEF IInv, CountsMatch
  <1> HIDE DEF fs
  <1>9. /\ frames' \in [Index -> Frame]
        /\ readers' \in [Entry -> Reader]
        /\ nextToken' \in 1 .. TokenLimit
    BY <1>3, <1>4, AddReaderType DEF IInv
  <1>10. /\ \A h \in Index : frames'[h].readers = Cardinality(ReadersOf(h))'
         /\ \A h \in Index : /\ frames'[h].gen = fs[h].gen
                             /\ frames'[h].val = fs[h].val
                             /\ frames'[h].slot = fs[h].slot
         /\ \A e \in Entry : Live(e)' =>
              \/ readers'[e].frame = f /\ readers'[e].token = nextToken /\ ~Live(e)
              \/ Live(e) /\ readers'[e] = readers[e]
    BY <1>3, <1>4, <1>8, AddReaderCounts DEF IInv
  <1>11. /\ count' = count + 1 /\ head' = head /\ retiredTo' = retiredTo
         /\ generation' = g /\ lastValue' = v
    BY DEF Acquire
  <1>12. TypeOK'
    BY <1>5, <1>9, <1>11 DEF IInv, TypeOK, LedgerAssumption
  <1>13. \A i : At(i)' = At(i)
    BY <1>11 DEF At
  <1>14. CountsMatch'
    <2>1. f \in Window'
      BY <1>1, <1>5, <1>11, <1>13 DEF Window
    <2>2. \A h \in Window : h \in Window'
      BY <1>5, <1>11, <1>13 DEF Window
    <2>3. \A e \in Entry : Live(e)' => readers'[e].frame \in Window'
      BY <1>10, <2>1, <2>2 DEF IInv, CountsMatch
    <2> QED BY <1>10, <2>3 DEF CountsMatch
  <1>15. /\ frames'[f].gen = g /\ frames'[f].val = v /\ frames'[f].slot = s
         /\ \A i \in 0 .. count - 1 : /\ frames'[At(i)].gen = frames[At(i)].gen
                                      /\ frames'[At(i)].val = frames[At(i)].val
                                      /\ frames'[At(i)].slot = frames[At(i)].slot
    BY <1>1, <1>3, <1>6, <1>10
  <1>16. \A i \in 0 .. count - 1 : /\ frames[At(i)].gen = generation
                                   /\ frames[At(i)].val \in 1 .. lastValue
                                   /\ frames[At(i)].slot # s
    BY DEF IInv, WindowOrdered, Acquire
  <1>17. /\ generation # g => count = 0
         /\ generation = g => v > lastValue
    BY DEF Acquire
  <1>18. ASSUME NEW i \in 0 .. count' - 1 PROVE i \in 0 .. count - 1 \/ i = count
    BY <1>5, <1>11
  <1>19. WindowOrdered'
    <2>1. ASSUME NEW i \in 0 .. count' - 1
          PROVE  frames'[At(i)].gen = g /\ frames'[At(i)].val \in 1 .. v
      <3>1. CASE i = count
        BY <1>1, <1>15, <3>1
      <3>2. CASE i \in 0 .. count - 1
        <4>1. generation = g /\ v > lastValue
          BY <1>5, <1>17, <3>2
        <4> QED BY <1>15, <1>16, <3>2, <4>1 DEF IInv, TypeOK, LedgerAssumption
      <3> QED BY <1>18, <3>1, <3>2
    <2>2. ASSUME NEW i \in 0 .. count' - 1, NEW j \in 0 .. count' - 1, i < j
          PROVE  /\ frames'[At(i)].val < frames'[At(j)].val
                 /\ frames'[At(i)].slot # frames'[At(j)].slot
      <3>1. i \in 0 .. count - 1
        BY <1>5, <1>11, <2>2
      <3>2. generation = g /\ v > lastValue
        BY <1>5, <1>17, <3>1
      <3>3. CASE j = count
        BY <1>1, <1>15, <1>16, <3>1, <3>2, <3>3 DEF IInv, TypeOK, LedgerAssumption
      <3>4. CASE j \in 0 .. count - 1
        BY <1>15, <2>2, <3>1, <3>4 DEF IInv, WindowOrdered
      <3> QED BY <1>18, <3>3, <3>4
    <2> QED BY <1>11, <1>13, <2>1, <2>2 DEF WindowOrdered
  <1>20. RetiredBehind'
    <2>1. retiredTo[1] \in 0 .. MaxGen /\ retiredTo[2] \in 0 .. MaxValue
          /\ lastValue \in 0 .. MaxValue
      BY DEF IInv, TypeOK
    <2>2. retiredTo[1] = g => retiredTo[2] < v
      <3>1. CASE generation = g
        BY <1>17, <2>1, <3>1 DEF IInv, RetiredBehind, LedgerAssumption
      <3>2. CASE generation # g
        BY <1>17, <3>2 DEF IInv, RetiredBehind
      <3> QED BY <3>1, <3>2
    <2>3. ASSUME NEW i \in 0 .. count' - 1, frames'[At(i)].gen = retiredTo[1]
          PROVE  frames'[At(i)].val > retiredTo[2]
      <3>1. CASE i = count
        BY <1>1, <1>15, <2>1, <2>2, <2>3, <3>1
      <3>2. CASE i \in 0 .. count - 1
        BY <1>15, <2>3, <3>2 DEF IInv, RetiredBehind
      <3> QED BY <1>18, <3>1, <3>2
    <2>4. count' # 0
      BY <1>5, <1>11
    <2>5. retiredTo[1] = g => retiredTo[2] <= v
      BY <2>1, <2>2
    <2> QED BY <1>11, <1>13, <2>3, <2>4, <2>5 DEF RetiredBehind
  <1> QED BY <1>12, <1>14, <1>19, <1>20 DEF IInv

(* retain() adds a reader of a recorded frame. *)
LEMMA RetainStep ==
  ASSUME LedgerAssumption, IInv, NEW t, Retain(t)
  PROVE  IInv'
  <1>1. PICK e \in Entry : Live(e) /\ AddReader(frames, readers[e].frame)
    BY DEF Retain, Find, Live
  <1>2. PICK f \in Index : f = readers[e].frame
    BY DEF IInv, TypeOK, Reader
  <1>3. f \in Window
    BY <1>1, <1>2 DEF IInv, CountsMatch
  <1>4. AddReader(frames, f)
    BY <1>1, <1>2
  <1>5. /\ frames' \in [Index -> Frame]
        /\ readers' \in [Entry -> Reader]
        /\ nextToken' \in 1 .. TokenLimit
    BY <1>4, AddReaderType DEF IInv, TypeOK
  <1>6. /\ \A h \in Index : frames'[h].readers = Cardinality(ReadersOf(h))'
        /\ \A h \in Index : /\ frames'[h].gen = frames[h].gen
                            /\ frames'[h].val = frames[h].val
                            /\ frames'[h].slot = frames[h].slot
        /\ \A d \in Entry : Live(d)' =>
             \/ readers'[d].frame = f /\ readers'[d].token = nextToken /\ ~Live(d)
             \/ Live(d) /\ readers'[d] = readers[d]
    BY <1>4, AddReaderCounts DEF IInv, TypeOK, CountsMatch
  <1>7. UNCHANGED <<head, count, generation, lastValue, retiredTo>>
    BY DEF Retain
  <1>8. TypeOK'
    BY <1>5, <1>7 DEF IInv, TypeOK
  <1>9. Window' = Window
    BY <1>7 DEF Window, At
  <1>10. CountsMatch'
    BY <1>3, <1>6, <1>9 DEF IInv, CountsMatch
  <1> QED BY <1>6, <1>7, <1>8, <1>10, SameWindow DEF IInv

(* complete() and finishDeferred(). *)
LEMMA DropReaderStep ==
  ASSUME LedgerAssumption, IInv, NEW t, NEW p, DropReader(t, p)
  PROVE  IInv'
  <1>1. /\ frames' \in [Index -> Frame]
        /\ readers' \in [Entry -> Reader]
        /\ \A g \in Index : frames'[g].readers = Cardinality(ReadersOf(g))'
        /\ \A g \in Index : /\ frames'[g].gen = frames[g].gen
                            /\ frames'[g].val = frames[g].val
                            /\ frames'[g].slot = frames[g].slot
        /\ \A e \in Entry : Live(e)' => Live(e) /\ readers'[e] = readers[e]
    BY DropReaderCounts DEF IInv
  <1>2. UNCHANGED <<head, count, generation, lastValue, nextToken, retiredTo>>
    BY DEF DropReader
  <1>3. TypeOK'
    BY <1>1, <1>2 DEF IInv, TypeOK
  <1>4. Window' = Window
    BY <1>2 DEF Window, At
  <1>5. CountsMatch'
    BY <1>1, <1>4 DEF IInv, CountsMatch
  <1> QED BY <1>1, <1>2, <1>3, <1>5, SameWindow DEF IInv

(* defer() keeps the token and its frame. *)
LEMMA DeferStep ==
  ASSUME LedgerAssumption, IInv, NEW t, Defer(t)
  PROVE  IInv'
  <1>1. PICK e \in Entry : readers' = [readers EXCEPT ![e].pending = TRUE]
    BY DEF Defer, Find
  <1>2. UNCHANGED <<frames, head, count, generation, lastValue, nextToken, retiredTo>>
    BY DEF Defer
  <1>3. [readers[e] EXCEPT !.pending = TRUE] \in Reader
    BY DEF IInv, TypeOK, Reader
  <1>4. readers' \in [Entry -> Reader]
    BY <1>1, <1>3 DEF IInv, TypeOK
  <1>5. \A d \in Entry : /\ readers'[d].token = readers[d].token
                         /\ readers'[d].frame = readers[d].frame
    BY <1>1 DEF IInv, TypeOK, Reader
  <1>6. TypeOK'
    BY <1>2, <1>4 DEF IInv, TypeOK
  <1>7. \A f : ReadersOf(f)' = ReadersOf(f)
    BY <1>5 DEF ReadersOf, Live
  <1>8. Window' = Window
    BY <1>2 DEF Window, At
  <1>9. CountsMatch'
    BY <1>2, <1>5, <1>7, <1>8 DEF IInv, CountsMatch, Live
  <1> QED BY <1>2, <1>6, <1>9, SameWindow DEF IInv

(* retired() pops exactly the prefix that retirement() found. *)
LEMMA RetiredPopsPrefix ==
  ASSUME LedgerAssumption, IInv, Retired
  PROVE  \E m \in 1 .. count :
           /\ \A i \in 0 .. m - 1 : frames[At(i)].readers = 0
           /\ frames' = [j \in Index |->
                           IF \E i \in 0 .. m - 1 : j = At(i) THEN NoFrame ELSE frames[j]]
           /\ head' = At(m)
           /\ count' = count - m
           /\ retiredTo' = <<frames[At(m - 1)].gen, frames[At(m - 1)].val>>
           /\ m < count => frames[At(m)].readers # 0
  <1>1. PICK n \in 1 .. count, m \in 0 .. count :
           /\ IsPrefix(n)
           /\ Pops(m, frames[At(n - 1)].val)
           /\ frames' = [j \in Index |->
                           IF \E i \in 0 .. m - 1 : j = At(i) THEN NoFrame ELSE frames[j]]
           /\ head' = At(m)
           /\ count' = count - m
           /\ retiredTo' = <<frames[At(n - 1)].gen, frames[At(n - 1)].val>>
    BY DEF Retired
  <1>2. count \in Nat
    BY DEF IInv, TypeOK, LedgerAssumption
  <1>3. ~(m > n)
    <2> SUFFICES ASSUME m > n PROVE FALSE
      OBVIOUS
    <2>1. n \in 0 .. m - 1 /\ n < count
      BY <1>2
    <2> QED BY <1>1, <2>1 DEF IsPrefix, Pops
  <1>4. ~(m < n)
    <2> SUFFICES ASSUME m < n PROVE FALSE
      OBVIOUS
    <2>1. m \in 0 .. n - 1 /\ m < count /\ m \in 0 .. count - 1 /\ n - 1 \in 0 .. count - 1
      BY <1>2
    <2>2. frames[At(m)].readers = 0
      BY <1>1, <2>1 DEF IsPrefix
    <2>3. frames[At(m)].val > frames[At(n - 1)].val
      BY <1>1, <2>1, <2>2 DEF Pops
    <2>4. CASE m = n - 1
      <3>1. frames[At(m)].val \in Nat
        BY <2>1 DEF IInv, WindowOrdered, TypeOK, LedgerAssumption
      <3> QED BY <2>3, <2>4, <3>1
    <2>5. CASE m < n - 1
      <3>1. frames[At(m)].val < frames[At(n - 1)].val
        BY <2>1, <2>5 DEF IInv, WindowOrdered
      <3>2. frames[At(m)].val \in Nat /\ frames[At(n - 1)].val \in Nat
        BY <2>1 DEF IInv, WindowOrdered, TypeOK, LedgerAssumption
      <3> QED BY <2>3, <3>1, <3>2
    <2> QED BY <1>2, <2>1, <2>4, <2>5
  <1>5. m = n
    BY <1>2, <1>3, <1>4
  <1> QED BY <1>1, <1>5 DEF Pops, IsPrefix

(* retired() removes frames without readers from the front of the window. *)
LEMMA RetiredStep ==
  ASSUME LedgerAssumption, IInv, Retired
  PROVE  /\ IInv'
         /\ \A e \in Entry : Live(e) => frames'[readers[e].frame] = frames[readers[e].frame]
  <1>1. PICK m \in 1 .. count :
           /\ \A i \in 0 .. m - 1 : frames[At(i)].readers = 0
           /\ frames' = [j \in Index |->
                           IF \E i \in 0 .. m - 1 : j = At(i) THEN NoFrame ELSE frames[j]]
           /\ head' = At(m)
           /\ count' = count - m
           /\ retiredTo' = <<frames[At(m - 1)].gen, frames[At(m - 1)].val>>
    BY RetiredPopsPrefix
  <1>2. UNCHANGED <<readers, generation, lastValue, nextToken>>
    BY DEF Retired
  <1>3. /\ count \in 0 .. Cap /\ Cap \in Nat \ {0} /\ count' \in 0 .. Cap /\ m \in 0 .. Cap
        /\ head \in Index
    BY <1>1 DEF IInv, TypeOK, LedgerAssumption
  <1>4. \A i \in 0 .. count : At(i) \in Index
    BY WindowInIndex DEF IInv
  <1>5. \A i \in m .. count - 1 : frames'[At(i)] = frames[At(i)]
    <2> SUFFICES ASSUME NEW i \in m .. count - 1 PROVE frames'[At(i)] = frames[At(i)]
      OBVIOUS
    <2>1. \A j \in 0 .. m - 1 : At(i) # At(j)
      <3> SUFFICES ASSUME NEW j \in 0 .. m - 1, At(i) = At(j) PROVE FALSE
        OBVIOUS
      <3>1. i \in 0 .. Cap - 1 /\ j \in 0 .. Cap - 1
        BY <1>3
      <3>2. i = j
        BY <1>3, <3>1, AtInjective
      <3> QED BY <1>3, <3>2
    <2>2. At(i) \in Index
      BY <1>3, <1>4
    <2> QED BY <1>1, <2>1, <2>2
  <1>6. \A i \in 0 .. count' - 1 : i + m \in m .. count - 1 /\ At(i)' = At(i + m)
    <2> SUFFICES ASSUME NEW i \in 0 .. count' - 1
                 PROVE  i + m \in m .. count - 1 /\ At(i)' = At(i + m)
      OBVIOUS
    <2>1. i + m \in m .. count - 1 /\ i + m \in 0 .. Cap /\ m <= i + m /\ (i + m) - m = i
      BY <1>1, <1>3
    <2>2. At((i + m) - m)' = At(i + m)
      BY <1>1, <1>3, <2>1, AtShift
    <2> QED BY <2>1, <2>2
  <1>7. \A i \in 0 .. m - 1 : ReadersOf(At(i)) = {}
    <2> SUFFICES ASSUME NEW i \in 0 .. m - 1 PROVE ReadersOf(At(i)) = {}
      OBVIOUS
    <2>1. At(i) \in Index
      BY <1>3, <1>4
    <2>2. Cardinality(ReadersOf(At(i))) = 0
      BY <1>1, <2>1 DEF IInv, CountsMatch
    <2>3. IsFiniteSet(ReadersOf(At(i)))
      <3>1. PICK f : f = At(i)
        OBVIOUS
      <3>2. IsFiniteSet(ReadersOf(f))
        BY ReadersFinite
      <3> QED BY <3>1, <3>2
    <2> QED BY <2>2, <2>3, FS_EmptySet
  <1>8. \A f \in Index : ReadersOf(f)' = ReadersOf(f)
    BY <1>2 DEF ReadersOf, Live
  <1>9. \A e \in Entry : Live(e) => \E i \in m .. count - 1 : readers[e].frame = At(i)
    <2> SUFFICES ASSUME NEW e \in Entry, Live(e)
                 PROVE  \E i \in m .. count - 1 : readers[e].frame = At(i)
      OBVIOUS
    <2>1. PICK i \in 0 .. count - 1 : readers[e].frame = At(i)
      BY DEF IInv, CountsMatch, Window
    <2>2. ~(i \in 0 .. m - 1)
      BY <1>7, <2>1 DEF ReadersOf
    <2>3. i \in m .. count - 1
      BY <1>3, <2>2
    <2> QED BY <2>1, <2>3
  <1>10. TypeOK'
    <2>1. frames' \in [Index -> Frame]
      BY <1>1, NothingType DEF IInv, TypeOK
    <2>2. head' \in Index
      BY <1>1, <1>3, <1>4
    <2>3. At(m - 1) \in Index
      BY <1>3, <1>4
    <2>4. frames[At(m - 1)] \in Frame
      BY <2>3 DEF IInv, TypeOK
    <2>5. retiredTo' \in (0 .. MaxGen) \X (0 .. MaxValue)
      BY <1>1, <2>4 DEF Frame
    <2> QED BY <1>2, <1>3, <2>1, <2>2, <2>5 DEF IInv, TypeOK
  <1>11. CountsMatch'
    <2>1. ASSUME NEW f \in Index PROVE frames'[f].readers = Cardinality(ReadersOf(f))'
      <3>1. CASE \E i \in 0 .. m - 1 : f = At(i)
        <4>1. ReadersOf(f) = {}
          BY <1>7, <3>1
        <4>2. frames'[f].readers = 0
          BY <1>1, <3>1 DEF NoFrame
        <4> QED BY <1>8, <4>1, <4>2, FS_EmptySet
      <3>2. CASE ~\E i \in 0 .. m - 1 : f = At(i)
        <4>1. frames'[f] = frames[f]
          BY <1>1, <3>2
        <4> QED BY <1>8, <4>1 DEF IInv, CountsMatch
      <3> QED BY <3>1, <3>2
    <2>2. ASSUME NEW e \in Entry, Live(e)' PROVE (readers[e].frame \in Window)'
      <3>1. PICK i \in m .. count - 1 : readers[e].frame = At(i)
        BY <1>2, <1>9, <2>2 DEF Live
      <3>2. i - m \in 0 .. count' - 1 /\ (i - m) + m = i
        BY <1>1, <1>3
      <3>3. At(i - m)' = At(i)
        BY <1>6, <3>2
      <3> QED BY <1>2, <3>1, <3>2, <3>3 DEF Window
    <2> QED BY <2>1, <2>2 DEF CountsMatch
  <1>12. \A i \in 0 .. count' - 1 : frames'[At(i)'] = frames[At(i + m)]
    BY <1>5, <1>6
  <1>13. WindowOrdered'
    <2> SUFFICES ASSUME NEW i \in 0 .. count' - 1, NEW j \in 0 .. count' - 1
                 PROVE  /\ frames'[At(i)'].gen = generation
                        /\ frames'[At(i)'].val \in 1 .. lastValue
                        /\ i < j => /\ frames'[At(i)'].val < frames'[At(j)'].val
                                    /\ frames'[At(i)'].slot # frames'[At(j)'].slot
      BY <1>2 DEF WindowOrdered
    <2>1. /\ i + m \in 0 .. count - 1 /\ j + m \in 0 .. count - 1
          /\ i < j => i + m < j + m
      BY <1>1, <1>3
    <2>2. frames'[At(i)'] = frames[At(i + m)] /\ frames'[At(j)'] = frames[At(j + m)]
      BY <1>12
    <2> QED BY <2>1, <2>2 DEF IInv, WindowOrdered
  <1>14. RetiredBehind'
    <2>1. m - 1 \in 0 .. count - 1
      BY <1>3
    <2>2. /\ frames[At(m - 1)].gen = generation
          /\ frames[At(m - 1)].val \in 1 .. lastValue
      BY <2>1 DEF IInv, WindowOrdered
    <2>3. retiredTo'[1] = generation /\ retiredTo'[2] = frames[At(m - 1)].val
      BY <1>1, <2>2
    <2>4. retiredTo'[2] <= lastValue
      BY <2>2, <2>3 DEF IInv, TypeOK, LedgerAssumption
    <2>5. ASSUME NEW i \in 0 .. count' - 1 PROVE frames'[At(i)'].val > retiredTo'[2]
      <3>1. i + m \in 0 .. count - 1 /\ m - 1 < i + m
        BY <1>1, <1>3
      <3>2. frames[At(m - 1)].val < frames[At(i + m)].val
        BY <2>1, <3>1 DEF IInv, WindowOrdered
      <3>3. frames[At(i + m)].val \in 1 .. lastValue
        BY <3>1 DEF IInv, WindowOrdered
      <3> QED BY <1>12, <2>2, <2>3, <3>2, <3>3 DEF IInv, TypeOK, LedgerAssumption
    <2> QED BY <1>2, <2>3, <2>4, <2>5 DEF RetiredBehind
  <1>15. \A e \in Entry : Live(e) => frames'[readers[e].frame] = frames[readers[e].frame]
    BY <1>5, <1>9
  <1> QED BY <1>10, <1>11, <1>13, <1>14, <1>15 DEF IInv

(* resetEpoch() starts over with an empty ledger. *)
LEMMA ResetEpochStep ==
  ASSUME LedgerAssumption, IInv, ResetEpoch
  PROVE  IInv'
  <1>1. TypeOK'
    BY DEF ResetEpoch, IInv, TypeOK, LedgerAssumption
  <1>2. CountsMatch'
    BY DEF ResetEpoch, IInv, CountsMatch, ReadersOf, Live, Window, At
  <1>3. count' = 0 /\ generation' = 0 /\ lastValue' = 0 /\ retiredTo' = <<0, 0>>
    BY DEF ResetEpoch
  <1>4. 0 .. count' - 1 = {}
    BY <1>3
  <1>5. WindowOrdered' /\ RetiredBehind'
    BY <1>3, <1>4 DEF WindowOrdered, RetiredBehind
  <1> QED BY <1>1, <1>2, <1>5 DEF IInv

(* A token issued elsewhere concerns no frame of this ledger. *)
LEMMA TokenElsewhereStep ==
  ASSUME LedgerAssumption, IInv, TokenElsewhere
  PROVE  IInv'
  <1>1. TypeOK'
    BY DEF TokenElsewhere, IInv, TypeOK, LedgerAssumption
  <1>2. CountsMatch'
    BY DEF TokenElsewhere, IInv, CountsMatch, ReadersOf, Live, Window, At
  <1>3. WindowOrdered' /\ RetiredBehind'
    BY SameWindow DEF TokenElsewhere
  <1> QED BY <1>1, <1>2, <1>3 DEF IInv

(* An empty ledger satisfies the invariant. *)
LEMMA InitIInv == LedgerAssumption /\ Init => IInv
  <1> SUFFICES ASSUME LedgerAssumption, Init PROVE IInv
    OBVIOUS
  <1>1. TypeOK
    BY NothingType DEF Init, TypeOK, LedgerAssumption, Index
  <1>2. \A e \in Entry : ~Live(e)
    BY DEF Init, Live, NoReader
  <1>3. \A f \in Index : ReadersOf(f) = {} /\ frames[f].readers = 0
    BY <1>2 DEF Init, ReadersOf, NoFrame
  <1>4. CountsMatch
    BY <1>2, <1>3, FS_EmptySet DEF CountsMatch
  <1>5. 0 .. count - 1 = {}
    BY DEF Init
  <1>6. WindowOrdered /\ RetiredBehind
    BY <1>5 DEF WindowOrdered, RetiredBehind, Init
  <1> QED BY <1>1, <1>4, <1>6 DEF IInv

(* Every step keeps the invariant. *)
LEMMA NextIInv == LedgerAssumption /\ IInv /\ [Next]_vars => IInv'
  <1> SUFFICES ASSUME LedgerAssumption, IInv, [Next]_vars PROVE IInv'
    OBVIOUS
  <1>1. CASE \E g \in 1 .. MaxGen, v \in 1 .. MaxValue, s \in Slots : Acquire(g, v, s)
    BY <1>1, AcquireStep
  <1>2. CASE \E t \in 1 .. TokenLimit : Retain(t)
    BY <1>2, RetainStep
  <1>3. CASE \E t \in 1 .. TokenLimit : Complete(t) \/ FinishDeferred(t)
    BY <1>3, DropReaderStep DEF Complete, FinishDeferred
  <1>4. CASE \E t \in 1 .. TokenLimit : Defer(t)
    BY <1>4, DeferStep
  <1>5. CASE Retired
    BY <1>5, RetiredStep
  <1>6. CASE ResetEpoch
    BY <1>6, ResetEpochStep
  <1>7. CASE TokenElsewhere
    BY <1>7, TokenElsewhereStep
  <1>8. CASE UNCHANGED vars
    BY <1>8 DEF vars, IInv, TypeOK, CountsMatch, WindowOrdered, RetiredBehind,
                Window, ReadersOf, Live, At
  <1> QED BY <1>1, <1>2, <1>3, <1>4, <1>5, <1>6, <1>7, <1>8 DEF Next

-----------------------------------------------------------------------------
(* The theorems. *)

(* The invariant holds of every reachable ledger. *)
THEOREM LedgerInvariant == Spec => []IInv
  <1>1. Init => IInv
    BY LedgerAssumption, InitIInv
  <1>2. IInv /\ [Next]_vars => IInv'
    BY LedgerAssumption, NextIInv
  <1> QED BY <1>1, <1>2, PTL DEF Spec

(* Whatever the capacities, no operation drives a reader count below zero or *)
(* a token past its limit.                                                   *)
THEOREM LedgerTypes == Spec => []TypeOK
  <1>1. IInv => TypeOK
    BY DEF IInv
  <1> QED BY <1>1, LedgerInvariant, PTL

(* Every frame counts exactly its readers, and every reader refers to a      *)
(* recorded frame.                                                           *)
THEOREM LedgerCountsReaders == Spec => []CountsMatch
  <1>1. IInv => CountsMatch
    BY DEF IInv
  <1> QED BY <1>1, LedgerInvariant, PTL

(* The recorded frames are ordered, of one generation and in distinct slots. *)
THEOREM LedgerIsOrdered == Spec => []WindowOrdered
  <1>1. IInv => WindowOrdered
    BY DEF IInv
  <1> QED BY <1>1, LedgerInvariant, PTL

(* No frame is acknowledged while a token still reads it: the readers of an  *)
(* acknowledged frame are gone, and the frames left are newer.               *)
THEOREM LedgerNeverRetiresReader == Spec => []NoReaderRetired
  <1>1. IInv => NoReaderRetired
    <2> SUFFICES ASSUME IInv, NEW e \in Entry, Live(e),
                        frames[readers[e].frame].gen = retiredTo[1]
                 PROVE  frames[readers[e].frame].val > retiredTo[2]
      BY DEF NoReaderRetired
    <2>1. PICK i \in 0 .. count - 1 : readers[e].frame = At(i)
      BY DEF IInv, CountsMatch, Window
    <2> QED BY <2>1 DEF IInv, RetiredBehind
  <1> QED BY <1>1, LedgerInvariant, PTL

(* A step of the ledger puts only fresh tokens into the table. *)
LEMMA FreshTokens ==
  ASSUME LedgerAssumption, IInv, [Next]_vars, NEW e \in Entry, readers'[e].token # 0
  PROVE  readers'[e].token >= nextToken \/ readers'[e].token = readers[e].token
  <1> DEFINE Goal == readers'[e].token >= nextToken \/ readers'[e].token = readers[e].token
  <1>1. ASSUME NEW fs, NEW f, AddReader(fs, f) PROVE Goal
    <2>1. PICK d \in Entry :
            readers' = [readers EXCEPT ![d] =
                          [token |-> nextToken, frame |-> f, pending |-> FALSE]]
      BY <1>1 DEF AddReader
    <2>2. nextToken \in Nat
      BY DEF IInv, TypeOK, LedgerAssumption
    <2> QED BY <2>1, <2>2 DEF IInv, TypeOK
  <1>2. ASSUME NEW t, NEW p, DropReader(t, p) PROVE Goal
    <2>1. PICK d \in Entry : readers' = [readers EXCEPT ![d] = NoReader]
      BY <1>2 DEF DropReader, Find
    <2> QED BY <2>1 DEF IInv, TypeOK, NoReader
  <1>3. ASSUME NEW t, Defer(t) PROVE Goal
    <2>1. PICK d \in Entry : readers' = [readers EXCEPT ![d].pending = TRUE]
      BY <1>3 DEF Defer, Find
    <2> QED BY <2>1 DEF IInv, TypeOK, Reader
  <1>4. ASSUME UNCHANGED readers PROVE Goal
    BY <1>4
  <1> SUFFICES Goal
    OBVIOUS
  <1> HIDE DEF Goal
  <1>5. CASE \E g \in 1 .. MaxGen, v \in 1 .. MaxValue, s \in Slots : Acquire(g, v, s)
    BY <1>1, <1>5 DEF Acquire
  <1>6. CASE \E t \in 1 .. TokenLimit : Retain(t)
    BY <1>1, <1>6 DEF Retain
  <1>7. CASE \E t \in 1 .. TokenLimit : Complete(t) \/ FinishDeferred(t)
    BY <1>2, <1>7 DEF Complete, FinishDeferred
  <1>8. CASE \E t \in 1 .. TokenLimit : Defer(t)
    BY <1>3, <1>8
  <1>9. CASE Retired \/ ResetEpoch \/ TokenElsewhere \/ UNCHANGED vars
    BY <1>4, <1>9 DEF Retired, ResetEpoch, TokenElsewhere, vars
  <1> QED BY <1>5, <1>6, <1>7, <1>8, <1>9 DEF Next

(* A token is never issued a second time: what a client kept from a finished *)
(* lease can not name a later one.                                           *)
THEOREM LedgerTokensUnique == Spec => TokensNeverRecycled
  <1>1. IInv /\ [Next]_vars =>
          [\A e \in Entry : readers'[e].token # 0 =>
             \/ readers'[e].token >= nextToken
             \/ readers'[e].token = readers[e].token]_vars
    BY LedgerAssumption, FreshTokens
  <1> QED BY <1>1, LedgerInvariant, PTL DEF Spec, TokensNeverRecycled

(* A step keeps the frame of every token that survives it. *)
LEMMA SameFrame ==
  ASSUME LedgerAssumption, IInv, [Next]_vars,
         NEW e \in Entry, readers[e].token # 0, readers'[e].token = readers[e].token
  PROVE  <<frames'[readers'[e].frame].gen, frames'[readers'[e].frame].val,
           frames'[readers'[e].frame].slot>>
           = <<frames[readers[e].frame].gen, frames[readers[e].frame].val,
               frames[readers[e].frame].slot>>
  <1> DEFINE Same(f) == /\ frames'[f].gen = frames[f].gen
                        /\ frames'[f].val = frames[f].val
                        /\ frames'[f].slot = frames[f].slot
             Goal == readers'[e].frame = readers[e].frame /\ Same(readers[e].frame)
  <1> SUFFICES Goal
    OBVIOUS
  <1>1. readers[e].frame \in Index /\ Live(e) /\ Live(e)'
    BY DEF IInv, TypeOK, Reader, Live
  <1>2. CASE \E g \in 1 .. MaxGen, v \in 1 .. MaxValue, s \in Slots : Acquire(g, v, s)
    <2>1. PICK g \in 1 .. MaxGen, v \in 1 .. MaxValue, s \in Slots : Acquire(g, v, s)
      BY <1>2
    <2>2. PICK f \in Index : f = At(count)
      BY AtType DEF IInv, TypeOK, LedgerAssumption
    <2>3. PICK fs : fs = [frames EXCEPT ![f] =
                            [gen |-> g, val |-> v, slot |-> s, readers |-> 0]]
      OBVIOUS
    <2>4. AddReader(fs, f)
      BY <2>1, <2>2, <2>3 DEF Acquire
    <2>5. count \in 0 .. Cap - 1 /\ head \in Index /\ Cap \in Nat
      BY <2>1 DEF Acquire, IInv, TypeOK, LedgerAssumption
    <2>6. readers[e].frame # f
      <3>1. PICK i \in 0 .. count - 1 : readers[e].frame = At(i)
        BY <1>1 DEF IInv, CountsMatch, Window
      <3>2. i \in 0 .. Cap - 1 /\ i # count
        BY <2>5
      <3> QED BY <2>2, <2>5, <3>1, <3>2, AtInjective
    <2>7. fs \in [Index -> Frame] /\ fs[readers[e].frame] = frames[readers[e].frame]
      <3>1. [gen |-> g, val |-> v, slot |-> s, readers |-> 0] \in Frame
        BY DEF Frame, LedgerAssumption
      <3> QED BY <1>1, <2>3, <2>6, <3>1 DEF IInv, TypeOK
    <2>8. frames' = [fs EXCEPT ![f].readers = @ + 1]
      BY <2>4 DEF AddReader
    <2>9. frames'[readers[e].frame] = frames[readers[e].frame]
      BY <1>1, <2>6, <2>7, <2>8
    <2>10. readers'[e] = readers[e]
      <3>1. PICK d \in Entry :
              /\ ~Live(d)
              /\ readers' = [readers EXCEPT ![d] =
                               [token |-> nextToken, frame |-> f, pending |-> FALSE]]
        BY <2>4 DEF AddReader
      <3> QED BY <1>1, <3>1 DEF IInv, TypeOK
    <2> QED BY <2>9, <2>10
  <1>3. CASE \E t \in 1 .. TokenLimit : Retain(t)
    <2>1. PICK f \in Index : AddReader(frames, f)
      BY <1>3 DEF Retain, Find, IInv, TypeOK, Reader
    <2>2. /\ \A h \in Index : Same(h)
          /\ \A d \in Entry : Live(d)' =>
               \/ readers'[d].frame = f /\ readers'[d].token = nextToken /\ ~Live(d)
               \/ Live(d) /\ readers'[d] = readers[d]
      BY <2>1, AddReaderCounts DEF IInv, TypeOK, CountsMatch
    <2> QED BY <1>1, <2>2
  <1>4. CASE \E t \in 1 .. TokenLimit : Complete(t) \/ FinishDeferred(t)
    <2>1. PICK t, p : DropReader(t, p)
      BY <1>4 DEF Complete, FinishDeferred
    <2>2. /\ \A g \in Index : Same(g)
          /\ \A d \in Entry : Live(d)' => Live(d) /\ readers'[d] = readers[d]
      BY <2>1, DropReaderCounts DEF IInv
    <2> QED BY <1>1, <2>2
  <1>5. CASE \E t \in 1 .. TokenLimit : Defer(t)
    <2>1. PICK d \in Entry : readers' = [readers EXCEPT ![d].pending = TRUE] /\ frames' = frames
      BY <1>5 DEF Defer, Find
    <2>2. readers'[e].frame = readers[e].frame
      BY <2>1 DEF IInv, TypeOK, Reader
    <2> QED BY <2>1, <2>2
  <1>6. CASE Retired
    BY <1>1, <1>6, RetiredStep DEF Retired
  <1>7. CASE ResetEpoch \/ TokenElsewhere \/ UNCHANGED vars
    BY <1>7 DEF ResetEpoch, TokenElsewhere, vars
  <1> QED BY <1>2, <1>3, <1>4, <1>5, <1>6, <1>7 DEF Next

(* get() keeps returning the frame a token was issued for, across retirement *)
(* and reuse of the cells around it.                                         *)
THEOREM LedgerTokensStable == Spec => TokenNamesOneFrame
  <1> DEFINE Kept == \A e \in Entry :
                       readers[e].token # 0 /\ readers'[e].token = readers[e].token =>
                         LET old == frames[readers[e].frame]
                             new == frames'[readers'[e].frame]
                         IN  <<new.gen, new.val, new.slot>> = <<old.gen, old.val, old.slot>>
  <1>1. IInv /\ [Next]_vars => [Kept]_vars
    BY LedgerAssumption, SameFrame
  <1> QED BY <1>1, LedgerInvariant, PTL DEF Spec, TokenNamesOneFrame

-----------------------------------------------------------------------------
(* The lease queue.  A frame of the queue, with the state as a parameter.    *)
HoldersIn(rs, f) == {rs[e].token : e \in {d \in Entry : rs[d].token # 0 /\ rs[d].frame = f}}

RecordIn(fs, rs, f) ==
  [gen |-> fs[f].gen, val |-> fs[f].val, slot |-> fs[f].slot, holders |-> HoldersIn(rs, f)]

LeaseRecord ==
  [gen : 0 .. MaxGen, val : 0 .. MaxValue, slot : Slots, holders : SUBSET (0 .. TokenLimit)]

(* Tokens in the table were issued, and to one entry each: a holder that     *)
(* finishes takes no other holder with it.                                   *)
TokensDistinct ==
  /\ \A e \in Entry : readers[e].token < nextToken
  /\ \A d, e \in Entry : Live(d) /\ readers[d].token = readers[e].token => d = e

QInv == IInv /\ TokensDistinct

(* Who holds a frame. *)
LEMMA HoldersAre ==
  ASSUME NEW rs, NEW f, NEW x
  PROVE  x \in HoldersIn(rs, f)
           <=> \E e \in Entry : rs[e].token # 0 /\ rs[e].frame = f /\ x = rs[e].token
  BY DEF HoldersIn

(* A reader holds its frame. *)
LEMMA HolderOf ==
  ASSUME NEW rs, NEW e \in Entry, rs[e].token # 0
  PROVE  rs[e].token \in HoldersIn(rs, rs[e].frame)
  BY DEF HoldersIn

(* A function on an initial segment is a sequence. *)
LEMMA SeqOf ==
  ASSUME NEW S, NEW n \in Nat, NEW g \in [1 .. n -> S]
  PROVE  g \in Seq(S) /\ Len(g) = n
  OBVIOUS

(* Sequences of the same length and the same elements are equal. *)
LEMMA SeqSame ==
  ASSUME NEW S, NEW s \in Seq(S), NEW t \in Seq(S), Len(s) = Len(t),
         \A i \in 1 .. Len(s) : s[i] = t[i]
  PROVE  s = t
  OBVIOUS

(* What a cell stands for in the queue. *)
LEMMA FrameIs ==
  ASSUME NEW f
  PROVE  /\ LeasedFrame(f) = RecordIn(frames, readers, f)
         /\ LeasedFrame(f)' = RecordIn(frames', readers', f)
  <1>1. ReadersOf(f) = {d \in Entry : readers[d].token # 0 /\ readers[d].frame = f}
    BY DEF ReadersOf, Live
  <1>2. ReadersOf(f)' = {d \in Entry : readers'[d].token # 0 /\ readers'[d].frame = f}
    BY DEF ReadersOf, Live
  <1> QED BY <1>1, <1>2 DEF LeasedFrame, RecordIn, HoldersIn

(* A cell of well-typed arrays stands for a leased frame. *)
LEMMA RecordType ==
  ASSUME NEW fs \in [Index -> Frame], NEW rs \in [Entry -> Reader], NEW f \in Index
  PROVE  RecordIn(fs, rs, f) \in LeaseRecord
  <1>1. HoldersIn(rs, f) \in SUBSET (0 .. TokenLimit)
    <2> SUFFICES ASSUME NEW x \in HoldersIn(rs, f) PROVE x \in 0 .. TokenLimit
      OBVIOUS
    <2>1. PICK e \in Entry : x = rs[e].token
      BY HoldersAre
    <2> QED BY <2>1 DEF Reader
  <1>2. fs[f] \in Frame
    OBVIOUS
  <1> QED BY <1>1, <1>2 DEF RecordIn, LeaseRecord, Frame

(* The queue before a step, *)
LEMMA QueueNow ==
  ASSUME LedgerAssumption, TypeOK
  PROVE  /\ LeasedQueue \in Seq(LeaseRecord) /\ Len(LeasedQueue) = count /\ count \in Nat
         /\ \A i \in 1 .. count : /\ At(i - 1) \in Index
                                  /\ LeasedQueue[i] = RecordIn(frames, readers, At(i - 1))
  <1>0. count \in Nat
    BY DEF TypeOK, LedgerAssumption
  <1>1. ASSUME NEW i \in 1 .. count
        PROVE  /\ At(i - 1) \in Index
               /\ LeasedFrame(At(i - 1)) = RecordIn(frames, readers, At(i - 1))
               /\ RecordIn(frames, readers, At(i - 1)) \in LeaseRecord
    <2>1. i - 1 \in Nat
      BY <1>0
    <2>2. PICK f \in Index : f = At(i - 1)
      BY <2>1, AtType DEF TypeOK
    <2>3. RecordIn(frames, readers, f) \in LeaseRecord
      BY RecordType DEF TypeOK
    <2>4. LeasedFrame(f) = RecordIn(frames, readers, f)
      BY FrameIs
    <2> QED BY <2>2, <2>3, <2>4
  <1>2. LeasedQueue \in [1 .. count -> LeaseRecord]
    BY <1>1 DEF LeasedQueue
  <1>3. \A i \in 1 .. count : LeasedQueue[i] = LeasedFrame(At(i - 1))
    BY DEF LeasedQueue
  <1> QED BY <1>0, <1>1, <1>2, <1>3, SeqOf

(* and after it. *)
LEMMA QueueThen ==
  ASSUME LedgerAssumption, TypeOK'
  PROVE  /\ LeasedQueue' \in Seq(LeaseRecord) /\ Len(LeasedQueue') = count' /\ count' \in Nat
         /\ \A i \in 1 .. count' : /\ At(i - 1)' \in Index
                                   /\ LeasedQueue'[i] = RecordIn(frames', readers', At(i - 1)')
  <1>0. count' \in Nat
    BY DEF TypeOK, LedgerAssumption
  <1>1. ASSUME NEW i \in 1 .. count'
        PROVE  /\ At(i - 1)' \in Index
               /\ LeasedFrame(At(i - 1))' = RecordIn(frames', readers', At(i - 1)')
               /\ RecordIn(frames', readers', At(i - 1)') \in LeaseRecord
    <2>1. head' + (i - 1) \in Nat /\ Cap \in Nat \ {0}
      <3>1. Cap \in Nat \ {0} /\ head' \in 0 .. Cap - 1
        BY DEF TypeOK, LedgerAssumption, Index
      <3>2. head' \in Nat /\ i - 1 \in Nat
        BY <1>0, <3>1
      <3>3. \A h, k \in Nat : h + k \in Nat
        OBVIOUS
      <3> QED BY <3>1, <3>2, <3>3, Zenon
    <2>2. At(i - 1)' = (head' + (i - 1)) % Cap
      BY DEF At
    <2>3. PICK f \in Index : f = At(i - 1)'
      BY <2>1, <2>2, ModRange DEF Index
    <2>4. RecordIn(frames', readers', f) \in LeaseRecord
      BY RecordType DEF TypeOK
    <2>5. LeasedFrame(At(i - 1))' = RecordIn(frames', readers', At(i - 1)')
      <3>1. ReadersOf(At(i - 1))'
              = {d \in Entry : readers'[d].token # 0 /\ readers'[d].frame = At(i - 1)'}
        BY DEF ReadersOf, Live
      <3> QED BY <3>1 DEF LeasedFrame, RecordIn, HoldersIn
    <2> QED BY <2>3, <2>4, <2>5
  <1>2. LeasedQueue' = [i \in 1 .. count' |-> LeasedFrame(At(i - 1))']
    BY DEF LeasedQueue
  <1>3. LeasedQueue' \in [1 .. count' -> LeaseRecord]
    BY <1>1, <1>2
  <1>4. \A i \in 1 .. count' : LeasedQueue'[i] = LeasedFrame(At(i - 1))'
    BY <1>2
  <1> QED BY <1>0, <1>1, <1>3, <1>4, SeqOf

(* addReader: one more holder, of the frame it is given. *)
LEMMA AddReaderHolders ==
  ASSUME LedgerAssumption, TypeOK, NEW fs, NEW f \in Index, AddReader(fs, f)
  PROVE  /\ HoldersIn(readers', f) = HoldersIn(readers, f) \union {nextToken}
         /\ \A g \in Index : g # f => HoldersIn(readers', g) = HoldersIn(readers, g)
  <1>1. PICK e \in Entry :
          /\ readers[e].token = 0
          /\ readers' = [readers EXCEPT ![e] =
                           [token |-> nextToken, frame |-> f, pending |-> FALSE]]
    BY DEF AddReader, Live
  <1>2. /\ readers'[e].token = nextToken /\ readers'[e].frame = f /\ nextToken # 0
        /\ \A d \in Entry : d # e => readers'[d] = readers[d]
    BY <1>1 DEF TypeOK
  <1>3. \A d \in Entry : readers[d].token # 0 =>
          d # e /\ readers'[d].token = readers[d].token /\ readers'[d].frame = readers[d].frame
    BY <1>1, <1>2
  <1>4. nextToken \in HoldersIn(readers', f)
    BY <1>2, HolderOf
  <1>5. ASSUME NEW g, NEW x \in HoldersIn(readers, g) PROVE x \in HoldersIn(readers', g)
    <2>1. PICK d \in Entry : readers[d].token # 0 /\ readers[d].frame = g /\ x = readers[d].token
      BY <1>5, HoldersAre
    <2>2. readers'[d].token = x /\ readers'[d].token # 0 /\ readers'[d].frame = g
      BY <1>3, <2>1
    <2> QED BY <2>2, HolderOf
  <1>6. ASSUME NEW g, NEW x \in HoldersIn(readers', g)
        PROVE  x \in HoldersIn(readers, g) \/ (x = nextToken /\ g = f)
    <2>1. PICK d \in Entry : readers'[d].token # 0 /\ readers'[d].frame = g /\ x = readers'[d].token
      BY <1>6, HoldersAre
    <2>2. CASE d = e
      BY <1>2, <2>1, <2>2
    <2>3. CASE d # e
      <3>1. readers[d].token = x /\ readers[d].token # 0 /\ readers[d].frame = g
        BY <1>2, <2>1, <2>3
      <3> QED BY <3>1, HolderOf
    <2> QED BY <2>2, <2>3
  <1>7. HoldersIn(readers', f) = HoldersIn(readers, f) \union {nextToken}
    BY <1>4, <1>5, <1>6
  <1>8. ASSUME NEW g \in Index, g # f PROVE HoldersIn(readers', g) = HoldersIn(readers, g)
    BY <1>5, <1>6, <1>8
  <1> QED BY <1>7, <1>8

(* complete and finishDeferred: one holder less, the one that finishes. *)
LEMMA DropReaderHolders ==
  ASSUME LedgerAssumption, TypeOK, TokensDistinct, NEW e \in Entry, Live(e),
         readers'[e].token = 0, \A d \in Entry : d # e => readers'[d] = readers[d]
  PROVE  /\ HoldersIn(readers', readers[e].frame)
              = HoldersIn(readers, readers[e].frame) \ {readers[e].token}
         /\ \A g \in Index : g # readers[e].frame => HoldersIn(readers', g) = HoldersIn(readers, g)
  <1>1. /\ readers'[e].token = 0 /\ readers[e].token # 0
        /\ \A d \in Entry : d # e => readers'[d] = readers[d]
    BY DEF Live
  <1>2. \A d \in Entry : readers[d].token = readers[e].token => d = e
    BY DEF TokensDistinct
  <1>3. ASSUME NEW g, NEW x \in HoldersIn(readers, g)
        PROVE  x \in HoldersIn(readers', g) \/ (x = readers[e].token /\ g = readers[e].frame)
    <2>1. PICK d \in Entry : readers[d].token # 0 /\ readers[d].frame = g /\ x = readers[d].token
      BY <1>3, HoldersAre
    <2>2. CASE d = e
      BY <2>1, <2>2
    <2>3. CASE d # e
      <3>1. readers'[d].token = x /\ readers'[d].token # 0 /\ readers'[d].frame = g
        BY <1>1, <2>1, <2>3
      <3> QED BY <3>1, HolderOf
    <2> QED BY <2>2, <2>3
  <1>4. ASSUME NEW g, NEW x \in HoldersIn(readers', g)
        PROVE  x \in HoldersIn(readers, g) /\ x # readers[e].token
    <2>1. PICK d \in Entry : readers'[d].token # 0 /\ readers'[d].frame = g /\ x = readers'[d].token
      BY <1>4, HoldersAre
    <2>2. d # e /\ readers[d] = readers'[d]
      <3>1. d # e
        BY <1>1, <2>1
      <3> QED BY <1>1, <3>1
    <2>3. readers[d].token = x /\ readers[d].token # 0 /\ readers[d].frame = g
      BY <2>1, <2>2
    <2>4. x # readers[e].token
      BY <1>2, <2>2, <2>3
    <2> QED BY <2>3, <2>4, HolderOf
  <1>5. HoldersIn(readers', readers[e].frame)
          = HoldersIn(readers, readers[e].frame) \ {readers[e].token}
    BY <1>3, <1>4
  <1>6. ASSUME NEW g \in Index, g # readers[e].frame
        PROVE  HoldersIn(readers', g) = HoldersIn(readers, g)
    BY <1>3, <1>4, <1>6
  <1> QED BY <1>5, <1>6

(* Tokens stay distinct. *)
LEMMA TokensStayDistinct ==
  ASSUME LedgerAssumption, QInv, [Next]_vars
  PROVE  TokensDistinct'
  <1> USE DEF QInv
  <1>0. nextToken \in Nat /\ nextToken # 0 /\ \A e \in Entry : readers[e].token \in Nat
    BY DEF IInv, TypeOK, LedgerAssumption, Reader
  <1>1. ASSUME NEW fs, NEW f, AddReader(fs, f) PROVE TokensDistinct'
    <2>1. PICK e \in Entry :
            /\ readers[e].token = 0
            /\ readers' = [readers EXCEPT ![e] =
                             [token |-> nextToken, frame |-> f, pending |-> FALSE]]
      BY <1>1 DEF AddReader, Live
    <2>2. /\ readers'[e].token = nextToken /\ \A d \in Entry : d # e => readers'[d] = readers[d]
          /\ nextToken' = nextToken + 1
      BY <1>1, <2>1 DEF AddReader, IInv, TypeOK
    <2>3. \A d \in Entry : readers[d].token < nextToken
      BY DEF TokensDistinct
    <2>4. \A d \in Entry : readers'[d].token < nextToken'
      <3> SUFFICES ASSUME NEW d \in Entry PROVE readers'[d].token < nextToken + 1
        BY <2>2
      <3>1. CASE d = e
        BY <1>0, <2>2, <3>1
      <3>2. CASE d # e
        <4>1. readers'[d].token = readers[d].token /\ readers[d].token < nextToken
          BY <2>2, <2>3, <3>2
        <4> QED BY <1>0, <4>1
      <3> QED BY <3>1, <3>2
    <2>5. \A d \in Entry : readers[d].token # nextToken
      BY <1>0, <2>3
    <2>6. ASSUME NEW c \in Entry, NEW d \in Entry, readers'[c].token # 0,
                 readers'[c].token = readers'[d].token
          PROVE  c = d
      BY <2>2, <2>5, <2>6 DEF TokensDistinct, Live
    <2> QED BY <2>4, <2>6 DEF TokensDistinct, Live
  <1>2. ASSUME NEW t, NEW p, DropReader(t, p) PROVE TokensDistinct'
    <2>1. PICK e \in Entry : readers' = [readers EXCEPT ![e] = NoReader] /\ nextToken' = nextToken
      BY <1>2 DEF DropReader, Find
    <2>2. readers'[e].token = 0 /\ \A d \in Entry : d # e => readers'[d] = readers[d]
      BY <2>1 DEF NoReader, IInv, TypeOK
    <2>3. 0 < nextToken
      BY <1>0
    <2> QED BY <2>1, <2>2, <2>3 DEF TokensDistinct, Live
  <1>3. ASSUME NEW t, Defer(t) PROVE TokensDistinct'
    <2>1. PICK e \in Entry : readers' = [readers EXCEPT ![e].pending = TRUE] /\ nextToken' = nextToken
      BY <1>3 DEF Defer, Find
    <2>2. \A d \in Entry : readers'[d].token = readers[d].token
      BY <2>1 DEF IInv, TypeOK, Reader
    <2> QED BY <2>1, <2>2 DEF TokensDistinct, Live
  <1>4. ASSUME readers' = readers, nextToken' = nextToken \/ nextToken' = nextToken + 1
        PROVE  TokensDistinct'
    <2>1. \A e \in Entry : readers[e].token < nextToken'
      BY <1>0, <1>4 DEF TokensDistinct
    <2> QED BY <1>4, <2>1 DEF TokensDistinct, Live
  <1>5. CASE \E g \in 1 .. MaxGen, v \in 1 .. MaxValue, s \in Slots : Acquire(g, v, s)
    BY <1>1, <1>5 DEF Acquire
  <1>6. CASE \E t \in 1 .. TokenLimit : Retain(t)
    BY <1>1, <1>6 DEF Retain
  <1>7. CASE \E t \in 1 .. TokenLimit : Complete(t) \/ FinishDeferred(t)
    BY <1>2, <1>7 DEF Complete, FinishDeferred
  <1>8. CASE \E t \in 1 .. TokenLimit : Defer(t)
    BY <1>3, <1>8
  <1>9. CASE Retired \/ ResetEpoch \/ TokenElsewhere \/ UNCHANGED vars
    BY <1>4, <1>9 DEF Retired, ResetEpoch, TokenElsewhere, vars
  <1> QED BY <1>5, <1>6, <1>7, <1>8, <1>9 DEF Next

(* What appending does. *)
LEMMA Appended ==
  ASSUME NEW S, NEW s \in Seq(S), NEW e \in S
  PROVE  /\ Append(s, e) \in Seq(S) /\ Len(Append(s, e)) = Len(s) + 1
         /\ \A i \in 1 .. Len(s) : Append(s, e)[i] = s[i]
         /\ Append(s, e)[Len(s) + 1] = e
  OBVIOUS

(* One more token is issued. *)
LEMMA OneMoreIssued ==
  ASSUME LedgerAssumption, TypeOK, nextToken < TokenLimit, nextToken' = nextToken + 1
  PROVE  /\ nextToken \in 1 .. TokenLimit /\ nextToken \notin 1 .. nextToken - 1
         /\ 1 .. nextToken' - 1 = (1 .. nextToken - 1) \union {nextToken}
  <1>1. nextToken \in Nat /\ TokenLimit \in Nat /\ nextToken # 0
    BY DEF TypeOK, LedgerAssumption
  <1> QED BY <1>1

(* acquire() puts a leased frame at the end of the queue. *)
LEMMA AcquireLeases ==
  ASSUME LedgerAssumption, QInv,
         NEW g \in 1 .. MaxGen, NEW v \in 1 .. MaxValue, NEW s \in Slots, Acquire(g, v, s)
  PROVE  nextToken \in 1 .. TokenLimit /\ Queue!Lease(g, v, s, nextToken)
  <1>i. IInv /\ TypeOK /\ IInv' /\ TypeOK'
    BY AcquireStep DEF QInv, IInv
  <1>1. PICK f \in Index : f = At(count)
    BY <1>i, AtType DEF TypeOK, LedgerAssumption
  <1> DEFINE cell == [gen |-> g, val |-> v, slot |-> s, readers |-> 0]
             new  == [gen |-> g, val |-> v, slot |-> s, holders |-> {nextToken}]
  <1>2. PICK fs : fs = [frames EXCEPT ![f] = cell]
    OBVIOUS
  <1>3. AddReader(fs, f)
    BY <1>1, <1>2 DEF Acquire
  <1>4. count \in 0 .. Cap - 1 /\ head \in Index /\ Cap \in Nat /\ count' = count + 1 /\ head' = head
    BY <1>i DEF Acquire, TypeOK, LedgerAssumption
  <1>5. \A i \in 1 .. count : At(i - 1) \in Index /\ At(i - 1) # f
    <2> SUFFICES ASSUME NEW i \in 1 .. count PROVE At(i - 1) \in Index /\ At(i - 1) # f
      OBVIOUS
    <2>1. At(i - 1) \in Index
      BY <1>i, QueueNow
    <2>2. i - 1 \in 0 .. Cap - 1 /\ i - 1 # count
      BY <1>4
    <2> QED BY <1>1, <1>4, <2>1, <2>2, AtInjective
  <1>6. \A i : At(i)' = At(i)
    BY <1>4 DEF At
  <1>7. /\ HoldersIn(readers', f) = HoldersIn(readers, f) \union {nextToken}
        /\ \A c \in Index : c # f => HoldersIn(readers', c) = HoldersIn(readers, c)
    BY <1>i, <1>3, AddReaderHolders
  <1>8. HoldersIn(readers, f) = {}
    <2> SUFFICES ASSUME NEW x \in HoldersIn(readers, f) PROVE FALSE
      OBVIOUS
    <2>1. PICK e \in Entry : readers[e].token # 0 /\ readers[e].frame = f
      BY HoldersAre
    <2>2. PICK i \in 0 .. count - 1 : readers[e].frame = At(i)
      BY <1>i, <2>1 DEF IInv, CountsMatch, Window, Live
    <2>3. i + 1 \in 1 .. count /\ (i + 1) - 1 = i
      BY <1>4
    <2> QED BY <1>5, <2>1, <2>2, <2>3
  <1>9. /\ frames'[f].gen = g /\ frames'[f].val = v /\ frames'[f].slot = s
        /\ \A c \in Index : c # f => frames'[c] = frames[c]
    <2>1. cell \in Frame
      BY DEF Frame, LedgerAssumption
    <2>2. fs \in [Index -> Frame] /\ fs[f] = cell /\ \A c \in Index : c # f => fs[c] = frames[c]
      BY <1>i, <1>2, <2>1 DEF TypeOK
    <2>3. frames' = [fs EXCEPT ![f].readers = @ + 1]
      BY <1>3 DEF AddReader
    <2> QED BY <2>2, <2>3
  <1>10. RecordIn(frames', readers', f) = new
    BY <1>7, <1>8, <1>9 DEF RecordIn
  <1>11. \A c \in Index : c # f => RecordIn(frames', readers', c) = RecordIn(frames, readers, c)
    BY <1>7, <1>9 DEF RecordIn
  <1>t. /\ nextToken \in 1 .. TokenLimit /\ nextToken \notin 1 .. nextToken - 1
        /\ 1 .. nextToken' - 1 = (1 .. nextToken - 1) \union {nextToken}
    BY <1>i, <1>3, OneMoreIssued DEF AddReader
  <1>12. new \in LeaseRecord
    BY <1>t DEF LeaseRecord, LedgerAssumption
  <1>13. LeasedQueue' = Append(LeasedQueue, new)
    <2> HIDE DEF new
    <2>1. /\ LeasedQueue \in Seq(LeaseRecord) /\ Len(LeasedQueue) = count /\ count \in Nat
          /\ \A i \in 1 .. count : LeasedQueue[i] = RecordIn(frames, readers, At(i - 1))
      BY <1>i, QueueNow
    <2>2. /\ LeasedQueue' \in Seq(LeaseRecord) /\ Len(LeasedQueue') = count + 1
          /\ \A i \in 1 .. count + 1 : LeasedQueue'[i] = RecordIn(frames', readers', At(i - 1))
      BY <1>i, <1>4, <1>6, QueueThen
    <2>3. /\ Append(LeasedQueue, new) \in Seq(LeaseRecord)
          /\ Len(Append(LeasedQueue, new)) = count + 1
          /\ \A i \in 1 .. count : Append(LeasedQueue, new)[i] = LeasedQueue[i]
          /\ Append(LeasedQueue, new)[count + 1] = new
      BY <1>12, <2>1, Appended
    <2>4. ASSUME NEW i \in 1 .. count + 1 PROVE LeasedQueue'[i] = Append(LeasedQueue, new)[i]
      <3>1. CASE i \in 1 .. count
        <4>1. RecordIn(frames', readers', At(i - 1)) = RecordIn(frames, readers, At(i - 1))
          BY <1>5, <1>11, <3>1
        <4> QED BY <2>1, <2>2, <2>3, <3>1, <4>1
      <3>2. CASE i = count + 1
        <4>1. i - 1 = count
          BY <2>1, <3>2
        <4>2. LeasedQueue'[i] = RecordIn(frames', readers', At(i - 1))
          BY <2>2
        <4> QED BY <1>1, <1>10, <2>3, <3>2, <4>1, <4>2
      <3> QED BY <2>1, <3>1, <3>2
    <2> QED BY <2>2, <2>3, <2>4, SeqSame
  <1>14. \A i \in 1 .. Len(LeasedQueue) :
           LeasedQueue[i].gen = g /\ LeasedQueue[i].val < v /\ LeasedQueue[i].slot # s
    <2> SUFFICES ASSUME NEW i \in 1 .. count
                 PROVE  LeasedQueue[i].gen = g /\ LeasedQueue[i].val < v /\ LeasedQueue[i].slot # s
      BY <1>i, QueueNow
    <2>1. LeasedQueue[i] = RecordIn(frames, readers, At(i - 1))
      BY <1>i, QueueNow
    <2>2. i - 1 \in 0 .. count - 1 /\ count # 0
      BY <1>4
    <2>3. /\ frames[At(i - 1)].gen = generation /\ frames[At(i - 1)].val \in 1 .. lastValue
          /\ frames[At(i - 1)].slot # s
      BY <1>i, <2>2 DEF IInv, WindowOrdered, Acquire
    <2>4. generation = g /\ lastValue < v
      BY <2>2 DEF Acquire
    <2>5. frames[At(i - 1)].val < v
      BY <1>i, <2>3, <2>4 DEF TypeOK, LedgerAssumption
    <2> QED BY <2>1, <2>3, <2>4, <2>5 DEF RecordIn
  <1> QED BY <1>13, <1>14, <1>t DEF Queue!Lease

(* Sequences that differ in one element. *)
LEMMA OneChanged ==
  ASSUME NEW S, NEW s \in Seq(S), NEW u \in Seq(S), NEW k \in 1 .. Len(s), Len(u) = Len(s),
         NEW x, u[k] = x, \A i \in 1 .. Len(s) : i # k => u[i] = s[i]
  PROVE  u = [s EXCEPT ![k] = x]
  OBVIOUS

(* retain() adds a holder to the frame of the token it is given. *)
LEMMA RetainShares ==
  ASSUME LedgerAssumption, QInv, NEW t, Retain(t)
  PROVE  /\ nextToken \in 1 .. TokenLimit
         /\ \E i \in 1 .. Len(LeasedQueue) : Queue!Share(i, nextToken)
  <1>i. IInv /\ TypeOK /\ IInv' /\ TypeOK'
    BY RetainStep DEF QInv, IInv
  <1>1. PICK e \in Entry : readers[e].token # 0 /\ AddReader(frames, readers[e].frame)
    BY DEF Retain, Find
  <1>2. PICK f \in Index : f = readers[e].frame
    BY <1>i DEF TypeOK, Reader
  <1>3. AddReader(frames, f)
    BY <1>1, <1>2
  <1>4. count \in 0 .. Cap /\ head \in Index /\ Cap \in Nat /\ count' = count /\ head' = head
    BY <1>i DEF Retain, TypeOK, LedgerAssumption
  <1>5. PICK j \in 0 .. count - 1 : f = At(j)
    BY <1>i, <1>1, <1>2 DEF IInv, CountsMatch, Window, Live
  <1>6. j + 1 \in 1 .. count /\ (j + 1) - 1 = j
    BY <1>4
  <1>7. \A i \in 1 .. count : i # j + 1 => At(i - 1) # f
    <2> SUFFICES ASSUME NEW i \in 1 .. count, i # j + 1, At(i - 1) = f PROVE FALSE
      OBVIOUS
    <2>1. i - 1 \in 0 .. Cap - 1 /\ j \in 0 .. Cap - 1 /\ i - 1 # j
      BY <1>4, <1>6
    <2> QED BY <1>4, <1>5, <2>1, AtInjective
  <1>8. \A i : At(i)' = At(i)
    BY <1>4 DEF At
  <1>9. /\ HoldersIn(readers', f) = HoldersIn(readers, f) \union {nextToken}
        /\ \A c \in Index : c # f => HoldersIn(readers', c) = HoldersIn(readers, c)
    BY <1>i, <1>3, AddReaderHolders
  <1>10. \A c \in Index : /\ frames'[c].gen = frames[c].gen /\ frames'[c].val = frames[c].val
                          /\ frames'[c].slot = frames[c].slot
    BY <1>i, <1>3, AddReaderCounts DEF IInv, TypeOK, CountsMatch
  <1>11. readers[e].token \in HoldersIn(readers, f)
    BY <1>1, <1>2, HolderOf
  <1>t. /\ nextToken \in 1 .. TokenLimit /\ nextToken \notin 1 .. nextToken - 1
        /\ 1 .. nextToken' - 1 = (1 .. nextToken - 1) \union {nextToken}
    BY <1>i, <1>3, OneMoreIssued DEF AddReader
  <1>12. /\ LeasedQueue \in Seq(LeaseRecord) /\ Len(LeasedQueue) = count
         /\ \A i \in 1 .. count : /\ At(i - 1) \in Index
                                  /\ LeasedQueue[i] = RecordIn(frames, readers, At(i - 1))
    BY <1>i, QueueNow
  <1>13. /\ LeasedQueue' \in Seq(LeaseRecord) /\ Len(LeasedQueue') = count
         /\ \A i \in 1 .. count : LeasedQueue'[i] = RecordIn(frames', readers', At(i - 1))
    BY <1>i, <1>4, <1>8, QueueThen
  <1>14. LeasedQueue[j + 1].holders = HoldersIn(readers, f)
    BY <1>5, <1>6, <1>12 DEF RecordIn
  <1>15. LeasedQueue' = [LeasedQueue EXCEPT ![j + 1].holders = @ \union {nextToken}]
    <2>1. ASSUME NEW i \in 1 .. count, i # j + 1 PROVE LeasedQueue'[i] = LeasedQueue[i]
      <3>1. At(i - 1) \in Index /\ At(i - 1) # f
        BY <1>7, <1>12, <2>1
      <3>2. RecordIn(frames', readers', At(i - 1)) = RecordIn(frames, readers, At(i - 1))
        BY <1>9, <1>10, <3>1 DEF RecordIn
      <3> QED BY <1>12, <1>13, <3>2
    <2>2. LeasedQueue'[j + 1] = [LeasedQueue[j + 1] EXCEPT !.holders = @ \union {nextToken}]
      <3>1. LeasedQueue[j + 1] = RecordIn(frames, readers, f)
        BY <1>5, <1>6, <1>12
      <3>2. LeasedQueue'[j + 1] = RecordIn(frames', readers', f)
        BY <1>5, <1>6, <1>13
      <3>3. RecordIn(frames', readers', f)
              = [RecordIn(frames, readers, f) EXCEPT !.holders = @ \union {nextToken}]
        <4>1. /\ frames'[f].gen = frames[f].gen /\ frames'[f].val = frames[f].val
              /\ frames'[f].slot = frames[f].slot
          BY <1>10
        <4> QED BY <1>9, <4>1 DEF RecordIn
      <3> QED BY <3>1, <3>2, <3>3
    <2> QED BY <1>6, <1>12, <1>13, <2>1, <2>2, OneChanged
  <1>16. Queue!Share(j + 1, nextToken)
    BY <1>11, <1>14, <1>15, <1>t DEF Queue!Share
  <1> QED BY <1>6, <1>12, <1>16, <1>t

(* complete() and finishDeferred() remove a holder. *)
LEMMA DropFinishes ==
  ASSUME LedgerAssumption, QInv, NEW t \in 1 .. TokenLimit, NEW p, DropReader(t, p)
  PROVE  \E i \in 1 .. Len(LeasedQueue) : Queue!Finish(i, t)
  <1>i. IInv /\ TypeOK /\ IInv' /\ TypeOK'
    BY DropReaderStep DEF QInv, IInv
  <1>1. PICK e \in Entry : /\ readers[e].token # 0 /\ readers[e].token = t
                           /\ readers' = [readers EXCEPT ![e] = NoReader]
    BY DEF DropReader, Find
  <1>2. PICK f \in Index : f = readers[e].frame
    BY <1>i DEF TypeOK, Reader
  <1>3. readers'[e].token = 0 /\ \A d \in Entry : d # e => readers'[d] = readers[d]
    BY <1>i, <1>1 DEF TypeOK, NoReader
  <1>4. count \in 0 .. Cap /\ head \in Index /\ Cap \in Nat /\ count' = count /\ head' = head
        /\ nextToken' = nextToken
    BY <1>i DEF DropReader, TypeOK, LedgerAssumption
  <1>5. PICK j \in 0 .. count - 1 : f = At(j)
    BY <1>i, <1>1, <1>2 DEF IInv, CountsMatch, Window, Live
  <1>6. j + 1 \in 1 .. count /\ (j + 1) - 1 = j
    BY <1>4
  <1>7. \A i \in 1 .. count : i # j + 1 => At(i - 1) # f
    <2> SUFFICES ASSUME NEW i \in 1 .. count, i # j + 1, At(i - 1) = f PROVE FALSE
      OBVIOUS
    <2>1. i - 1 \in 0 .. Cap - 1 /\ j \in 0 .. Cap - 1 /\ i - 1 # j
      BY <1>4, <1>6
    <2> QED BY <1>4, <1>5, <2>1, AtInjective
  <1>8. \A i : At(i)' = At(i)
    BY <1>4 DEF At
  <1>9. /\ HoldersIn(readers', f) = HoldersIn(readers, f) \ {t}
        /\ \A c \in Index : c # f => HoldersIn(readers', c) = HoldersIn(readers, c)
    BY <1>i, <1>1, <1>2, <1>3, DropReaderHolders DEF QInv, Live
  <1>10. \A c \in Index : /\ frames'[c].gen = frames[c].gen /\ frames'[c].val = frames[c].val
                          /\ frames'[c].slot = frames[c].slot
    BY <1>i, DropReaderCounts DEF IInv
  <1>11. t \in HoldersIn(readers, f)
    BY <1>1, <1>2, HolderOf
  <1>12. /\ LeasedQueue \in Seq(LeaseRecord) /\ Len(LeasedQueue) = count
         /\ \A i \in 1 .. count : /\ At(i - 1) \in Index
                                  /\ LeasedQueue[i] = RecordIn(frames, readers, At(i - 1))
    BY <1>i, QueueNow
  <1>13. /\ LeasedQueue' \in Seq(LeaseRecord) /\ Len(LeasedQueue') = count
         /\ \A i \in 1 .. count : LeasedQueue'[i] = RecordIn(frames', readers', At(i - 1))
    BY <1>i, <1>4, <1>8, QueueThen
  <1>14. LeasedQueue[j + 1].holders = HoldersIn(readers, f)
    BY <1>5, <1>6, <1>12 DEF RecordIn
  <1>15. LeasedQueue' = [LeasedQueue EXCEPT ![j + 1].holders = @ \ {t}]
    <2>1. ASSUME NEW i \in 1 .. count, i # j + 1 PROVE LeasedQueue'[i] = LeasedQueue[i]
      <3>1. At(i - 1) \in Index /\ At(i - 1) # f
        BY <1>7, <1>12, <2>1
      <3>2. RecordIn(frames', readers', At(i - 1)) = RecordIn(frames, readers, At(i - 1))
        BY <1>9, <1>10, <3>1 DEF RecordIn
      <3> QED BY <1>12, <1>13, <3>2
    <2>2. LeasedQueue'[j + 1] = [LeasedQueue[j + 1] EXCEPT !.holders = @ \ {t}]
      <3>1. LeasedQueue[j + 1] = RecordIn(frames, readers, f)
        BY <1>5, <1>6, <1>12
      <3>2. LeasedQueue'[j + 1] = RecordIn(frames', readers', f)
        BY <1>5, <1>6, <1>13
      <3>3. RecordIn(frames', readers', f) = [RecordIn(frames, readers, f) EXCEPT !.holders = @ \ {t}]
        <4>1. /\ frames'[f].gen = frames[f].gen /\ frames'[f].val = frames[f].val
              /\ frames'[f].slot = frames[f].slot
          BY <1>10
        <4> QED BY <1>9, <4>1 DEF RecordIn
      <3> QED BY <3>1, <3>2, <3>3
    <2> QED BY <1>6, <1>12, <1>13, <2>1, <2>2, OneChanged
  <1>16. Queue!Finish(j + 1, t)
    BY <1>4, <1>11, <1>14, <1>15 DEF Queue!Finish
  <1> QED BY <1>6, <1>12, <1>16

(* What is left of a sequence without its first m elements. *)
LEMMA Rest ==
  ASSUME NEW S, NEW s \in Seq(S), NEW m \in 1 .. Len(s)
  PROVE  /\ SubSeq(s, m + 1, Len(s)) \in Seq(S) /\ Len(SubSeq(s, m + 1, Len(s))) = Len(s) - m
         /\ \A i \in 1 .. Len(s) - m : SubSeq(s, m + 1, Len(s))[i] = s[m + i]
  <1>1. Len(s) \in Nat /\ m + 1 \in Nat /\ \A i \in m + 1 .. Len(s) : s[i] \in S
    OBVIOUS
  <1> QED BY <1>1

(* retired() removes the frames without holders at the front, and all of them. *)
LEMMA RetiredRetires ==
  ASSUME LedgerAssumption, QInv, Retired
  PROVE  \E n \in 1 .. Len(LeasedQueue) : Queue!RetirePrefix(n)
  <1>i. IInv /\ TypeOK /\ IInv' /\ TypeOK'
    BY RetiredStep DEF QInv, IInv
  <1>1. PICK m \in 1 .. count :
           /\ \A i \in 0 .. m - 1 : frames[At(i)].readers = 0
           /\ frames' = [j \in Index |->
                           IF \E i \in 0 .. m - 1 : j = At(i) THEN NoFrame ELSE frames[j]]
           /\ head' = At(m)
           /\ count' = count - m
           /\ m < count => frames[At(m)].readers # 0
    BY <1>i, RetiredPopsPrefix
  <1>2. readers' = readers /\ nextToken' = nextToken
    BY DEF Retired
  <1>3. /\ count \in 0 .. Cap /\ Cap \in Nat \ {0} /\ m \in 0 .. Cap /\ head \in Index
        /\ count \in Nat /\ m \in Nat
    BY <1>i, <1>1 DEF TypeOK, LedgerAssumption
  <1>4. /\ LeasedQueue \in Seq(LeaseRecord) /\ Len(LeasedQueue) = count
        /\ \A i \in 1 .. count : /\ At(i - 1) \in Index
                                 /\ LeasedQueue[i] = RecordIn(frames, readers, At(i - 1))
    BY <1>i, QueueNow
  <1>5. /\ LeasedQueue' \in Seq(LeaseRecord) /\ Len(LeasedQueue') = count - m
        /\ \A i \in 1 .. count - m : LeasedQueue'[i] = RecordIn(frames', readers, At(i - 1)')
    BY <1>i, <1>1, <1>2, QueueThen
  <1>6. ASSUME NEW f \in Index
        PROVE  frames[f].readers = 0 <=> HoldersIn(readers, f) = {}
    <2>1. frames[f].readers = Cardinality(ReadersOf(f)) /\ IsFiniteSet(ReadersOf(f))
      BY <1>i, ReadersFinite DEF IInv, CountsMatch
    <2>2. Cardinality(ReadersOf(f)) = 0 <=> ReadersOf(f) = {}
      BY <2>1, FS_EmptySet
    <2>3. ReadersOf(f) = {d \in Entry : readers[d].token # 0 /\ readers[d].frame = f}
      BY DEF ReadersOf, Live
    <2>4. ReadersOf(f) = {} <=> HoldersIn(readers, f) = {}
      BY <2>3 DEF HoldersIn
    <2> QED BY <2>1, <2>2, <2>4
  <1>7. \A i \in 1 .. m : LeasedQueue[i].holders = {}
    <2> SUFFICES ASSUME NEW i \in 1 .. m PROVE LeasedQueue[i].holders = {}
      OBVIOUS
    <2>1. i \in 1 .. count /\ i - 1 \in 0 .. m - 1
      BY <1>3
    <2>2. At(i - 1) \in Index /\ LeasedQueue[i] = RecordIn(frames, readers, At(i - 1))
      BY <1>4, <2>1
    <2>3. HoldersIn(readers, At(i - 1)) = {}
      BY <1>1, <1>6, <2>1, <2>2
    <2> QED BY <2>2, <2>3 DEF RecordIn
  <1>8. ASSUME m < count PROVE LeasedQueue[m + 1].holders # {}
    <2>1. m + 1 \in 1 .. count /\ (m + 1) - 1 = m
      BY <1>3, <1>8
    <2>2. At(m) \in Index /\ LeasedQueue[m + 1] = RecordIn(frames, readers, At(m))
      BY <1>4, <2>1
    <2>3. HoldersIn(readers, At(m)) # {}
      BY <1>1, <1>6, <1>8, <2>2
    <2> QED BY <2>2, <2>3 DEF RecordIn
  <1>9. LeasedQueue' = SubSeq(LeasedQueue, m + 1, count)
    <2>1. /\ SubSeq(LeasedQueue, m + 1, count) \in Seq(LeaseRecord)
          /\ Len(SubSeq(LeasedQueue, m + 1, count)) = count - m
          /\ \A i \in 1 .. count - m : SubSeq(LeasedQueue, m + 1, count)[i] = LeasedQueue[m + i]
      BY <1>1, <1>3, <1>4, Rest
    <2>2. ASSUME NEW i \in 1 .. count - m
          PROVE  LeasedQueue'[i] = LeasedQueue[m + i]
      <3>1. /\ m + i \in 1 .. count /\ (m + i) - 1 \in 0 .. Cap /\ m <= (m + i) - 1
            /\ ((m + i) - 1) - m = i - 1 /\ (m + i) - 1 \in 0 .. Cap - 1
        BY <1>1, <1>3
      <3>2. At(i - 1)' = At((m + i) - 1)
        <4>1. At(((m + i) - 1) - m)' = At((m + i) - 1)
          BY <1>1, <1>3, <3>1, AtShift
        <4> QED BY <3>1, <4>1
      <3>3. \A j \in 0 .. m - 1 : At((m + i) - 1) # At(j)
        <4> SUFFICES ASSUME NEW j \in 0 .. m - 1, At((m + i) - 1) = At(j) PROVE FALSE
          OBVIOUS
        <4>1. j \in 0 .. Cap - 1 /\ j < m
          BY <1>1, <1>3
        <4>2. (m + i) - 1 = j
          BY <1>3, <3>1, <4>1, AtInjective
        <4>3. j >= m
          BY <3>1, <4>2
        <4> QED BY <1>3, <4>1, <4>3
      <3>4. At((m + i) - 1) \in Index
        BY <1>4, <3>1
      <3>5. frames'[At((m + i) - 1)] = frames[At((m + i) - 1)]
        BY <1>1, <3>3, <3>4
      <3>6. RecordIn(frames', readers, At((m + i) - 1)) = RecordIn(frames, readers, At((m + i) - 1))
        BY <3>5 DEF RecordIn
      <3> QED BY <1>4, <1>5, <3>1, <3>2, <3>6
    <2> QED BY <1>5, <2>1, <2>2, SeqSame
  <1>10. Queue!RetirePrefix(m)
    BY <1>2, <1>4, <1>7, <1>8, <1>9 DEF Queue!RetirePrefix
  <1> QED BY <1>4, <1>10

(* defer() and resetEpoch() do not show in the queue. *)
LEMMA QueueStays ==
  ASSUME LedgerAssumption, QInv, TypeOK', frames' = frames, head' = head, count' = count,
         \A e \in Entry : /\ readers'[e].token = readers[e].token
                          /\ readers'[e].frame = readers[e].frame
  PROVE  LeasedQueue' = LeasedQueue
  <1>1. TypeOK
    BY DEF QInv, IInv
  <1>2. \A f : HoldersIn(readers', f) = HoldersIn(readers, f)
    BY DEF HoldersIn
  <1>3. \A f : RecordIn(frames', readers', f) = RecordIn(frames, readers, f)
    BY <1>2 DEF RecordIn
  <1>4. \A i : At(i)' = At(i)
    BY DEF At
  <1>5. /\ LeasedQueue \in Seq(LeaseRecord) /\ Len(LeasedQueue) = count
        /\ \A i \in 1 .. count : LeasedQueue[i] = RecordIn(frames, readers, At(i - 1))
    BY <1>1, QueueNow
  <1>6. /\ LeasedQueue' \in Seq(LeaseRecord) /\ Len(LeasedQueue') = count
        /\ \A i \in 1 .. count : LeasedQueue'[i] = RecordIn(frames', readers', At(i - 1))
    BY <1>4, QueueThen
  <1>7. \A i \in 1 .. count : LeasedQueue'[i] = LeasedQueue[i]
    BY <1>3, <1>5, <1>6
  <1> QED BY <1>5, <1>6, <1>7, SeqSame

(* Every step of the ledger is a step of the lease queue, or none. *)
LEMMA LedgerSteps ==
  ASSUME LedgerAssumption, QInv, [Next]_vars
  PROVE  [Queue!QueueNext]_Queue!queueVars
  <1>1. CASE \E g \in 1 .. MaxGen, v \in 1 .. MaxValue, s \in Slots : Acquire(g, v, s)
    BY <1>1, AcquireLeases DEF Queue!QueueNext
  <1>2. CASE \E t \in 1 .. TokenLimit : Retain(t)
    BY <1>2, RetainShares DEF Queue!QueueNext
  <1>3. CASE \E t \in 1 .. TokenLimit : Complete(t) \/ FinishDeferred(t)
    <2>1. PICK t \in 1 .. TokenLimit, p \in BOOLEAN : DropReader(t, p)
      BY <1>3 DEF Complete, FinishDeferred
    <2> QED BY <2>1, DropFinishes DEF Queue!QueueNext
  <1>4. CASE \E t \in 1 .. TokenLimit : Defer(t)
    <2>1. PICK e \in Entry : readers' = [readers EXCEPT ![e].pending = TRUE]
      BY <1>4 DEF Defer, Find
    <2>2. UNCHANGED <<frames, head, count, nextToken>>
      BY <1>4 DEF Defer
    <2>3. \A d \in Entry : /\ readers'[d].token = readers[d].token
                           /\ readers'[d].frame = readers[d].frame
      BY <2>1 DEF QInv, IInv, TypeOK, Reader
    <2>4. TypeOK'
      BY <1>4, DeferStep DEF QInv, IInv
    <2>5. LeasedQueue' = LeasedQueue
      BY <2>2, <2>3, <2>4, QueueStays
    <2> QED BY <2>2, <2>5 DEF Queue!queueVars
  <1>5. CASE Retired
    BY <1>5, RetiredRetires DEF Queue!QueueNext
  <1>6. CASE ResetEpoch \/ UNCHANGED vars
    <2>1. UNCHANGED <<frames, head, count, readers, nextToken>>
      BY <1>6 DEF ResetEpoch, vars
    <2>2. TypeOK'
      BY <1>6, NextIInv DEF QInv, IInv
    <2>3. LeasedQueue' = LeasedQueue
      BY <2>1, <2>2, QueueStays
    <2> QED BY <2>1, <2>3 DEF Queue!queueVars
  <1>7. CASE TokenElsewhere
    <2>1. UNCHANGED <<frames, head, count, readers>>
      BY <1>7 DEF TokenElsewhere
    <2>2. TypeOK'
      BY <1>7, TokenElsewhereStep DEF QInv, IInv
    <2>3. LeasedQueue' = LeasedQueue
      BY <2>1, <2>2, QueueStays
    <2>4. /\ nextToken \in 1 .. TokenLimit /\ nextToken \notin 1 .. nextToken - 1
          /\ 1 .. nextToken' - 1 = (1 .. nextToken - 1) \union {nextToken}
      BY <1>7, OneMoreIssued DEF TokenElsewhere, QInv, IInv
    <2>5. Queue!IssueElsewhere(nextToken)
      BY <2>3, <2>4 DEF Queue!IssueElsewhere
    <2> QED BY <2>4, <2>5 DEF Queue!QueueNext
  <1> QED BY <1>1, <1>2, <1>3, <1>4, <1>5, <1>6, <1>7 DEF Next

(* fl::ReadLedger implements the lease queue: whatever the size of its two   *)
(* tables, the circular array, the counts and the reader entries behave as a *)
(* queue of frames, each with the set of tokens that read it, whose front    *)
(* leaves when nobody reads it.                                              *)
THEOREM LedgerIsLeaseQueue == Spec => ImplementsLeaseQueue
  <1>1. Init => QInv
    <2> SUFFICES ASSUME Init PROVE QInv
      OBVIOUS
    <2>1. IInv
      BY LedgerAssumption, InitIInv
    <2>2. TokensDistinct
      BY DEF Init, TokensDistinct, NoReader, Live
    <2> QED BY <2>1, <2>2 DEF QInv
  <1>2. QInv /\ [Next]_vars => QInv'
    BY LedgerAssumption, NextIInv, TokensStayDistinct DEF QInv
  <1>3. QInv /\ [Next]_vars => [Queue!QueueNext]_Queue!queueVars
    BY LedgerAssumption, LedgerSteps
  <1>4. Init => Queue!QueueInit
    <2> SUFFICES ASSUME Init PROVE Queue!QueueInit
      OBVIOUS
    <2>1. count = 0 /\ 1 .. nextToken - 1 = {}
      BY DEF Init
    <2>2. TypeOK
      BY LedgerAssumption, InitIInv DEF IInv
    <2>3. LeasedQueue \in Seq(LeaseRecord) /\ Len(LeasedQueue) = 0
      BY LedgerAssumption, <2>1, <2>2, QueueNow
    <2>4. LeasedQueue = <<>>
      BY <2>3
    <2> QED BY <2>1, <2>4 DEF Queue!QueueInit
  <1> QED BY <1>1, <1>2, <1>3, <1>4, PTL DEF Spec, ImplementsLeaseQueue, Queue!QueueSpec

=============================================================================
