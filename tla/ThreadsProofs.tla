--------------------------- MODULE ThreadsProofs ---------------------------
(***************************************************************************)
(* Proofs about what the threads of one process share.                     *)
(* Flight recorder, for any set of threads and any capacity: the writers'  *)
(* part of the inductive invariant says what a buffer holds; the           *)
(* exporter's part says, for each thread, what is in the file before,      *)
(* while and after its buffer is visited.                                  *)
(* Session coordinator, for any tracks, threads, generations, mappings and *)
(* ends: what the history says of a generation agrees with the             *)
(* coordinator's state while that generation is in force, and no later     *)
(* generation has a history.                                               *)
(* Event channel, for any queue limit and number of records: what is       *)
(* delivered, queued, in hand and whole in the socket is the log, cut      *)
(* where the reader is.                                                    *)
(* A/V bins, for any tracks, sessions, pauses and calls of releaseMedia:   *)
(* the owners of a channel exclude one another, and a bin on its way to    *)
(* NULL has no call at work.                                               *)
(***************************************************************************)
EXTENDS MCThreads, MCAvBin, Sequences, TLAPS

-----------------------------------------------------------------------------
(* The flight recorder. *)

(* What a thread's buffer holds between the steps of record(). *)
BufferInv(t) ==
  /\ pc[t] # "idle" => buffer[t] = "own" /\ published[t] < Capacity
  /\ pc[t] = "stored" => events[t][published[t]] = published[t]
  /\ \A i \in Slots : i < published[t] => events[t][i] = i
  /\ buffer[t] # "none" => done[t] = published[t] + dropped[t]
  /\ buffer[t] # "own" => published[t] = 0 /\ dropped[t] = 0
  /\ dropped[t] > 0 => published[t] = Capacity
  /\ buffer[t] = "none" => t \in rejected
  /\ done[t] <= MaxEvents /\ (pc[t] # "idle" => done[t] < MaxEvents)

WriterInv == \A t \in Threads : BufferInv(t)

Row(t, i) == [thread |-> t, at |-> i, event |-> i]

(* t's events before the export began are rows or counted as dropped. *)
Accounted(t) ==
  \A i \in 0..MaxEvents :
    /\ i + lost[t] < seen[t] => Row(t, i) \in file
    /\ Row(t, i) \in file => i + lost[t] < done[t]

NoRows(t) == lost[t] = 0 /\ \A i \in 0..MaxEvents : Row(t, i) \notin file

ThreadInv(t) ==
  /\ seen[t] <= done[t]
  /\ t \in left => NoRows(t)
  /\ t \in now.t =>
       /\ now.count <= published[t] /\ seen[t] <= now.count + dropped[t] /\ lost[t] = 0
       /\ stage = "loss" => NoRows(t)
       /\ stage = "count" => \A i \in 0..MaxEvents : Row(t, i) \in file <=> i < now.count
  /\ (complete \/ stage # "idle") /\ t \notin left \union now.t /\ buffer[t] # "none" => Accounted(t)
  /\ complete /\ seen[t] > 0 /\ buffer[t] = "none" => t \in refused

ExportInv ==
  /\ stage = "idle" => left = {} /\ now.t = {}
  /\ stage # "idle" => ~complete
  /\ \A t \in left \union now.t : buffer[t] = "own"
  /\ \A t \in now.t : now.t = {t} /\ t \notin left /\ stage \in {"loss", "count"}
  /\ stage \in {"loss", "count"} => now.t # {}
  /\ \A t \in Threads : ThreadInv(t)

IInv == TypeOK /\ WriterInv /\ ExportInv /\ PrefixOnly

(* The inductive invariant holds initially. *)
LEMMA InitOK == Init => IInv
<1> SUFFICES ASSUME Init PROVE IInv
  OBVIOUS
<1> USE TraceAssumption
<1>1. TypeOK
  <2>1. complete \in BOOLEAN
    BY Zenon DEF Init
  <2>2. file \subseteq [thread : Threads, at : Slots, event : Nat \union {Torn}]
    BY DEF Init
  <2>3. events \in [Threads -> [Slots -> Nat \union {Torn}]]
    BY DEF Init
  <2>4. QED
    BY <2>1, <2>2, <2>3 DEF Init, TypeOK, Slots, Stages
<1>2. WriterInv
  BY DEF Init, WriterInv, BufferInv, Slots
<1>3. ExportInv
  BY DEF Init, ExportInv, ThreadInv
<1>4. PrefixOnly
  BY DEF Init, PrefixOnly
<1>5. QED
  BY <1>1, <1>2, <1>3, <1>4 DEF IInv

(* Every step keeps the types, given what the buffers hold. *)
LEMMA TypeStep == ASSUME IInv, [Next]_vars PROVE TypeOK'
<1> USE TraceAssumption DEF TypeOK, IInv
<1>1. ASSUME NEW t \in Threads, Attach(t) PROVE TypeOK'
  BY <1>1 DEF Attach, exporter
<1>2. ASSUME NEW t \in Threads, Reject(t) PROVE TypeOK'
  BY <1>2 DEF Reject, exporter
<1>3. ASSUME NEW t \in Threads, Skip(t) PROVE TypeOK'
  BY <1>3 DEF Skip, exporter
<1>4. ASSUME NEW t \in Threads, Drop(t) PROVE TypeOK'
  BY <1>4 DEF Drop, exporter
<1>5. ASSUME NEW t \in Threads, Store(t) PROVE TypeOK'
  <2>1. events' \in [Threads -> [Slots -> Nat \union {Torn}]]
    BY <1>5 DEF Store
  <2>2. QED
    BY <1>5, <2>1 DEF Store, exporter
<1>6. ASSUME NEW t \in Threads, Stored(t) PROVE TypeOK'
  <2>1. events' \in [Threads -> [Slots -> Nat \union {Torn}]]
    BY <1>6 DEF Stored
  <2>2. QED
    BY <1>6, <2>1 DEF Stored, exporter
<1>7. ASSUME NEW t \in Threads, Publish(t) PROVE TypeOK'
  <2>1. published[t] < Capacity
    BY <1>7 DEF Publish, WriterInv, BufferInv
  <2>2. QED
    BY <1>7, <2>1 DEF Publish, exporter
<1>8. CASE Begin
  <2>1. complete' \in BOOLEAN
    BY <1>8, Zenon DEF Begin
  <2>2. QED
    BY <1>8, <2>1 DEF Begin, writer, Owners, Stages
<1>9. ASSUME NEW t \in Threads, Visit(t) PROVE TypeOK'
  BY <1>9 DEF Visit, writer, Stages
<1>10. ASSUME NEW t \in Threads, Rows(t) PROVE TypeOK'
  <2>1. file' \subseteq [thread : Threads, at : Slots, event : Nat \union {Torn}]
    <3>1. \A i \in 0..(now.count - 1) : i \in Slots /\ events[t][i] \in Nat \union {Torn}
      BY DEF Slots
    <3>2. QED
      BY <1>10, <3>1 DEF Rows
  <2>2. QED
    BY <1>10, <2>1 DEF Rows, writer, Stages
<1>11. ASSUME NEW t \in Threads, Loss(t) PROVE TypeOK'
  BY <1>11 DEF Loss, writer, Stages
<1>12. CASE End
  <2>1. complete' \in BOOLEAN
    BY <1>12, Zenon DEF End
  <2>2. QED
    BY <1>12, <2>1 DEF End, writer, Stages
<1>13. CASE Fails
  BY <1>13 DEF Fails, writer, Stages
<1>14. CASE UNCHANGED vars
  BY <1>14 DEF vars, writer, exporter
<1>15. QED
  BY <1>1, <1>2, <1>3, <1>4, <1>5, <1>6, <1>7, <1>8, <1>9, <1>10, <1>11, <1>12, <1>13, <1>14
     DEF Next, Record, Flush

(* record() keeps what the buffers hold; the exporter does not touch them. *)
LEMMA WriterStep == ASSUME IInv, TypeOK', [Next]_vars PROVE WriterInv'
<1> SUFFICES ASSUME NEW u \in Threads PROVE BufferInv(u)'
  BY DEF WriterInv
<1> USE TraceAssumption
<1>1. ASSUME NEW t \in Threads, Attach(t) PROVE BufferInv(u)'
  BY <1>1 DEF Attach, TypeOK, IInv, WriterInv, BufferInv
<1>2. ASSUME NEW t \in Threads, Reject(t) PROVE BufferInv(u)'
  BY <1>2 DEF Reject, TypeOK, IInv, WriterInv, BufferInv
<1>3. ASSUME NEW t \in Threads, Skip(t) PROVE BufferInv(u)'
  BY <1>3 DEF Skip, TypeOK, IInv, WriterInv, BufferInv
<1>4. ASSUME NEW t \in Threads, Drop(t) PROVE BufferInv(u)'
  <2>1. CASE u # t
    BY <1>4, <2>1 DEF Drop, TypeOK, IInv, WriterInv, BufferInv
  <2>2. CASE u = t
    <3>1. /\ dropped'[u] = dropped[u] + 1 /\ done'[u] = done[u] + 1 /\ published'[u] = published[u]
          /\ published[u] = Capacity /\ buffer'[u] = "own" /\ buffer[u] = "own" /\ pc'[u] = "idle" /\ events' = events
      BY <1>4, <2>2 DEF Drop, TypeOK, IInv, WriterInv, BufferInv
    <3>2. done[u] < MaxEvents /\ done[u] = published[u] + dropped[u]
      BY <1>4, <2>2, <3>1 DEF Drop, TypeOK, IInv, WriterInv, BufferInv
    <3>3. MaxEvents \in Nat /\ done[u] \in Nat /\ done'[u] \in Nat /\ dropped'[u] \in Nat /\ dropped[u] \in Nat /\ published[u] \in Nat
      BY DEF TypeOK, IInv, WriterInv, BufferInv
    <3>4. \A i \in Slots : i < published[u] => events[u][i] = i
      BY DEF TypeOK, IInv, WriterInv, BufferInv
    <3>5. done'[u] <= MaxEvents /\ done'[u] = published'[u] + dropped'[u]
      BY <3>1, <3>2, <3>3
    <3>6. QED
      BY <3>1, <3>4, <3>5 DEF BufferInv
  <2>3. QED
    BY <2>1, <2>2
<1>5. ASSUME NEW t \in Threads, Store(t) PROVE BufferInv(u)'
  <2>1. CASE u # t
    BY <1>5, <2>1 DEF Store, TypeOK, IInv, WriterInv, BufferInv
  <2>2. CASE u = t
    BY <1>5, <2>2 DEF Store, Slots, TypeOK, IInv, WriterInv, BufferInv
  <2>3. QED
    BY <2>1, <2>2
<1>6. ASSUME NEW t \in Threads, Stored(t) PROVE BufferInv(u)'
  <2>1. CASE u # t
    BY <1>6, <2>1 DEF Stored, TypeOK, IInv, WriterInv, BufferInv
  <2>2. CASE u = t
    BY <1>6, <2>2 DEF Stored, Slots, TypeOK, IInv, WriterInv, BufferInv
  <2>3. QED
    BY <2>1, <2>2
<1>7. ASSUME NEW t \in Threads, Publish(t) PROVE BufferInv(u)'
  <2>1. CASE u # t
    BY <1>7, <2>1 DEF Publish, TypeOK, IInv, WriterInv, BufferInv
  <2>2. CASE u = t
    <3>1. /\ published'[u] = published[u] + 1 /\ done'[u] = done[u] + 1 /\ dropped'[u] = dropped[u]
          /\ buffer'[u] = "own" /\ pc'[u] = "idle" /\ events' = events
      BY <1>7, <2>2 DEF Publish, TypeOK, IInv, WriterInv, BufferInv
    <3>2. /\ published[u] < Capacity /\ events[u][published[u]] = published[u] /\ dropped[u] = 0
          /\ done[u] < MaxEvents /\ done[u] = published[u] + dropped[u]
      <4>1. BufferInv(u) /\ pc[u] = "stored" /\ dropped[u] \in Nat /\ published[u] \in 0..Capacity
        BY <1>7, <2>2 DEF Publish, TypeOK, IInv, WriterInv
      <4>2. QED
        BY <4>1 DEF BufferInv
    <3>3. MaxEvents \in Nat /\ done[u] \in Nat /\ published[u] \in Nat /\ dropped[u] \in Nat
      BY DEF TypeOK, IInv, WriterInv, BufferInv
    <3>4. \A i \in Slots : i < published[u] => events[u][i] = i
      BY DEF TypeOK, IInv, WriterInv, BufferInv
    <3>5. \A i \in Slots : i < published'[u] => events'[u][i] = i
      BY <3>1, <3>2, <3>3, <3>4 DEF Slots
    <3>6. done'[u] <= MaxEvents /\ done'[u] = published'[u] + dropped'[u]
      BY <3>1, <3>2, <3>3
    <3>7. QED
      BY <3>1, <3>2, <3>5, <3>6 DEF BufferInv
  <2>3. QED
    BY <2>1, <2>2
<1>8. CASE UNCHANGED writer
  BY <1>8 DEF writer, TypeOK, IInv, WriterInv, BufferInv
<1>9. QED
  BY <1>1, <1>2, <1>3, <1>4, <1>5, <1>6, <1>7, <1>8
     DEF Next, Record, Flush, Begin, Visit, Rows, Loss, End, Fails, vars

(* What the visit of a buffer adds to the file are committed events. *)
LEMMA VisitedRows ==
  ASSUME IInv, NEW t \in Threads, Rows(t)
  PROVE  /\ now.count <= published[t] /\ now.count \in 0..Capacity
         /\ file' = file \union {Row(t, i) : i \in 0..(now.count - 1)}
<1> USE TraceAssumption
<1>1. t \in now.t /\ now.count \in 0..Capacity /\ published[t] \in 0..Capacity
  BY DEF Rows, IInv, TypeOK
<1>2. now.count <= published[t]
  BY <1>1 DEF IInv, ExportInv, ThreadInv
<1>3. \A i \in 0..(now.count - 1) : events[t][i] = i
  <2>1. \A i \in 0..(now.count - 1) : i \in Slots /\ i < published[t]
    BY <1>1, <1>2 DEF Slots
  <2>2. QED
    BY <2>1 DEF IInv, WriterInv, BufferInv
<1>4. file' = file \union {Row(t, i) : i \in 0..(now.count - 1)}
  BY <1>3 DEF Rows, Row
<1>5. QED
  BY <1>1, <1>2, <1>4

(* Only committed events are ever written to the file. *)
LEMMA PrefixStep == ASSUME IInv, [Next]_vars PROVE PrefixOnly'
<1>1. ASSUME NEW t \in Threads, Rows(t) PROVE PrefixOnly'
  BY <1>1, VisitedRows DEF PrefixOnly, Row, IInv
<1>2. CASE Begin
  BY <1>2 DEF Begin, PrefixOnly
<1>3. CASE file' = file
  BY <1>3 DEF PrefixOnly, IInv
<1>4. QED
  BY <1>1, <1>2, <1>3
     DEF Next, Flush, Visit, Loss, End, Fails, vars, exporter,
         Record, Attach, Reject, Skip, Drop, Store, Stored, Publish

(* While only writers move, what is known of the file stays true: they only  *)
(* add, and a thread gets its verdict while no export runs.                  *)
LEMMA WriterKeeps ==
  ASSUME IInv, TypeOK', UNCHANGED exporter,
         \A t \in Threads :
           /\ published[t] <= published'[t] /\ dropped[t] <= dropped'[t] /\ done[t] <= done'[t]
           /\ buffer'[t] = buffer[t] \/ (stage = "idle" /\ buffer[t] = "unknown")
  PROVE  ExportInv'
<1> USE TraceAssumption
<1>1. ASSUME NEW t \in Threads PROVE ThreadInv(t)'
  <2>1. /\ seen[t] \in Nat /\ done[t] \in Nat /\ done'[t] \in Nat /\ dropped[t] \in Nat /\ dropped'[t] \in Nat
        /\ published[t] \in Nat /\ published'[t] \in Nat /\ now.count \in Nat /\ lost[t] \in Nat
    BY DEF IInv, TypeOK
  <2>2. ThreadInv(t) /\ published[t] <= published'[t] /\ dropped[t] <= dropped'[t] /\ done[t] <= done'[t]
    BY DEF IInv, ExportInv
  <2>3. seen'[t] <= done'[t]
    BY <2>1, <2>2 DEF ThreadInv, exporter
  <2>4. NoRows(t) => NoRows(t)'
    BY DEF NoRows, exporter
  <2>5. Accounted(t) => Accounted(t)'
    BY <2>1, <2>2 DEF Accounted, exporter
  <2>6. t \in now.t => now.count <= published'[t] /\ seen[t] <= now.count + dropped'[t] /\ lost[t] = 0
    BY <2>1, <2>2 DEF ThreadInv
  <2>7. buffer'[t] # "none" => buffer[t] # "none"
    BY DEF IInv, TypeOK
  <2>8. buffer'[t] = "none" => buffer[t] = "none" \/ seen[t] = 0
    <3>1. buffer[t] = "unknown" => done[t] = 0
      BY <2>1 DEF IInv, WriterInv, BufferInv
    <3>2. QED
      BY <3>1, <2>1, <2>2 DEF ThreadInv
  <2>9. QED
    BY <2>1, <2>2, <2>3, <2>4, <2>5, <2>6, <2>7, <2>8 DEF ThreadInv, exporter
<1>2. \A t \in left \union now.t : buffer'[t] = "own"
  BY DEF IInv, ExportInv, TypeOK
<1>3. QED
  BY <1>1, <1>2 DEF IInv, ExportInv, exporter

(* Every step keeps what is known of the file. *)
LEMMA ExportStep == ASSUME IInv, TypeOK', [Next]_vars PROVE ExportInv'
<1> USE TraceAssumption
<1>1. ASSUME NEW t \in Threads, Record(t) PROVE ExportInv'
  <2>1. UNCHANGED exporter
    BY <1>1 DEF Record, Attach, Reject, Skip, Drop, Store, Stored, Publish
  <2>2. \A u \in Threads : published[u] \in Nat /\ dropped[u] \in Nat /\ done[u] \in Nat
    BY DEF IInv, TypeOK
  <2>3. \A u \in Threads :
          /\ published[u] <= published'[u] /\ dropped[u] <= dropped'[u] /\ done[u] <= done'[u]
          /\ buffer'[u] = buffer[u] \/ (stage = "idle" /\ buffer[u] = "unknown")
    BY <1>1, <2>2 DEF Record, Attach, Reject, Skip, Drop, Store, Stored, Publish, IInv, TypeOK
  <2>4. QED
    BY <2>1, <2>3, WriterKeeps
<1>2. CASE UNCHANGED vars
  <2>1. \A u \in Threads : published[u] \in Nat /\ dropped[u] \in Nat /\ done[u] \in Nat
    BY DEF IInv, TypeOK
  <2>2. QED
    BY <1>2, <2>1, WriterKeeps DEF vars, writer
<1>3. CASE Begin
  <2>1. ASSUME NEW u \in Threads PROVE ThreadInv(u)'
    <3>1. seen'[u] = done[u] /\ done'[u] = done[u] /\ done[u] \in Nat /\ NoRows(u)'
      BY <1>3 DEF Begin, writer, NoRows, IInv, TypeOK
    <3>2. u \in left' <=> buffer'[u] = "own"
      BY <1>3 DEF Begin, writer, Owners
    <3>3. buffer'[u] # "none" /\ u \notin left' => done[u] = 0
      BY <1>3, <3>2 DEF Begin, writer, IInv, WriterInv, BufferInv, TypeOK
    <3>4. buffer'[u] # "none" /\ u \notin left' => Accounted(u)'
      BY <3>1, <3>3 DEF Accounted, NoRows
    <3>5. ~complete' /\ now'.t = {}
      BY <1>3 DEF Begin
    <3>6. QED
      BY <3>1, <3>4, <3>5 DEF ThreadInv
  <2>2. QED
    BY <1>3, <2>1 DEF Begin, writer, ExportInv, Owners
<1>4. ASSUME NEW t \in Threads, Visit(t) PROVE ExportInv'
  <2>1. ASSUME NEW u \in Threads PROVE ThreadInv(u)'
    <3>1. ThreadInv(u) /\ ~complete /\ ~complete' /\ stage' = "loss"
      BY <1>4 DEF Visit, IInv, ExportInv
    <3>2. NoRows(u)' = NoRows(u) /\ Accounted(u)' = Accounted(u)
      BY <1>4 DEF Visit, writer, NoRows, Accounted
    <3>3. CASE u = t
      <4>1. NoRows(u) /\ buffer[u] = "own"
        BY <1>4, <3>1, <3>3 DEF Visit, IInv, ExportInv, ThreadInv
      <4>2. /\ seen'[u] = seen[u] /\ done'[u] = done[u] /\ dropped'[u] = dropped[u] /\ published'[u] = published[u]
            /\ now'.count = published[u] /\ published[u] \in Nat /\ dropped[u] \in Nat /\ lost' = lost
        BY <1>4, <3>3 DEF Visit, writer, IInv, TypeOK
      <4>3. seen[u] <= published[u] + dropped[u]
        BY <3>1, <4>1, <4>2 DEF ThreadInv, IInv, WriterInv, BufferInv
      <4>4. u \notin left' /\ u \in now'.t
        BY <1>4, <3>3 DEF Visit
      <4>5. QED
        BY <3>1, <3>2, <4>1, <4>2, <4>3, <4>4 DEF ThreadInv, NoRows
    <3>4. CASE u # t
      BY <1>4, <3>1, <3>2, <3>4 DEF Visit, writer, ThreadInv
    <3>5. QED
      BY <3>3, <3>4
  <2>2. QED
    BY <1>4, <2>1 DEF Visit, writer, ExportInv, IInv
<1>5. ASSUME NEW t \in Threads, Rows(t) PROVE ExportInv'
  <2>1. ASSUME NEW u \in Threads PROVE ThreadInv(u)'
    <3>1. ThreadInv(u) /\ ~complete /\ ~complete' /\ stage' = "count" /\ now' = now /\ left' = left
      BY <1>5 DEF Rows, IInv, ExportInv
    <3>2. /\ seen'[u] = seen[u] /\ done'[u] = done[u] /\ dropped'[u] = dropped[u]
          /\ published'[u] = published[u] /\ lost'[u] = lost[u] /\ buffer'[u] = buffer[u]
      BY <1>5 DEF Rows, writer
    <3>3. /\ file' = file \union {Row(t, i) : i \in 0..(now.count - 1)}
          /\ now.count \in 0..Capacity
      BY <1>5, VisitedRows
    <3>4. CASE u = t
      <4>1. u \in now.t /\ u \notin left /\ NoRows(u)
        BY <1>5, <3>1, <3>4 DEF Rows, ThreadInv, IInv, ExportInv
      <4>2. \A i \in 0..MaxEvents : Row(u, i) \in file' <=> i < now.count
        <5>1. ASSUME NEW i \in 0..MaxEvents PROVE Row(u, i) \in file' <=> i < now.count
          <6>1. Row(u, i) \notin file
            BY <4>1 DEF NoRows
          <6>2. \A j \in 0..(now.count - 1) : Row(u, i) = Row(t, j) => i = j
            BY DEF Row
          <6>3. i < now.count => i \in 0..(now.count - 1)
            BY <3>3
          <6>4. QED
            BY <3>3, <3>4, <6>1, <6>2, <6>3
        <5>2. QED
          BY <5>1
      <4>3. QED
        BY <3>1, <3>2, <4>1, <4>2 DEF ThreadInv
    <3>5. CASE u # t
      <4>1. \A i \in 0..MaxEvents : Row(u, i) \in file' <=> Row(u, i) \in file
        BY <3>3, <3>5 DEF Row
      <4>2. NoRows(u)' = NoRows(u) /\ Accounted(u)' = Accounted(u)
        BY <3>2, <4>1 DEF NoRows, Accounted
      <4>3. u \notin now.t /\ stage # "idle"
        BY <1>5, <3>5 DEF Rows
      <4>4. QED
        BY <3>1, <3>2, <4>2, <4>3 DEF ThreadInv
    <3>6. QED
      BY <3>4, <3>5
  <2>2. QED
    BY <1>5, <2>1 DEF Rows, writer, ExportInv, IInv
<1>6. ASSUME NEW t \in Threads, Loss(t) PROVE ExportInv'
  <2>1. ASSUME NEW u \in Threads PROVE ThreadInv(u)'
    <3>1. ThreadInv(u) /\ ~complete /\ ~complete' /\ stage' = "rows" /\ now'.t = {} /\ left' = left
      BY <1>6 DEF Loss, IInv, ExportInv
    <3>2. seen'[u] = seen[u] /\ done'[u] = done[u] /\ buffer'[u] = buffer[u] /\ file' = file
      BY <1>6 DEF Loss, writer
    <3>3. CASE u = t
      <4>1. u \in now.t /\ u \notin left /\ buffer[u] = "own"
        BY <1>6, <3>3 DEF Loss, IInv, ExportInv
      <4>2. lost'[u] = dropped[u]
        BY <1>6, <3>3 DEF Loss, IInv, TypeOK
      <4>3. /\ seen[u] \in Nat /\ dropped[u] \in Nat /\ now.count \in Nat /\ published[u] \in Nat
            /\ done[u] = published[u] + dropped[u]
        BY <4>1 DEF IInv, TypeOK, WriterInv, BufferInv
      <4>4. /\ now.count <= published[u] /\ seen[u] <= now.count + dropped[u]
            /\ \A i \in 0..MaxEvents : Row(u, i) \in file <=> i < now.count
        BY <1>6, <3>1, <4>1 DEF Loss, ThreadInv
      <4>5. Accounted(u)'
        BY <3>2, <4>2, <4>3, <4>4 DEF Accounted, Row
      <4>6. QED
        BY <3>1, <3>2, <4>1, <4>5 DEF ThreadInv
    <3>4. CASE u # t
      <4>1. lost'[u] = lost[u] /\ u \notin now.t /\ stage # "idle"
        BY <1>6, <3>4 DEF Loss, IInv, TypeOK
      <4>2. NoRows(u)' = NoRows(u) /\ Accounted(u)' = Accounted(u)
        BY <3>2, <4>1 DEF NoRows, Accounted
      <4>3. QED
        BY <3>1, <3>2, <4>1, <4>2 DEF ThreadInv
    <3>5. QED
      BY <3>3, <3>4
  <2>2. QED
    BY <1>6, <2>1 DEF Loss, writer, ExportInv, IInv
<1>7. CASE End
  <2>1. ASSUME NEW u \in Threads PROVE ThreadInv(u)'
    <3>1. ThreadInv(u) /\ stage # "idle" /\ u \notin left /\ u \notin now.t /\ left' = left /\ now' = now
      BY <1>7 DEF End, IInv, ExportInv
    <3>2. Accounted(u)' = Accounted(u)
      BY <1>7 DEF End, writer, Accounted
    <3>3. buffer[u] = "none" => u \in refused'
      BY <1>7 DEF End, IInv, WriterInv, BufferInv
    <3>4. QED
      BY <1>7, <3>1, <3>2, <3>3 DEF End, writer, ThreadInv
  <2>2. QED
    BY <1>7, <2>1 DEF End, writer, ExportInv, IInv
<1>8. CASE Fails
  <2>1. ASSUME NEW u \in Threads PROVE ThreadInv(u)'
    <3>1. ThreadInv(u) /\ ~complete' /\ left' = {} /\ now'.t = {} /\ stage' = "idle"
      BY <1>8 DEF Fails, IInv, ExportInv
    <3>2. QED
      BY <1>8, <3>1 DEF Fails, writer, ThreadInv
  <2>2. QED
    BY <1>8, <2>1 DEF Fails, writer, ExportInv, IInv
<1>9. QED
  BY <1>1, <1>2, <1>3, <1>4, <1>5, <1>6, <1>7, <1>8 DEF Next, Flush

(* The inductive invariant holds in every behaviour. *)
LEMMA Invariance == Spec => []IInv
<1>1. ASSUME IInv, [Next]_vars PROVE IInv'
  BY <1>1, TypeStep, WriterStep, ExportStep, PrefixStep DEF IInv
<1>2. QED
  BY <1>1, InitOK, PTL DEF Spec

(* The recorder's state has its types: slots are written inside the buffer   *)
(* and no buffer ever holds more than its capacity.                          *)
THEOREM TraceTypeOK == Spec => []TypeOK
<1>1. IInv => TypeOK
  BY DEF IInv
<1>2. QED
  BY <1>1, Invariance, PTL

(* However many threads record while the export runs, what it writes are     *)
(* whole events, and a prefix of what each thread recorded.                  *)
THEOREM ExportIsPrefix == Spec => []PrefixOnly
<1>1. IInv => PrefixOnly
  BY DEF IInv
<1>2. QED
  BY <1>1, Invariance, PTL

(* A finished export accounts for every event recorded before it began, and  *)
(* for no more than were recorded.                                           *)
THEOREM LossIsReported == Spec => []LossReported
<1>1. IInv => LossReported
  <2> SUFFICES ASSUME IInv, complete, stage = "idle", NEW t \in Threads
      PROVE  /\ seen[t] > 0 /\ buffer[t] = "none" => t \in refused
             /\ buffer[t] # "none" => Accounted(t)
    BY DEF LossReported, Accounted, Row
  <2>1. ThreadInv(t) /\ left = {} /\ now.t = {}
    BY DEF IInv, ExportInv
  <2>2. QED
    BY <2>1 DEF ThreadInv
<1>2. QED
  BY <1>1, Invariance, PTL

-----------------------------------------------------------------------------
(* The session coordinator of any set of tracks and threads. *)
C(R, T, M, E) ==
  INSTANCE GstSession WITH Required <- R, Threads <- T, Mappings <- M, Ends <- E, events <- stream

Generations == 1 .. MaxGen

(* The history the coordinator leaves. *)
HistoryOK(M, E) ==
  /\ readyFor \in [{"video", "audio"} -> SUBSET Nat] /\ claims \in [Generations -> Nat]
  /\ mapped \subseteq (0 .. MaxGen) \X M /\ ended \subseteq (0 .. MaxGen) \X E

(* A track that is ready reported so for this generation and no other. *)
Readiness ==
  \A k \in {"video", "audio"} :
    readyFor[k] \subseteq {generation} /\ (k \in ready => generation \in readyFor[k])

(* What this generation's timestamps were converted with is the mapping. *)
MappedOnce ==
  \A x \in mapped :
    /\ x[1] <= generation /\ (x[1] = generation => x[2] = mapping)
    /\ \A y \in mapped : x[1] = y[1] => x[2] = y[2]

(* What this generation's waiters were told is the end. *)
EndedOnce ==
  \A x \in ended :
    /\ x[1] <= generation /\ (x[1] = generation => x[2] = videoEnd)
    /\ \A y \in ended : x[1] = y[1] => x[2] = y[2]

(* A claim of this generation's audio stream leaves a mark in the            *)
(* coordinator, and no later generation has been claimed.                    *)
ClaimedOnce ==
  \A g \in Generations :
    /\ claims[g] <= 1 /\ (g > generation => claims[g] = 0)
    /\ g = generation /\ claims[g] # 0 => audioClaimed /\ audio # "none"

CInv(R, T, M, E) ==
  /\ C(R, T, M, E)!TypeOK /\ HistoryOK(M, E)
  /\ Readiness /\ MappedOnce /\ EndedOnce /\ ClaimedOnce
  /\ C(R, T, M, E)!NoLostWakeup /\ C(R, T, M, E)!StreamsFollowSession

(* The invariant holds of a new coordinator. *)
LEMMA CInit ==
  ASSUME NEW R, NEW T, NEW M, NEW E, C(R, T, M, E)!SessionAssumption, C(R, T, M, E)!Init
  PROVE  CInv(R, T, M, E)
<1> USE DEF C!Init, C!SessionAssumption
<1>1. C(R, T, M, E)!TypeOK
  <2>1. {cancelled, audioClaimed} \subseteq BOOLEAN BY Zenon
  <2>2. thread \in [T -> C(R, T, M, E)!ThreadState]
    BY DEF C!Idle, C!ThreadState
  <2> QED BY <2>1, <2>2 DEF C!TypeOK, C!Gens
<1>2. HistoryOK(M, E) BY DEF HistoryOK, C!Gens, C!Tracks, Generations
<1>3. Readiness BY DEF Readiness, C!Tracks
<1>4. MappedOnce /\ EndedOnce BY DEF MappedOnce, EndedOnce
<1>5. ClaimedOnce BY DEF ClaimedOnce, C!Gens, Generations
<1>6. C(R, T, M, E)!NoLostWakeup BY DEF C!NoLostWakeup, C!Idle
<1>7. C(R, T, M, E)!StreamsFollowSession BY DEF C!StreamsFollowSession, C!Gens
<1> QED BY <1>1, <1>2, <1>3, <1>4, <1>5, <1>6, <1>7 DEF CInv

(* A broadcast leaves nobody asleep. *)
LEMMA CBroadcast ==
  ASSUME NEW R, NEW T, NEW M, NEW E, thread \in [T -> C(R, T, M, E)!ThreadState], C(R, T, M, E)!Broadcast
  PROVE  /\ thread' \in [T -> C(R, T, M, E)!ThreadState]
         /\ \A t \in T : thread'[t].at # "asleep" /\ thread'[t].at # "asleep eos"
<1>1. ASSUME NEW t \in T
      PROVE  /\ thread'[t] \in C(R, T, M, E)!ThreadState
             /\ thread'[t].at # "asleep" /\ thread'[t].at # "asleep eos"
  <2>1. thread[t] \in C(R, T, M, E)!ThreadState OBVIOUS
  <2>2. CASE thread[t].at = "asleep"
    BY <2>1, <2>2 DEF C!Broadcast, C!ThreadState
  <2>3. CASE thread[t].at = "asleep eos"
    BY <2>1, <2>3 DEF C!Broadcast, C!ThreadState
  <2>4. CASE thread[t].at # "asleep" /\ thread[t].at # "asleep eos"
    BY <2>1, <2>4 DEF C!Broadcast
  <2> QED BY <2>2, <2>3, <2>4
<1>2. thread' = [t \in T |-> thread'[t]] BY DEF C!Broadcast
<1> QED BY <1>1, <1>2

(* One thread enters or leaves a call. *)
LEMMA CThread ==
  ASSUME NEW R, NEW T, NEW M, NEW E, CInv(R, T, M, E), C(R, T, M, E)!SessionAssumption,
         NEW t \in T, NEW s \in C(R, T, M, E)!ThreadState, thread' = [thread EXCEPT ![t] = s],
         s.at = "asleep" => ~cancelled /\ (generation = 0 \/ (generation = s.gen /\ ready # R)),
         s.at = "asleep eos" => ~cancelled /\ generation = s.gen /\ videoEnd = "none",
         UNCHANGED <<generation, cancelled, registered, ready, mapping, videoEnd, audio, audioClaimed,
                     stream, channel, readyFor, claims, mapped>>,
         EndedOnce', ended' \subseteq (0 .. MaxGen) \X E
  PROVE  CInv(R, T, M, E)'
<1>1. C(R, T, M, E)!TypeOK'
  BY DEF CInv, C!TypeOK
<1>2. HistoryOK(M, E)' BY DEF CInv, HistoryOK
<1>3. Readiness' /\ MappedOnce' /\ ClaimedOnce' BY DEF CInv, Readiness, MappedOnce, ClaimedOnce
<1>4. C(R, T, M, E)!NoLostWakeup'
  <2>1. thread \in [T -> C(R, T, M, E)!ThreadState] BY DEF CInv, C!TypeOK
  <2>2. ASSUME NEW u \in T
        PROVE  /\ thread'[u].at = "asleep" =>
                    ~cancelled /\ ~(generation # 0 /\ generation # thread'[u].gen) /\ (generation = 0 \/ ready # R)
               /\ thread'[u].at = "asleep eos" =>
                    ~cancelled /\ generation = thread'[u].gen /\ videoEnd = "none"
    <3>1. CASE u = t BY <2>1, <3>1
    <3>2. CASE u # t
      BY <2>1, <3>2 DEF CInv, C!NoLostWakeup, C!WaitRefused, C!EosRefused, C!None
    <3> QED BY <3>1, <3>2
  <2> QED BY <2>2 DEF C!NoLostWakeup, C!WaitRefused, C!EosRefused, C!None
<1>5. C(R, T, M, E)!StreamsFollowSession' BY DEF CInv, C!StreamsFollowSession
<1> QED BY <1>1, <1>2, <1>3, <1>4, <1>5 DEF CInv

(* The calls that change nothing but the thread that makes them. *)
LEMMA CCalls ==
  ASSUME NEW R, NEW T, NEW M, NEW E, CInv(R, T, M, E), C(R, T, M, E)!SessionAssumption, NEW t \in T,
         \/ \E g \in Generations :
              C(R, T, M, E)!WaitCall(t, g) \/ C(R, T, M, E)!EosCall(t, g) \/ C(R, T, M, E)!LookupChannel(t, g)
         \/ C(R, T, M, E)!Waiter(t) \/ C(R, T, M, E)!WaitSleeps(t) \/ C(R, T, M, E)!EosSleeps(t)
         \/ C(R, T, M, E)!WaitTimeout(t) \/ C(R, T, M, E)!ChannelCall(t)
  PROVE  CInv(R, T, M, E)'
<1> USE DEF C!configVars, C!streamVars, C!historyVars, C!Idle
<1> DEFINE TS == C(R, T, M, E)!ThreadState
           Rest == UNCHANGED <<generation, cancelled, registered, ready, mapping, videoEnd, audio, audioClaimed,
                               stream, channel, readyFor, claims, mapped>>
<1>1. /\ thread[t] \in TS /\ generation \in Nat /\ stream \in 0 .. MaxGen /\ MaxGen \in Nat
      /\ thread \in [T -> TS]
  BY DEF CInv, C!TypeOK, C!SessionAssumption
<1>2. EndedOnce /\ ended \subseteq (0 .. MaxGen) \X E
  BY DEF CInv, HistoryOK
<1>3. [at |-> "idle", gen |-> 0] \in TS
  <2>1. 0 \in 0 .. MaxGen BY <1>1
  <2> QED BY <2>1 DEF C!ThreadState
<1>4. CASE thread' = [thread EXCEPT ![t] = [at |-> "idle", gen |-> 0]] /\ Rest /\ ended' = ended
  <2>1. EndedOnce' BY <1>2, <1>4 DEF EndedOnce
  <2> QED BY <1>2, <1>3, <1>4, <2>1, CThread
<1>5. ASSUME NEW g \in Generations,
             C(R, T, M, E)!WaitCall(t, g) \/ C(R, T, M, E)!EosCall(t, g) \/ C(R, T, M, E)!LookupChannel(t, g)
      PROVE  CInv(R, T, M, E)'
  <2>1. PICK s \in TS : /\ thread' = [thread EXCEPT ![t] = s] /\ s.at # "asleep" /\ s.at # "asleep eos"
                        /\ Rest /\ ended' = ended
    <3>1. \A a \in {"wait", "eos", "channel"} : [at |-> a, gen |-> g] \in TS /\ [at |-> a, gen |-> stream] \in TS
      <4>1. g \in 0 .. MaxGen /\ stream \in 0 .. MaxGen BY <1>1 DEF Generations
      <4> QED BY <4>1 DEF C!ThreadState
    <3>2. CASE C(R, T, M, E)!WaitCall(t, g) BY <3>1, <3>2 DEF C!WaitCall
    <3>3. CASE C(R, T, M, E)!EosCall(t, g) BY <3>1, <3>3 DEF C!EosCall
    <3>4. CASE C(R, T, M, E)!LookupChannel(t, g) BY <3>1, <3>4 DEF C!LookupChannel
    <3> QED BY <1>5, <3>2, <3>3, <3>4
  <2>2. EndedOnce' BY <1>2, <2>1 DEF EndedOnce
  <2> QED BY <1>2, <2>1, <2>2, CThread
<1>6. CASE C(R, T, M, E)!WaitDone(t) BY <1>4, <1>6 DEF C!WaitDone
<1>7. CASE C(R, T, M, E)!WaitReady(t) BY <1>4, <1>7 DEF C!WaitReady
<1>8. CASE C(R, T, M, E)!EosDone(t) BY <1>4, <1>8 DEF C!EosDone
<1>9. CASE C(R, T, M, E)!WaitTimeout(t) BY <1>4, <1>9 DEF C!WaitTimeout
<1>10. CASE C(R, T, M, E)!ChannelCall(t) BY <1>4, <1>10 DEF C!ChannelCall
<1>11. CASE C(R, T, M, E)!WaitSleeps(t)
  <2>1. PICK s : s = [thread[t] EXCEPT !.at = "asleep"] OBVIOUS
  <2>2. s \in TS /\ s.at = "asleep" /\ s.gen = thread[t].gen BY <1>1, <2>1 DEF C!ThreadState
  <2>3. thread' = [thread EXCEPT ![t] = s] /\ Rest /\ ended' = ended
    BY <1>1, <1>11, <2>1 DEF C!WaitSleeps
  <2>4. ~cancelled /\ (generation = 0 \/ (generation = s.gen /\ ready # R))
    BY <1>11, <2>2 DEF C!WaitSleeps, C!WaitRefused
  <2>5. EndedOnce' BY <1>2, <2>3 DEF EndedOnce
  <2> QED BY <1>2, <2>2, <2>3, <2>4, <2>5, CThread
<1>12. CASE C(R, T, M, E)!EosSleeps(t)
  <2>1. PICK s : s = [thread[t] EXCEPT !.at = "asleep eos"] OBVIOUS
  <2>2. s \in TS /\ s.at = "asleep eos" /\ s.gen = thread[t].gen BY <1>1, <2>1 DEF C!ThreadState
  <2>3. thread' = [thread EXCEPT ![t] = s] /\ Rest /\ ended' = ended
    BY <1>1, <1>12, <2>1 DEF C!EosSleeps
  <2>4. ~cancelled /\ generation = s.gen /\ videoEnd = "none"
    BY <1>12, <2>2 DEF C!EosSleeps, C!EosRefused, C!None
  <2>5. EndedOnce' BY <1>2, <2>3 DEF EndedOnce
  <2> QED BY <1>2, <2>2, <2>3, <2>4, <2>5, CThread
<1>13. CASE C(R, T, M, E)!EosKnown(t)
  <2>1. /\ thread' = [thread EXCEPT ![t] = [at |-> "idle", gen |-> 0]] /\ Rest
        /\ ended' = ended \union {<<generation, videoEnd>>} /\ videoEnd # "none"
        /\ generation = thread[t].gen
    BY <1>13 DEF C!EosKnown, C!EosRefused, C!None
  <2>2. videoEnd \in E BY <2>1 DEF CInv, C!TypeOK, C!None
  <2>3. ended' \subseteq (0 .. MaxGen) \X E
    <3>1. generation \in 0 .. MaxGen BY DEF CInv, C!TypeOK
    <3>2. <<generation, videoEnd>> \in (0 .. MaxGen) \X E BY <2>2, <3>1
    <3> QED BY <1>2, <2>1, <3>2
  <2>4. EndedOnce'
    <3> DEFINE new == <<generation, videoEnd>>
    <3>1. new[1] = generation /\ new[2] = videoEnd OBVIOUS
    <3>2. ASSUME NEW x \in ended' PROVE x[1] <= generation /\ (x[1] = generation => x[2] = videoEnd)
      BY <1>1, <1>2, <2>1, <3>1 DEF EndedOnce
    <3>3. ASSUME NEW x \in ended', NEW y \in ended', x[1] = y[1] PROVE x[2] = y[2]
      BY <1>2, <2>1, <3>1, <3>2, <3>3 DEF EndedOnce
    <3> QED BY <2>1, <3>2, <3>3 DEF EndedOnce
  <2> QED BY <1>3, <2>1, <2>3, <2>4, CThread
<1> QED BY <1>5, <1>6, <1>7, <1>8, <1>9, <1>10, <1>11, <1>12, <1>13 DEF C!Waiter

(* Nobody sleeps after a broadcast, so no wakeup is lost by it. *)
LEMMA CAwake ==
  ASSUME NEW R, NEW T, NEW M, NEW E, C(R, T, M, E)!TypeOK, C(R, T, M, E)!Broadcast
  PROVE  thread' \in [T -> C(R, T, M, E)!ThreadState] /\ C(R, T, M, E)!NoLostWakeup'
<1>1. /\ thread' \in [T -> C(R, T, M, E)!ThreadState]
      /\ \A t \in T : thread'[t].at # "asleep" /\ thread'[t].at # "asleep eos"
  BY CBroadcast DEF C!TypeOK
<1> QED BY <1>1 DEF C!NoLostWakeup

(* Cancelling a channel leaves no other one open. *)
LEMMA CCancelled ==
  ASSUME NEW R, NEW T, NEW M, NEW E, C(R, T, M, E)!TypeOK, C(R, T, M, E)!StreamsFollowSession,
         C(R, T, M, E)!SessionAssumption
  PROVE  /\ C(R, T, M, E)!Cancelled(stream) \in [Generations -> {"none", "open", "cancelled", "failed"}]
         /\ \A g \in Generations : C(R, T, M, E)!Cancelled(stream)[g] # "open"
<1>1. /\ channel \in [Generations -> {"none", "open", "cancelled", "failed"}]
      /\ stream \in 0 .. MaxGen /\ MaxGen \in Nat
  BY DEF C!TypeOK, C!SessionAssumption, C!Gens, Generations
<1>2. \A g \in Generations : channel[g] = "open" => g = stream
  BY DEF C!StreamsFollowSession, C!Gens, Generations
<1>3. CASE stream # 0 /\ channel[stream] = "open"
  <2>1. stream \in Generations BY <1>1, <1>3 DEF Generations
  <2>2. C(R, T, M, E)!Cancelled(stream) = [channel EXCEPT ![stream] = "cancelled"]
    BY <1>3 DEF C!Cancelled
  <2>3. \A g \in Generations : g # stream => channel[g] # "open" BY <1>2
  <2> QED BY <1>1, <2>1, <2>2, <2>3
<1>4. CASE ~(stream # 0 /\ channel[stream] = "open")
  <2>1. C(R, T, M, E)!Cancelled(stream) = channel
    BY <1>4 DEF C!Cancelled
  <2>2. \A g \in Generations : g # 0 BY <1>1 DEF Generations
  <2> QED BY <1>1, <1>2, <1>4, <2>1, <2>2
<1> QED BY <1>3, <1>4

(* A configuration of a newer generation tears the old one down. *)
LEMMA CConfigure ==
  ASSUME NEW R, NEW T, NEW M, NEW E, CInv(R, T, M, E), C(R, T, M, E)!SessionAssumption,
         NEW g \in Generations, C(R, T, M, E)!Configure(g)
  PROVE  CInv(R, T, M, E)'
<1>0. /\ g > generation /\ generation' = g /\ mapping' = "none" /\ videoEnd' = "none"
      /\ cancelled' = FALSE /\ ready' = {} /\ audio' = "none" /\ audioClaimed' = FALSE
      /\ channel' = C(R, T, M, E)!Cancelled(stream) /\ stream' = 0
      /\ readyFor' = [t \in {"video", "audio"} |-> {}]
      /\ UNCHANGED <<registered, claims, mapped, ended>> /\ C(R, T, M, E)!Broadcast
  BY DEF C!Configure, C!None, C!Forgotten, C!Tracks
<1>1. /\ C(R, T, M, E)!TypeOK /\ C(R, T, M, E)!StreamsFollowSession /\ HistoryOK(M, E) /\ MappedOnce
      /\ EndedOnce /\ ClaimedOnce
  BY DEF CInv
<1>2. generation \in Nat /\ g \in 0 .. MaxGen /\ g \in Nat /\ 0 \in 0 .. MaxGen /\ MaxGen \in Nat
  BY <1>1 DEF C!TypeOK, C!SessionAssumption, Generations
<1>3. thread' \in [T -> C(R, T, M, E)!ThreadState] /\ C(R, T, M, E)!NoLostWakeup'
  BY <1>0, <1>1, CAwake
<1>4. /\ channel' \in [Generations -> {"none", "open", "cancelled", "failed"}]
      /\ \A h \in Generations : channel'[h] # "open"
  BY <1>0, <1>1, CCancelled
<1>5. C(R, T, M, E)!TypeOK'
  <2>1. {cancelled', audioClaimed'} \subseteq BOOLEAN BY <1>0, Zenon
  <2> QED BY <1>0, <1>1, <1>2, <1>3, <1>4, <2>1 DEF C!TypeOK, C!Gens, Generations, C!None
<1>6. HistoryOK(M, E)' BY <1>0, <1>1 DEF HistoryOK
<1>7. Readiness' BY <1>0 DEF Readiness
<1>8. MappedOnce'
  <2>1. \A x \in mapped : x[1] \in Nat /\ x[1] <= generation BY <1>1 DEF HistoryOK, MappedOnce
  <2>2. \A x \in mapped : x[1] <= g /\ x[1] # g BY <1>0, <1>2, <2>1
  <2> QED BY <1>0, <1>1, <2>2 DEF MappedOnce
<1>9. EndedOnce'
  <2>1. \A x \in ended : x[1] \in Nat /\ x[1] <= generation BY <1>1 DEF HistoryOK, EndedOnce
  <2>2. \A x \in ended : x[1] <= g /\ x[1] # g BY <1>0, <1>2, <2>1
  <2> QED BY <1>0, <1>1, <2>2 DEF EndedOnce
<1>10. ClaimedOnce'
  <2>1. \A h \in Generations : h > g => h > generation BY <1>0, <1>2 DEF Generations
  <2>2. claims[g] = 0 BY <1>0, <1>1 DEF ClaimedOnce
  <2> QED BY <1>0, <1>1, <2>1, <2>2 DEF ClaimedOnce
<1>11. C(R, T, M, E)!StreamsFollowSession'
  BY <1>0, <1>4 DEF C!StreamsFollowSession, C!Gens, Generations
<1> QED BY <1>3, <1>5, <1>6, <1>7, <1>8, <1>9, <1>10, <1>11 DEF CInv

(* A cancellation, asked for or met by get_config. *)
LEMMA CCancel ==
  ASSUME NEW R, NEW T, NEW M, NEW E, CInv(R, T, M, E), C(R, T, M, E)!SessionAssumption,
         C(R, T, M, E)!Cancel \/ C(R, T, M, E)!GetConfig
  PROVE  CInv(R, T, M, E)'
<1>0. /\ cancelled' = TRUE /\ ready' = {} /\ readyFor' = [t \in {"video", "audio"} |-> {}]
      /\ audio' = IF audio = "open" THEN "shutdown" ELSE audio
      /\ UNCHANGED <<generation, mapping, videoEnd, registered, audioClaimed, stream, claims, mapped, ended>>
      /\ C(R, T, M, E)!Broadcast
  BY DEF C!Cancel, C!GetConfig, C!Forgotten, C!Tracks, C!Shutdown, C!configVars
<1>1. /\ C(R, T, M, E)!TypeOK /\ C(R, T, M, E)!StreamsFollowSession /\ HistoryOK(M, E) /\ MappedOnce
      /\ EndedOnce /\ ClaimedOnce
  BY DEF CInv
<1>2. audio \in {"none", "open", "shutdown"} BY <1>1 DEF C!TypeOK
<1>3. thread' \in [T -> C(R, T, M, E)!ThreadState] /\ C(R, T, M, E)!NoLostWakeup'
  BY <1>0, <1>1, CAwake
<1>4. /\ channel' \in [Generations -> {"none", "open", "cancelled", "failed"}]
      /\ \A h \in Generations : channel'[h] # "open"
  <2>1. CASE C(R, T, M, E)!Cancel BY <1>1, <2>1, CCancelled DEF C!Cancel
  <2>2. CASE C(R, T, M, E)!GetConfig
    <3>1. channel' = channel /\ channel[stream] = "failed" BY <2>2 DEF C!GetConfig
    <3> QED BY <1>1, <3>1 DEF C!TypeOK, C!StreamsFollowSession, C!Gens, Generations
  <2> QED BY <2>1, <2>2
<1>5. C(R, T, M, E)!TypeOK'
  <2>1. {cancelled', audioClaimed'} \subseteq BOOLEAN
    <3>1. audioClaimed \in BOOLEAN BY <1>1 DEF C!TypeOK
    <3> QED BY <1>0, <3>1
  <2>2. audio' \in {"none", "open", "shutdown"} BY <1>0, <1>2
  <2> QED BY <1>0, <1>1, <1>3, <1>4, <2>1, <2>2 DEF C!TypeOK, C!Gens, Generations
<1>6. HistoryOK(M, E)' BY <1>0, <1>1 DEF HistoryOK
<1>7. Readiness' BY <1>0 DEF Readiness
<1>8. MappedOnce' /\ EndedOnce' BY <1>0, <1>1 DEF MappedOnce, EndedOnce
<1>9. ClaimedOnce' BY <1>0, <1>1, <1>2 DEF ClaimedOnce
<1>10. C(R, T, M, E)!StreamsFollowSession'
  BY <1>0, <1>2, <1>4 DEF C!StreamsFollowSession, C!Gens, Generations
<1> QED BY <1>3, <1>5, <1>6, <1>7, <1>8, <1>9, <1>10 DEF CInv

(* A track registers, or reports ready. *)
LEMMA CTracks ==
  ASSUME NEW R, NEW T, NEW M, NEW E, CInv(R, T, M, E), C(R, T, M, E)!SessionAssumption,
         NEW k \in {"video", "audio"},
         C(R, T, M, E)!RegisterTrack(k) \/ \E g \in Generations : C(R, T, M, E)!TrackReady(k, g)
  PROVE  CInv(R, T, M, E)'
<1>1. /\ C(R, T, M, E)!TypeOK /\ C(R, T, M, E)!StreamsFollowSession /\ HistoryOK(M, E) /\ MappedOnce
      /\ EndedOnce /\ ClaimedOnce /\ Readiness /\ C(R, T, M, E)!NoLostWakeup
  BY DEF CInv
<1>2. CASE C(R, T, M, E)!RegisterTrack(k)
  <2>0. /\ k \in R /\ registered' = registered \union {k}
        /\ UNCHANGED <<generation, mapping, videoEnd, cancelled, ready, audio, audioClaimed, stream, channel,
                       thread, readyFor, claims, mapped, ended>>
    BY <1>2 DEF C!RegisterTrack, C!configVars, C!streamVars, C!historyVars
  <2>1. C(R, T, M, E)!TypeOK' BY <1>1, <2>0 DEF C!TypeOK
  <2>2. HistoryOK(M, E)' /\ MappedOnce' /\ EndedOnce' /\ ClaimedOnce' /\ Readiness'
    BY <1>1, <2>0 DEF HistoryOK, MappedOnce, EndedOnce, ClaimedOnce, Readiness
  <2>3. C(R, T, M, E)!StreamsFollowSession' /\ C(R, T, M, E)!NoLostWakeup'
    BY <1>1, <2>0 DEF C!StreamsFollowSession, C!NoLostWakeup, C!WaitRefused, C!EosRefused
  <2> QED BY <2>1, <2>2, <2>3 DEF CInv
<1>3. ASSUME NEW g \in Generations, C(R, T, M, E)!TrackReady(k, g) PROVE CInv(R, T, M, E)'
  <2>0. /\ g = generation /\ k \in registered /\ ready' = ready \union {k}
        /\ readyFor' = [readyFor EXCEPT ![k] = @ \union {g}]
        /\ UNCHANGED <<generation, mapping, videoEnd, cancelled, registered, audio, audioClaimed, stream, channel,
                       claims, mapped, ended>>
        /\ C(R, T, M, E)!Broadcast
    BY <1>3 DEF C!TrackReady, C!configVars, C!streamVars
  <2>1. thread' \in [T -> C(R, T, M, E)!ThreadState] /\ C(R, T, M, E)!NoLostWakeup'
    BY <1>1, <2>0, CAwake
  <2>2. C(R, T, M, E)!TypeOK' BY <1>1, <2>0, <2>1 DEF C!TypeOK
  <2>3. HistoryOK(M, E)'
    <3>1. g \in Nat BY DEF Generations
    <3>2. readyFor[k] \union {g} \in SUBSET Nat BY <1>1, <3>1 DEF HistoryOK
    <3> QED BY <1>1, <2>0, <3>2 DEF HistoryOK
  <2>4. Readiness' BY <1>1, <2>0 DEF HistoryOK, Readiness
  <2>5. MappedOnce' /\ EndedOnce' /\ ClaimedOnce'
    BY <1>1, <2>0 DEF MappedOnce, EndedOnce, ClaimedOnce
  <2>6. C(R, T, M, E)!StreamsFollowSession'
    BY <1>1, <2>0 DEF C!StreamsFollowSession
  <2> QED BY <2>1, <2>2, <2>3, <2>4, <2>5, <2>6 DEF CInv
<1> QED BY <1>2, <1>3

(* The transport installs the mapping, or a timestamp is converted with it. *)
LEMMA CMapping ==
  ASSUME NEW R, NEW T, NEW M, NEW E, CInv(R, T, M, E), C(R, T, M, E)!SessionAssumption, NEW g \in Generations,
         \/ \E m \in M : C(R, T, M, E)!SetMapping(g, m)
         \/ C(R, T, M, E)!MapPts(g) \/ \E r \in BOOLEAN : C(R, T, M, E)!MapRunningTime(g, r)
  PROVE  CInv(R, T, M, E)'
<1>0. /\ UNCHANGED <<generation, videoEnd, cancelled, registered, ready, audio, audioClaimed, stream, channel,
                     thread, readyFor, claims, ended>>
      /\ g = generation
      /\ \/ mapped' = mapped /\ mapping \in {"none", mapping'} /\ mapping' \in M
         \/ mapping' = mapping /\ mapped' = mapped \union {<<g, m>> : m \in {mapping} \ {"none"}}
  BY DEF C!SetMapping, C!MapPts, C!MapRunningTime, C!Converted, C!configVars, C!streamVars, C!historyVars, C!None
<1>1. /\ C(R, T, M, E)!TypeOK /\ C(R, T, M, E)!StreamsFollowSession /\ HistoryOK(M, E) /\ MappedOnce
      /\ EndedOnce /\ ClaimedOnce /\ Readiness /\ C(R, T, M, E)!NoLostWakeup
  BY DEF CInv
<1>2. mapping \in M \union {"none"} /\ "none" \notin M /\ generation \in 0 .. MaxGen
  BY <1>1 DEF C!TypeOK, C!SessionAssumption, C!None
<1>3. C(R, T, M, E)!TypeOK'
  <2>1. mapping' \in M \union {"none"} BY <1>0, <1>2
  <2> QED BY <1>0, <1>1, <2>1 DEF C!TypeOK, C!None
<1>4. EndedOnce' /\ ClaimedOnce' /\ Readiness' /\ C(R, T, M, E)!StreamsFollowSession' /\ C(R, T, M, E)!NoLostWakeup'
  BY <1>0, <1>1 DEF EndedOnce, ClaimedOnce, Readiness, C!StreamsFollowSession, C!NoLostWakeup, C!WaitRefused,
                    C!EosRefused
<1>5. CASE mapped' = mapped /\ mapping \in {"none", mapping'} /\ mapping' \in M
  <2>1. HistoryOK(M, E)' BY <1>0, <1>1, <1>5 DEF HistoryOK
  <2>2. \A x \in mapped : x[2] # "none" BY <1>1, <1>2 DEF HistoryOK
  <2>3. MappedOnce' BY <1>0, <1>1, <1>5, <2>2 DEF MappedOnce
  <2> QED BY <1>3, <1>4, <2>1, <2>3 DEF CInv
<1>6. CASE mapping' = mapping /\ mapped' = mapped \union {<<g, m>> : m \in {mapping} \ {"none"}}
  <2>1. \A x \in mapped' : x \in mapped \/ (x = <<g, mapping>> /\ mapping # "none") BY <1>6
  <2>2. \A x \in mapped' : x \in mapped \/ (x[1] = generation /\ x[2] = mapping) BY <1>0, <2>1
  <2>3. mapped' \subseteq (0 .. MaxGen) \X M
    <3>1. mapping # "none" => <<g, mapping>> \in (0 .. MaxGen) \X M BY <1>0, <1>2
    <3> QED BY <1>1, <2>1, <3>1 DEF HistoryOK
  <2>4. HistoryOK(M, E)' BY <1>0, <1>1, <2>3 DEF HistoryOK
  <2>5. generation <= generation BY <1>2
  <2>6. ASSUME NEW x \in mapped' PROVE x[1] <= generation /\ (x[1] = generation => x[2] = mapping)
    BY <1>1, <2>2, <2>5 DEF MappedOnce
  <2>7. ASSUME NEW x \in mapped', NEW y \in mapped', x[1] = y[1] PROVE x[2] = y[2]
    BY <1>1, <2>2, <2>6, <2>7 DEF MappedOnce
  <2>8. MappedOnce' BY <1>0, <1>6, <2>6, <2>7 DEF MappedOnce
  <2> QED BY <1>3, <1>4, <2>4, <2>8 DEF CInv
<1> QED BY <1>0, <1>5, <1>6

(* The audio stream is published or claimed. *)
LEMMA CAudio ==
  ASSUME NEW R, NEW T, NEW M, NEW E, CInv(R, T, M, E), C(R, T, M, E)!SessionAssumption, NEW g \in Generations,
         C(R, T, M, E)!PublishAudio(g) \/ C(R, T, M, E)!ClaimAudioStream(g)
  PROVE  CInv(R, T, M, E)'
<1>0. /\ UNCHANGED <<generation, videoEnd, mapping, cancelled, registered, ready, stream, channel,
                     thread, readyFor, mapped, ended>>
      /\ g = generation /\ ~cancelled
      /\ \/ audio = "none" /\ audio' = "open" /\ audioClaimed' = FALSE /\ claims' = claims
         \/ /\ audio # "none" /\ ~audioClaimed /\ audio' = audio /\ audioClaimed' = TRUE
            /\ claims' = [claims EXCEPT ![g] = @ + 1]
  BY DEF C!PublishAudio, C!ClaimAudioStream, C!configVars, C!streamVars, C!historyVars
<1>1. /\ C(R, T, M, E)!TypeOK /\ C(R, T, M, E)!StreamsFollowSession /\ HistoryOK(M, E) /\ MappedOnce
      /\ EndedOnce /\ ClaimedOnce /\ Readiness /\ C(R, T, M, E)!NoLostWakeup
  BY DEF CInv
<1>2. C(R, T, M, E)!TypeOK'
  <2>1. {cancelled', audioClaimed'} \subseteq BOOLEAN
    <3>1. cancelled \in BOOLEAN BY <1>1 DEF C!TypeOK
    <3>2. audioClaimed' \in BOOLEAN BY <1>0, Zenon
    <3> QED BY <1>0, <3>1, <3>2
  <2>2. audio' \in {"none", "open", "shutdown"} BY <1>0, <1>1 DEF C!TypeOK
  <2> QED BY <1>0, <1>1, <2>1, <2>2 DEF C!TypeOK
<1>3. EndedOnce' /\ MappedOnce' /\ Readiness' /\ C(R, T, M, E)!StreamsFollowSession' /\ C(R, T, M, E)!NoLostWakeup'
  BY <1>0, <1>1 DEF EndedOnce, MappedOnce, Readiness, C!StreamsFollowSession, C!NoLostWakeup, C!WaitRefused,
                    C!EosRefused
<1>4. claims \in [Generations -> Nat] BY <1>1 DEF HistoryOK
<1>5. claims' \in [Generations -> Nat]
  <2>1. claims[g] + 1 \in Nat BY <1>4
  <2> QED BY <1>0, <1>4, <2>1
<1>6. HistoryOK(M, E)' BY <1>0, <1>1, <1>5 DEF HistoryOK
<1>7. ClaimedOnce'
  <2>1. CASE audio = "none" /\ audio' = "open" /\ audioClaimed' = FALSE /\ claims' = claims
    BY <1>0, <1>1, <2>1 DEF ClaimedOnce
  <2>2. CASE /\ audio # "none" /\ ~audioClaimed /\ audio' = audio /\ audioClaimed' = TRUE
             /\ claims' = [claims EXCEPT ![g] = @ + 1]
    <3>1. claims[g] = 0 BY <1>0, <1>1, <2>2 DEF ClaimedOnce
    <3>2. claims'[g] = 1 /\ \A h \in Generations : h # g => claims'[h] = claims[h]
      BY <1>4, <2>2, <3>1
    <3>3. ~(g > generation) BY <1>0 DEF Generations
    <3> QED BY <1>0, <1>1, <2>2, <3>2, <3>3 DEF ClaimedOnce
  <2> QED BY <1>0, <2>1, <2>2
<1> QED BY <1>2, <1>3, <1>6, <1>7 DEF CInv

(* The end of the video track becomes known. *)
LEMMA CEos ==
  ASSUME NEW R, NEW T, NEW M, NEW E, CInv(R, T, M, E), C(R, T, M, E)!SessionAssumption, NEW g \in Generations,
         NEW e \in E, C(R, T, M, E)!VideoEos(g, e)
  PROVE  CInv(R, T, M, E)'
<1>0. /\ UNCHANGED <<generation, mapping, cancelled, registered, ready, audio, audioClaimed, stream, channel,
                     readyFor, claims, mapped, ended>>
      /\ videoEnd \in {"none", e} /\ videoEnd' = e /\ C(R, T, M, E)!Broadcast
  BY DEF C!VideoEos, C!streamVars, C!historyVars, C!None
<1>1. /\ C(R, T, M, E)!TypeOK /\ C(R, T, M, E)!StreamsFollowSession /\ HistoryOK(M, E) /\ MappedOnce
      /\ EndedOnce /\ ClaimedOnce /\ Readiness /\ "none" \notin E
  BY DEF CInv, C!SessionAssumption, C!None
<1>2. thread' \in [T -> C(R, T, M, E)!ThreadState] /\ C(R, T, M, E)!NoLostWakeup'
  BY <1>0, <1>1, CAwake
<1>3. C(R, T, M, E)!TypeOK' BY <1>0, <1>1, <1>2 DEF C!TypeOK
<1>4. HistoryOK(M, E)' /\ MappedOnce' /\ ClaimedOnce' /\ Readiness' /\ C(R, T, M, E)!StreamsFollowSession'
  BY <1>0, <1>1 DEF HistoryOK, MappedOnce, ClaimedOnce, Readiness, C!StreamsFollowSession
<1>5. EndedOnce'
  <2>1. \A x \in ended : x[2] # "none" BY <1>1 DEF HistoryOK
  <2> QED BY <1>0, <1>1, <2>1 DEF EndedOnce
<1> QED BY <1>2, <1>3, <1>4, <1>5 DEF CInv

(* A channel is published, or fails. *)
LEMMA CEvents ==
  ASSUME NEW R, NEW T, NEW M, NEW E, CInv(R, T, M, E), C(R, T, M, E)!SessionAssumption, NEW g \in Generations,
         C(R, T, M, E)!PublishEvents(g) \/ C(R, T, M, E)!ChannelFails(g)
  PROVE  CInv(R, T, M, E)'
<1>0. /\ UNCHANGED <<generation, videoEnd, mapping, cancelled, registered, ready, audio, audioClaimed,
                     thread, readyFor, claims, mapped, ended>>
      /\ \/ /\ ~cancelled /\ g = generation /\ stream = 0 /\ stream' = g
            /\ channel' = [channel EXCEPT ![g] = "open"]
         \/ stream' = stream /\ channel' = [channel EXCEPT ![g] = "failed"]
  BY DEF C!PublishEvents, C!ChannelFails, C!configVars, C!streamVars, C!historyVars
<1>1. /\ C(R, T, M, E)!TypeOK /\ C(R, T, M, E)!StreamsFollowSession /\ HistoryOK(M, E) /\ MappedOnce
      /\ EndedOnce /\ ClaimedOnce /\ Readiness /\ C(R, T, M, E)!NoLostWakeup
  BY DEF CInv
<1>2. /\ channel \in [Generations -> {"none", "open", "cancelled", "failed"}]
      /\ \A h \in Generations : channel[h] = "open" => h = stream /\ h = generation /\ ~cancelled
  BY <1>1 DEF C!TypeOK, C!StreamsFollowSession, C!Gens, Generations
<1>3. MaxGen \in Nat BY DEF C!SessionAssumption
<1>4. stream' \in 0 .. MaxGen BY <1>0, <1>1, <1>3 DEF C!TypeOK, Generations
<1>5. /\ channel' \in [Generations -> {"none", "open", "cancelled", "failed"}]
      /\ \A h \in Generations : channel'[h] = "open" => h = stream' /\ h = generation /\ ~cancelled
  <2>1. \A h \in Generations : h # 0 BY <1>3 DEF Generations
  <2> QED BY <1>0, <1>2, <2>1
<1>6. C(R, T, M, E)!TypeOK' BY <1>0, <1>1, <1>4, <1>5 DEF C!TypeOK, C!Gens, Generations
<1>7. C(R, T, M, E)!StreamsFollowSession'
  BY <1>0, <1>1, <1>5 DEF C!StreamsFollowSession, C!Gens, Generations
<1>8. HistoryOK(M, E)' /\ MappedOnce' /\ EndedOnce' /\ ClaimedOnce' /\ Readiness'
  BY <1>0, <1>1 DEF HistoryOK, MappedOnce, EndedOnce, ClaimedOnce, Readiness
<1>9. C(R, T, M, E)!NoLostWakeup'
  BY <1>0, <1>1 DEF C!NoLostWakeup, C!WaitRefused, C!EosRefused
<1> QED BY <1>6, <1>7, <1>8, <1>9 DEF CInv

(* Every step of the coordinator preserves its invariant. *)
LEMMA CStep ==
  ASSUME NEW R, NEW T, NEW M, NEW E, CInv(R, T, M, E), C(R, T, M, E)!SessionAssumption, C(R, T, M, E)!Next
  PROVE  CInv(R, T, M, E)'
<1>1. CASE C(R, T, M, E)!Cancel \/ C(R, T, M, E)!GetConfig BY <1>1, CCancel
<1>2. ASSUME NEW g \in Generations,
             \/ C(R, T, M, E)!Configure(g) \/ C(R, T, M, E)!PublishAudio(g) \/ C(R, T, M, E)!ClaimAudioStream(g)
             \/ C(R, T, M, E)!PublishEvents(g) \/ C(R, T, M, E)!ChannelFails(g)
             \/ \E m \in M : C(R, T, M, E)!SetMapping(g, m)
             \/ C(R, T, M, E)!MapPts(g) \/ \E r \in BOOLEAN : C(R, T, M, E)!MapRunningTime(g, r)
             \/ \E e \in E : C(R, T, M, E)!VideoEos(g, e)
             \/ \E k \in C(R, T, M, E)!Tracks : C(R, T, M, E)!TrackReady(k, g)
             \/ \E t \in T : C(R, T, M, E)!WaitCall(t, g) \/ C(R, T, M, E)!EosCall(t, g)
                             \/ C(R, T, M, E)!LookupChannel(t, g)
      PROVE  CInv(R, T, M, E)'
  <2>1. CASE C(R, T, M, E)!Configure(g) BY <2>1, CConfigure
  <2>2. CASE C(R, T, M, E)!PublishAudio(g) \/ C(R, T, M, E)!ClaimAudioStream(g) BY <2>2, CAudio
  <2>3. CASE C(R, T, M, E)!PublishEvents(g) \/ C(R, T, M, E)!ChannelFails(g) BY <2>3, CEvents
  <2>4. CASE \/ \E m \in M : C(R, T, M, E)!SetMapping(g, m)
             \/ C(R, T, M, E)!MapPts(g) \/ \E r \in BOOLEAN : C(R, T, M, E)!MapRunningTime(g, r)
    BY <2>4, CMapping
  <2>5. CASE \E e \in E : C(R, T, M, E)!VideoEos(g, e) BY <2>5, CEos
  <2>6. CASE \E k \in C(R, T, M, E)!Tracks : C(R, T, M, E)!TrackReady(k, g) BY <2>6, CTracks DEF C!Tracks
  <2>7. CASE \E t \in T : C(R, T, M, E)!WaitCall(t, g) \/ C(R, T, M, E)!EosCall(t, g)
                          \/ C(R, T, M, E)!LookupChannel(t, g)
    BY <2>7, CCalls
  <2> QED BY <1>2, <2>1, <2>2, <2>3, <2>4, <2>5, <2>6, <2>7
<1>3. CASE \E k \in C(R, T, M, E)!Tracks : C(R, T, M, E)!RegisterTrack(k) BY <1>3, CTracks DEF C!Tracks
<1>4. CASE \E t \in T : \/ C(R, T, M, E)!Waiter(t) \/ C(R, T, M, E)!WaitSleeps(t) \/ C(R, T, M, E)!EosSleeps(t)
                        \/ C(R, T, M, E)!WaitTimeout(t) \/ C(R, T, M, E)!ChannelCall(t)
  BY <1>4, CCalls
<1> QED BY <1>1, <1>2, <1>3, <1>4 DEF C!Next, C!Gens, Generations

(* A step that leaves the coordinator alone preserves its invariant. *)
LEMMA CRest ==
  ASSUME NEW R, NEW T, NEW M, NEW E, CInv(R, T, M, E), UNCHANGED coordinator
  PROVE  CInv(R, T, M, E)'
<1> USE DEF coordinator
<1>1. C(R, T, M, E)!TypeOK' BY DEF CInv, C!TypeOK
<1>2. HistoryOK(M, E)' /\ Readiness' /\ MappedOnce' /\ EndedOnce' /\ ClaimedOnce'
  BY DEF CInv, HistoryOK, Readiness, MappedOnce, EndedOnce, ClaimedOnce
<1>3. C(R, T, M, E)!NoLostWakeup' /\ C(R, T, M, E)!StreamsFollowSession'
  BY DEF CInv, C!NoLostWakeup, C!WaitRefused, C!EosRefused, C!StreamsFollowSession
<1> QED BY <1>1, <1>2, <1>3 DEF CInv

(* What the invariant says of the coordinator. *)
LEMMA CImplies ==
  ASSUME NEW R, NEW T, NEW M, NEW E, CInv(R, T, M, E), C(R, T, M, E)!SessionAssumption
  PROVE  /\ C(R, T, M, E)!TypeOK /\ C(R, T, M, E)!ReadyIsCurrent /\ C(R, T, M, E)!NoLostWakeup
         /\ C(R, T, M, E)!OneMapping /\ C(R, T, M, E)!OneEnd /\ C(R, T, M, E)!AudioClaimedOnce
         /\ C(R, T, M, E)!StreamsFollowSession /\ C(R, T, M, E)!WaiterIsCurrent
<1>1. /\ C(R, T, M, E)!TypeOK /\ C(R, T, M, E)!StreamsFollowSession /\ HistoryOK(M, E) /\ MappedOnce
      /\ EndedOnce /\ ClaimedOnce /\ Readiness /\ C(R, T, M, E)!NoLostWakeup
  BY DEF CInv
<1>2. ready \subseteq {"video", "audio"} /\ R \subseteq {"video", "audio"}
  BY <1>1 DEF C!TypeOK, C!SessionAssumption, C!Tracks
<1>3. C(R, T, M, E)!ReadyIsCurrent BY <1>1, <1>2 DEF Readiness, C!ReadyIsCurrent
<1>4. ASSUME NEW S, NEW x \in (0 .. MaxGen) \X S, NEW y \in (0 .. MaxGen) \X S, x[1] = y[1], x[2] = y[2] PROVE x = y
  BY <1>4
<1>5. C(R, T, M, E)!OneMapping
  <2>1. \A x, y \in mapped : x[1] = y[1] => x[2] = y[2] BY <1>1 DEF MappedOnce
  <2>2. mapped \subseteq (0 .. MaxGen) \X M BY <1>1 DEF HistoryOK
  <2> QED BY <1>4, <2>1, <2>2 DEF C!OneMapping
<1>6. C(R, T, M, E)!OneEnd
  <2>1. \A x, y \in ended : x[1] = y[1] => x[2] = y[2] BY <1>1 DEF EndedOnce
  <2>2. ended \subseteq (0 .. MaxGen) \X E BY <1>1 DEF HistoryOK
  <2> QED BY <1>4, <2>1, <2>2 DEF C!OneEnd
<1>7. C(R, T, M, E)!AudioClaimedOnce BY <1>1 DEF ClaimedOnce, C!AudioClaimedOnce, C!Gens, Generations
<1>8. C(R, T, M, E)!WaiterIsCurrent
  <2> SUFFICES ASSUME NEW t \in T, C(R, T, M, E)!WaitReady(t)
               PROVE  thread[t].gen = generation /\ \A k \in R : thread[t].gen \in readyFor[k]
    BY DEF C!WaiterIsCurrent
  <2>1. generation = thread[t].gen /\ ready = R BY DEF C!WaitReady, C!WaitRefused
  <2> QED BY <1>1, <1>2, <2>1 DEF Readiness
<1> QED BY <1>1, <1>3, <1>5, <1>6, <1>7, <1>8

-----------------------------------------------------------------------------
(* The part of a run that exercises a session, for both of MCThreads's. *)
OneEndOf == {CHOOSE e \in Ends : TRUE}
CoordinatorInv ==
  /\ part = "session" => CInv({"video"}, OneThread, Mappings, Ends)
  /\ part = "tracks"  => CInv({"video", "audio"}, Waiters, {}, OneEndOf)

(* Both sessions of a run begin with the invariant. *)
LEMMA CoordinatorInvInit ==
  ASSUME Session!SessionAssumption, Tracks!SessionAssumption, MCInit PROVE CoordinatorInv
<1>1. CASE part = "session"
  <2>1. C({"video"}, OneThread, Mappings, Ends)!SessionAssumption
    BY DEF Session!SessionAssumption, C!SessionAssumption, Session!Tracks, C!Tracks, Session!None, C!None
  <2>2. C({"video"}, OneThread, Mappings, Ends)!Init
    BY <1>1 DEF MCInit, Session!Init, C!Init, Session!Gens, C!Gens, Session!Tracks, C!Tracks, Session!None, C!None,
                Session!Idle, C!Idle
  <2> QED BY <1>1, <2>1, <2>2, CInit DEF CoordinatorInv
<1>2. CASE part = "tracks"
  <2>1. C({"video", "audio"}, Waiters, {}, OneEndOf)!SessionAssumption
    BY DEF Tracks!SessionAssumption, C!SessionAssumption, Tracks!Tracks, C!Tracks, Tracks!None, C!None, OneEndOf
  <2>2. C({"video", "audio"}, Waiters, {}, OneEndOf)!Init
    BY <1>2, SMTT(20) DEF MCInit, Tracks!Init, C!Init, Tracks!Gens, C!Gens, Tracks!Tracks, C!Tracks, Tracks!None, C!None,
                Tracks!Idle, C!Idle
  <2> QED BY <1>2, <2>1, <2>2, CInit DEF CoordinatorInv
<1> QED BY <1>1, <1>2 DEF CoordinatorInv

(* The session part runs the coordinator the lemmas are about. *)
LEMMA SessionNext ==
  ASSUME Session!Next PROVE C({"video"}, OneThread, Mappings, Ends)!Next
  BY DEF Session!Next, Session!Cancel, Session!GetConfig, Session!Configure, Session!PublishAudio,
         Session!ClaimAudioStream, Session!PublishEvents, Session!ChannelFails, Session!SetMapping,
         Session!MapPts, Session!MapRunningTime, Session!VideoEos, Session!TrackReady, Session!WaitCall,
         Session!EosCall, Session!LookupChannel, Session!RegisterTrack, Session!Waiter, Session!WaitDone,
         Session!WaitReady, Session!EosDone, Session!EosKnown, Session!WaitSleeps, Session!EosSleeps,
         Session!WaitTimeout, Session!ChannelCall, Session!Broadcast, Session!Cancelled,
         Session!Shutdown, Session!Forgotten, Session!WaitRefused, Session!EosRefused, Session!Converted,
         Session!Idle, Session!Sleeping, Session!Gens, Session!Tracks, Session!None, Session!configVars,
         Session!streamVars, Session!historyVars,
         C!Next, C!Cancel, C!GetConfig, C!Configure, C!PublishAudio, C!ClaimAudioStream, C!PublishEvents,
         C!ChannelFails, C!SetMapping, C!MapPts, C!MapRunningTime, C!VideoEos, C!TrackReady, C!WaitCall,
         C!EosCall, C!LookupChannel, C!RegisterTrack, C!Waiter, C!WaitDone, C!WaitReady, C!EosDone,
         C!EosKnown, C!WaitSleeps, C!EosSleeps, C!WaitTimeout, C!ChannelCall, C!Broadcast, C!Cancelled,
         C!Shutdown, C!Forgotten, C!WaitRefused, C!EosRefused, C!Converted, C!Idle, C!Sleeping, C!Gens,
         C!Tracks, C!None, C!configVars, C!streamVars, C!historyVars

(* The tracks part runs the coordinator the lemmas are about. *)
LEMMA TracksNext ==
  ASSUME Tracks!Next PROVE C({"video", "audio"}, Waiters, {}, OneEndOf)!Next
  BY DEF Tracks!Next, Tracks!Cancel, Tracks!GetConfig, Tracks!Configure, Tracks!PublishAudio,
         Tracks!ClaimAudioStream, Tracks!PublishEvents, Tracks!ChannelFails, Tracks!SetMapping,
         Tracks!MapPts, Tracks!MapRunningTime, Tracks!VideoEos, Tracks!TrackReady, Tracks!WaitCall,
         Tracks!EosCall, Tracks!LookupChannel, Tracks!RegisterTrack, Tracks!Waiter, Tracks!WaitDone,
         Tracks!WaitReady, Tracks!EosDone, Tracks!EosKnown, Tracks!WaitSleeps, Tracks!EosSleeps,
         Tracks!WaitTimeout, Tracks!ChannelCall, Tracks!Broadcast, Tracks!Cancelled, Tracks!Shutdown,
         Tracks!Forgotten, Tracks!WaitRefused, Tracks!EosRefused, Tracks!Converted, Tracks!Idle,
         Tracks!Sleeping, Tracks!Gens, Tracks!Tracks, Tracks!None, Tracks!configVars, Tracks!streamVars,
         Tracks!historyVars,
         C!Next, C!Cancel, C!GetConfig, C!Configure, C!PublishAudio, C!ClaimAudioStream, C!PublishEvents,
         C!ChannelFails, C!SetMapping, C!MapPts, C!MapRunningTime, C!VideoEos, C!TrackReady, C!WaitCall,
         C!EosCall, C!LookupChannel, C!RegisterTrack, C!Waiter, C!WaitDone, C!WaitReady, C!EosDone,
         C!EosKnown, C!WaitSleeps, C!EosSleeps, C!WaitTimeout, C!ChannelCall, C!Broadcast, C!Cancelled,
         C!Shutdown, C!Forgotten, C!WaitRefused, C!EosRefused, C!Converted, C!Idle, C!Sleeping, C!Gens,
         C!Tracks, C!None, C!configVars, C!streamVars, C!historyVars, OneEndOf

(* The two sessions satisfy the assumptions the lemmas make. *)
LEMMA SessionsAssumed ==
  ASSUME Session!SessionAssumption, Tracks!SessionAssumption
  PROVE  C({"video"}, OneThread, Mappings, Ends)!SessionAssumption /\ C({"video", "audio"}, Waiters, {}, OneEndOf)!SessionAssumption
<1>1. C({"video"}, OneThread, Mappings, Ends)!SessionAssumption
  BY DEF Session!SessionAssumption, C!SessionAssumption, Session!Tracks, C!Tracks, Session!None, C!None
<1>2. C({"video", "audio"}, Waiters, {}, OneEndOf)!SessionAssumption
  BY DEF Tracks!SessionAssumption, C!SessionAssumption, Tracks!Tracks, C!Tracks, Tracks!None, C!None, OneEndOf
<1> QED BY <1>1, <1>2

(* Every step of a run preserves the invariant of the session it exercises. *)
LEMMA CoordinatorInvStep ==
  ASSUME Session!SessionAssumption, Tracks!SessionAssumption, CoordinatorInv, [MCNext]_mcvars
  PROVE  CoordinatorInv'
<1>1. part' = part BY DEF MCNext, mcvars
<1>2. CASE part = "session"
  <2>1. CInv({"video"}, OneThread, Mappings, Ends) BY <1>2 DEF CoordinatorInv
  <2>2. Session!Next \/ UNCHANGED coordinator BY <1>2 DEF MCNext, mcvars
  <2>3. CInv({"video"}, OneThread, Mappings, Ends)'
    BY <2>1, <2>2, SessionsAssumed, SessionNext, CStep, CRest
  <2> QED BY <1>1, <1>2, <2>3 DEF CoordinatorInv
<1>3. CASE part = "tracks"
  <2>1. CInv({"video", "audio"}, Waiters, {}, OneEndOf) BY <1>3 DEF CoordinatorInv
  <2>2. Tracks!Next \/ UNCHANGED coordinator BY <1>3 DEF MCNext, mcvars
  <2>3. CInv({"video", "audio"}, Waiters, {}, OneEndOf)'
    BY <2>1, <2>2, SessionsAssumed, TracksNext, CStep, CRest
  <2> QED BY <1>1, <1>3, <2>3 DEF CoordinatorInv
<1> QED BY <1>1, <1>2, <1>3 DEF CoordinatorInv

(* The invariant is what the run checks of either session, and more: a READY *)
(* answer goes to a current waiter.                                          *)
LEMMA CoordinatorInvImplies ==
  ASSUME Session!SessionAssumption, Tracks!SessionAssumption, CoordinatorInv
  PROVE  /\ CoordinatorSound
         /\ part = "session" => Session!WaiterIsCurrent
         /\ part = "tracks" => Tracks!WaiterIsCurrent
<1>1. ASSUME part = "session"
      PROVE  /\ Session!TypeOK /\ Session!ReadyIsCurrent /\ Session!NoLostWakeup
             /\ Session!OneMapping /\ Session!OneEnd /\ Session!StreamsFollowSession /\ Session!WaiterIsCurrent
  <2>1. CInv({"video"}, OneThread, Mappings, Ends) BY <1>1 DEF CoordinatorInv
  <2>2. /\ C({"video"}, OneThread, Mappings, Ends)!TypeOK /\ C({"video"}, OneThread, Mappings, Ends)!ReadyIsCurrent /\ C({"video"}, OneThread, Mappings, Ends)!NoLostWakeup
        /\ C({"video"}, OneThread, Mappings, Ends)!OneMapping /\ C({"video"}, OneThread, Mappings, Ends)!OneEnd /\ C({"video"}, OneThread, Mappings, Ends)!StreamsFollowSession /\ C({"video"}, OneThread, Mappings, Ends)!WaiterIsCurrent
    BY <2>1, SessionsAssumed, CImplies
  <2> QED
    BY <2>2
    DEF  Session!TypeOK, Session!ReadyIsCurrent, Session!NoLostWakeup, Session!OneMapping,
         Session!OneEnd, Session!AudioClaimedOnce, Session!StreamsFollowSession, Session!WaiterIsCurrent,
         Session!WaitReady, Session!WaitRefused, Session!EosRefused, Session!None, Session!Gens,
         Session!Tracks, Session!ThreadState, Session!Idle, Session!configVars, Session!streamVars,
         Session!historyVars,
         C!TypeOK, C!ReadyIsCurrent, C!NoLostWakeup, C!OneMapping, C!OneEnd, C!AudioClaimedOnce,
         C!StreamsFollowSession, C!WaiterIsCurrent, C!WaitReady, C!WaitRefused, C!EosRefused, C!None,
         C!Gens, C!Tracks, C!ThreadState, C!Idle, C!configVars, C!streamVars, C!historyVars
<1>2. ASSUME part = "tracks"
      PROVE  /\ Tracks!TypeOK /\ Tracks!ReadyIsCurrent /\ Tracks!NoLostWakeup
             /\ Tracks!AudioClaimedOnce /\ Tracks!StreamsFollowSession /\ Tracks!WaiterIsCurrent
  <2>1. CInv({"video", "audio"}, Waiters, {}, OneEndOf) BY <1>2 DEF CoordinatorInv
  <2>2. /\ C({"video", "audio"}, Waiters, {}, OneEndOf)!TypeOK /\ C({"video", "audio"}, Waiters, {}, OneEndOf)!ReadyIsCurrent /\ C({"video", "audio"}, Waiters, {}, OneEndOf)!NoLostWakeup
        /\ C({"video", "audio"}, Waiters, {}, OneEndOf)!AudioClaimedOnce /\ C({"video", "audio"}, Waiters, {}, OneEndOf)!StreamsFollowSession /\ C({"video", "audio"}, Waiters, {}, OneEndOf)!WaiterIsCurrent
    BY <2>1, SessionsAssumed, CImplies
  <2> QED
    BY <2>2
    DEF  Tracks!TypeOK, Tracks!ReadyIsCurrent, Tracks!NoLostWakeup, Tracks!OneMapping, Tracks!OneEnd,
         Tracks!AudioClaimedOnce, Tracks!StreamsFollowSession, Tracks!WaiterIsCurrent, Tracks!WaitReady,
         Tracks!WaitRefused, Tracks!EosRefused, Tracks!None, Tracks!Gens, Tracks!Tracks,
         Tracks!ThreadState, Tracks!Idle, Tracks!configVars, Tracks!streamVars, Tracks!historyVars,
         C!TypeOK, C!ReadyIsCurrent, C!NoLostWakeup, C!OneMapping, C!OneEnd, C!AudioClaimedOnce,
         C!StreamsFollowSession, C!WaiterIsCurrent, C!WaitReady, C!WaitRefused, C!EosRefused, C!None,
         C!Gens, C!Tracks, C!ThreadState, C!Idle, C!configVars, C!streamVars, C!historyVars, OneEndOf
<1> QED BY <1>1, <1>2 DEF CoordinatorSound

(* The invariant holds throughout a run. *)
LEMMA CoordinatorRuns ==
  ASSUME Session!SessionAssumption, Tracks!SessionAssumption PROVE MCSpec => []CoordinatorInv
<1>1. MCSpec => MCInit /\ [][MCNext]_mcvars
  BY PTL DEF MCSpec
<1> QED BY <1>1, CoordinatorInvInit, CoordinatorInvStep, PTL

(* Whatever the worker, the elements and the application call, in any order  *)
(* and with any number of waiting threads, generations, mappings and ends:   *)
(* readiness is of the generation in force, no wakeup is lost, a generation  *)
(* has one mapping and one end, its audio stream is claimed once and no      *)
(* stream outlives its session (framelink_session_context.cpp).              *)
THEOREM CoordinatorHolds == MCSpec => []CoordinatorSound
  BY ThreadsAssumption, CoordinatorRuns, CoordinatorInvImplies, PTL

(* "A new generation never satisfies an old waiter": a thread that           *)
(* fl_gst_session_wait answers READY waits for the generation in force, and  *)
(* every required track reported ready for it.                               *)
THEOREM ReadyWaiters ==
  MCSpec => [][/\ part = "session" => Session!WaiterIsCurrent
               /\ part = "tracks"  => Tracks!WaiterIsCurrent]_coordinator
<1>1. CoordinatorInv => [/\ part = "session" => Session!WaiterIsCurrent
                         /\ part = "tracks"  => Tracks!WaiterIsCurrent]_coordinator
  BY ThreadsAssumption, CoordinatorInvImplies
<1> QED BY <1>1, ThreadsAssumption, CoordinatorRuns, PTL

-----------------------------------------------------------------------------
(* Sequences. *)

(* An index of a longer sequence is an old one or the last. *)
LEMMA LastIndex ==
  ASSUME NEW n \in Nat, NEW i \in 1 .. n + 1 PROVE i \in 1 .. n \/ i = n + 1
  OBVIOUS

(* A sequence that is not empty and no longer than one has one entry. *)
LEMMA OneEntry ==
  ASSUME NEW S, NEW q \in Seq(S), q # <<>>, Len(q) <= 1
  PROVE  q[1] \in S /\ Len(q) = 1 /\ q = <<q[1]>> /\ Head(q) = q[1]
<1>1. Len(q) \in Nat /\ Len(q) # 0
  OBVIOUS
<1>2. Len(q) = 1 BY <1>1
<1>3. q[1] \in S BY <1>2
<1>4. q = <<q[1]>> BY <1>2, <1>3
<1> QED BY <1>2, <1>3, <1>4

(* What joining one entry to a sequence leaves. *)
LEMMA JoinEntry ==
  ASSUME NEW S, NEW q \in Seq(S), NEW r \in S
  PROVE  /\ q \o <<r>> \in Seq(S) /\ Len(q \o <<r>>) = Len(q) + 1 /\ (q \o <<r>>)[Len(q) + 1] = r
         /\ \A i \in 1 .. Len(q) : (q \o <<r>>)[i] = q[i]
OBVIOUS

(* The same of Append. *)
LEMMA AddEntry ==
  ASSUME NEW S, NEW q \in Seq(S), NEW r \in S
  PROVE  /\ Append(q, r) \in Seq(S) /\ Len(Append(q, r)) = Len(q) + 1 /\ Append(q, r)[Len(q) + 1] = r
         /\ \A i \in 1 .. Len(q) : Append(q, r)[i] = q[i]
OBVIOUS

(* What dropping the first entry leaves. *)
LEMMA DropEntry ==
  ASSUME NEW S, NEW q \in Seq(S), q # <<>>
  PROVE  /\ Tail(q) \in Seq(S) /\ Len(q) > 0 /\ Len(Tail(q)) = Len(q) - 1 /\ Head(q) = q[1] /\ q[1] \in S
         /\ \A i \in 1 .. Len(q) - 1 : Tail(q)[i] = q[i + 1]
<1>1. Len(q) \in Nat /\ Len(q) > 0 OBVIOUS
<1> QED BY <1>1

(* Where the entries of two joined sequences are. *)
LEMMA JoinSeqs ==
  ASSUME NEW S, NEW p \in Seq(S), NEW q \in Seq(S)
  PROVE  /\ p \o q \in Seq(S) /\ Len(p \o q) = Len(p) + Len(q)
         /\ \A i \in 1 .. Len(p) : (p \o q)[i] = p[i]
         /\ \A i \in 1 .. Len(q) : (p \o q)[Len(p) + i] = q[i]
<1>1. Len(p) \in Nat /\ Len(q) \in Nat OBVIOUS
<1>2. p \o q \in Seq(S) /\ Len(p \o q) = Len(p) + Len(q) OBVIOUS
<1>3. ASSUME NEW i \in 1 .. Len(p) PROVE (p \o q)[i] = p[i] BY <1>1
<1>4. ASSUME NEW i \in 1 .. Len(q) PROVE (p \o q)[Len(p) + i] = q[i] BY <1>1
<1> QED BY <1>2, <1>3, <1>4

(* Sequences of one length with the same entries are the same. *)
LEMMA SameSeqs ==
  ASSUME NEW S, NEW p \in Seq(S), NEW T, NEW q \in Seq(T), Len(p) = Len(q), \A i \in 1 .. Len(q) : p[i] = q[i]
  PROVE  p = q
OBVIOUS

-----------------------------------------------------------------------------
(* The event channel. *)

nDelivered == Len(delivered)
nQueue     == Len(queue)
nHand      == Len(inHand)
nWire      == Len(wire)
nLog       == Len(log)
nWriting   == Len(writing)

(* How many records left the socket and were not in hand any more. *)
Taken == nDelivered + nQueue

(* What is delivered and queued is what was written, in order, and no FLUSH. *)
Received ==
  /\ Taken <= nLog
  /\ \A i \in 1 .. nDelivered : delivered[i] = log[i] /\ delivered[i].kind # "FLUSH"
  /\ \A i \in 1 .. nQueue : queue[i] = log[nDelivered + i] /\ queue[i].kind # "FLUSH"

(* The producer numbers what it writes; once a write failed it writes no     *)
(* more.                                                                     *)
Numbered ==
  /\ \A i \in 1 .. nLog : log[i].serial = i
  /\ nLog + nWriting <= sent
  /\ ~pFailed => sent = nLog + nWriting
  /\ nWriting > 0 => ~pFailed /\ writing[1].serial = nLog + 1

(* The whole records in the socket. *)
Ahead == IF nWire > 0 /\ wire[nWire] = Events!Cut THEN nWire - 1 ELSE nWire

(* What the reader has in hand and in the socket, until it returns. *)
Coming ==
  /\ ~reading => nHand = 0 /\ (cFailed \/ cCancelled)
  /\ reading =>
       /\ serial = Taken /\ Taken + nHand + Ahead = nLog
       /\ nHand > 0 => inHand[1] = log[Taken + 1]
       /\ \A i \in 1 .. Ahead : wire[i] # Events!Cut /\ wire[i] = log[Taken + nHand + i]
       /\ Ahead # nWire => pFailed

EFlags == {pFailed, pCancelled, pClosed, cFailed, cCancelled, cClosed, reading} \subseteq BOOLEAN
ESeqs ==
  /\ delivered \in Seq(Events!Record) /\ queue \in Seq(Events!Record) /\ log \in Seq(Events!Record)
  /\ inHand \in Seq(Events!Record) /\ writing \in Seq(Events!Record)
  /\ wire \in Seq(Events!Record \union {Events!Cut})
ENums ==
  /\ nDelivered \in Nat /\ nQueue \in Nat /\ nHand \in Nat /\ nWire \in Nat /\ nLog \in Nat /\ nWriting \in Nat
  /\ nHand <= 1 /\ nWriting <= 1 /\ serial \in Nat /\ serial <= MaxSerial /\ sent \in Nat /\ sent <= MaxSerial

EInv == EFlags /\ ESeqs /\ ENums /\ Received /\ Numbered /\ Coming

(* The invariant contains type correctness. *)
LEMMA ETypes == ASSUME Events!EventAssumption, EInv PROVE Events!TypeOK
<1>1. EFlags /\ ESeqs /\ ENums /\ MaxSerial \in Nat
  BY DEF EInv, Events!EventAssumption
<1>2. sent \in 0 .. MaxSerial /\ serial \in 0 .. MaxSerial
  BY <1>1 DEF ENums
<1>3. Len(writing) <= 1 /\ Len(inHand) <= 1
  BY <1>1 DEF ENums, nWriting, nHand
<1> QED BY <1>1, <1>2, <1>3 DEF Events!TypeOK, EFlags, ESeqs

(* The counts are numbers, and how they compare. *)
LEMMA ECounts ==
  ASSUME EInv
  PROVE  /\ nDelivered \in Nat /\ nQueue \in Nat /\ nHand \in Nat /\ nWire \in Nat /\ nLog \in Nat /\ nWriting \in Nat
         /\ nHand <= 1 /\ nWriting <= 1 /\ serial \in Nat /\ sent \in Nat
         /\ Taken \in Nat /\ Ahead \in Nat /\ Taken = nDelivered + nQueue /\ Taken <= nLog /\ Ahead <= nWire
  BY DEF EInv, ENums, Taken, Ahead, Received

(* A truncated record is told from every whole one. *)
LEMMA CutIsNoRecord == ASSUME Events!EventAssumption PROVE Events!Cut \notin Events!Record
  BY DEF Events!EventAssumption, Events!Cut, Events!Record

(* The invariant holds of a new channel. *)
LEMMA EInit == ASSUME Events!EventAssumption, Events!Init PROVE EInv
<1>0. Len(<<>>) = 0 OBVIOUS
<1>1. /\ nDelivered = 0 /\ nQueue = 0 /\ nHand = 0 /\ nWire = 0 /\ nLog = 0 /\ nWriting = 0
      /\ serial = 0 /\ sent = 0 /\ reading = TRUE
  BY <1>0 DEF Events!Init, nDelivered, nQueue, nHand, nWire, nLog, nWriting
<1>2. EFlags BY DEF Events!Init, EFlags
<1>3. ESeqs BY DEF Events!Init, ESeqs
<1>4. ENums BY <1>1 DEF ENums, Events!EventAssumption
<1>5. Received /\ Numbered /\ Coming
  BY <1>1 DEF Received, Numbered, Coming, Taken, Ahead
<1> QED BY <1>2, <1>3, <1>4, <1>5 DEF EInv

(* send draws the next serial. *)
LEMMA ESend ==
  ASSUME Events!EventAssumption, EInv, NEW k \in Events!Kinds, Events!SendBegin(k)
  PROVE  EInv'
<1>0. /\ writing' = <<[serial |-> sent + 1, kind |-> k]>> /\ sent' = sent + 1 /\ writing = <<>>
      /\ sent < MaxSerial /\ ~pFailed
      /\ UNCHANGED <<pFailed, pCancelled, pClosed, wire, serial, inHand, reading, cFailed, cCancelled, cClosed,
                     queue, log, delivered>>
  BY DEF Events!SendBegin, Events!readerVars, Events!endVars
<1>1. UNCHANGED <<nDelivered, nQueue, nHand, nWire, nLog, Taken, Ahead>>
  BY <1>0 DEF nDelivered, nQueue, nHand, nWire, nLog, Taken, Ahead
<1>2. nWriting = 0 /\ nWriting' = 1 /\ writing'[1].serial = sent + 1
  BY <1>0 DEF nWriting
<1>3. writing' \in Seq(Events!Record)
  <2>1. MaxSerial \in Nat BY DEF Events!EventAssumption
  <2>2. sent + 1 \in 1 .. MaxSerial BY <1>0, <2>1, ECounts
  <2>3. [serial |-> sent + 1, kind |-> k] \in Events!Record BY <2>2 DEF Events!Record
  <2> QED BY <1>0, <2>3
<1>4. EFlags' /\ ESeqs'
  BY <1>0, <1>3 DEF EInv, EFlags, ESeqs
<1>5. ENums'
  <2>1. MaxSerial \in Nat BY DEF Events!EventAssumption
  <2> QED BY <1>0, <1>1, <1>2, <2>1, ECounts DEF EInv, ENums
<1>6. Received' /\ Coming'
  BY <1>0, <1>1 DEF EInv, Received, Coming
<1>7. Numbered'
  <2>1. Numbered BY DEF EInv
  <2> QED BY <1>0, <1>1, <1>2, <2>1, ECounts DEF Numbered
<1> QED BY <1>4, <1>5, <1>6, <1>7 DEF EInv

(* The write succeeds: the record is in the socket, and in the log. *)
LEMMA EWritten ==
  ASSUME Events!EventAssumption, EInv, Events!SendWritten
  PROVE  EInv'
<1>0. /\ wire' = wire \o writing /\ log' = log \o writing /\ writing' = <<>> /\ writing # <<>>
      /\ UNCHANGED <<pFailed, pCancelled, pClosed, sent, serial, inHand, reading, cFailed, cCancelled, cClosed,
                     queue, delivered>>
  BY DEF Events!SendWritten, Events!readerVars, Events!endVars
<1>1. PICK r \in Events!Record : writing = <<r>> /\ r = writing[1] /\ nWriting = 1
  BY <1>0, OneEntry DEF EInv, ESeqs, ENums, nWriting
<1>2. ~pFailed /\ r.serial = nLog + 1 /\ r # Events!Cut /\ sent = nLog + 1
  BY <1>1, CutIsNoRecord DEF EInv, Numbered
<1>3. /\ nLog' = nLog + 1 /\ log' \in Seq(Events!Record) /\ log'[nLog + 1] = r
      /\ \A i \in 1 .. nLog : log'[i] = log[i]
  BY <1>0, <1>1, JoinEntry DEF EInv, ESeqs, nLog
<1>4. /\ nWire' = nWire + 1 /\ wire' \in Seq(Events!Record \union {Events!Cut}) /\ wire'[nWire + 1] = r
      /\ \A i \in 1 .. nWire : wire'[i] = wire[i]
  <2>1. wire \in Seq(Events!Record \union {Events!Cut}) /\ r \in Events!Record \union {Events!Cut}
    BY DEF EInv, ESeqs
  <2> QED BY <1>0, <1>1, <2>1, JoinEntry DEF nWire
<1>5. UNCHANGED <<nDelivered, nQueue, nHand, Taken>> /\ nWriting' = 0
  BY <1>0 DEF nDelivered, nQueue, nHand, Taken, nWriting
<1>6. EFlags' /\ ESeqs'
  BY <1>0, <1>3, <1>4 DEF EInv, EFlags, ESeqs
<1>7. ENums'
  BY <1>0, <1>3, <1>4, <1>5 DEF EInv, ENums
<1>8. Received'
  <2>1. \A i \in 1 .. nDelivered : i \in 1 .. nLog BY ECounts
  <2>2. \A i \in 1 .. nQueue : nDelivered + i \in 1 .. nLog BY ECounts
  <2>3. Taken' <= nLog' BY <1>3, <1>5, ECounts
  <2> QED BY <1>0, <1>3, <1>5, <2>1, <2>2, <2>3 DEF EInv, Received
<1>9. Numbered'
  <2>1. \A i \in 1 .. nLog + 1 : i \in 1 .. nLog \/ i = nLog + 1 BY ECounts
  <2>2. \A i \in 1 .. nLog' : log'[i].serial = i
    BY <1>2, <1>3, <2>1 DEF EInv, Numbered
  <2>3. nLog' + nWriting' = sent' /\ nLog' + nWriting' <= sent' /\ ~(nWriting' > 0)
    <3>1. nLog' = nLog + 1 /\ nWriting' = 0 /\ sent' = nLog + 1 BY <1>0, <1>2, <1>3, <1>5
    <3> QED BY <3>1, ECounts
  <2> QED BY <2>2, <2>3 DEF Numbered
<1>10. Coming'
  <2>1. CASE ~reading BY <1>0, <1>5, <2>1 DEF EInv, Coming
  <2>2. CASE reading
    <3>1. /\ Ahead = nWire /\ Taken + nHand + nWire = nLog /\ serial = Taken
          /\ nHand > 0 => inHand[1] = log[Taken + 1]
          /\ \A i \in 1 .. nWire : wire[i] # Events!Cut /\ wire[i] = log[Taken + nHand + i]
      BY <1>2, <2>2 DEF EInv, Coming
    <3>2. Ahead' = nWire + 1
      BY <1>2, <1>4, ECounts DEF Ahead
    <3>3. ASSUME NEW i \in 1 .. nWire + 1
          PROVE  wire'[i] # Events!Cut /\ wire'[i] = log'[Taken + nHand + i]
      <4>1. CASE i = nWire + 1
        <5>1. Taken + nHand + i = nLog + 1 BY <4>1, <3>1, ECounts
        <5> QED BY <4>1, <5>1, <1>2, <1>3, <1>4
      <4>2. CASE i \in 1 .. nWire
        <5>1. Taken + nHand + i \in 1 .. nLog BY <4>2, <3>1, ECounts
        <5> QED BY <4>2, <5>1, <1>3, <1>4, <3>1
      <4> QED BY <4>1, <4>2, ECounts
    <3>4. nHand > 0 => Taken + 1 \in 1 .. nLog BY <3>1, ECounts
    <3>5. Taken' + nHand' + Ahead' = nLog'
      <4>1. Taken' = Taken /\ nHand' = nHand /\ Ahead' = nWire + 1 /\ nLog' = nLog + 1 BY <1>3, <1>5, <3>2
      <4>2. Taken + nHand + nWire = nLog BY <3>1
      <4> QED BY <4>1, <4>2, ECounts
    <3> QED BY <1>0, <1>3, <1>4, <1>5, <2>2, <3>1, <3>2, <3>3, <3>4, <3>5 DEF Coming
  <2> QED BY <2>1, <2>2
<1> QED BY <1>6, <1>7, <1>8, <1>9, <1>10 DEF EInv

(* The write fails, and may leave part of a record in the socket. *)
LEMMA EFails ==
  ASSUME Events!EventAssumption, EInv, Events!SendFails
  PROVE  EInv'
<1>0. /\ wire' \in {wire, Append(wire, Events!Cut)} /\ writing' = <<>> /\ writing # <<>> /\ pFailed' = TRUE
      /\ pCancelled' = TRUE
      /\ UNCHANGED <<pClosed, sent, serial, inHand, reading, cFailed, cCancelled, cClosed, queue, log, delivered>>
  BY DEF Events!SendFails, Events!readerVars, Events!endVars
<1>1. nWriting = 1
  BY <1>0, OneEntry DEF EInv, ESeqs, ENums, nWriting
<1>2. ~pFailed
  BY <1>1 DEF EInv, Numbered
<1>3. UNCHANGED <<nDelivered, nQueue, nHand, nLog, Taken>> /\ nWriting' = 0
  BY <1>0 DEF nDelivered, nQueue, nHand, nLog, Taken, nWriting
<1>4. wire' = wire \/ /\ nWire' = nWire + 1 /\ wire' \in Seq(Events!Record \union {Events!Cut})
                      /\ wire'[nWire + 1] = Events!Cut /\ \A i \in 1 .. nWire : wire'[i] = wire[i]
  <2>1. wire \in Seq(Events!Record \union {Events!Cut}) /\ Events!Cut \in Events!Record \union {Events!Cut}
    BY DEF EInv, ESeqs
  <2> QED BY <1>0, <2>1, AddEntry DEF nWire
<1>5. nWire' \in Nat
  BY <1>4, ECounts DEF nWire
<1>6. EFlags' /\ ESeqs'
  BY <1>0, <1>4 DEF EInv, EFlags, ESeqs
<1>7. ENums'
  BY <1>0, <1>3, <1>5 DEF EInv, ENums
<1>8. Received'
  BY <1>0, <1>3 DEF EInv, Received
<1>9. Numbered'
  BY <1>0, <1>1, <1>3, ECounts DEF EInv, Numbered
<1>10. Coming'
  <2>1. CASE ~reading BY <1>0, <1>3, <2>1 DEF EInv, Coming
  <2>2. CASE reading
    <3>1. Ahead = nWire BY <1>2, <2>2 DEF EInv, Coming
    <3>2. Ahead' = Ahead /\ \A i \in 1 .. Ahead : wire'[i] = wire[i]
      <4>1. CASE wire' = wire BY <4>1 DEF Ahead, nWire
      <4>2. CASE wire' # wire BY <4>2, <1>4, <3>1, ECounts DEF Ahead
      <4> QED BY <4>1, <4>2
    <3> QED BY <1>0, <1>3, <2>2, <3>2 DEF EInv, Coming
  <2> QED BY <2>1, <2>2
<1> QED BY <1>6, <1>7, <1>8, <1>9, <1>10 DEF EInv

(* Cancelling and closing move no record. *)
LEMMA EFrame ==
  ASSUME EInv, UNCHANGED <<pFailed, sent, writing, wire, serial, inHand, reading, queue, log, delivered>>,
         cFailed => cFailed', cCancelled => cCancelled',
         {pCancelled', pClosed', cFailed', cCancelled', cClosed'} \subseteq BOOLEAN
  PROVE  EInv'
<1>1. UNCHANGED <<nDelivered, nQueue, nHand, nLog, nWire, nWriting, Taken, Ahead>>
  BY DEF nDelivered, nQueue, nHand, nLog, Taken, nWriting, nWire, Ahead
<1>2. Received' /\ Numbered' /\ Coming'
  BY <1>1 DEF EInv, Received, Numbered, Coming
<1>3. EFlags' /\ ESeqs' /\ ENums'
  BY <1>1 DEF EInv, EFlags, ESeqs, ENums
<1> QED BY <1>2, <1>3 DEF EInv

(* Every way to cancel or close an endpoint preserves the invariant. *)
LEMMA ECancel ==
  ASSUME EInv, Events!CancelProducer \/ Events!CancelConsumer \/ Events!CloseProducer \/ Events!CloseConsumer
  PROVE  EInv'
<1> USE DEF Events!producerVars, Events!readerVars, Events!endVars
<1>0. {pCancelled, pClosed, cFailed, cCancelled, cClosed} \subseteq BOOLEAN
  BY DEF EInv, EFlags
<1>1. CASE Events!CancelProducer BY <1>0, <1>1, EFrame DEF Events!CancelProducer
<1>2. CASE Events!CancelConsumer BY <1>0, <1>2, EFrame DEF Events!CancelConsumer
<1>3. CASE Events!CloseProducer BY <1>0, <1>3, EFrame DEF Events!CloseProducer
<1>4. CASE Events!CloseConsumer BY <1>0, <1>4, EFrame DEF Events!CloseConsumer
<1> QED BY <1>1, <1>2, <1>3, <1>4

(* readLoop takes a whole record off the socket. *)
LEMMA ERead ==
  ASSUME Events!EventAssumption, EInv, Events!ReadRecord
  PROVE  EInv'
<1>0. /\ reading /\ inHand = <<>> /\ wire # <<>> /\ Head(wire) # Events!Cut
      /\ inHand' = <<Head(wire)>> /\ wire' = Tail(wire)
      /\ UNCHANGED <<pFailed, pCancelled, pClosed, sent, writing, serial, reading, cFailed, cCancelled, cClosed,
                     queue, log, delivered>>
  BY DEF Events!ReadRecord, Events!producerVars, Events!endVars
<1>1. /\ nWire > 0 /\ nWire' = nWire - 1 /\ wire' \in Seq(Events!Record \union {Events!Cut})
      /\ \A i \in 1 .. nWire - 1 : wire'[i] = wire[i + 1]
      /\ Head(wire) = wire[1] /\ wire[1] \in Events!Record \union {Events!Cut}
  <2>1. wire \in Seq(Events!Record \union {Events!Cut}) BY DEF EInv, ESeqs
  <2> QED BY <1>0, <2>1, DropEntry DEF nWire
<1>2. PICK r \in Events!Record : r = wire[1] /\ inHand' = <<r>>
  BY <1>0, <1>1
<1>3. nHand = 0 /\ nHand' = 1 /\ inHand'[1] = r /\ inHand' \in Seq(Events!Record)
  BY <1>0, <1>2 DEF nHand
<1>4. UNCHANGED <<nDelivered, nQueue, nLog, nWriting, Taken>>
  BY <1>0 DEF nDelivered, nQueue, nLog, nWriting, Taken
<1>5. EFlags' /\ ESeqs'
  BY <1>0, <1>1, <1>3 DEF EInv, EFlags, ESeqs
<1>6. ENums'
  BY <1>0, <1>1, <1>3, <1>4 DEF EInv, ENums
<1>7. Received' /\ Numbered'
  BY <1>0, <1>4 DEF EInv, Received, Numbered
<1>8. Ahead' = Ahead - 1 /\ Ahead > 0
  <2>1. CASE nWire = 1 BY <2>1, <1>0, <1>1 DEF Ahead
  <2>2. CASE nWire > 1
    <3>1. nWire - 1 \in 1 .. nWire - 1 /\ (nWire - 1) + 1 = nWire BY <2>2, ECounts
    <3>2. wire'[nWire - 1] = wire[nWire] BY <3>1, <1>1
    <3>3. nWire' = nWire - 1 /\ nWire' > 0 BY <1>1, <2>2, ECounts
    <3>4. wire'[nWire'] = wire[nWire] BY <3>2, <3>3
    <3>5. CASE wire[nWire] = Events!Cut
      <4>1. Ahead = nWire - 1 BY <1>1, <3>5 DEF Ahead
      <4>2. Ahead' = nWire' - 1 BY <3>3, <3>4, <3>5 DEF Ahead
      <4> QED BY <2>2, <3>3, <4>1, <4>2, ECounts
    <3>6. CASE wire[nWire] # Events!Cut
      <4>1. Ahead = nWire BY <3>6 DEF Ahead
      <4>2. Ahead' = nWire' BY <3>4, <3>6 DEF Ahead
      <4> QED BY <2>2, <3>3, <4>1, <4>2, ECounts
    <3> QED BY <3>5, <3>6
  <2> QED BY <2>1, <2>2, <1>1, ECounts
<1>9. Coming'
  <2>1. /\ serial = Taken /\ Taken + Ahead = nLog /\ (Ahead # nWire => pFailed)
        /\ \A i \in 1 .. Ahead : wire[i] # Events!Cut /\ wire[i] = log[Taken + i]
    <3>1. Taken + nHand = Taken BY <1>3, ECounts
    <3> QED BY <1>0, <3>1 DEF EInv, Coming
  <2>2. r = log[Taken + 1]
    <3>1. 1 \in 1 .. Ahead BY <1>8, ECounts
    <3> QED BY <3>1, <1>2, <2>1
  <2>3. ASSUME NEW i \in 1 .. Ahead' PROVE wire'[i] # Events!Cut /\ wire'[i] = log[Taken + 1 + i]
    <3>1. i + 1 \in 1 .. Ahead /\ Taken + (i + 1) = Taken + 1 + i /\ i \in 1 .. nWire - 1
      BY <1>8, ECounts
    <3> QED BY <3>1, <1>1, <2>1
  <2>4. Taken + 1 + Ahead' = nLog /\ (Ahead' # nWire' => Ahead # nWire)
    <3>1. Taken + Ahead = nLog BY <2>1
    <3>2. nWire' = nWire - 1 /\ nWire > 0 BY <1>1
    <3> QED BY <1>8, <3>1, <3>2, ECounts
  <2> QED BY <1>0, <1>3, <1>4, <2>1, <2>2, <2>3, <2>4 DEF Coming
<1> QED BY <1>5, <1>6, <1>7, <1>9 DEF EInv

(* readLoop returns: what was delivered and queued stays as it is. *)
LEMMA EStops ==
  ASSUME Events!EventAssumption, EInv,
         Events!ReadFails \/ Events!ReadCancelled \/ Events!RejectRecord \/ Events!Overflow
  PROVE  EInv'
<1>1. /\ UNCHANGED <<pFailed, pCancelled, pClosed, sent, writing, wire, cClosed, queue, log, delivered>>
      /\ reading' = FALSE /\ inHand' = <<>>
      /\ \/ cFailed' = TRUE /\ cCancelled' = TRUE
         \/ cFailed' = cFailed /\ cCancelled' = cCancelled /\ cCancelled
      /\ serial' = serial \/ (inHand # <<>> /\ serial' = serial + 1)
  BY DEF Events!ReadFails, Events!ReadCancelled, Events!RejectRecord, Events!Overflow, Events!Fail,
         Events!producerVars, Events!endVars
<1>2. nHand' = 0 /\ inHand' \in Seq(Events!Record)
  BY <1>1 DEF nHand
<1>3. UNCHANGED <<nDelivered, nQueue, nWire, nLog, nWriting, Taken>>
  BY <1>1 DEF nDelivered, nQueue, nLog, nWriting, nWire, Taken
<1>4. serial' \in Nat /\ serial' <= MaxSerial
  <2>1. CASE serial' = serial BY <2>1 DEF EInv, ENums
  <2>2. CASE inHand # <<>> /\ serial' = serial + 1
    <3>1. nHand = 1 BY <2>2, OneEntry DEF EInv, ESeqs, ENums, nHand
    <3>2. reading BY <3>1 DEF EInv, Coming
    <3>3. serial + 1 + Ahead = nLog /\ nLog + nWriting <= sent /\ sent <= MaxSerial
      BY <3>1, <3>2 DEF EInv, Coming, Numbered, ENums
    <3>4. MaxSerial \in Nat BY DEF Events!EventAssumption
    <3>5. serial' = serial + 1 BY <2>2
    <3> QED BY <3>3, <3>4, <3>5, ECounts
  <2> QED BY <1>1, <2>1, <2>2
<1>5. EFlags' /\ ESeqs'
  BY <1>1, <1>2 DEF EInv, EFlags, ESeqs
<1>6. ENums'
  BY <1>1, <1>2, <1>3, <1>4 DEF EInv, ENums
<1>7. Received' /\ Numbered' /\ Coming'
  BY <1>1, <1>2, <1>3 DEF EInv, Received, Numbered, Coming
<1> QED BY <1>5, <1>6, <1>7 DEF EInv

(* readLoop queues the record in hand. *)
LEMMA EQueue ==
  ASSUME Events!EventAssumption, EInv, Events!QueueRecord
  PROVE  EInv'
<1>0. /\ inHand # <<>> /\ Head(inHand).kind # "FLUSH" /\ queue' = queue \o inHand /\ inHand' = <<>>
      /\ serial' = serial + 1
      /\ UNCHANGED <<pFailed, pCancelled, pClosed, sent, writing, wire, reading, cFailed, cCancelled, cClosed,
                     log, delivered>>
  BY DEF Events!QueueRecord, Events!Accepted, Events!producerVars, Events!endVars
<1>1. PICK r \in Events!Record : inHand = <<r>> /\ r = inHand[1] /\ r.kind # "FLUSH" /\ nHand = 1
  BY <1>0, OneEntry DEF EInv, ESeqs, ENums, nHand
<1>2. nHand' = 0 /\ inHand' \in Seq(Events!Record)
  BY <1>0 DEF nHand
<1>3. /\ nQueue' = nQueue + 1 /\ queue' \in Seq(Events!Record) /\ queue'[nQueue + 1] = r
      /\ \A i \in 1 .. nQueue : queue'[i] = queue[i]
  BY <1>0, <1>1, JoinEntry DEF EInv, ESeqs, nQueue
<1>4. UNCHANGED <<nDelivered, nWire, nLog, nWriting, Ahead>>
  BY <1>0 DEF nDelivered, nWire, nLog, nWriting, Ahead
<1>5. Taken' = Taken + 1
  BY <1>3, <1>4, ECounts DEF Taken
<1>6. reading BY <1>1 DEF EInv, Coming
<1>7. /\ serial = Taken /\ Taken + 1 + Ahead = nLog /\ r = log[Taken + 1] /\ (Ahead # nWire => pFailed)
      /\ \A i \in 1 .. Ahead : wire[i] # Events!Cut /\ wire[i] = log[Taken + 1 + i]
  BY <1>1, <1>6 DEF EInv, Coming
<1>8. EFlags' /\ ESeqs'
  BY <1>0, <1>2, <1>3 DEF EInv, EFlags, ESeqs
<1>9. ENums'
  <2>1. nLog + nWriting <= sent /\ sent <= MaxSerial /\ MaxSerial \in Nat
    BY DEF EInv, Numbered, ENums, Events!EventAssumption
  <2>2. serial' \in Nat /\ serial' <= MaxSerial
    <3>1. serial' = Taken + 1 /\ Taken + 1 + Ahead = nLog BY <1>0, <1>7
    <3> QED BY <2>1, <3>1, ECounts
  <2> QED BY <1>0, <1>2, <1>3, <1>4, <2>2 DEF EInv, ENums
<1>10. Received'
  <2>1. Taken' <= nLog' BY <1>4, <1>5, <1>7, ECounts
  <2>2. ASSUME NEW i \in 1 .. nQueue' PROVE queue'[i] = log[nDelivered + i] /\ queue'[i].kind # "FLUSH"
    <3>1. CASE i = nQueue + 1
      <4>1. Taken + 1 = nDelivered + i BY <3>1, ECounts
      <4> QED BY <3>1, <4>1, <1>1, <1>3, <1>7
    <3>2. CASE i \in 1 .. nQueue
      BY <3>2, <1>3 DEF EInv, Received
    <3> QED BY <3>1, <3>2, <1>3, ECounts
  <2> QED BY <1>0, <1>4, <2>1, <2>2 DEF EInv, Received
<1>11. Numbered'
  BY <1>0, <1>4 DEF EInv, Numbered
<1>12. Coming'
  <2>1. Taken' + nHand' + Ahead' = nLog' /\ serial' = Taken' BY <1>0, <1>2, <1>4, <1>5, <1>7, ECounts
  <2>2. \A i \in 1 .. Ahead : Taken' + nHand' + i = Taken + 1 + i BY <1>2, <1>5, ECounts
  <2>3. nHand' = 0 /\ ~(nHand' > 0) BY <1>2
  <2>4. \A i \in 1 .. Ahead' : wire'[i] # Events!Cut /\ wire'[i] = log'[Taken' + nHand' + i]
    BY <1>0, <1>4, <1>7, <2>2
  <2>5. reading' /\ (Ahead' # nWire' => pFailed') BY <1>0, <1>4, <1>6, <1>7
  <2> QED BY <2>1, <2>3, <2>4, <2>5 DEF Coming
<1> QED BY <1>8, <1>9, <1>10, <1>11, <1>12 DEF EInv

(* receive returns the oldest queued record. *)
LEMMA EReceive ==
  ASSUME Events!EventAssumption, EInv, Events!Receive
  PROVE  EInv'
<1>0. /\ queue # <<>> /\ delivered' = Append(delivered, Head(queue)) /\ queue' = Tail(queue)
      /\ UNCHANGED <<pFailed, pCancelled, pClosed, sent, writing, wire, serial, inHand, reading, cFailed,
                     cCancelled, cClosed, log>>
  BY DEF Events!Receive, Events!producerVars, Events!readerVars, Events!endVars
<1>1. /\ nQueue > 0 /\ nQueue' = nQueue - 1 /\ queue' \in Seq(Events!Record)
      /\ \A i \in 1 .. nQueue - 1 : queue'[i] = queue[i + 1]
      /\ Head(queue) = queue[1] /\ queue[1] \in Events!Record
  BY <1>0, DropEntry DEF EInv, ESeqs, nQueue
<1>2. PICK r \in Events!Record : r = queue[1] /\ delivered' = Append(delivered, r)
  BY <1>0, <1>1
<1>3. /\ nDelivered' = nDelivered + 1 /\ delivered'[nDelivered + 1] = r /\ delivered' \in Seq(Events!Record)
      /\ \A i \in 1 .. nDelivered : delivered'[i] = delivered[i]
  BY <1>2, AddEntry DEF EInv, ESeqs, nDelivered
<1>4. UNCHANGED <<nHand, nWire, nLog, nWriting, Ahead>>
  BY <1>0 DEF nHand, nWire, nLog, nWriting, Ahead
<1>5. Taken' = Taken
  <2>1. nQueue' = nQueue - 1 /\ nDelivered' = nDelivered + 1 BY <1>1, <1>3
  <2> QED BY <2>1, ECounts DEF Taken
<1>6. r = log[nDelivered + 1] /\ r.kind # "FLUSH"
  <2>1. 1 \in 1 .. nQueue BY <1>1, ECounts
  <2> QED BY <1>2, <2>1 DEF EInv, Received
<1>7. Received'
  <2>1. ASSUME NEW i \in 1 .. nDelivered' PROVE delivered'[i] = log[i] /\ delivered'[i].kind # "FLUSH"
    <3>1. i \in 1 .. nDelivered \/ i = nDelivered + 1 BY <1>3, ECounts
    <3> QED BY <3>1, <1>3, <1>6 DEF EInv, Received
  <2>2. ASSUME NEW i \in 1 .. nQueue' PROVE queue'[i] = log[nDelivered' + i] /\ queue'[i].kind # "FLUSH"
    <3>0. i \in 1 .. nQueue - 1 /\ nDelivered' = nDelivered + 1 BY <1>1, <1>3
    <3>1. i + 1 \in 1 .. nQueue /\ nDelivered' + i = nDelivered + (i + 1) /\ i \in 1 .. nQueue - 1
      BY <3>0, ECounts
    <3>2. queue[i + 1] = log[nDelivered + (i + 1)] /\ queue[i + 1].kind # "FLUSH"
      BY <3>1 DEF EInv, Received
    <3> QED BY <3>1, <3>2, <1>1
  <2> QED BY <1>0, <1>4, <1>5, <2>1, <2>2 DEF EInv, Received
<1>8. Numbered' /\ Coming'
  BY <1>0, <1>4, <1>5 DEF EInv, Numbered, Coming
<1>9. EFlags' /\ ESeqs'
  BY <1>0, <1>1, <1>3 DEF EInv, EFlags, ESeqs
<1>10. ENums'
  <2>1. nQueue' \in Nat /\ nDelivered' \in Nat
    <3>1. nQueue' = nQueue - 1 /\ nQueue > 0 /\ nDelivered' = nDelivered + 1 BY <1>1, <1>3
    <3> QED BY <3>1, ECounts
  <2> QED BY <1>0, <1>4, <2>1 DEF EInv, ENums
<1> QED BY <1>7, <1>8, <1>9, <1>10 DEF EInv

(* Every step of the channel preserves its invariant. *)
LEMMA EStep == ASSUME Events!EventAssumption, EInv, [Events!Next]_(Events!vars) PROVE EInv'
<1>1. CASE \E k \in Events!Kinds : Events!SendBegin(k) BY <1>1, ESend
<1>2. CASE Events!Write BY <1>2, EWritten, EFails DEF Events!Write
<1>3. CASE Events!ReadLoop BY <1>3, ERead, EStops, EQueue DEF Events!ReadLoop
<1>4. CASE Events!Receive BY <1>4, EReceive
<1>5. CASE Events!CancelProducer \/ Events!CancelConsumer \/ Events!CloseProducer \/ Events!CloseConsumer
  BY <1>5, ECancel
<1>6. CASE UNCHANGED Events!vars
  <2>1. {pCancelled, pClosed, cFailed, cCancelled, cClosed} \subseteq BOOLEAN
    BY DEF EInv, EFlags
  <2> QED BY <1>6, <2>1, EFrame DEF Events!vars, Events!producerVars, Events!readerVars, Events!endVars
<1> QED BY <1>1, <1>2, <1>3, <1>4, <1>5, <1>6 DEF Events!Next

(* What was delivered and queued is a prefix of the log without a FLUSH. *)
LEMMA EPrefix ==
  ASSUME EInv
  PROVE  /\ delivered \o queue \in Seq(Events!Record) /\ Len(delivered \o queue) = Taken /\ Taken <= nLog
         /\ \A i \in 1 .. Taken : (delivered \o queue)[i] = log[i] /\ log[i].kind # "FLUSH"
<1> DEFINE got == delivered \o queue
<1>1. /\ got \in Seq(Events!Record) /\ Len(got) = Taken
      /\ \A i \in 1 .. nDelivered : got[i] = delivered[i]
      /\ \A i \in 1 .. nQueue : got[nDelivered + i] = queue[i]
  BY JoinSeqs DEF EInv, ESeqs, nDelivered, nQueue, Taken
<1>2. ASSUME NEW i \in 1 .. Taken PROVE got[i] = log[i] /\ log[i].kind # "FLUSH"
  <2>1. CASE i \in 1 .. nDelivered
    BY <1>1, <2>1 DEF EInv, Received
  <2>2. CASE i \notin 1 .. nDelivered
    <3>1. PICK j \in 1 .. nQueue : i = nDelivered + j
      <4>1. i - nDelivered \in 1 .. nQueue /\ i = nDelivered + (i - nDelivered) BY <2>2, ECounts
      <4> QED BY <4>1
    <3> QED BY <1>1, <3>1 DEF EInv, Received
  <2> QED BY <2>1, <2>2
<1> QED BY <1>1, <1>2, ECounts

(* Until the reader's endpoint fails or is cancelled, nothing is missing. *)
LEMMA ENoLoss == ASSUME Events!EventAssumption, EInv PROVE Events!NoSilentLoss
<1> SUFFICES ASSUME ~cFailed, ~cCancelled
             PROVE  delivered \o queue \o inHand \o Events!Whole(wire) = log
  BY DEF Events!NoSilentLoss
<1>1. reading BY DEF EInv, Coming
<1>2. /\ Taken + nHand + Ahead = nLog /\ (nHand > 0 => inHand[1] = log[Taken + 1])
      /\ \A i \in 1 .. Ahead : wire[i] # Events!Cut /\ wire[i] = log[Taken + nHand + i]
  BY <1>1 DEF EInv, Coming
<1>3. PICK w : w = Events!Whole(wire) OBVIOUS
<1>4. w \in Seq(Events!Record \union {Events!Cut}) /\ Len(w) = Ahead /\ \A i \in 1 .. Ahead : w[i] = wire[i]
  <2>1. wire \in Seq(Events!Record \union {Events!Cut}) BY DEF EInv, ESeqs
  <2>2. CASE nWire > 0 /\ wire[nWire] = Events!Cut
    <3>1. w = SubSeq(wire, 1, nWire - 1) BY <1>3, <2>1, <2>2 DEF Events!Whole, nWire
    <3>2. nWire - 1 \in Nat /\ nWire - 1 <= nWire BY <2>2, ECounts
    <3>3. Ahead = nWire - 1 BY <2>2 DEF Ahead
    <3> QED BY <2>1, <3>1, <3>2, <3>3 DEF nWire
  <2>3. CASE ~(nWire > 0 /\ wire[nWire] = Events!Cut)
    <3>1. wire # <<>> => nWire > 0 BY <2>1 DEF nWire
    <3>2. w = wire BY <1>3, <2>3, <3>1 DEF Events!Whole, nWire
    <3>3. Ahead = nWire BY <2>3 DEF Ahead
    <3> QED BY <2>1, <3>2, <3>3 DEF nWire
  <2> QED BY <2>2, <2>3
<1>5. PICK g \in Seq(Events!Record) : g = delivered \o queue BY EPrefix
<1>6. Len(g) = Taken /\ \A i \in 1 .. Taken : g[i] = log[i] BY <1>5, EPrefix
<1>7. PICK h : h = g \o inHand OBVIOUS
<1>8. /\ h \in Seq(Events!Record) /\ Len(h) = Taken + nHand
      /\ \A i \in 1 .. Taken : h[i] = g[i]
      /\ \A i \in 1 .. nHand : h[Taken + i] = inHand[i]
  <2>1. inHand \in Seq(Events!Record) BY DEF EInv, ESeqs
  <2>2. PICK n \in Nat : n = nHand /\ n = Len(inHand) BY ECounts DEF nHand
  <2>3. /\ g \o inHand \in Seq(Events!Record) /\ Len(g \o inHand) = Len(g) + Len(inHand)
        /\ \A i \in 1 .. Len(g) : (g \o inHand)[i] = g[i]
        /\ \A i \in 1 .. Len(inHand) : (g \o inHand)[Len(g) + i] = inHand[i]
    BY <2>1, JoinSeqs
  <2>4. Len(g) = Taken BY <1>6
  <2> QED BY <1>7, <2>2, <2>3, <2>4, Zenon
<1>9. ASSUME NEW i \in 1 .. Taken + nHand PROVE h[i] = log[i]
  <2>1. i \in 1 .. Taken \/ (nHand = 1 /\ i = Taken + 1)
    <3>0. nHand \in Nat /\ nHand <= 1 BY ECounts
    <3>1. nHand = 0 \/ nHand = 1 BY <3>0
    <3>2. CASE nHand = 0
      <4>1. Taken + nHand = Taken BY <3>2, ECounts
      <4> QED BY <4>1
    <3>3. CASE nHand = 1
      <4>1. i \in 1 .. Taken + 1 BY <3>3
      <4>2. i \in 1 .. Taken \/ i = Taken + 1 BY <4>1, ECounts, LastIndex
      <4> QED BY <3>3, <4>2
    <3> QED BY <3>1, <3>2, <3>3
  <2>2. CASE i \in 1 .. Taken BY <1>6, <1>8, <2>2
  <2>3. CASE nHand = 1 /\ i = Taken + 1
    <3>1. 1 \in 1 .. nHand /\ nHand > 0 BY <2>3
    <3>2. h[Taken + 1] = inHand[1] BY <1>8, <3>1
    <3> QED BY <1>2, <2>3, <3>1, <3>2
  <2> QED BY <2>1, <2>2, <2>3
<1>10. PICK a : a = h \o w OBVIOUS
<1>11. /\ a \in Seq(Events!Record \union {Events!Cut}) /\ Len(a) = nLog
       /\ \A i \in 1 .. Taken + nHand : a[i] = h[i]
       /\ \A i \in 1 .. Ahead : a[(Taken + nHand) + i] = w[i]
  <2>1. h \in Seq(Events!Record \union {Events!Cut}) BY <1>8
  <2>2. /\ a \in Seq(Events!Record \union {Events!Cut}) /\ Len(a) = (Taken + nHand) + Ahead
        /\ \A i \in 1 .. Taken + nHand : a[i] = h[i]
        /\ \A i \in 1 .. Ahead : a[(Taken + nHand) + i] = w[i]
    <3>1. /\ h \o w \in Seq(Events!Record \union {Events!Cut}) /\ Len(h \o w) = Len(h) + Len(w)
          /\ \A i \in 1 .. Len(h) : (h \o w)[i] = h[i]
          /\ \A i \in 1 .. Len(w) : (h \o w)[Len(h) + i] = w[i]
      <4>1. w \in Seq(Events!Record \union {Events!Cut}) BY <1>4
      <4> QED BY <2>1, <4>1, JoinSeqs
    <3>2. Len(h) = Taken + nHand /\ Len(w) = Ahead BY <1>4, <1>8
    <3> QED BY <1>10, <3>1, <3>2, Zenon
  <2> QED BY <1>2, <2>2
<1>12. ASSUME NEW i \in 1 .. nLog PROVE a[i] = log[i]
  <2>1. CASE i \in 1 .. Taken + nHand BY <2>1, <1>9, <1>11
  <2>2. CASE i \notin 1 .. Taken + nHand
    <3>1. PICK j \in 1 .. Ahead : i = (Taken + nHand) + j
      <4>1. i - (Taken + nHand) \in 1 .. Ahead /\ i = (Taken + nHand) + (i - (Taken + nHand))
        <5>1. Taken + nHand + Ahead = nLog BY <1>2
        <5>2. PICK n \in Nat : n = Taken + nHand BY ECounts
        <5>3. i \in 1 .. nLog /\ i \notin 1 .. n /\ n + Ahead = nLog BY <2>2, <5>1, <5>2
        <5>4. i - n \in 1 .. Ahead /\ i = n + (i - n) BY <5>3, ECounts
        <5> QED BY <5>2, <5>4
      <4> QED BY <4>1
    <3> QED BY <1>2, <1>4, <1>11, <3>1
  <2> QED BY <2>1, <2>2
<1>13. a = log
  <2>1. log \in Seq(Events!Record) /\ Len(log) = nLog BY DEF EInv, ESeqs, nLog
  <2> QED BY <1>11, <1>12, <2>1, SameSeqs
<1> QED BY <1>3, <1>5, <1>7, <1>10, <1>13

(* The invariant is what the run checks of the channel. *)
LEMMA EImplies ==
  ASSUME Events!EventAssumption, EInv
  PROVE  Events!TypeOK /\ Events!PrefixDelivered /\ Events!NoSilentLoss /\ Events!FlushEndsSession
<1> DEFINE got == delivered \o queue
<1>1. Events!PrefixDelivered
  <2>1. PICK g \in Seq(Events!Record) : g = got BY EPrefix
  <2>2. Len(g) = Taken /\ Taken \in Nat /\ Taken <= Len(log) /\ \A i \in 1 .. Taken : g[i] = log[i]
    BY <2>1, EPrefix, ECounts DEF nLog
  <2>3. log \in Seq(Events!Record) BY DEF EInv, ESeqs
  <2>4. SubSeq(g, 1, Taken) = SubSeq(log, 1, Taken)
    BY <2>2, <2>3
  <2> QED BY <2>1, <2>2, <2>4 DEF Events!PrefixDelivered, Events!IsPrefix
<1>2. Events!FlushEndsSession
  <2>1. DOMAIN got = 1 .. Taken /\ DOMAIN log = 1 .. nLog
    BY EPrefix DEF EInv, ESeqs, nLog
  <2>2. ASSUME NEW i \in 1 .. Taken, NEW j \in 1 .. nLog, log[j].kind = "FLUSH" PROVE i < j
    <3>1. j \notin 1 .. Taken BY <2>2, EPrefix
    <3> QED BY <3>1, ECounts
  <2> QED BY <2>1, <2>2 DEF Events!FlushEndsSession
<1> QED BY <1>1, <1>2, ENoLoss, ETypes

(* A run is, as far as the channel is concerned, one of the channel. *)
LEMMA RunsEvents == MCSpec => Events!Spec
<1>1. MCInit => Events!Init
  BY DEF MCInit
<1>2. [MCNext]_mcvars => [Events!Next]_(Events!vars)
  BY DEF MCNext, mcvars, link, Events!vars, Events!producerVars, Events!readerVars, Events!endVars
<1>3. MCSpec => MCInit /\ [][MCNext]_mcvars
  BY PTL DEF MCSpec
<1> QED BY <1>1, <1>2, <1>3, PTL DEF Events!Spec

(* Whatever fails, is cancelled or is closed, and in whatever order, the     *)
(* video source receives a prefix of what was written; while its endpoint    *)
(* reports neither failure nor cancellation nothing is missing; and nothing  *)
(* from a FLUSH on reaches it (fl_gst_event_channel.hpp:22-65), for every    *)
(* queue limit and any number of records.                                    *)
THEOREM EventsDelivered == MCSpec => []EventsSound
<1>0. Events!EventAssumption
  BY ThreadsAssumption
<1>1. Events!Spec => []EInv
  BY <1>0, EInit, EStep, PTL DEF Events!Spec
<1>2. EInv => EventsSound
  BY <1>0, EImplies DEF EventsSound
<1> QED BY <1>1, <1>2, RunsEvents, PTL

-----------------------------------------------------------------------------
(* The A/V bins.  p tells the producer's bin from the consumer's. *)

(* The table of calls of releaseMedia. *)
Calls == 1..MaxCalls

(* The worker of the producer holds the channel until the consumer is ready. *)
AtWorker(n) == worker = "await" /\ "video" \in BinTracks /\ n = sessions

(* Somebody holds channel n. *)
Held(n) == AtWorker(n) \/ sh.channel = n \/ child.channel = n \/ \E c \in Calls : calls[c].chan = n

(* The open channels are the ones somebody holds; all are of sessions so     *)
(* far, and Shared has none before the worker announces it.                  *)
Owned ==
  /\ open \subseteq 1..sessions /\ ("video" \notin BinTracks => open = {})
  /\ worker = "open" => sessions \notin open
  /\ worker \in {"open", "await"} => sh.channel = 0
  /\ \A c \in Calls : calls[c].at # "taken" => calls[c].chan = 0
  /\ \A n \in 1..MaxSessions : n \in open <=> Held(n)

(* Nobody holds a channel that someone else holds. *)
Apart ==
  /\ \A n \in 1..MaxSessions : child.channel = n => ~AtWorker(n) /\ sh.channel # n
  /\ \A n \in 1..MaxSessions, c \in Calls :
       calls[c].chan = n => ~AtWorker(n) /\ sh.channel # n /\ child.channel # n
  /\ \A c, d \in Calls : calls[c].chan # 0 /\ calls[c].chan = calls[d].chan => c = d

(* A bin on its way to NULL is cancelled, and one in NULL refuses every call *)
(* that enters.  Only a stale call can be past its first step there.         *)
Closing ==
  /\ ~stale /\ elem = "NULL" => \A c \in Calls : calls[c].at \in {"idle", "queued"}
  /\ elem = "toNULL" => sh.cancelled
  /\ elem = "NULL" => worker = "idle" /\ ~sh.ok /\ sh.channel = 0

(* Media was released by a call that started every inner element, for a      *)
(* consumer that was ready, unless a stale call released it.                 *)
ReadyHolds(p) ==
  /\ ~stale => /\ sh.released => child.started = BinTracks
               /\ \A c \in Calls : calls[c].at = "started" => child.started = BinTracks
               /\ p /\ (sh.ok \/ sh.released \/ \E c \in Calls : calls[c].at \in {"taken", "adopted", "started"})
                    => "ready" \in peer
               /\ worker = "report" => sh.released
  /\ sh.readySent => "ready" \in out

(* Every track ended, none because of an error, after ready was reported. *)
Drained == sh.eos = BinTracks /\ "ready" \in out /\ ~sh.failed

(* What passed the probe, was reported or posted. *)
Reports(p) ==
  /\ posting \in [DOMAIN posting -> SUBSET BinTracks]
  /\ p => (~stale /\ passed # {} => "ready" \in peer /\ child.started = BinTracks)
  /\ p => ("eos" \in out => "drained" \in peer)
  /\ ~stale /\ "ready" \in out => child.started = BinTracks
  /\ ~p => /\ posting = [t \in {} |-> {}]
           /\ drainer = "wait" => sh.eos = BinTracks
           /\ drainer = "finish" => Drained
           /\ "drained" \in out => Drained
           /\ errored # {} => sh.failed

(* The inductive invariant of a bin. *)
BInv(p) == Bin(p)!TypeOK /\ Owned /\ Apart /\ Closing /\ ReadyHolds(p) /\ Reports(p)

(* What the constants are assumed to be. *)
LEMMA BinFacts ==
  /\ BinTracks \subseteq {"video", "audio"} /\ BinTracks # {}
  /\ MaxCalls \in Nat \ {0} /\ MaxSessions \in Nat \ {0}
  BY BinAssumption DEF Bin!AvBinAssumption

(* One entry of the table of calls is replaced. *)
LEMMA OneCall ==
  ASSUME NEW p \in BOOLEAN, calls \in [Calls -> Bin(p)!Call], NEW c \in Calls, NEW r \in Bin(p)!Call,
         calls' = [calls EXCEPT ![c] = r]
  PROVE  /\ calls' \in [Calls -> Bin(p)!Call] /\ calls'[c] = r
         /\ \A d \in Calls : d # c => calls'[d] = calls[d]
  OBVIOUS

(* Entry d after gst_element_call_async. *)
Async(d) ==
  \/ calls'[d] = calls[d]
  \/ calls[d].at = "idle" /\ calls'[d] = [at |-> "queued", chan |-> 0, of |-> 0]

(* gst_element_call_async uses an entry nobody uses. *)
LEMMA AsyncCall ==
  ASSUME NEW p \in BOOLEAN, calls \in [Calls -> Bin(p)!Call], Bin(p)!CallAsync
  PROVE  calls' \in [Calls -> Bin(p)!Call] /\ \A d \in Calls : Async(d)
<1> DEFINE c == CHOOSE d \in Calls : d \notin Bin(p)!InFlight
<1>1. \E d \in Calls : d \notin Bin(p)!InFlight BY DEF Bin!CallAsync, Bin!InFlight, Calls
<1>2. c \in Calls /\ c \notin Bin(p)!InFlight BY <1>1
<1>3. calls[c].at = "idle" BY <1>2 DEF Bin!InFlight, Calls
<1>4. /\ [Bin(p)!Idle EXCEPT !.at = "queued"] = [at |-> "queued", chan |-> 0, of |-> 0]
      /\ [at |-> "queued", chan |-> 0, of |-> 0] \in Bin(p)!Call
  BY BinFacts DEF Bin!Idle, Bin!Call, Bin!Sessions
<1>5. calls' = [calls EXCEPT ![c] = [at |-> "queued", chan |-> 0, of |-> 0]]
  BY <1>4 DEF Bin!CallAsync, Calls
<1> QED BY <1>2, <1>3, <1>4, <1>5, OneCall, ZenonT(30) DEF Async

(* A channel nobody knows is opened and goes to the worker or to Shared. *)
LEMMA AfterWorkerOpens ==
  ASSUME NEW p \in BOOLEAN, BInv(p), NEW ok \in BOOLEAN, Bin(p)!WorkerOpens(ok) PROVE BInv(p)'
<1> USE BinFacts DEF BInv, Bin!TypeOK, Bin!Sessions, Calls, Bin!media
<1> DEFINE ch == IF ok /\ "video" \in BinTracks THEN sessions ELSE 0
<1>0. /\ worker = "open" /\ open' = open \cup ({ch} \ {0}) /\ ch \in 0..MaxSessions
      /\ UNCHANGED <<elem, sessions, drainer, calls, child, pad, passed, posting, heldEos, errored, peer, out, stale, pauses>>
  BY DEF Bin!WorkerOpens
<1>c. sh.channel = 0 /\ sessions \notin open BY <1>0 DEF Owned
<1>a. CASE p /\ ok
  <2>0. worker' = "await" /\ sh' = sh BY <1>a DEF Bin!WorkerOpens
  <2>1. Bin(p)!TypeOK' BY <1>0, <2>0
  <2>2. Owned' BY <1>0, <1>c, <1>a, <2>0 DEF Owned, Held, AtWorker, Bin!Shared, Bin!Call
  <2>3. Apart' BY <1>0, <1>c, <1>a, <2>0, SMTT(30) DEF Owned, Held, Apart, AtWorker, Bin!Shared, Bin!Call
  <2>4. Closing' BY <1>0, <2>0 DEF Closing
  <2>5. ReadyHolds(p)' BY <1>0, <2>0 DEF ReadyHolds
  <2>6. Reports(p)' BY <1>0, <2>0 DEF Reports, Drained
  <2> QED BY <2>1, <2>2, <2>3, <2>4, <2>5, <2>6
<1>b. CASE ~(p /\ ok)
  <2>0. /\ sh' = [sh EXCEPT !.done = TRUE, !.ok = ok, !.channel = ch]
        /\ worker' = IF ok THEN "queue" ELSE "done"
    BY <1>b DEF Bin!WorkerOpens, Bin!Announce
  <2>s. sh' \in Bin(p)!Shared BY <1>0, <2>0 DEF Bin!Shared
  <2>f. /\ sh'.ok = ok /\ sh'.channel = ch /\ sh'.released = sh.released /\ sh'.cancelled = sh.cancelled
        /\ sh'.readySent = sh.readySent /\ sh'.failed = sh.failed /\ sh'.eos = sh.eos
    BY <1>0, <2>0 DEF Bin!Shared
  <2> HIDE DEF ch
  <2>1. Bin(p)!TypeOK' BY <1>0, <2>0, <2>s
  <2>2. Owned'
    <3>1. ch # 0 => ch = sessions BY DEF ch
    <3>2. "video" \notin BinTracks => ch = 0 BY DEF ch
    <3> QED BY <1>0, <1>c, <2>0, <2>f, <3>1, <3>2 DEF Owned, Held, AtWorker, Bin!Shared, Bin!Call
  <2>3. Apart'
    <3>1. ch # 0 => ch = sessions BY DEF ch
    <3> QED BY <1>0, <1>c, <2>0, <2>f, <3>1 DEF Owned, Held, Apart, AtWorker, Bin!Shared, Bin!Call
  <2>4. Closing' BY <1>0, <2>0, <2>f DEF Closing
  <2>5. ReadyHolds(p)' BY <1>0, <1>b, <2>0, <2>f DEF ReadyHolds
  <2>6. Reports(p)' BY <1>0, <2>0, <2>f DEF Reports, Drained
  <2> QED BY <2>1, <2>2, <2>3, <2>4, <2>5, <2>6
<1> QED BY <1>a, <1>b

(* Whether the consumer got ready or not, the worker's channel goes to       *)
(* Shared.                                                                   *)
LEMMA AfterWorkerAwaits ==
  ASSUME NEW p \in BOOLEAN, BInv(p), NEW ok \in BOOLEAN, Bin(p)!WorkerAwaits(ok) PROVE BInv(p)'
<1> USE BinFacts DEF BInv, Bin!TypeOK, Bin!Sessions, Calls, Bin!media
<1> DEFINE ch == IF "video" \in BinTracks THEN sessions ELSE 0
<1>0. /\ worker = "await" /\ ch \in 0..MaxSessions /\ (ok => "ready" \in peer)
      /\ sh' = [sh EXCEPT !.done = TRUE, !.ok = ok, !.channel = ch]
      /\ worker' = IF ok THEN "queue" ELSE "done"
      /\ UNCHANGED <<elem, sessions, drainer, calls, child, open, pad, passed, posting, heldEos, errored, peer, out, stale, pauses>>
  BY DEF Bin!WorkerAwaits, Bin!Announce
<1>s. sh' \in Bin(p)!Shared BY <1>0 DEF Bin!Shared
<1>f. /\ sh'.ok = ok /\ sh'.channel = ch /\ sh'.released = sh.released /\ sh'.cancelled = sh.cancelled
      /\ sh'.readySent = sh.readySent /\ sh'.failed = sh.failed /\ sh'.eos = sh.eos
  BY <1>0 DEF Bin!Shared
<1>1. Bin(p)!TypeOK' BY <1>0, <1>s
<1>2. Owned' BY <1>0, <1>f DEF Owned, Held, AtWorker, Bin!Shared, Bin!Call
<1>3. Apart' BY <1>0, <1>f DEF Owned, Apart, AtWorker, Bin!Shared, Bin!Call
<1>4. Closing' BY <1>0, <1>f DEF Closing
<1>5. ReadyHolds(p)' BY <1>0, <1>f DEF ReadyHolds
<1>6. Reports(p)' BY <1>0, <1>f DEF Reports, Drained
<1> QED BY <1>1, <1>2, <1>3, <1>4, <1>5, <1>6

(* A call more, which holds nothing yet. *)
LEMMA AfterWorkerQueues ==
  ASSUME NEW p \in BOOLEAN, BInv(p), Bin(p)!WorkerQueues PROVE BInv(p)'
<1> USE BinFacts DEF BInv, Bin!TypeOK, Bin!Sessions, Bin!media
<1>0. /\ worker = "queue" /\ worker' \in {"done", "hold"}
      /\ UNCHANGED <<elem, sessions, sh, drainer, child, open, pad, passed, posting, heldEos, errored, peer, out, stale, pauses>>
  BY DEF Bin!WorkerQueues
<1>c. calls' \in [Calls -> Bin(p)!Call] /\ \A d \in Calls : Async(d)
  BY AsyncCall DEF Bin!WorkerQueues, Calls
<1>1. Bin(p)!TypeOK' BY <1>0, <1>c DEF Calls
<1>2. Owned' BY <1>0, <1>c DEF Owned, Held, AtWorker, Async
<1>3. Apart' BY <1>0, <1>c DEF Owned, Apart, AtWorker, Async
<1>4. Closing' BY <1>0, <1>c DEF Closing, Async
<1>5. ReadyHolds(p)' BY <1>0, <1>c DEF ReadyHolds, Async
<1>6. Reports(p)' BY <1>0 DEF Reports, Drained
<1> QED BY <1>1, <1>2, <1>3, <1>4, <1>5, <1>6

(* Going to PLAYING may make one call. *)
LEMMA AfterPausedToPlaying ==
  ASSUME NEW p \in BOOLEAN, BInv(p), Bin(p)!PausedToPlaying PROVE BInv(p)'
<1> USE BinFacts DEF BInv, Bin!TypeOK, Bin!Sessions, Bin!media
<1>0. /\ elem = "PAUSED" /\ elem' = "PLAYING" /\ sh' = [sh EXCEPT !.playing = TRUE]
      /\ UNCHANGED <<sessions, worker, drainer, child, open, pad, passed, posting, heldEos, errored, peer, out, stale, pauses>>
      /\ Bin(p)!CallAsync \/ calls' = calls
  BY DEF Bin!PausedToPlaying
<1>c. calls' \in [Calls -> Bin(p)!Call] /\ \A d \in Calls : Async(d)
  <2>1. CASE calls' = calls BY <2>1 DEF Calls, Async
  <2>2. CASE Bin(p)!CallAsync BY <2>2, AsyncCall DEF Calls
  <2> QED BY <1>0, <2>1, <2>2
<1>s. sh' \in Bin(p)!Shared BY <1>0 DEF Bin!Shared
<1>f. /\ sh'.ok = sh.ok /\ sh'.channel = sh.channel /\ sh'.released = sh.released /\ sh'.cancelled = sh.cancelled
      /\ sh'.readySent = sh.readySent /\ sh'.failed = sh.failed /\ sh'.eos = sh.eos
  BY <1>0 DEF Bin!Shared
<1>1. Bin(p)!TypeOK' BY <1>0, <1>c, <1>s DEF Calls
<1>2. Owned' BY <1>0, <1>c, <1>f DEF Owned, Held, AtWorker, Async
<1>3. Apart' BY <1>0, <1>c, <1>f DEF Owned, Apart, AtWorker, Async
<1>4. Closing' BY <1>0, <1>c, <1>f DEF Closing, Async
<1>5. ReadyHolds(p)' BY <1>0, <1>c, <1>f DEF ReadyHolds, Async
<1>6. Reports(p)' BY <1>0, <1>f DEF Reports, Drained
<1> QED BY <1>1, <1>2, <1>3, <1>4, <1>5, <1>6

(* Steps of a call that change its stage, and its channel. *)
LEMMA CallMoves ==
  ASSUME NEW p \in BOOLEAN, NEW r \in Bin(p)!Call, NEW a
  PROVE  /\ [r EXCEPT !.at = a] = [at |-> a, chan |-> r.chan, of |-> r.of]
         /\ [r EXCEPT !.at = a, !.chan = 0] = [at |-> a, chan |-> 0, of |-> r.of]
         /\ r.chan \in 0..MaxSessions /\ r.of \in 0..MaxSessions + 1
<1> USE DEF Bin!Call, Bin!Sessions
<1>1. [r EXCEPT !.at = a] = [at |-> a, chan |-> r.chan, of |-> r.of] OBVIOUS
<1>2. [r EXCEPT !.at = a, !.chan = 0] = [[r EXCEPT !.at = a] EXCEPT !.chan = 0] OBVIOUS
<1>3. [[at |-> a, chan |-> r.chan, of |-> r.of] EXCEPT !.chan = 0] = [at |-> a, chan |-> 0, of |-> r.of]
  OBVIOUS
<1> QED BY <1>1, <1>2, <1>3

(* An entry nobody uses. *)
LEMMA IdleIs ==
  ASSUME NEW p \in BOOLEAN
  PROVE  Bin(p)!Idle = [at |-> "idle", chan |-> 0, of |-> 0] /\ Bin(p)!Idle \in Bin(p)!Call
  BY BinFacts DEF Bin!Idle, Bin!Call, Bin!Sessions

(* A call of releaseMedia that holds no channel returns. *)
LEMMA CallReturns ==
  ASSUME NEW p \in BOOLEAN, BInv(p), NEW c \in Calls, calls[c].at # "taken", calls' = [calls EXCEPT ![c] = Bin(p)!Idle],
         UNCHANGED <<elem, sessions, sh, worker, drainer, child, open, pad, passed, posting, heldEos, errored, peer, out, stale, pauses>>
  PROVE  BInv(p)'
<1> USE BinFacts DEF BInv, Bin!TypeOK, Bin!Sessions
<1>e. /\ calls' \in [Calls -> Bin(p)!Call] /\ calls'[c] = [at |-> "idle", chan |-> 0, of |-> 0]
      /\ \A d \in Calls : d # c => calls'[d] = calls[d]
  BY IdleIs, OneCall DEF Calls
<1>h. calls[c].chan = 0 BY DEF Owned
<1>1. Bin(p)!TypeOK' BY <1>e DEF Calls
<1>2. Owned' BY <1>e, <1>h DEF Owned, Held, AtWorker
<1>3. Apart' BY <1>e, <1>h DEF Owned, Apart, AtWorker
<1>4. Closing' BY <1>e DEF Closing
<1>5. ReadyHolds(p)' BY <1>e DEF ReadyHolds
<1>6. Reports(p)' BY DEF Reports, Drained
<1> QED BY <1>1, <1>2, <1>3, <1>4, <1>5, <1>6

(* A call returns, or takes the channel out of Shared. *)
LEMMA AfterReleaseTakes ==
  ASSUME NEW p \in BOOLEAN, BInv(p), NEW c \in Calls, Bin(p)!ReleaseTakes(c) PROVE BInv(p)'
<1> USE BinFacts DEF BInv, Bin!TypeOK, Bin!Sessions, Bin!media
<1>0. /\ calls[c].at = "queued"
      /\ UNCHANGED <<elem, sessions, worker, drainer, child, open, pad, passed, posting, heldEos, errored, peer, out, stale, pauses>>
  BY DEF Bin!ReleaseTakes
<1>a. CASE Bin(p)!Refused
  <2>1. calls' = [calls EXCEPT ![c] = Bin(p)!Idle] /\ sh' = sh BY <1>a DEF Bin!ReleaseTakes
  <2> QED BY <1>0, <2>1, CallReturns
<1>b. CASE ~Bin(p)!Refused
  <2>r. [at |-> "taken", chan |-> sh.channel, of |-> Bin(p)!Current] \in Bin(p)!Call
    BY DEF Bin!Call, Bin!Shared, Bin!Current
  <2>c. /\ calls' \in [Calls -> Bin(p)!Call]
        /\ calls'[c] = [at |-> "taken", chan |-> sh.channel, of |-> Bin(p)!Current]
        /\ \A d \in Calls : d # c => calls'[d] = calls[d]
    <3>1. calls' = [calls EXCEPT ![c] = [at |-> "taken", chan |-> sh.channel, of |-> Bin(p)!Current]]
      BY <1>b DEF Bin!ReleaseTakes
    <3> QED BY <2>r, <3>1, OneCall DEF Calls
  <2>d. sh' = [sh EXCEPT !.channel = 0] BY <1>b DEF Bin!ReleaseTakes
  <2>s. sh' \in Bin(p)!Shared
    <3>1. sh \in Bin(p)!Shared /\ 0 \in 0..MaxSessions OBVIOUS
    <3> HIDE DEF BInv, Bin!TypeOK
    <3> QED BY <2>d, <3>1 DEF Bin!Shared
  <2>f. /\ sh'.ok = sh.ok /\ sh'.channel = 0 /\ sh'.released = sh.released /\ sh'.cancelled = sh.cancelled
        /\ sh'.readySent = sh.readySent /\ sh'.failed = sh.failed /\ sh'.eos = sh.eos
    BY <2>d DEF Bin!Shared
  <2>g. sh.ok /\ ~sh.cancelled BY <1>b DEF Bin!Refused
  <2>h. sh.channel \in 0..MaxSessions /\ calls[c].chan = 0 BY <1>0 DEF Bin!Shared, Owned
  <2>i. sh.channel # 0 => /\ ~AtWorker(sh.channel) /\ child.channel # sh.channel
                          /\ \A d \in Calls : calls[d].chan # sh.channel
    BY <2>h DEF Apart, Owned, AtWorker
  <2>1. Bin(p)!TypeOK' BY <1>0, <2>c, <2>s DEF Calls
  <2>2. Owned' BY <1>0, <2>c, <2>f, <2>h, SMTT(30) DEF Owned, Held, AtWorker
  <2>3. Apart'
    <3>1. \A n : AtWorker(n)' = AtWorker(n) BY <1>0 DEF AtWorker
    <3>2. ASSUME NEW n \in 1..MaxSessions, NEW d \in Calls, calls'[d].chan = n
          PROVE  ~AtWorker(n) /\ child.channel # n
      BY <2>c, <2>i, <3>2 DEF Apart
    <3>3. \A d, f \in Calls : calls'[d].chan # 0 /\ calls'[d].chan = calls'[f].chan => d = f
      BY <2>c, <2>i DEF Apart
    <3> QED BY <1>0, <2>f, <3>1, <3>2, <3>3 DEF Apart
  <2>4. Closing' BY <1>0, <2>c, <2>f, <2>g DEF Closing
  <2>5. ReadyHolds(p)' BY <1>0, <2>c, <2>f, <2>g DEF ReadyHolds
  <2>6. Reports(p)' BY <1>0, <2>f DEF Reports, Drained
  <2> QED BY <2>1, <2>2, <2>3, <2>4, <2>5, <2>6
<1> QED BY <1>a, <1>b

(* The channel goes from the call to the inner video element. *)
LEMMA AfterReleaseAdopts ==
  ASSUME NEW p \in BOOLEAN, BInv(p), NEW c \in Calls, Bin(p)!ReleaseAdopts(c) PROVE BInv(p)'
<1> USE BinFacts DEF BInv, Bin!TypeOK, Bin!Sessions, Bin!media
<1>0. /\ calls[c].at = "taken"
      /\ UNCHANGED <<elem, sessions, sh, worker, drainer, open, pad, passed, posting, heldEos, errored, peer, out, stale, pauses>>
  BY DEF Bin!ReleaseAdopts
<1>c. calls[c].chan \in 0..MaxSessions /\ child.channel \in 0..MaxSessions BY DEF Bin!Call, Calls
<1>k. /\ child' = [started |-> child.started, channel |-> IF "video" \in BinTracks THEN calls[c].chan ELSE child.channel]
      /\ "video" \in BinTracks => child.channel = 0
      /\ "video" \notin BinTracks => calls[c].chan = 0
  <2>1. CASE "video" \in BinTracks BY <2>1 DEF Bin!ReleaseAdopts, Bin!Adoptable
  <2>2. CASE "video" \notin BinTracks
    <3>1. calls[c].chan = 0 BY <1>c, <2>2 DEF Owned, Held
    <3> QED BY <2>2, <3>1 DEF Bin!ReleaseAdopts
  <2> QED BY <2>1, <2>2
<1>h. calls[c].chan # 0 => /\ ~AtWorker(calls[c].chan) /\ sh.channel # calls[c].chan
                           /\ child.channel # calls[c].chan /\ calls[c].chan \in open
                           /\ \A d \in Calls : d # c => calls[d].chan # calls[c].chan
  BY <1>c DEF Apart, Owned, Held
<1>q. calls[c] \in Bin(p)!Call BY DEF Calls
<1>r. [calls[c] EXCEPT !.at = "adopted", !.chan = 0] = [at |-> "adopted", chan |-> 0, of |-> calls[c].of]
  BY <1>q, CallMoves
<1>d. [at |-> "adopted", chan |-> 0, of |-> calls[c].of] \in Bin(p)!Call BY <1>q DEF Bin!Call
<1>e. /\ calls' \in [Calls -> Bin(p)!Call] /\ calls'[c] = [at |-> "adopted", chan |-> 0, of |-> calls[c].of]
      /\ \A d \in Calls : d # c => calls'[d] = calls[d]
  BY <1>r, <1>d, OneCall DEF Bin!ReleaseAdopts, Calls
<1>1. Bin(p)!TypeOK' BY <1>0, <1>c, <1>k, <1>e DEF Calls
<1>2. Owned'
  <2>1. ASSUME NEW n \in 1..MaxSessions PROVE Held(n)' <=> Held(n)
    <3>1. AtWorker(n)' = AtWorker(n) BY <1>0 DEF AtWorker
    <3>2. CASE n = calls[c].chan BY <1>k, <3>2 DEF Held
    <3>3. CASE n # calls[c].chan
      <4>1. child'.channel = n <=> child.channel = n BY <1>k, <3>3
      <4>2. \A d \in Calls : calls'[d].chan = n <=> calls[d].chan = n BY <1>e, <3>3
      <4> QED BY <1>0, <3>1, <4>1, <4>2 DEF Held
    <3> QED BY <3>2, <3>3
  <2>2. \A d \in Calls : calls'[d].at # "taken" => calls'[d].chan = 0 BY <1>e DEF Owned
  <2> QED BY <1>0, <2>1, <2>2 DEF Owned
<1>3. Apart'
  <2>1. child'.channel = IF "video" \in BinTracks THEN calls[c].chan ELSE child.channel BY <1>k
  <2>2. \A n : AtWorker(n)' = AtWorker(n) BY <1>0 DEF AtWorker
  <2>3. ASSUME NEW n \in 1..MaxSessions, child'.channel = n PROVE ~AtWorker(n) /\ sh.channel # n
    BY <1>h, <2>1, <2>3 DEF Apart
  <2>4. ASSUME NEW n \in 1..MaxSessions, NEW d \in Calls, calls'[d].chan = n
        PROVE  d # c /\ calls[d].chan = n /\ ~AtWorker(n) /\ sh.channel # n /\ child'.channel # n
    <3>1. d # c /\ calls[d].chan = n BY <1>e, <2>4
    <3> QED BY <1>h, <2>1, <3>1 DEF Apart
  <2>5. \A d, f \in Calls : calls'[d].chan # 0 /\ calls'[d].chan = calls'[f].chan => d = f
    BY <1>e DEF Apart
  <2> QED BY <1>0, <2>2, <2>3, <2>4, <2>5 DEF Apart
<1>4. Closing' BY <1>0, <1>e DEF Closing
<1>5. ReadyHolds(p)' BY <1>0, <1>e, <1>k DEF ReadyHolds
<1>6. Reports(p)' BY <1>0, <1>k DEF Reports, Drained
<1> QED BY <1>1, <1>2, <1>3, <1>4, <1>5, <1>6

(* A refused channel is closed by the call that holds it. *)
LEMMA AfterReleaseRejected ==
  ASSUME NEW p \in BOOLEAN, BInv(p), NEW c \in Calls, Bin(p)!ReleaseRejected(c) PROVE BInv(p)'
<1> USE BinFacts DEF BInv, Bin!TypeOK, Bin!Sessions, Bin!media
<1>0. /\ calls[c].at = "taken" /\ open' = open \ {calls[c].chan}
      /\ UNCHANGED <<elem, sessions, sh, worker, drainer, child, pad, passed, posting, heldEos, errored, peer, out, stale, pauses>>
  BY DEF Bin!ReleaseRejected
<1>q. calls[c] \in Bin(p)!Call BY DEF Calls
<1>r. [calls[c] EXCEPT !.at = "failing", !.chan = 0] = [at |-> "failing", chan |-> 0, of |-> calls[c].of]
  BY <1>q, CallMoves
<1>d. [at |-> "failing", chan |-> 0, of |-> calls[c].of] \in Bin(p)!Call /\ calls[c].chan \in 0..MaxSessions
  BY <1>q DEF Bin!Call
<1>e. /\ calls' \in [Calls -> Bin(p)!Call] /\ calls'[c] = [at |-> "failing", chan |-> 0, of |-> calls[c].of]
      /\ \A d \in Calls : d # c => calls'[d] = calls[d]
  BY <1>r, <1>d, OneCall DEF Bin!ReleaseRejected, Calls
<1>h. calls[c].chan # 0 => /\ ~AtWorker(calls[c].chan) /\ sh.channel # calls[c].chan
                           /\ child.channel # calls[c].chan /\ calls[c].chan \in open
                           /\ \A d \in Calls : d # c => calls[d].chan # calls[c].chan
  BY <1>d DEF Apart, Owned, Held
<1>1. Bin(p)!TypeOK' BY <1>0, <1>e DEF Calls
<1>2. Owned'
  <2>1. ASSUME NEW n \in 1..MaxSessions PROVE Held(n)' <=> Held(n) /\ n # calls[c].chan
    <3>1. AtWorker(n)' = AtWorker(n) BY <1>0 DEF AtWorker
    <3>2. \A d \in Calls : calls'[d].chan = n <=> calls[d].chan = n /\ n # calls[c].chan BY <1>e, <1>h
    <3>3. n = calls[c].chan => ~AtWorker(n) /\ sh.channel # n /\ child.channel # n BY <1>h
    <3> QED BY <1>0, <3>1, <3>2, <3>3 DEF Held
  <2>2. \A d \in Calls : calls'[d].at # "taken" => calls'[d].chan = 0 BY <1>e DEF Owned
  <2> QED BY <1>0, <2>1, <2>2 DEF Owned
<1>3. Apart' BY <1>0, <1>d, <1>e DEF Owned, Apart, AtWorker
<1>4. Closing' BY <1>0, <1>e DEF Closing
<1>5. ReadyHolds(p)' BY <1>0, <1>e DEF ReadyHolds
<1>6. Reports(p)' BY <1>0 DEF Reports, Drained
<1> QED BY <1>1, <1>2, <1>3, <1>4, <1>5, <1>6

(* A call is "started" only when every inner element runs. *)
LEMMA AfterReleaseStarts ==
  ASSUME NEW p \in BOOLEAN, BInv(p), NEW c \in Calls, NEW S \in SUBSET BinTracks, Bin(p)!ReleaseStarts(c, S)
  PROVE  BInv(p)'
<1> USE BinFacts DEF BInv, Bin!TypeOK, Bin!Sessions, Bin!media
<1> DEFINE at == IF S = BinTracks THEN "started" ELSE "failing"
<1>0. /\ calls[c].at = "adopted" /\ child' = [started |-> child.started \cup S, channel |-> child.channel]
      /\ UNCHANGED <<elem, sessions, sh, worker, drainer, open, pad, passed, posting, heldEos, errored, peer, out, stale, pauses>>
  BY DEF Bin!ReleaseStarts
<1>r. /\ [calls[c] EXCEPT !.at = at] = [at |-> at, chan |-> calls[c].chan, of |-> calls[c].of]
      /\ [at |-> at, chan |-> calls[c].chan, of |-> calls[c].of] \in Bin(p)!Call
  BY CallMoves DEF Bin!Call, Calls
<1>e. /\ calls' \in [Calls -> Bin(p)!Call] /\ calls'[c] = [at |-> at, chan |-> calls[c].chan, of |-> calls[c].of]
      /\ \A d \in Calls : d # c => calls'[d] = calls[d]
  BY <1>r, OneCall DEF Bin!ReleaseStarts, Calls
<1>1. Bin(p)!TypeOK' BY <1>0, <1>e DEF Calls
<1>2. Owned' BY <1>0, <1>e DEF Owned, Held, AtWorker
<1>3. Apart' BY <1>0, <1>e DEF Owned, Apart, AtWorker
<1>4. Closing' BY <1>0, <1>e DEF Closing
<1>5. ReadyHolds(p)' BY <1>0, <1>e DEF ReadyHolds
<1>6. Reports(p)' BY <1>0 DEF Reports, Drained
<1> QED BY <1>1, <1>2, <1>3, <1>4, <1>5, <1>6

(* The media is released by a call that started every inner element. *)
LEMMA AfterReleaseDone ==
  ASSUME NEW p \in BOOLEAN, BInv(p), NEW c \in Calls, Bin(p)!ReleaseDone(c) PROVE BInv(p)'
<1> USE BinFacts DEF BInv, Bin!TypeOK, Bin!Sessions, Bin!media
<1>0. /\ calls[c].at = "started" /\ (sh' = [sh EXCEPT !.released = TRUE] \/ sh' = sh)
      /\ UNCHANGED <<elem, sessions, worker, drainer, child, open, pad, passed, posting, heldEos, errored, peer, out, stale, pauses>>
  BY DEF Bin!ReleaseDone
<1>e. /\ calls' \in [Calls -> Bin(p)!Call] /\ calls'[c] = [at |-> "idle", chan |-> 0, of |-> 0]
      /\ \A d \in Calls : d # c => calls'[d] = calls[d]
  BY IdleIs, OneCall DEF Bin!ReleaseDone, Calls
<1>f. /\ sh' \in Bin(p)!Shared /\ (sh.released => sh'.released)
      /\ sh'.ok = sh.ok /\ sh'.channel = sh.channel /\ sh'.cancelled = sh.cancelled
      /\ sh'.readySent = sh.readySent /\ sh'.failed = sh.failed /\ sh'.eos = sh.eos
  <2>1. CASE sh' = [sh EXCEPT !.released = TRUE] BY <2>1 DEF Bin!Shared
  <2>2. CASE sh' = sh BY <2>2
  <2> QED BY <1>0, <2>1, <2>2
<1>h. calls[c].chan = 0 BY <1>0 DEF Owned
<1>1. Bin(p)!TypeOK' BY <1>0, <1>e, <1>f DEF Calls
<1>2. Owned' BY <1>0, <1>e, <1>f, <1>h DEF Owned, Held, AtWorker
<1>3. Apart' BY <1>0, <1>e, <1>f DEF Owned, Apart, AtWorker
<1>4. Closing' BY <1>0, <1>e, <1>f DEF Closing
<1>5. ReadyHolds(p)' BY <1>0, <1>e, <1>f DEF ReadyHolds
<1>6. Reports(p)' BY <1>0, <1>f DEF Reports, Drained
<1> QED BY <1>1, <1>2, <1>3, <1>4, <1>5, <1>6

(* A failing call withdraws the setup or stops the session. *)
LEMMA AfterReleaseFails ==
  ASSUME NEW p \in BOOLEAN, BInv(p), NEW c \in Calls, Bin(p)!ReleaseFails(c) PROVE BInv(p)'
<1> USE BinFacts DEF BInv, Bin!TypeOK, Bin!Sessions, Bin!media
<1>0. /\ calls[c].at = "failing"
      /\ UNCHANGED <<elem, sessions, worker, drainer, child, open, pad, passed, posting, heldEos, errored, peer, out, stale, pauses>>
  BY DEF Bin!ReleaseFails
<1>e. /\ calls' \in [Calls -> Bin(p)!Call] /\ calls'[c] = [at |-> "idle", chan |-> 0, of |-> 0]
      /\ \A d \in Calls : d # c => calls'[d] = calls[d]
  BY IdleIs, OneCall DEF Bin!ReleaseFails, Calls
<1>d. sh' = [sh EXCEPT !.ok = FALSE] \/ sh' = [sh EXCEPT !.cancelled = TRUE] \/ sh' = sh
  BY DEF Bin!ReleaseFails, Bin!StopSession
<1>f. /\ sh' \in Bin(p)!Shared
      /\ sh'.ok => sh.ok
      /\ sh.cancelled => sh'.cancelled
      /\ sh'.channel = sh.channel /\ sh'.released = sh.released
      /\ sh'.readySent = sh.readySent /\ sh'.failed = sh.failed /\ sh'.eos = sh.eos
  <2>1. CASE sh' = [sh EXCEPT !.ok = FALSE] BY <2>1 DEF Bin!Shared
  <2>2. CASE sh' = [sh EXCEPT !.cancelled = TRUE] BY <2>2 DEF Bin!Shared
  <2>3. CASE sh' = sh BY <2>3
  <2> QED BY <1>d, <2>1, <2>2, <2>3
<1>h. calls[c].chan = 0 BY <1>0 DEF Owned
<1>1. Bin(p)!TypeOK' BY <1>0, <1>e, <1>f DEF Calls
<1>2. Owned' BY <1>0, <1>e, <1>f, <1>h DEF Owned, Held, AtWorker
<1>3. Apart' BY <1>0, <1>e, <1>f, <1>h DEF Owned, Apart, AtWorker
<1>4. Closing' BY <1>0, <1>e, <1>f DEF Closing
<1>5. ReadyHolds(p)' BY <1>0, <1>e, <1>f DEF ReadyHolds
<1>6. Reports(p)' BY <1>0, <1>f DEF Reports, Drained
<1> QED BY <1>1, <1>2, <1>3, <1>4, <1>5, <1>6

(* A session starts with an empty Shared and no call past its first step. *)
LEMMA AfterNullToReady ==
  ASSUME NEW p \in BOOLEAN, BInv(p), NEW ok \in BOOLEAN, Bin(p)!NullToReady(ok) PROVE BInv(p)'
<1> USE BinFacts DEF BInv, Bin!TypeOK, Bin!Sessions, Bin!media
<1>0. /\ elem = "NULL" /\ sessions' = sessions + 1 /\ sessions' \in 1..MaxSessions /\ worker' = "open"
      /\ UNCHANGED <<drainer, calls, child, open, pad, passed, posting, heldEos, errored, peer, out, stale, pauses>>
      /\ \/ elem' = "READY" /\ sh' = sh
         \/ elem' = "toNULL" /\ sh' = [sh EXCEPT !.cancelled = TRUE]
  BY DEF Bin!NullToReady, Bin!StopSession
<1>w. worker = "idle" /\ ~sh.ok /\ sh.channel = 0
  BY <1>0 DEF Closing
<1>f. /\ sh' \in Bin(p)!Shared /\ (elem' = "toNULL" => sh'.cancelled)
      /\ sh'.ok = sh.ok /\ sh'.channel = sh.channel /\ sh'.released = sh.released
      /\ sh'.readySent = sh.readySent /\ sh'.failed = sh.failed /\ sh'.eos = sh.eos
  <2>1. CASE elem' = "READY" /\ sh' = sh BY <2>1
  <2>2. CASE elem' = "toNULL" /\ sh' = [sh EXCEPT !.cancelled = TRUE] BY <2>2 DEF Bin!Shared
  <2> QED BY <1>0, <2>1, <2>2
<1>1. Bin(p)!TypeOK' BY <1>0, <1>f
<1>2. Owned' BY <1>0, <1>w, <1>f DEF Owned, Held, AtWorker
<1>3. Apart' BY <1>0, <1>w, <1>f DEF Apart, AtWorker
<1>4. Closing' BY <1>0, <1>w, <1>f DEF Closing
<1>5. ReadyHolds(p)' BY <1>0, <1>f DEF ReadyHolds
<1>6. Reports(p)' BY <1>0, <1>f DEF Reports, Drained
<1> QED BY <1>1, <1>2, <1>3, <1>4, <1>5, <1>6

(* Shared and a running inner element give up their channels; what they      *)
(* owned is closed.                                                          *)
LEMMA AfterResetSession ==
  ASSUME NEW p \in BOOLEAN, BInv(p), Bin(p)!ResetSession PROVE BInv(p)'
<1> USE BinFacts DEF BInv, Bin!TypeOK, Bin!Sessions, Bin!media
<1> DEFINE stopped == IF "video" \in child.started THEN child.channel ELSE 0
<1>0. /\ elem = "toNULL" /\ worker \in {"idle", "done"} /\ elem' = "NULL" /\ worker' = "idle" /\ drainer' = "idle"
      /\ sh' = Bin(p)!Fresh /\ open' = open \ {sh.channel, stopped}
      /\ child' = [started |-> {}, channel |-> IF stopped # 0 THEN 0 ELSE child.channel]
      /\ pad' = {} /\ passed' = {} /\ posting' = [t \in {} |-> {}] /\ heldEos' = {} /\ errored' = {}
      /\ peer' = {} /\ out' = {} /\ UNCHANGED <<sessions, calls, pauses>>
      /\ stale' \in BOOLEAN /\ (~stale' => \A c \in Calls : calls[c].at \in {"idle", "queued"})
  BY DEF Bin!ResetSession, Bin!InFlight, Calls
<1>f. /\ sh' \in Bin(p)!Shared /\ ~sh'.ok /\ sh'.channel = 0 /\ ~sh'.released /\ ~sh'.readySent
      /\ sh.channel \in 0..MaxSessions
  BY <1>0 DEF Bin!Fresh, Bin!Shared
<1>c. \A c \in Calls : calls[c].chan # 0 => calls[c].chan # sh.channel /\ calls[c].chan # child.channel
  BY DEF Apart, Bin!Call, Calls
<1>k. /\ child.channel \in 0..MaxSessions /\ stopped \in {0, child.channel}
      /\ child'.started = {} /\ child'.channel = IF stopped # 0 THEN 0 ELSE child.channel
  BY <1>0
<1>e. sh.channel # 0 => child.channel # sh.channel BY <1>f, <1>k DEF Apart
<1> HIDE DEF stopped
<1>1. Bin(p)!TypeOK'
  <2>1. child' \in [started : SUBSET BinTracks, channel : 0..MaxSessions] BY <1>0, <1>k
  <2>2. DOMAIN posting' = {} BY <1>0
  <2> QED BY <1>0, <1>f, <2>1, <2>2
<1>2. Owned'
  <2>1. ASSUME NEW n \in 1..MaxSessions PROVE Held(n)' <=> Held(n) /\ n \notin {sh.channel, stopped}
    <3>1. ~AtWorker(n)' /\ ~AtWorker(n) BY <1>0 DEF AtWorker
    <3>2. ASSUME NEW c \in Calls, calls[c].chan = n PROVE sh.channel # n /\ child.channel # n BY <1>c, <3>2
    <3>3. Held(n)' <=> child'.channel = n \/ \E c \in Calls : calls[c].chan = n BY <1>0, <1>f, <3>1 DEF Held
    <3>4. Held(n) <=> sh.channel = n \/ child.channel = n \/ \E c \in Calls : calls[c].chan = n BY <3>1 DEF Held
    <3> QED BY <1>e, <1>k, <3>2, <3>3, <3>4
  <2> QED BY <1>0, <1>c, <1>f, <2>1 DEF Owned
<1>3. Apart' BY <1>0, <1>c, <1>f DEF Apart, AtWorker
<1>4. Closing' BY <1>0, <1>c, <1>f DEF Closing
<1>5. ReadyHolds(p)' BY <1>0, <1>c, <1>f DEF ReadyHolds
<1>6. Reports(p)' BY <1>0 DEF Reports, Drained
<1> QED BY <1>1, <1>2, <1>3, <1>4, <1>5, <1>6

(* The worker reports only once the media was released. *)
LEMMA AfterWorkerHolds == ASSUME NEW p \in BOOLEAN, BInv(p), Bin(p)!WorkerHolds PROVE BInv(p)'
<1> USE BinFacts DEF BInv, Bin!TypeOK, Bin!Sessions, Bin!Shared, Bin!Call, Bin!media, Calls, Bin!WorkerHolds
<1>1. Bin(p)!TypeOK' BY DEF Reports
<1>2. Owned' BY DEF Owned, Held, AtWorker
<1>3. Apart' BY DEF Apart, AtWorker
<1>4. Closing' BY DEF Closing
<1>5. ReadyHolds(p)' BY DEF Closing, ReadyHolds
<1>6. Reports(p)' BY DEF ReadyHolds, Reports, Drained
<1> QED BY <1>1, <1>2, <1>3, <1>4, <1>5, <1>6

(* Ready is reported of inner sources that run. *)
LEMMA AfterWorkerReports ==
  ASSUME NEW p \in BOOLEAN, BInv(p), NEW ok \in BOOLEAN, Bin(p)!WorkerReports(ok)
  PROVE  BInv(p)'
<1> USE BinFacts DEF BInv, Bin!TypeOK, Bin!Sessions, Bin!Shared, Bin!Call, Bin!media, Calls, Bin!WorkerReports
<1>1. Bin(p)!TypeOK' BY DEF Reports
<1>2. Owned' BY DEF Owned, Held, AtWorker
<1>3. Apart' BY DEF Apart, AtWorker
<1>4. Closing' BY DEF Closing
<1>5. ReadyHolds(p)' BY DEF Closing, ReadyHolds
<1>6. Reports(p)' BY DEF ReadyHolds, Reports, Drained
<1> QED BY <1>1, <1>2, <1>3, <1>4, <1>5, <1>6

(* The changes of state that touch nothing but the element's state. *)
LEMMA AfterReadyToPaused == ASSUME NEW p \in BOOLEAN, BInv(p), Bin(p)!ReadyToPaused PROVE BInv(p)'
<1> USE BinFacts DEF BInv, Bin!TypeOK, Bin!Sessions, Bin!Shared, Bin!Call, Bin!media, Calls, Bin!ReadyToPaused
<1>1. Bin(p)!TypeOK' BY DEF Reports
<1>2. Owned' BY DEF Owned, Held, AtWorker
<1>3. Apart' BY DEF Apart, AtWorker
<1>4. Closing' BY DEF Closing
<1>5. ReadyHolds(p)' BY DEF Closing, ReadyHolds
<1>6. Reports(p)' BY DEF ReadyHolds, Reports, Drained
<1> QED BY <1>1, <1>2, <1>3, <1>4, <1>5, <1>6

(* A refused change stops the session. *)
LEMMA AfterPlayingRefused == ASSUME NEW p \in BOOLEAN, BInv(p), Bin(p)!PlayingRefused PROVE BInv(p)'
<1> USE BinFacts DEF BInv, Bin!TypeOK, Bin!Sessions, Bin!Shared, Bin!Call, Bin!media, Calls, Bin!PlayingRefused, Bin!StopSession
<1>1. Bin(p)!TypeOK' BY DEF Reports
<1>2. Owned' BY DEF Owned, Held, AtWorker
<1>3. Apart' BY DEF Apart, AtWorker
<1>4. Closing' BY DEF Closing
<1>5. ReadyHolds(p)' BY DEF Closing, ReadyHolds
<1>6. Reports(p)' BY DEF ReadyHolds, Reports, Drained
<1> QED BY <1>1, <1>2, <1>3, <1>4, <1>5, <1>6

(* Pausing leaves everything where it is. *)
LEMMA AfterPlayingToPaused == ASSUME NEW p \in BOOLEAN, BInv(p), Bin(p)!PlayingToPaused PROVE BInv(p)'
<1> USE BinFacts DEF BInv, Bin!TypeOK, Bin!Sessions, Bin!Shared, Bin!Call, Bin!media, Calls, Bin!PlayingToPaused
<1>0. sh' \in Bin(p)!Shared OBVIOUS
<1>t. pauses' \in 0..MaxSessions OBVIOUS
<1>1. Bin(p)!TypeOK'
  <2> HIDE DEF Bin!Shared, Bin!Call
  <2> QED BY <1>0, <1>t
<1>2. Owned' BY DEF Owned, Held, AtWorker
<1>3. Apart' BY DEF Apart, AtWorker
<1>4. Closing' BY DEF Closing
<1>5. ReadyHolds(p)' BY DEF Closing, ReadyHolds
<1>6. Reports(p)' BY DEF ReadyHolds, Reports, Drained
<1> QED BY <1>1, <1>2, <1>3, <1>4, <1>5, <1>6

(* Leaving PAUSED stops the session. *)
LEMMA AfterPausedToReady == ASSUME NEW p \in BOOLEAN, BInv(p), Bin(p)!PausedToReady PROVE BInv(p)'
<1> USE BinFacts DEF BInv, Bin!TypeOK, Bin!Sessions, Bin!Shared, Bin!Call, Bin!media, Calls, Bin!PausedToReady
<1>1. Bin(p)!TypeOK' BY DEF Reports
<1>2. Owned' BY DEF Owned, Held, AtWorker
<1>3. Apart' BY DEF Apart, AtWorker
<1>4. Closing' BY DEF Closing
<1>5. ReadyHolds(p)' BY DEF Closing, ReadyHolds
<1>6. Reports(p)' BY DEF ReadyHolds, Reports, Drained
<1> QED BY <1>1, <1>2, <1>3, <1>4, <1>5, <1>6

(* The pads are inactive. *)
LEMMA AfterPadsDeactivated == ASSUME NEW p \in BOOLEAN, BInv(p), Bin(p)!PadsDeactivated PROVE BInv(p)'
<1> USE BinFacts DEF BInv, Bin!TypeOK, Bin!Sessions, Bin!Shared, Bin!Call, Bin!media, Calls, Bin!PadsDeactivated
<1>1. Bin(p)!TypeOK' BY DEF Reports
<1>2. Owned' BY DEF Owned, Held, AtWorker
<1>3. Apart' BY DEF Apart, AtWorker
<1>4. Closing' BY DEF Closing
<1>5. ReadyHolds(p)' BY DEF Closing, ReadyHolds
<1>6. Reports(p)' BY DEF ReadyHolds, Reports, Drained
<1> QED BY <1>1, <1>2, <1>3, <1>4, <1>5, <1>6

(* The bin goes to NULL, whatever calls are in flight. *)
LEMMA AfterReadyToNull == ASSUME NEW p \in BOOLEAN, BInv(p), Bin(p)!ReadyToNull PROVE BInv(p)'
<1> USE BinFacts DEF BInv, Bin!TypeOK, Bin!Sessions, Bin!Shared, Bin!Call, Bin!media, Calls, Bin!ReadyToNull, Bin!StopSession
<1>1. Bin(p)!TypeOK' BY DEF Reports
<1>2. Owned' BY DEF Owned, Held, AtWorker
<1>3. Apart' BY DEF Apart, AtWorker
<1>4. Closing' BY DEF Closing
<1>5. ReadyHolds(p)' BY DEF Closing, ReadyHolds
<1>6. Reports(p)' BY DEF ReadyHolds, Reports, Drained
<1> QED BY <1>1, <1>2, <1>3, <1>4, <1>5, <1>6

(* Media arrives at a pad. *)
LEMMA AfterArrives == ASSUME NEW p \in BOOLEAN, BInv(p), NEW t \in BinTracks, Bin(p)!Arrives(t) PROVE BInv(p)'
<1> USE BinFacts DEF BInv, Bin!TypeOK, Bin!Sessions, Bin!Shared, Bin!Call, Bin!media, Calls, Bin!Arrives
<1>1. Bin(p)!TypeOK' BY DEF Reports
<1>2. Owned' BY DEF Owned, Held, AtWorker
<1>3. Apart' BY DEF Apart, AtWorker
<1>4. Closing' BY DEF Closing
<1>5. ReadyHolds(p)' BY DEF Closing, ReadyHolds
<1>6. Reports(p)' BY DEF ReadyHolds, Reports, Drained
<1> QED BY <1>1, <1>2, <1>3, <1>4, <1>5, <1>6

(* Media passes the probe after its release. *)
LEMMA AfterHoldPasses ==
  ASSUME NEW p \in BOOLEAN, BInv(p), NEW t \in BinTracks, Bin(p)!HoldPasses(t)
  PROVE  BInv(p)'
<1> USE BinFacts DEF BInv, Bin!TypeOK, Bin!Sessions, Bin!Shared, Bin!Call, Bin!media, Calls, Bin!HoldPasses, Bin!MayPass
<1>1. Bin(p)!TypeOK' BY DEF Reports
<1>2. Owned' BY DEF Owned, Held, AtWorker
<1>3. Apart' BY DEF Apart, AtWorker
<1>4. Closing' BY DEF Closing
<1>5. ReadyHolds(p)' BY DEF Closing, ReadyHolds
<1>6. Reports(p)' BY DEF ReadyHolds, Reports, Drained
<1> QED BY <1>1, <1>2, <1>3, <1>4, <1>5, <1>6

(* The probe turns media away. *)
LEMMA AfterHoldRefuses ==
  ASSUME NEW p \in BOOLEAN, BInv(p), NEW t \in BinTracks, Bin(p)!HoldRefuses(t)
  PROVE  BInv(p)'
<1> USE BinFacts DEF BInv, Bin!TypeOK, Bin!Sessions, Bin!Shared, Bin!Call, Bin!media, Calls, Bin!HoldRefuses
<1>1. Bin(p)!TypeOK' BY DEF Reports
<1>2. Owned' BY DEF Owned, Held, AtWorker
<1>3. Apart' BY DEF Apart, AtWorker
<1>4. Closing' BY DEF Closing
<1>5. ReadyHolds(p)' BY DEF Closing, ReadyHolds
<1>6. Reports(p)' BY DEF ReadyHolds, Reports, Drained
<1> QED BY <1>1, <1>2, <1>3, <1>4, <1>5, <1>6

(* A flush begins or ends. *)
LEMMA AfterFlush ==
  ASSUME NEW p \in BOOLEAN, BInv(p), NEW t \in BinTracks, NEW on \in BOOLEAN, Bin(p)!Flush(t, on)
  PROVE  BInv(p)'
<1> USE BinFacts DEF BInv, Bin!TypeOK, Bin!Sessions, Bin!Shared, Bin!Call, Bin!media, Calls, Bin!Flush
<1>0. sh' \in Bin(p)!Shared OBVIOUS
<1>1. Bin(p)!TypeOK' BY <1>0 DEF Reports
<1>2. Owned' BY DEF Owned, Held, AtWorker
<1>3. Apart' BY DEF Apart, AtWorker
<1>4. Closing' BY DEF Closing
<1>5. ReadyHolds(p)' BY DEF Closing, ReadyHolds
<1>6. Reports(p)' BY DEF ReadyHolds, Reports, Drained
<1> QED BY <1>1, <1>2, <1>3, <1>4, <1>5, <1>6

(* An inner sink ends after its media passed. *)
LEMMA AfterEosBegins ==
  ASSUME NEW p \in BOOLEAN, BInv(p), NEW t \in BinTracks, Bin(p)!EosBegins(t)
  PROVE  BInv(p)'
<1> USE BinFacts DEF BInv, Bin!TypeOK, Bin!Sessions, Bin!Shared, Bin!Call, Bin!media, Calls, Bin!EosBegins
<1>1. Bin(p)!TypeOK' BY DEF Reports
<1>2. Owned' BY DEF Owned, Held, AtWorker
<1>3. Apart' BY DEF Apart, AtWorker
<1>4. Closing' BY DEF Closing
<1>5. ReadyHolds(p)' BY DEF Closing, ReadyHolds
<1>6. Reports(p)' BY DEF ReadyHolds, Reports, Drained
<1> QED BY <1>1, <1>2, <1>3, <1>4, <1>5, <1>6

(* Its EOS joins the list. *)
LEMMA AfterEosHeld == ASSUME NEW p \in BOOLEAN, BInv(p), NEW t \in BinTracks, Bin(p)!EosHeld(t) PROVE BInv(p)'
<1> USE BinFacts DEF BInv, Bin!TypeOK, Bin!Sessions, Bin!Shared, Bin!Call, Bin!media, Calls, Bin!EosHeld
<1>1. Bin(p)!TypeOK' BY DEF Reports
<1>2. Owned' BY DEF Owned, Held, AtWorker
<1>3. Apart' BY DEF Apart, AtWorker
<1>4. Closing' BY DEF Closing
<1>5. ReadyHolds(p)' BY DEF Closing, ReadyHolds
<1>6. Reports(p)' BY DEF ReadyHolds, Reports, Drained
<1> QED BY <1>1, <1>2, <1>3, <1>4, <1>5, <1>6

(* No inner source fails after every track has ended. *)
LEMMA AfterChildError ==
  ASSUME NEW p \in BOOLEAN, BInv(p), NEW t \in BinTracks, Bin(p)!ChildError(t)
  PROVE  BInv(p)'
<1> USE BinFacts DEF BInv, Bin!TypeOK, Bin!Sessions, Bin!Shared, Bin!Call, Bin!media, Calls, Bin!ChildError
<1>0. sh' \in Bin(p)!Shared OBVIOUS
<1>1. Bin(p)!TypeOK'
  <2> HIDE DEF Bin!Shared, Bin!Call
  <2> QED BY <1>0
<1>2. Owned' BY DEF Owned, Held, AtWorker
<1>3. Apart' BY DEF Apart, AtWorker
<1>4. Closing' BY DEF Closing
<1>5. ReadyHolds(p)' BY DEF Closing, ReadyHolds
<1>6. Reports(p)' BY DEF ReadyHolds, Reports, Drained
<1> QED BY <1>1, <1>2, <1>3, <1>4, <1>5, <1>6

(* A track ends. *)
LEMMA AfterEosProbe ==
  ASSUME NEW p \in BOOLEAN, BInv(p), NEW t \in BinTracks, Bin(p)!EosProbe(t)
  PROVE  BInv(p)'
<1> USE BinFacts DEF BInv, Bin!TypeOK, Bin!Sessions, Bin!Shared, Bin!Call, Bin!media, Calls, Bin!EosProbe
<1>1. Bin(p)!TypeOK' BY DEF Reports
<1>2. Owned' BY DEF Owned, Held, AtWorker
<1>3. Apart' BY DEF Apart, AtWorker
<1>4. Closing' BY DEF Closing
<1>5. ReadyHolds(p)' BY DEF Closing, ReadyHolds
<1>6. Reports(p)' BY DEF ReadyHolds, Reports, Drained
<1> QED BY <1>1, <1>2, <1>3, <1>4, <1>5, <1>6

(* The drainer goes on only if ready was reported and nothing failed. *)
LEMMA AfterDrainerWaits == ASSUME NEW p \in BOOLEAN, BInv(p), Bin(p)!DrainerWaits PROVE BInv(p)'
<1> USE BinFacts DEF BInv, Bin!TypeOK, Bin!Sessions, Bin!Shared, Bin!Call, Bin!media, Calls, Bin!DrainerWaits
<1>1. Bin(p)!TypeOK' BY DEF Reports
<1>2. Owned' BY DEF Owned, Held, AtWorker
<1>3. Apart' BY DEF Apart, AtWorker
<1>4. Closing' BY DEF Closing
<1>5. ReadyHolds(p)' BY DEF Closing, ReadyHolds
<1>6. Reports(p)' BY DEF ReadyHolds, Reports, Drained
<1> QED BY <1>1, <1>2, <1>3, <1>4, <1>5, <1>6

(* The drain was reported, or awaited. *)
LEMMA AfterDrainerFinishes ==
  ASSUME NEW p \in BOOLEAN, BInv(p), NEW ok \in BOOLEAN, Bin(p)!DrainerFinishes(ok)
  PROVE  BInv(p)'
<1> USE BinFacts DEF BInv, Bin!TypeOK, Bin!Sessions, Bin!Shared, Bin!Call, Bin!media, Calls, Bin!DrainerFinishes
<1>1. Bin(p)!TypeOK' BY DEF Reports
<1>2. Owned' BY DEF Owned, Held, AtWorker
<1>3. Apart' BY DEF Apart, AtWorker
<1>4. Closing' BY DEF Closing
<1>5. ReadyHolds(p)' BY DEF Closing, ReadyHolds
<1>6. Reports(p)' BY DEF ReadyHolds, Reports, Drained
<1> QED BY <1>1, <1>2, <1>3, <1>4, <1>5, <1>6

(* What the peer reported stays reported. *)
LEMMA AfterPeerReports ==
  ASSUME NEW p \in BOOLEAN, BInv(p), NEW what \in {"ready", "drained"}, Bin(p)!PeerReports(what)
  PROVE  BInv(p)'
<1> USE BinFacts DEF BInv, Bin!TypeOK, Bin!Sessions, Bin!Shared, Bin!Call, Bin!media, Calls, Bin!PeerReports
<1>1. Bin(p)!TypeOK' BY DEF Reports
<1>2. Owned' BY DEF Owned, Held, AtWorker
<1>3. Apart' BY DEF Apart, AtWorker
<1>4. Closing' BY DEF Closing
<1>5. ReadyHolds(p)' BY DEF Closing, ReadyHolds
<1>6. Reports(p)' BY DEF ReadyHolds, Reports, Drained
<1> QED BY <1>1, <1>2, <1>3, <1>4, <1>5, <1>6

(* Every step of the bin preserves the invariant. *)
LEMMA BinSteps == ASSUME NEW p \in BOOLEAN, BInv(p), [Bin(p)!Next]_bin PROVE BInv(p)'
<1>1. CASE Bin(p)!WorkerStep
  BY <1>1, AfterWorkerOpens, AfterWorkerAwaits, AfterWorkerQueues, AfterWorkerHolds, AfterWorkerReports DEF Bin!WorkerStep
<1>2. CASE Bin(p)!DrainerStep
  BY <1>2, AfterDrainerWaits, AfterDrainerFinishes DEF Bin!DrainerStep
<1>3. CASE Bin(p)!ChangeState
  BY <1>3, AfterNullToReady, AfterReadyToPaused, AfterPausedToPlaying, AfterPlayingRefused, AfterPlayingToPaused, AfterPausedToReady,
     AfterPadsDeactivated, AfterReadyToNull, AfterResetSession DEF Bin!ChangeState
<1>4. ASSUME NEW c \in Calls, Bin(p)!ReleaseStep(c) PROVE BInv(p)'
  BY <1>4, AfterReleaseTakes, AfterReleaseAdopts, AfterReleaseRejected, AfterReleaseStarts, AfterReleaseDone, AfterReleaseFails
     DEF Bin!ReleaseStep
<1>5. ASSUME NEW t \in BinTracks,
             \/ Bin(p)!Arrives(t) \/ Bin(p)!HoldStep(t) \/ Bin(p)!EosBegins(t) \/ Bin(p)!EosHeld(t)
             \/ Bin(p)!ChildError(t) \/ Bin(p)!EosProbe(t)
             \/ \E on \in BOOLEAN : Bin(p)!Flush(t, on)
      PROVE  BInv(p)'
  BY <1>5, AfterArrives, AfterHoldPasses, AfterHoldRefuses, AfterEosBegins, AfterEosHeld, AfterChildError, AfterEosProbe, AfterFlush
     DEF Bin!HoldStep
<1>6. ASSUME NEW what \in {"ready", "drained"}, Bin(p)!PeerReports(what) PROVE BInv(p)'
  BY <1>6, AfterPeerReports
<1>7. CASE UNCHANGED bin
  BY <1>7 DEF bin, BInv, Bin!TypeOK, Owned, Apart, Held, AtWorker, Closing, ReadyHolds, Reports, Drained
<1> QED BY <1>1, <1>2, <1>3, <1>4, <1>5, <1>6, <1>7 DEF Bin!Next, Calls

(* The invariant holds before the first session. *)
LEMMA BinBegins == ASSUME NEW p \in BOOLEAN, Bin(p)!Init PROVE BInv(p)
<1> USE BinFacts DEF Bin!Init, Bin!Sessions
<1>0. sh = Bin(p)!Fresh /\ sh \in Bin(p)!Shared BY DEF Bin!Fresh, Bin!Shared
<1>f. sh.channel = 0 /\ ~sh.ok /\ ~sh.released /\ ~sh.readySent BY <1>0 DEF Bin!Fresh
<1>c. /\ calls \in [Calls -> Bin(p)!Call]
      /\ \A c \in Calls : calls[c] = [at |-> "idle", chan |-> 0, of |-> 0]
  BY IdleIs DEF Calls
<1>1. Bin(p)!TypeOK
  <2>1. DOMAIN posting = {} OBVIOUS
  <2>2. child \in [started : SUBSET BinTracks, channel : 0..MaxSessions] OBVIOUS
  <2> QED BY <1>0, <1>c, <2>1, <2>2 DEF Bin!TypeOK, Calls
<1>2. Owned BY <1>c, <1>f DEF Owned, Held, AtWorker
<1>3. Apart BY <1>c, <1>f DEF Apart, AtWorker
<1>4. Closing BY <1>c, <1>f DEF Closing
<1>5. ReadyHolds(p) BY <1>c, <1>f DEF ReadyHolds
<1>6. Reports(p) BY DEF Reports
<1> QED BY <1>1, <1>2, <1>3, <1>4, <1>5, <1>6 DEF BInv

(* Owners that exclude one another are one owner. *)
LEMMA OneOfThem == ASSUME NEW p \in BOOLEAN, BInv(p) PROVE Bin(p)!OneOwner
<1> USE BinFacts DEF BInv
<1> SUFFICES ASSUME NEW n \in 1..MaxSessions
             PROVE  IF n \in open THEN \E o \in Bin(p)!Owners(n) : Bin(p)!Owners(n) = {o}
                    ELSE Bin(p)!Owners(n) = {}
  BY DEF Bin!OneOwner
<1> DEFINE Owner(o) == \/ o = <<"worker", 0>> /\ AtWorker(n)
                       \/ o = <<"shared", 0>> /\ sh.channel = n
                       \/ o = <<"child", 0>> /\ child.channel = n
                       \/ \E c \in Calls : o = <<"call", c>> /\ calls[c].chan = n
<1>h. \A o : o \in Bin(p)!Owners(n) <=> Owner(o)
  BY DEF Bin!Owners, AtWorker, Calls
<1>o. n \in open <=> Held(n) BY DEF Owned
<1>n. n # 0 OBVIOUS
<1>1. CASE AtWorker(n)
  <2>1. sh.channel # n /\ child.channel # n /\ \A c \in Calls : calls[c].chan # n
    BY <1>1, <1>n DEF Apart, Owned, AtWorker
  <2>2. Bin(p)!Owners(n) = {<<"worker", 0>>} BY <1>1, <1>h, <2>1
  <2> QED BY <1>1, <1>o, <2>2 DEF Held
<1>2. CASE sh.channel = n
  <2>1. ~AtWorker(n) /\ child.channel # n /\ \A c \in Calls : calls[c].chan # n
    BY <1>2, <1>n DEF Apart, Owned, AtWorker
  <2>2. Bin(p)!Owners(n) = {<<"shared", 0>>} BY <1>2, <1>h, <2>1
  <2> QED BY <1>2, <1>o, <2>2 DEF Held
<1>3. CASE child.channel = n
  <2>1. ~AtWorker(n) /\ sh.channel # n /\ \A c \in Calls : calls[c].chan # n BY <1>3 DEF Apart
  <2>2. Bin(p)!Owners(n) = {<<"child", 0>>} BY <1>3, <1>h, <2>1
  <2> QED BY <1>3, <1>o, <2>2 DEF Held
<1>4. ASSUME NEW c \in Calls, calls[c].chan = n
      PROVE  IF n \in open THEN \E o \in Bin(p)!Owners(n) : Bin(p)!Owners(n) = {o}
             ELSE Bin(p)!Owners(n) = {}
  <2>1. ~AtWorker(n) /\ sh.channel # n /\ child.channel # n BY <1>4 DEF Apart
  <2>2. \A d \in Calls : calls[d].chan = n => d = c BY <1>n, <1>4 DEF Apart
  <2>3. Bin(p)!Owners(n) = {<<"call", c>>} BY <1>h, <1>4, <2>1, <2>2
  <2> QED BY <1>4, <1>o, <2>3 DEF Held
<1>5. CASE ~Held(n)
  <2>1. Bin(p)!Owners(n) = {} BY <1>5, <1>h DEF Held
  <2> QED BY <1>5, <1>o, <2>1
<1> QED BY <1>1, <1>2, <1>3, <1>4, <1>5 DEF Held

(* The A/V bins, with any enabled tracks and through any number of sessions, *)
(* pauses and calls of releaseMedia, in flight at NULL or not: an open       *)
(* channel has exactly one owner; avsink posts no EOS before the consumer    *)
(* drained; avsrc reports a drain only if every track ended without an       *)
(* error.  As long as no call had its Shared deleted under it, avsink lets   *)
(* no media pass before the consumer is ready, and avsrc reports ready once  *)
(* every source runs.                                                        *)
THEOREM BinsSound == BinSpec => []BinSound
<1> DEFINE I == producer \in BOOLEAN /\ \A p \in BOOLEAN : producer = p => BInv(p)
<1>1. BinInit => I
  BY BinBegins DEF BinInit
<1>2. I /\ [BinNext]_binVars => I'
  <2> SUFFICES ASSUME I, [BinNext]_binVars PROVE I' OBVIOUS
  <2>1. producer' = producer BY DEF BinNext, binVars
  <2>2. ASSUME NEW p \in BOOLEAN, producer = p PROVE BInv(p)'
    <3>1. BInv(p) BY <2>2
    <3>2. [Bin(p)!Next]_bin BY <2>2 DEF BinNext, binVars
    <3> QED BY <3>1, <3>2, BinSteps
  <2> QED BY <2>1, <2>2
<1>3. I => BinSound
  <2> SUFFICES ASSUME I, NEW p \in BOOLEAN, producer = p
               PROVE  /\ Bin(p)!TypeOK /\ Bin(p)!OneOwner
                      /\ IF p THEN Bin(p)!NoMediaBeforeReady /\ Bin(p)!EosAfterDrain
                         ELSE Bin(p)!ReadyAfterStart /\ Bin(p)!DrainIsHonest
    BY DEF BinSound
  <2>1. BInv(p) OBVIOUS
  <2>2. Bin(p)!OneOwner BY <2>1, OneOfThem
  <2>3. Bin(p)!TypeOK /\ ReadyHolds(p) /\ Reports(p) BY <2>1 DEF BInv
  <2>4. p => Bin(p)!NoMediaBeforeReady /\ Bin(p)!EosAfterDrain
    BY <2>3 DEF Reports, Bin!NoMediaBeforeReady, Bin!EosAfterDrain
  <2>5. ~p => Bin(p)!ReadyAfterStart /\ Bin(p)!DrainIsHonest
    BY <2>3 DEF Reports, Drained, Bin!ReadyAfterStart, Bin!DrainIsHonest
  <2> QED BY <2>2, <2>3, <2>4, <2>5
<1> QED BY <1>1, <1>2, <1>3, PTL DEF BinSpec

=============================================================================
