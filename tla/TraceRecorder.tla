--------------------------- MODULE TraceRecorder ---------------------------
(***************************************************************************)
(* The flight recorder (src/include/framelink_trace.hpp): every thread     *)
(* appends to a bounded buffer of its own without a lock, and a control    *)
(* thread, or the recorder's destructor, exports what is committed while   *)
(* the writers go on.                                                      *)
(*                                                                         *)
(* Tracing is enabled and built in.  An event is its number among the      *)
(* thread's events; the totals of the last line are kept per thread.  A    *)
(* thread here lives once: an exited thread's buffer is not reused.        *)
(***************************************************************************)
EXTENDS Naturals, FiniteSets

CONSTANTS
  Threads,      \* threads that record
  Capacity,     \* events per buffer: 65536, or <prefix>_EVENTS
  MaxBuffers,   \* 64 buffers per recorder
  Torn,         \* a slot nothing or only part of an event is written to
  MaxEvents     \* bound: events one thread records

ASSUME TraceAssumption ==
  Capacity \in Nat \ {0} /\ MaxBuffers \in Nat /\ MaxEvents \in Nat /\ Torn \notin Nat

VARIABLES
  buffer,      \* buffer[t]: "unknown" before t's first event, then "own" or "none"
  rejected,    \* rejected_ > 0 counts threads: the ones refused a buffer
  events,      \* events[t][i]: what slot i of t's buffer holds
  published,   \* published[t]: committed records
  dropped,     \* dropped[t]: events that found the buffer full
  pc,          \* where t is in record()
  done,        \* calls of record() t has finished
  stage,       \* of flush(): "idle", "rows", "loss", "count"; it holds the mutex unless idle
  left,        \* buffers the export has not visited
  now,         \* the buffer it visits: [t, count], t is one of Threads
  file,        \* rows written: thread, place and event
  lost,        \* lost[t]: what the export read of dropped[t]
  refused,     \* the threads counted as rejected in the file
  complete,    \* does the file end with the totals?
  seen         \* done when the export began

writer   == <<buffer, rejected, events, published, dropped, pc, done>>
exporter == <<stage, left, now, file, lost, refused, complete, seen>>
vars     == <<writer, exporter>>

Slots == 0..(Capacity - 1)

Init ==
  /\ buffer = [t \in Threads |-> "unknown"] /\ rejected = {}
  /\ events = [t \in Threads |-> [i \in Slots |-> Torn]]
  /\ published = [t \in Threads |-> 0] /\ dropped = [t \in Threads |-> 0]
  /\ pc = [t \in Threads |-> "idle"] /\ done = [t \in Threads |-> 0]
  /\ stage = "idle" /\ left = {} /\ now = [t |-> {}, count |-> 0]
  /\ file = {} /\ lost = [t \in Threads |-> 0] /\ refused = {} /\ complete = FALSE
  /\ seen = [t \in Threads |-> 0]

-----------------------------------------------------------------------------
(* record() *)

Owners == {t \in Threads : buffer[t] = "own"}

(* The first event of a thread registers it, under the recorder's mutex. *)
Attach(t) ==
  /\ pc[t] = "idle" /\ buffer[t] = "unknown" /\ stage = "idle" /\ done[t] < MaxEvents
  /\ Cardinality(Owners) < MaxBuffers
  /\ buffer' = [buffer EXCEPT ![t] = "own"]
  /\ UNCHANGED <<rejected, events, published, dropped, pc, done, exporter>>

(* Mutant: a thread without memory is not counted. *)
BugReject(t) ==
  /\ pc[t] = "idle" /\ buffer[t] = "unknown" /\ stage = "idle" /\ done[t] < MaxEvents
  /\ buffer' = [buffer EXCEPT ![t] = "none"]
  /\ rejected' = IF Cardinality(Owners) >= MaxBuffers THEN rejected \union {t} ELSE rejected
  /\ UNCHANGED <<events, published, dropped, pc, done, exporter>>

(* The limit is reached or there is no memory: counted, and never tried again. *)
Reject(t) ==
  /\ pc[t] = "idle" /\ buffer[t] = "unknown" /\ stage = "idle" /\ done[t] < MaxEvents
  /\ buffer' = [buffer EXCEPT ![t] = "none"] /\ rejected' = rejected \union {t}
  /\ UNCHANGED <<events, published, dropped, pc, done, exporter>>

(* A thread without a buffer records nothing. *)
Skip(t) ==
  /\ pc[t] = "idle" /\ buffer[t] = "none" /\ done[t] < MaxEvents
  /\ done' = [done EXCEPT ![t] = @ + 1]
  /\ UNCHANGED <<buffer, rejected, events, published, dropped, pc, exporter>>

Drop(t) ==
  /\ pc[t] = "idle" /\ buffer[t] = "own" /\ done[t] < MaxEvents /\ published[t] = Capacity
  /\ dropped' = [dropped EXCEPT ![t] = @ + 1] /\ done' = [done EXCEPT ![t] = @ + 1]
  /\ UNCHANGED <<buffer, rejected, events, published, pc, exporter>>

(* Mutant: the count is published before the event is whole. *)
BugStore(t) ==
  /\ pc[t] = "idle" /\ buffer[t] = "own" /\ done[t] < MaxEvents /\ published[t] < Capacity
  /\ events' = [events EXCEPT ![t][published[t]] = Torn]
  /\ published' = [published EXCEPT ![t] = @ + 1] /\ done' = [done EXCEPT ![t] = @ + 1]
  /\ UNCHANGED <<buffer, rejected, dropped, pc, exporter>>

(* The event is being copied into its slot. *)
Store(t) ==
  /\ pc[t] = "idle" /\ buffer[t] = "own" /\ done[t] < MaxEvents /\ published[t] < Capacity
  /\ events' = [events EXCEPT ![t][published[t]] = Torn] /\ pc' = [pc EXCEPT ![t] = "storing"]
  /\ UNCHANGED <<buffer, rejected, published, dropped, done, exporter>>

Stored(t) ==
  /\ pc[t] = "storing"
  /\ events' = [events EXCEPT ![t][published[t]] = done[t]] /\ pc' = [pc EXCEPT ![t] = "stored"]
  /\ UNCHANGED <<buffer, rejected, published, dropped, done, exporter>>

(* The release store. *)
Publish(t) ==
  /\ pc[t] = "stored"
  /\ published' = [published EXCEPT ![t] = @ + 1]
  /\ done' = [done EXCEPT ![t] = @ + 1] /\ pc' = [pc EXCEPT ![t] = "idle"]
  /\ UNCHANGED <<buffer, rejected, events, dropped, exporter>>

-----------------------------------------------------------------------------
(* flush() *)

(* The mutex is taken and the file opened for writing, which empties it. *)
Begin ==
  /\ stage = "idle" /\ stage' = "rows" /\ left' = Owners /\ now' = [t |-> {}, count |-> 0]
  /\ file' = {} /\ lost' = [t \in Threads |-> 0] /\ refused' = {} /\ complete' = FALSE
  /\ seen' = done
  /\ UNCHANGED writer

(* The next buffer: its published count is loaded once. *)
Visit(t) ==
  /\ stage = "rows" /\ now.t = {} /\ t \in left
  /\ left' = left \ {t} /\ now' = [t |-> {t}, count |-> published[t]] /\ stage' = "loss"
  /\ UNCHANGED <<writer, file, lost, refused, complete, seen>>

(* The rows are written, then its dropped count is loaded. *)
Rows(t) ==
  /\ stage = "loss" /\ now.t = {t}
  /\ file' = file \union {[thread |-> t, at |-> i, event |-> events[t][i]] : i \in 0..(now.count - 1)}
  /\ stage' = "count"
  /\ UNCHANGED <<writer, left, now, lost, refused, complete, seen>>

Loss(t) ==
  /\ stage = "count" /\ now.t = {t}
  /\ lost' = [lost EXCEPT ![t] = dropped[t]]
  /\ now' = [t |-> {}, count |-> 0] /\ stage' = "rows"
  /\ UNCHANGED <<writer, left, file, refused, complete, seen>>

(* The totals; the mutex is released. *)
End ==
  /\ stage = "rows" /\ now.t = {} /\ left = {}
  /\ refused' = rejected /\ complete' = TRUE /\ stage' = "idle"
  /\ UNCHANGED <<writer, left, now, file, lost, seen>>

(* Opening or writing the file fails: flush() says so, whatever the file holds. *)
Fails ==
  /\ stage # "idle" /\ stage' = "idle" /\ left' = {} /\ now' = [t |-> {}, count |-> 0]
  /\ UNCHANGED <<writer, file, lost, refused, complete, seen>>

-----------------------------------------------------------------------------
Record(t) ==
  Attach(t) \/ Reject(t) \/ Skip(t) \/ Drop(t) \/ Store(t) \/ Stored(t) \/ Publish(t)

Flush == Begin \/ End \/ Fails \/ \E t \in Threads : Visit(t) \/ Rows(t) \/ Loss(t)

Next == Flush \/ \E t \in Threads : Record(t)

Spec == Init /\ [][Next]_vars

-----------------------------------------------------------------------------
(* Properties. *)

Stages == {"idle", "rows", "loss", "count"}

TypeOK ==
  /\ buffer \in [Threads -> {"unknown", "own", "none"}] /\ rejected \subseteq Threads
  /\ events \in [Threads -> [Slots -> Nat \union {Torn}]]
  /\ published \in [Threads -> 0..Capacity] /\ dropped \in [Threads -> Nat]
  /\ pc \in [Threads -> {"idle", "storing", "stored"}] /\ done \in [Threads -> Nat]
  /\ stage \in Stages /\ left \subseteq Threads
  /\ now \in [t : SUBSET Threads, count : 0..Capacity]
  /\ file \subseteq [thread : Threads, at : Slots, event : Nat \union {Torn}]
  /\ lost \in [Threads -> Nat] /\ refused \subseteq Threads /\ complete \in BOOLEAN
  /\ seen \in [Threads -> Nat]

(* What is exported while threads go on recording is never a half-written    *)
(* event, and is a prefix of what each thread recorded: the i-th row of a    *)
(* thread is its i-th event (framelink_trace.hpp:90-91, 138-145).            *)
PrefixOnly == \A r \in file : r.event = r.at

(* A finished export accounts for every event recorded before it began: as a *)
(* row, as dropped, or by a thread counted as rejected; and never for more   *)
(* than have been recorded (framelink_trace.hpp:106-125).                    *)
LossReported ==
  complete /\ stage = "idle" =>
    \A t \in Threads :
      /\ seen[t] > 0 /\ buffer[t] = "none" => t \in refused
      /\ buffer[t] # "none" =>
           \A i \in 0..MaxEvents :
             /\ i + lost[t] < seen[t] => [thread |-> t, at |-> i, event |-> i] \in file
             /\ [thread |-> t, at |-> i, event |-> i] \in file => i + lost[t] < done[t]

=============================================================================
