----------------------------- MODULE Rendezvous -----------------------------
(***************************************************************************)
(* The rendezvous directory of a local session                             *)
(* (src/runtime/av_rendezvous.cpp): a producer publishes its port and      *)
(* token in the file "endpoint", under an OS lock it holds as long as it   *)
(* listens; consumers poll the file.  Producers fail, close and are killed *)
(* at every step; a killed one leaves its files behind, not its lock.      *)
(* A record is identified by the token in it, fresh for every publication. *)
(***************************************************************************)
EXTENDS Naturals

CONSTANTS
  Owners,      \* processes that publish
  Readers,     \* processes that read the record
  MaxTokens    \* bound: publications started in all

Tokens == 1 .. MaxTokens
NoFile == 0
NoLock == "unlocked"

RendezvousAssumption == MaxTokens \in Nat /\ NoLock \notin Owners

VARIABLES
  tokens,    \* tokens drawn so far
  at,        \* where each owner is in publish and close
  token,     \* the endpoint each owner publishes
  lock,      \* holder of .owner.lock
  temps,     \* temporary files, by token
  whole,     \* tokens whose record has been written to the last byte
  endpoint,  \* the record named "endpoint", or NoFile
  reading,   \* the record each reader has open, or NoFile
  checked,   \* has the reader passed check()?
  found      \* tokens readEndpoint has returned

vars == <<tokens, at, token, lock, temps, whole, endpoint, reading, checked, found>>
readerVars == <<reading, checked, found>>

Init ==
  /\ tokens = 0 /\ at = [o \in Owners |-> "idle"] /\ token = [o \in Owners |-> NoFile]
  /\ lock = NoLock /\ temps = {} /\ whole = {} /\ endpoint = NoFile
  /\ reading = [r \in Readers |-> NoFile] /\ checked = [r \in Readers |-> FALSE] /\ found = {}

-----------------------------------------------------------------------------
(* publish. *)

(* LOCK_EX | LOCK_NB: an owner that finds the lock taken gives up. *)
TakeLock(o) ==
  /\ at[o] = "idle" /\ lock = NoLock /\ tokens < MaxTokens
  /\ lock' = o /\ tokens' = tokens + 1
  /\ token' = [token EXCEPT ![o] = tokens + 1]
  /\ at' = [at EXCEPT ![o] = "locked"]
  /\ UNCHANGED <<temps, whole, endpoint, readerVars>>

CreateTemp(o) ==
  /\ at[o] = "locked"
  /\ temps' = temps \union {token[o]} /\ at' = [at EXCEPT ![o] = "created"]
  /\ UNCHANGED <<tokens, token, lock, whole, endpoint, readerVars>>

WriteTemp(o) ==
  /\ at[o] = "created"
  /\ whole' = whole \union {token[o]} /\ at' = [at EXCEPT ![o] = "written"]
  /\ UNCHANGED <<tokens, token, lock, temps, endpoint, readerVars>>

Rename(o) ==
  /\ at[o] = "written"
  /\ endpoint' = token[o] /\ temps' = temps \ {token[o]} /\ at' = [at EXCEPT ![o] = "published"]
  /\ UNCHANGED <<tokens, token, lock, whole, readerVars>>

(* Opening, writing, syncing or renaming fails: the temporary file is        *)
(* removed and the lock released.                                            *)
PublishFails(o) ==
  /\ at[o] \in {"locked", "created", "written"}
  /\ temps' = temps \ {token[o]} /\ lock' = NoLock
  /\ at' = [at EXCEPT ![o] = "idle"]
  /\ UNCHANGED <<tokens, token, whole, endpoint, readerVars>>

-----------------------------------------------------------------------------
(* close: the record is compared, then removed; the lock goes last and its   *)
(* file stays.                                                               *)

(* Mutant: the lock goes before the record. *)
BugCloseCompare(o) ==
  /\ at[o] = "published"
  /\ at' = [at EXCEPT ![o] = IF endpoint = token[o] THEN "unlink" ELSE "idle"]
  /\ lock' = NoLock
  /\ UNCHANGED <<tokens, token, temps, whole, endpoint, readerVars>>

CloseCompare(o) ==
  /\ at[o] = "published"
  /\ IF endpoint = token[o]
       THEN at' = [at EXCEPT ![o] = "unlink"] /\ lock' = lock
       ELSE at' = [at EXCEPT ![o] = "idle"] /\ lock' = NoLock
  /\ UNCHANGED <<tokens, token, temps, whole, endpoint, readerVars>>

CloseUnlink(o) ==
  /\ at[o] = "unlink"
  /\ endpoint' = NoFile /\ at' = [at EXCEPT ![o] = "idle"]
  /\ lock' = IF lock = o THEN NoLock ELSE lock
  /\ UNCHANGED <<tokens, token, temps, whole, readerVars>>

(* The process dies: the kernel drops its lock, the files stay. *)
Crash(o) ==
  /\ at[o] # "idle"
  /\ at' = [at EXCEPT ![o] = "idle"] /\ lock' = IF lock = o THEN NoLock ELSE lock
  /\ UNCHANGED <<tokens, token, temps, whole, endpoint, readerVars>>

-----------------------------------------------------------------------------
(* readEndpoint: the open file outlives a rename over it or its removal, but *)
(* check() wants one link.                                                   *)

OpenRecord(r) ==
  /\ reading[r] = NoFile /\ endpoint # NoFile
  /\ reading' = [reading EXCEPT ![r] = endpoint] /\ checked' = [checked EXCEPT ![r] = FALSE]
  /\ UNCHANGED <<tokens, at, token, lock, temps, whole, endpoint, found>>

CheckRecord(r) ==
  /\ reading[r] # NoFile /\ ~checked[r]
  /\ IF reading[r] = endpoint
       THEN checked' = [checked EXCEPT ![r] = TRUE] /\ UNCHANGED reading
       ELSE reading' = [reading EXCEPT ![r] = NoFile] /\ UNCHANGED checked
  /\ UNCHANGED <<tokens, at, token, lock, temps, whole, endpoint, found>>

ReadRecord(r) ==
  /\ reading[r] # NoFile /\ checked[r]
  /\ found' = found \union {reading[r]}
  /\ reading' = [reading EXCEPT ![r] = NoFile] /\ checked' = [checked EXCEPT ![r] = FALSE]
  /\ UNCHANGED <<tokens, at, token, lock, temps, whole, endpoint>>

Publish(o) == TakeLock(o) \/ CreateTemp(o) \/ WriteTemp(o) \/ Rename(o)
Close(o)   == CloseCompare(o) \/ CloseUnlink(o)
Read(r)    == OpenRecord(r) \/ CheckRecord(r) \/ ReadRecord(r)

Next ==
  \/ \E o \in Owners : Publish(o) \/ PublishFails(o) \/ Close(o) \/ Crash(o)
  \/ \E r \in Readers : Read(r)

Spec == Init /\ [][Next]_vars

-----------------------------------------------------------------------------
(* Properties. *)

TypeOK ==
  /\ tokens \in 0 .. MaxTokens
  /\ at \in [Owners -> {"idle", "locked", "created", "written", "published", "unlink"}]
  /\ token \in [Owners -> 0 .. MaxTokens]
  /\ lock \in Owners \union {NoLock}
  /\ temps \subseteq Tokens /\ whole \subseteq Tokens
  /\ endpoint \in 0 .. MaxTokens
  /\ reading \in [Readers -> 0 .. MaxTokens] /\ checked \in [Readers -> BOOLEAN] /\ found \subseteq Tokens

(* What a consumer reads is a complete record, even while a producer writes, *)
(* fails or dies half-way.                                                   *)
RecordsWhole == found \subseteq whole /\ endpoint \in whole \union {NoFile}

(* While a producer listens, the record in the directory is its own: no      *)
(* other producer replaces it, and no closing producer removes it.           *)
RecordIsOwners == \A o \in Owners : at[o] = "published" => endpoint = token[o]

(* "An OS lifetime lock allows recovery after process death": the lock is    *)
(* held by a producer that is publishing, listening or closing, never by a   *)
(* dead one.                                                                 *)
LockHeldByLive == lock # NoLock => at[lock] # "idle"

(* Removing a record never removes a newer one: once a producer has          *)
(* published, the record disappears only when that producer closes.          *)
RemovedByOwner ==
  [][endpoint # NoFile /\ endpoint' = NoFile
       => \E o \in Owners : at[o] = "unlink" /\ token[o] = endpoint]_vars
=============================================================================
