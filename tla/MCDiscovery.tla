---------------------------- MODULE MCDiscovery ----------------------------
(***************************************************************************)
(* How a producer and a consumer find each other, for TLC: the slot sets,  *)
(* the rendezvous directory and the setup of a local A/V session.  A       *)
(* behaviour runs one of the parts, the one `part' names, and leaves the   *)
(* others in their initial state.                                          *)
(***************************************************************************)
EXTENDS SlotSet

CONSTANTS Owners, Readers, MaxTokens, MaxAttempts

VARIABLES
  part,
  tokens, ownerAt, token, lock, temps, whole, endpoint, reading, checked, found,
  side, cred, attempts, record, inbox, open, cancelled, config, mapped, streams, channel, eos, why,
  compatible, affordable, ready, drained

rendezvous == <<tokens, ownerAt, token, lock, temps, whole, endpoint, reading, checked, found>>
local ==
  <<side, cred, attempts, record, inbox, open, cancelled, config, mapped, streams, channel, eos, why,
    compatible, affordable, ready, drained>>
mcvars == <<vars, rendezvous, local, part>>

Served0 == INSTANCE SlotSet WITH Churn <- FALSE, Faults <- FALSE

R == INSTANCE Rendezvous WITH at <- ownerAt

Both  == {"video", "audio"}
L     == INSTANCE AvLocal WITH pc <- side, Tracks <- Both
Audio == INSTANCE AvLocal WITH pc <- side, Tracks <- {"audio"}, MaxAttempts <- 2
Quiet == INSTANCE AvLocal WITH pc <- side, Tracks <- Both, Faults <- FALSE

ASSUME DiscoveryAssumption == R!RendezvousAssumption /\ L!LocalAssumption /\ Audio!LocalAssumption

Locals == {"session", "audio session", "quiet session"}

MCInit ==
  /\ part \in {"slots", "served", "rendezvous"} \union Locals
  /\ Init /\ R!Init
  /\ IF part \in {"session", "audio session"} THEN L!Init ELSE Quiet!Init

MCNext ==
  /\ \/ part = "slots"         /\ Next         /\ UNCHANGED <<rendezvous, local>>
     \/ part = "served"        /\ Served0!Next /\ UNCHANGED <<rendezvous, local>>
     \/ part = "rendezvous"    /\ R!Next       /\ UNCHANGED <<vars, local>>
     \/ part = "session"       /\ L!Next       /\ UNCHANGED <<vars, rendezvous>>
     \/ part = "audio session" /\ Audio!Next   /\ UNCHANGED <<vars, rendezvous>>
     \/ part = "quiet session" /\ Quiet!Next   /\ UNCHANGED <<vars, rendezvous>>
  /\ UNCHANGED part

MCSpec ==
  /\ MCInit /\ [][MCNext]_mcvars
  /\ \A n \in Fair      : WF_vars(part = "slots" /\ FairStep(n))
  /\ \A n \in ServeFair : WF_vars(part = "served" /\ Served0!ServeStep(n))
  /\ \A n \in L!Fair    : WF_local(part = "session" /\ L!FairStep(n))
  /\ \A n \in L!Fair    : WF_local(part = "quiet session" /\ Quiet!FairStep(n))

-----------------------------------------------------------------------------
(* Rendezvous: a consumer reads whole records only, the record of a producer *)
(* that listens is its own, no dead producer keeps the lock, and a record is *)
(* removed only by the producer that published it                            *)
(* (av_rendezvous.cpp:143-222).                                              *)
RendezvousSound ==
  /\ [](R!RecordsWhole /\ R!RecordIsOwners /\ R!LockHeldByLive)
  /\ R!RemovedByOwner

(* AvLocal: no media before the matching consumer is ready, no normal end    *)
(* before it drained, nothing left of a failed setup, and no consumer opened *)
(* without a producer on its channel (framelink_session_transport.cpp).      *)
SetupSound ==
  /\ part \in {"session", "quiet session"} =>
       L!TypeOK /\ L!MediaAfterReady /\ L!DrainedBeforeEnd /\ L!OpenFailureClean /\ L!AttachedBeforeOpened
  /\ part = "audio session" =>
       Audio!TypeOK /\ Audio!MediaAfterReady /\ Audio!DrainedBeforeEnd /\ Audio!OpenFailureClean

(* A walk of the slots returns at its deadline, and with a slot for each     *)
(* producer finds one unless producers come and go for ever; a setup that has a connection returns, whatever its   *)
(* peer does, and without failures the session runs to its drained end.      *)
EverybodyReturns ==
  /\ part = "slots"         => WalkReturns
  /\ part = "served"        => Served0!Served
  /\ part = "session"       => L!SetupReturns
  /\ part = "quiet session" => Quiet!SessionCompletes

=============================================================================
