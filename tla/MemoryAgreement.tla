-------------------------- MODULE MemoryAgreement --------------------------
(***************************************************************************)
(* Two endpoints agree on the memory they will share                       *)
(* (src/samples/av_memory_agreement.cpp): each sends its offer, proves     *)
(* that it saw both offers under the same session, decides, and sends its  *)
(* decision; only if both approve does either publish anything.  Then each *)
(* applies the policy to its element, whose neighbour in the pipeline may  *)
(* join with demands of its own (src/gst/gstframelink.cpp:214-225).        *)
(*                                                                         *)
(* A proof is the record it authenticates; proofs under different sessions *)
(* differ.  Any read or write may fail or time out.                        *)
(***************************************************************************)
EXTENDS MemoryPolicy, FiniteSets

CONSTANTS
  MemoryOffers,   \* what an endpoint may offer: requirements, a path, a binding
  Sessions,       \* session configurations the endpoints may hold
  Platform,       \* the resource type of the build
  Mandatory,      \* Mandatory[e]: the operations e's element performs unless native
  Native,         \* the ends whose element has native-memory set
  Later,          \* offers an endpoint of another build would send
  Neighbours,     \* what the elements' neighbours may send with an allocation query
  Faults          \* may reading or writing fail?

(* An element's boundary has its two ends and a neighbour; paths are of      *)
(* their C type.                                                             *)
MemoryAssumption ==
  /\ MaxEndpoints \in Nat /\ MaxEndpoints >= 3
  /\ \A o \in MemoryOffers : {"resources", "usage", "operations"} \subseteq DOMAIN o.p

Ends == {"producer", "consumer"}

VARIABLES
  offer,      \* offer[e]: what e brought
  session,    \* session[e]: the configuration e believes it is in
  at,         \* operations of agreeMemory e has finished
  inbox,      \* inbox[e]: what its peer wrote and it has not read
  heard,      \* heard[e]: the peer's offer as e read it, or NoOffer
  accepted,   \* accepted[e]: e's own decision
  result,     \* "running", "ok" or "failed"
  applied,    \* is the policy applied to e's element?
  joined      \* joined[e]: requirements of neighbours e's element has accepted

vars == <<offer, session, at, inbox, heard, accepted, result, applied, joined>>

Peer(e) == IF e = "producer" THEN "consumer" ELSE "producer"

NoOffer == [r |-> [version |-> 0], p |-> [version |-> 0], binding |-> 0]

Init ==
  /\ offer \in [Ends -> MemoryOffers] /\ session \in [Ends -> Sessions]
  /\ at = [e \in Ends |-> 0] /\ inbox = [e \in Ends |-> <<>>]
  /\ heard = [e \in Ends |-> NoOffer] /\ accepted = [e \in Ends |-> FALSE]
  /\ result = [e \in Ends |-> "running"] /\ applied = [e \in Ends |-> FALSE]
  /\ joined = [e \in Ends |-> {}]

-----------------------------------------------------------------------------

(* The consumer's offer goes first; proofs and decisions cross. *)
Script(e) ==
  IF e = "producer" THEN <<"read", "write", "write", "read", "write", "read">>
  ELSE <<"write", "read", "write", "read", "write", "read">>

Does(e, what, n) == result[e] = "running" /\ at[e] = n - 1 /\ Script(e)[n] = what

OfferValid(o) == RequirementsValidate(o.r) = "ok" /\ PathValidate(o.p) = "ok" /\ o.binding # 0

(* Mutant: the session is not part of the proof. *)
BugTranscript(e, by, verdict) ==
  [by |-> by, verdict |-> verdict,
   producer |-> IF e = "producer" THEN offer[e] ELSE heard[e],
   consumer |-> IF e = "consumer" THEN offer[e] ELSE heard[e]]

(* What proof() authenticates: session, both offers, direction and decision. *)
Transcript(e, by, verdict) ==
  [session |-> session[e], by |-> by, verdict |-> verdict,
   producer |-> IF e = "producer" THEN offer[e] ELSE heard[e],
   consumer |-> IF e = "consumer" THEN offer[e] ELSE heard[e]]

(* e's n-th operation is to write m. *)
Write(e, n, m) ==
  /\ Does(e, "write", n) /\ at' = [at EXCEPT ![e] = n]
  /\ inbox' = [inbox EXCEPT ![Peer(e)] = Append(@, m)]
  /\ UNCHANGED <<offer, session, heard, accepted, result, applied, joined>>

(* e's n-th operation is to read, and there is something to read. *)
Read(e, n) ==
  /\ Does(e, "read", n) /\ inbox[e] # <<>>
  /\ at' = [at EXCEPT ![e] = n] /\ inbox' = [inbox EXCEPT ![e] = Tail(@)]
  /\ UNCHANGED <<offer, session, applied, joined>>

(* What this build, or the other build e is of, checks before sending. *)
Sendable(o) == OfferValid(o) \/ o \in Later

WriteOffer(e) == Sendable(offer[e]) /\ \E n \in 1..2 : Write(e, n, offer[e])

(* An offer that is not valid is not sent. *)
Refuse(e) ==
  /\ result[e] = "running" /\ at[e] = 0 /\ ~Sendable(offer[e])
  /\ result' = [result EXCEPT ![e] = "failed"]
  /\ UNCHANGED <<offer, session, at, inbox, heard, accepted, applied, joined>>

ReadOffer(e) ==
  /\ Sendable(offer[e]) /\ \E n \in 1..2 : Read(e, n)
  /\ heard' = [heard EXCEPT ![e] = Head(inbox[e])] /\ UNCHANGED <<result, accepted>>

(* The peer's offer is decoded once both are exchanged; one that is not      *)
(* valid ends the agreement.                                                 *)
Reject(e) ==
  /\ result[e] = "running" /\ at[e] = 2 /\ ~OfferValid(heard[e])
  /\ result' = [result EXCEPT ![e] = "failed"]
  /\ UNCHANGED <<offer, session, at, inbox, heard, accepted, applied, joined>>

WriteProof(e) == OfferValid(heard[e]) /\ Write(e, 3, Transcript(e, e, "seen"))

(* The candidate is the same resource and every participant permits it. *)
Verdict(e) ==
  /\ offer[e].binding = heard[e].binding
  /\ EvaluateBoundary(<<offer[e].r, heard[e].r>>, <<offer[e].p, heard[e].p>>) = "ok"

ReadProof(e) ==
  /\ Read(e, 4)
  /\ IF Head(inbox[e]) = Transcript(e, Peer(e), "seen")
     THEN accepted' = [accepted EXCEPT ![e] = Verdict(e)] /\ UNCHANGED result
     ELSE result' = [result EXCEPT ![e] = "failed"] /\ UNCHANGED accepted
  /\ UNCHANGED heard

WriteVerdict(e) == Write(e, 5, Transcript(e, e, IF accepted[e] THEN "yes" ELSE "no"))

(* Both must have said yes. *)
ReadVerdict(e) ==
  /\ Read(e, 6)
  /\ result' = [result EXCEPT ![e] =
       IF accepted[e] /\ Head(inbox[e]) = Transcript(e, Peer(e), "yes") THEN "ok" ELSE "failed"]
  /\ UNCHANGED <<heard, accepted>>

(* Mutant: only writes time out. *)
BugFail(e) ==
  /\ Faults /\ result[e] = "running" /\ Script(e)[at[e] + 1] = "write"
  /\ result' = [result EXCEPT ![e] = "failed"]
  /\ UNCHANGED <<offer, session, at, inbox, heard, accepted, applied, joined>>

(* An operation fails, or the socket's timeout passes. *)
Fail(e) ==
  /\ Faults /\ result[e] = "running" /\ result' = [result EXCEPT ![e] = "failed"]
  /\ UNCHANGED <<offer, session, at, inbox, heard, accepted, applied, joined>>

-----------------------------------------------------------------------------
(* The elements. *)

Policy(e) == [rs |-> <<offer[e].r, heard[e].r>>, ps |-> <<offer[e].p, heard[e].p>>]

(* apply-memory-policy, once per delegated session. *)
Apply(e) ==
  /\ result[e] = "ok" /\ ~applied[e]
  /\ ValidMemoryPolicy(Policy(e).rs, Policy(e).ps, Platform, IF e \in Native THEN {} ELSE Mandatory[e])
  /\ applied' = [applied EXCEPT ![e] = TRUE]
  /\ UNCHANGED <<offer, session, at, inbox, heard, accepted, result, joined>>

(* An allocation query between a native element and its neighbour. *)
Join(e, w) ==
  /\ applied[e] /\ e \in Native /\ w.r \notin joined[e] /\ AllocationMemoryPolicy(Policy(e).rs, Policy(e).ps, w)
  /\ joined' = [joined EXCEPT ![e] = @ \union {w.r}]
  /\ UNCHANGED <<offer, session, at, inbox, heard, accepted, result, applied>>

-----------------------------------------------------------------------------
Step(e) ==
  \/ WriteOffer(e) \/ Refuse(e) \/ ReadOffer(e) \/ Reject(e)
  \/ WriteProof(e) \/ ReadProof(e) \/ WriteVerdict(e) \/ ReadVerdict(e)

Next == \E e \in Ends : Step(e) \/ Fail(e) \/ Apply(e) \/ (\E w \in Neighbours : Join(e, w))

Spec == Init /\ [][Next]_vars

(* Both endpoints run, and sockets have finite timeouts. *)
Fair == Ends \X {"step", "fail"}

FairStep(n) == IF n[2] = "step" THEN Step(n[1]) ELSE Fail(n[1])

LiveSpec == Spec /\ \A n \in Fair : WF_vars(FairStep(n))

-----------------------------------------------------------------------------
(* Properties. *)

TypeOK ==
  \A e \in Ends :
    /\ at[e] \in 0..6 /\ Len(inbox[e]) <= 3 /\ result[e] \in {"running", "ok", "failed"}
    /\ at[e] >= 3 => OfferValid(heard[e])
    /\ result[e] = "running" => at[e] < 6

(* Whoever returns success knows that its peer is in the same session, read  *)
(* the very offer it sent and approved it, although the peer may fail to     *)
(* hear of it (av_memory_agreement.cpp:47-60).                               *)
SuccessIsMutual ==
  \A e \in Ends : result[e] = "ok" =>
    /\ accepted[e] /\ accepted[Peer(e)] /\ session[e] = session[Peer(e)]
    /\ heard[e] = offer[Peer(e)] /\ heard[Peer(e)] = offer[e]
    /\ offer[e].binding = offer[Peer(e)].binding

(* The endpoints decide alike, although each evaluates the boundary with     *)
(* itself first.                                                             *)
SameVerdict ==
  (\A e \in Ends : at[e] \in 4..6 /\ heard[e] = offer[Peer(e)] /\ session[e] = session[Peer(e)] /\ result[e] # "failed")
    => accepted["producer"] = accepted["consumer"]

(* Everyone who takes part, the neighbours on both sides included, permits   *)
(* every operation either side performs and the resource it is performed on, *)
(* and finds the usage it requires (framelink_memory.cpp:85-103,             *)
(* gstframelink.cpp:217-225).                                                *)
EverybodyConsents ==
  LET operations == offer["producer"].p.operations \union offer["consumer"].p.operations
  IN  \A e \in Ends : applied[e] =>
        \A r \in joined[e] \union {offer[e].r} :
          operations \subseteq r.operations /\ Platform \in r.resources /\ r.required \subseteq offer[e].p.usage

(* Combining demands agrees with evaluating them: what the boundary accepts, *)
(* the combined requirements permit, and conflicting resources never pass    *)
(* (framelink_memory.cpp:68-103).                                            *)
CombineAgrees ==
  LET rs == <<offer["producer"].r, offer["consumer"].r>>
      ps == <<offer["producer"].p, offer["consumer"].p>>
  IN  /\ EvaluateBoundary(rs, ps) = "ok" =>
           /\ CombineResult(rs) = "ok" /\ ps[1].resources \subseteq Combined(rs).resources
           /\ AllOperations(ps) \subseteq Combined(rs).operations
      /\ (\A i \in 1..2 : Fault(rs, ps, i) = "ok" /\ Combined(rs).required \subseteq ps[i].usage
                          /\ Accepts(Combined(rs), Shared(ps, i))) => EvaluateBoundary(rs, ps) = "ok"

(* Both endpoints return. *)
BothReturn == \A e \in Ends : <>(result[e] # "running")

(* Without failures, endpoints of one session whose offers fit agree. *)
Agree ==
  (/\ session["producer"] = session["consumer"] /\ \A e \in Ends : OfferValid(offer[e])
   /\ offer["producer"].binding = offer["consumer"].binding
   /\ EvaluateBoundary(<<offer["producer"].r, offer["consumer"].r>>,
                       <<offer["producer"].p, offer["consumer"].p>>) = "ok")
    ~> (\A e \in Ends : result[e] = "ok")

=============================================================================
