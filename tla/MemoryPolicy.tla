---------------------------- MODULE MemoryPolicy ----------------------------
(***************************************************************************)
(* Boundary memory policy (src/src/framelink_memory.cpp): what each        *)
(* participant demands of shared memory, what a candidate path offers, and *)
(* whether all of them accept it.  Bit masks are sets; an unknown bit is   *)
(* an element outside the known set, reserved bytes are one number.        *)
(***************************************************************************)
EXTENDS Naturals, Sequences

CONSTANTS
  Usages,         \* FL_MEMORY_USAGE_ALL
  Resources,      \* FL_MEMORY_RESOURCE_ALL
  Operations,     \* FL_MEMORY_OPERATIONS_ALL
  MaxEndpoints    \* FL_MEMORY_MAX_ENDPOINTS

Version == 1

(* flMemoryRequirementsValidate *)
RequirementsValidate(r) ==
  CASE r.version # Version -> "version"
    [] r.version = Version /\ ~(/\ r.required \union r.preferred \subseteq Usages
                                /\ r.resources # {} /\ r.resources \subseteq Resources
                                /\ r.operations \subseteq Operations /\ r.reserved = 0) -> "invalid"
    [] OTHER -> "ok"

(* flMemoryPathValidate: exactly one kind of resource. *)
PathValidate(p) ==
  CASE p.version # Version -> "version"
    [] p.version = Version /\ ~(/\ \E t \in Resources : p.resources = {t}
                                /\ p.usage \subseteq Usages /\ p.operations \subseteq Operations
                                /\ p.reserved = 0) -> "invalid"
    [] OTHER -> "ok"

(* flMemoryEvaluate of a valid pair: what is wrong with the path. *)
Decision(r, p) ==
  [missing |-> r.required \ p.usage, unmet |-> r.preferred \ p.usage,
   rejected |-> p.resources \ r.resources, forbidden |-> p.operations \ r.operations]

Accepts(r, p) == LET d == Decision(r, p) IN d.missing = {} /\ d.rejected = {} /\ d.forbidden = {}

Counted(s) == Len(s) \in 1..MaxEndpoints

(* The first participant refused decides the answer. *)
FirstOf(S) == CHOOSE i \in S : \A j \in S : i <= j

(* flMemoryRequirementsCombine *)
Combined(rs) ==
  [version |-> Version, required |-> UNION {rs[i].required : i \in DOMAIN rs},
   preferred |-> UNION {rs[i].preferred : i \in DOMAIN rs},
   resources |-> {t \in Resources : \A i \in DOMAIN rs : t \in rs[i].resources},
   operations |-> {o \in Operations : \A i \in DOMAIN rs : o \in rs[i].operations}, reserved |-> 0]

CombineResult(rs) ==
  LET bad == {i \in DOMAIN rs : RequirementsValidate(rs[i]) # "ok"}
  IN  CASE ~Counted(rs) -> "invalid"
        [] Counted(rs) /\ bad # {} -> RequirementsValidate(rs[FirstOf(bad)])
        [] Counted(rs) /\ bad = {} /\ Combined(rs).resources = {} -> "incompatible"
        [] OTHER -> "ok"

(* What makes the i-th pair unusable, or "ok". *)
Fault(rs, ps, i) ==
  CASE RequirementsValidate(rs[i]) # "ok" -> RequirementsValidate(rs[i])
    [] RequirementsValidate(rs[i]) = "ok" /\ PathValidate(ps[i]) # "ok" -> PathValidate(ps[i])
    [] OTHER -> IF ps[i].resources # ps[1].resources THEN "invalid" ELSE "ok"

(* Every participant's path with the operations of all of them. *)
AllOperations(ps) == UNION {ps[i].operations : i \in DOMAIN ps}
Shared(ps, i)     == [ps[i] EXCEPT !.operations = AllOperations(ps)]

(* flMemoryEvaluateBoundary *)
EvaluateBoundary(rs, ps) ==
  LET bad == {i \in DOMAIN rs : Fault(rs, ps, i) # "ok"}
  IN  CASE ~Counted(rs) -> "invalid"
        [] Counted(rs) /\ bad # {} -> Fault(rs, ps, FirstOf(bad))
        [] Counted(rs) /\ bad = {} /\ (\E i \in DOMAIN rs : ~Accepts(rs[i], Shared(ps, i))) -> "incompatible"
        [] OTHER -> "ok"

(* flMemoryRequirementsEncode, and what flMemoryRequirementsDecode accepts. *)
Encode(r) == [magic |-> "FMR1", r |-> r]

Decodable(w) == w.magic = "FMR1" /\ RequirementsValidate(w.r) = "ok"

-----------------------------------------------------------------------------
(* The elements' use of it (src/gst/gstframelink.cpp:189-225). *)

(* validMemoryPolicy: endpoint 1 is the element; the operations its mode     *)
(* cannot do without are declared.                                           *)
ValidMemoryPolicy(rs, ps, resource, mandatory) ==
  /\ EvaluateBoundary(rs, ps) = "ok" /\ ps[1].resources = {resource} /\ mandatory \subseteq ps[1].operations

(* allocationMemoryPolicy: the neighbour in the pipeline uses the element's  *)
(* path and has demands of its own.                                          *)
AllocationMemoryPolicy(rs, ps, w) ==
  Decodable(w) /\ EvaluateBoundary(Append(rs, w.r), Append(ps, ps[1])) = "ok"

=============================================================================
