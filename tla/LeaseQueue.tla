----------------------------- MODULE LeaseQueue -----------------------------
(***************************************************************************)
(* What the read leases of a channel promise (docs/READ_LEASES.md, and the *)
(* header comment of fl::ReadLedger): a queue of leased frames, each with  *)
(* the set of tokens that still read it.  A token is issued once, ever;    *)
(* frames leave the queue from its front only, and only when nobody reads  *)
(* them.  How frames and readers are stored is not part of the promise.    *)
(***************************************************************************)
EXTENDS Naturals, Sequences

CONSTANTS Generations, Values, LeaseSlots, Tokens

VARIABLES
  queue,   \* leased frames, oldest first
  issued   \* every token handed out so far

queueVars == <<queue, issued>>

Leased == [gen : Generations, val : Values, slot : LeaseSlots, holders : SUBSET Tokens]

QueueInit == queue = <<>> /\ issued = {}

Lease(g, v, s, t) ==
  /\ t \notin issued
  /\ \A i \in 1 .. Len(queue) :
       queue[i].gen = g /\ queue[i].val < v /\ queue[i].slot # s
  /\ queue' = Append(queue, [gen |-> g, val |-> v, slot |-> s, holders |-> {t}])
  /\ issued' = issued \union {t}

Share(i, t) ==
  /\ queue[i].holders # {}
  /\ t \notin issued
  /\ queue' = [queue EXCEPT ![i].holders = @ \union {t}]
  /\ issued' = issued \union {t}

Finish(i, t) ==
  /\ t \in queue[i].holders
  /\ queue' = [queue EXCEPT ![i].holders = @ \ {t}]
  /\ UNCHANGED issued

RetirePrefix(n) ==
  /\ \A i \in 1 .. n : queue[i].holders = {}
  /\ n < Len(queue) => queue[n + 1].holders # {}
  /\ queue' = SubSeq(queue, n + 1, Len(queue))
  /\ UNCHANGED issued

(* The process issues a token for a queue of another channel. *)
IssueElsewhere(t) ==
  /\ t \notin issued
  /\ issued' = issued \union {t}
  /\ UNCHANGED queue

QueueNext ==
  \/ \E t \in Tokens : IssueElsewhere(t)
  \/ \E g \in Generations, v \in Values, s \in LeaseSlots, t \in Tokens : Lease(g, v, s, t)
  \/ \E i \in 1 .. Len(queue), t \in Tokens : Share(i, t) \/ Finish(i, t)
  \/ \E n \in 1 .. Len(queue) : RetirePrefix(n)

QueueSpec == QueueInit /\ [][QueueNext]_queueVars
=============================================================================
