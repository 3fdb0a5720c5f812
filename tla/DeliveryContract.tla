--------------------------- MODULE DeliveryContract ---------------------------
(***************************************************************************)
(* What the distribution engine promises its subscribers: a queue for each *)
(* subscription.  New events go to its end; they are received from its     *)
(* head, perhaps several times; the head leaves the queue as delivered,    *)
(* and only if it was received, or as dead.  Dead events may be marked as  *)
(* skipped.  Nothing else ever happens to an event.                        *)
(*                                                                         *)
(* Nodes, claims, retries, crashes and timers are what Dispatch adds.      *)
(***************************************************************************)
EXTENDS Integers

CONSTANT Queue   (* <<subscription, sequence number>> pairs                *)

VARIABLES
  stage,    (* absent, queued, delivered, dead or skipped                  *)
  received  (* the pairs whose subscriber has the event                    *)

vars == <<stage, received>>

Before(q, r) == q[1] = r[1] /\ q[2] < r[2]

Head(r) == stage[r] = "queued" /\ \A q \in Queue : Before(q, r) => stage[q] # "queued"

Init ==
  /\ stage = [r \in Queue |-> "absent"]
  /\ received = {}

Moved(R, to) == stage' = [r \in Queue |-> IF r \in R THEN to ELSE stage[r]]

Enqueue(R) ==
  /\ \A r \in R : stage[r] = "absent" /\ \A q \in Queue : Before(r, q) => stage[q] = "absent"
  /\ Moved(R, "queued")
  /\ UNCHANGED received

Receive(r) ==
  /\ Head(r)
  /\ received' = received \cup {r}
  /\ UNCHANGED stage

Settle(r, to) ==
  /\ Head(r)
  /\ to = "delivered" => r \in received
  /\ Moved({r}, to)
  /\ UNCHANGED received

Skip(R) ==
  /\ \A r \in R : stage[r] = "dead"
  /\ Moved(R, "skipped")
  /\ UNCHANGED received

Next ==
  \/ \E R \in SUBSET Queue : Enqueue(R) \/ Skip(R)
  \/ \E r \in Queue : Receive(r) \/ Settle(r, "delivered") \/ Settle(r, "dead")

Spec == Init /\ [][Next]_vars
=============================================================================
