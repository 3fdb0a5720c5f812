--------------------------- MODULE ApprovalContract ---------------------------
(***************************************************************************)
(* What the approval of a change request (CR) promises: it is drafted,     *)
(* submitted and judged, and published at most once, in the step that      *)
(* makes it activated.  The verdict is that of the submission under way; a *)
(* rejected CR may be submitted again; activated and aborted are final.    *)
(*                                                                         *)
(* That the verdict is given by another system and reaches this one by     *)
(* webhooks, readers and retries is what ChangeRequest adds.               *)
(***************************************************************************)
EXTENDS Integers

VARIABLES
  stage,     (* draft, pending, rejected, activated or aborted             *)
  verdict,   (* none, approve, reject or cancel                            *)
  published  (* how often the CR's data has been published                 *)

vars == <<stage, verdict, published>>

Init ==
  /\ stage = "draft"
  /\ verdict = "none"
  /\ published = 0

Submit ==
  /\ stage \in {"draft", "rejected"}
  /\ stage' = "pending"
  /\ verdict' = "none"
  /\ UNCHANGED published

Judge ==
  /\ verdict = "none"
  /\ verdict' \in {"approve", "reject", "cancel"}
  /\ UNCHANGED <<stage, published>>

Publish ==
  /\ stage = "pending"
  /\ verdict = "approve"
  /\ stage' = "activated"
  /\ published' = published + 1
  /\ UNCHANGED verdict

Ends(from, to) == stage = from /\ stage' = to /\ UNCHANGED <<verdict, published>>

(* Withdrawn by its user, who may not know of a verdict just given, or its *)
(* submission has failed.                                                  *)
Withdraw == Ends("pending", "draft")

Reject == Ends("pending", "rejected") /\ verdict = "reject"
Cancel == Ends("pending", "aborted") /\ verdict = "cancel"
Abort  == Ends("draft", "aborted")

Next == Submit \/ Judge \/ Publish \/ Withdraw \/ Reject \/ Cancel \/ Abort

Spec == Init /\ [][Next]_vars
=============================================================================
