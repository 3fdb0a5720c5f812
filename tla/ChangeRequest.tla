--------------------------- MODULE ChangeRequest ---------------------------
(***************************************************************************)
(* The approval of one change request (CR) of cmx-mdm.                     *)
(*                                                                         *)
(* The CR is a row of cv_mdm_apply in the program's database; its approval *)
(* is an instance of a workflow in a separate flow engine, reached by HTTP.*)
(* No transaction spans the two.  The handlers keep them in step with:     *)
(*                                                                         *)
(*   try_set_cr_status : a compare-and-set of doc_status, which also       *)
(*                       refreshes update_time;                            *)
(*   set_cr_status     : an unconditional write of doc_status;             *)
(*   sync_flow_result  : applies the result of a finished instance to the  *)
(*                       CR.  Webhooks (lost, late or repeated), readers   *)
(*                       of the list (lazy sync), the withdrawal and the   *)
(*                       review handler all call it;                       *)
(*   activate          : the activator's single transaction.               *)
(*                                                                         *)
(* A request in progress is a slot.  One action is one database statement  *)
(* (the activator: its first read and its commit) or one remote call, so   *)
(* requests interleave between any two of them.  Every request can fail or *)
(* die there.                                                              *)
(***************************************************************************)
EXTENDS Integers, Sequences

CONSTANTS
  Slots,       (* requests that may be in progress at the same time        *)
  Ops,         (* the endpoints and outside users at work                  *)
  FaultKinds,  (* what may go wrong, of Kinds below                        *)
  MaxFaults,   (* bound: how often it does                                 *)
  MaxRounds    (* bound: how often the CR is submitted                     *)

(* refused: a remote call fails without effect; timeout: it takes effect   *)
(* but its answer is lost; crash: the process dies (lostsubmit: within a   *)
(* submission); activation: the activator's transaction fails; commit: the *)
(* transaction commits but the activator is told that it failed.           *)
Kinds == {"refused", "timeout", "crash", "lostsubmit", "activation", "commit"}

Endpoints == {"submit", "abort", "withdraw", "review", "callback", "lazy", "manual"}

ASSUME ChangeRequestAssumption ==
  /\ Ops \subseteq Endpoints \cup {"todo", "console"}
  /\ FaultKinds \subseteq Kinds
  /\ MaxFaults \in Nat /\ MaxRounds \in Nat \ {0}

VARIABLES
  doc,     (* cv_mdm_apply.doc_status                                      *)
  stale,   (* is update_time older than LAZY_SYNC_STALE_SECS?              *)
  inst,    (* the CR's workflow instances, oldest first                    *)
  round,   (* how often the CR has been submitted                          *)
  call,    (* per slot: where its request is, and what it remembers        *)
  applied, (* activations committed for a result of the approval, not by   *)
           (* an administrator (2 stands for more)                         *)
  faults   (* faults so far                                                *)

vars == <<doc, stale, inst, round, call, applied, faults>>

DocStatuses == {"draft", "approving", "activating", "activated", "rejected", "aborted"}
InstStates  == {"ACTIVE", "COMPLETED", "TERMINATED"}
Decisions   == {"approve", "reject"}
TaskActions == Decisions \cup {"return", "apply"}

Instances == [state : InstStates, node : {"apply", "review"},
              decision : Decisions \cup {"none"}, round : 1 .. MaxRounds]

Places == {"idle", "s_read", "s_query", "s_start", "s_confirm", "s_revert", "a_set",
           "w_query", "w_cancel", "w_set", "r_locate", "r_act", "l_query", "l_draft",
           "y_current", "y_decide", "y_read", "y_commit", "y_unset", "m_read", "m_commit"}

Args == {"none", "completed", "terminated", "approving", "activating"} \cup TaskActions

(* i: the instance a request deals with (0: none); arg: the event, the     *)
(* action or the CR status it remembers; round: the submission it is for.  *)
Requests == [at : Places, i : 0 .. MaxRounds, arg : Args, round : 0 .. MaxRounds]

Idle == [at |-> "idle", i |-> 0, arg |-> "none", round |-> 0]

Init ==
  /\ doc = "draft"
  /\ stale = FALSE
  /\ inst = <<>>
  /\ round = 0
  /\ call = [s \in Slots |-> Idle]
  /\ applied = 0
  /\ faults = 0

-----------------------------------------------------------------------------
(* Building blocks.                                                        *)

Newest == Len(inst)

At(s, place) == call[s].at = place

Begins(s, op) == op \in Ops /\ call[s] = Idle

Goto(s, place, i, arg) ==
  call' = [call EXCEPT ![s] = [@ EXCEPT !.at = place, !.i = i, !.arg = arg]]

Return(s) == call' = [call EXCEPT ![s] = Idle]

Fault(kind) ==
  /\ kind \in FaultKinds
  /\ faults < MaxFaults
  /\ faults' = faults + 1

(* Mutant: doc_status is not compared.                                     *)
TryWinsUnguarded(from, to) == doc' = to /\ stale' = FALSE

(* try_set_cr_status, and its two outcomes.                                *)
TryWins(from, to) == doc \in from /\ doc' = to /\ stale' = FALSE
TryLoses(from)    == doc \notin from /\ UNCHANGED <<doc, stale>>

(* set_cr_status leaves update_time alone.                                 *)
SetDoc(to) == doc' = to /\ UNCHANGED stale

-----------------------------------------------------------------------------
(* The flow engine, as the handlers see it.                                *)

(* A new instance waits for the applicant's confirmation (node apply).     *)
NewInstance(r) ==
  inst' = Append(inst, [state |-> "ACTIVE", node |-> "apply", decision |-> "none", round |-> r])

Open(i, act) ==
  /\ inst[i].state = "ACTIVE"
  /\ inst[i].node = IF act = "apply" THEN "apply" ELSE "review"

Completed(v, act) ==
  CASE act = "apply"  -> [v EXCEPT !.node = "review"]
    [] act = "return" -> [v EXCEPT !.node = "apply"]
    [] OTHER          -> [v EXCEPT !.state = "COMPLETED", !.decision = act]

CompleteTask(i, act) == Open(i, act) /\ inst' = [inst EXCEPT ![i] = Completed(@, act)]

(* Cancelling a finished instance succeeds and changes nothing.            *)
CancelInstance(i) ==
  inst' = IF inst[i].state = "ACTIVE" THEN [inst EXCEPT ![i].state = "TERMINATED"] ELSE inst

(* Tasks are also completed in the flow engine's own to-do centre, and its *)
(* operators may cancel an instance.                                       *)
TodoCentre(i, act) ==
  /\ "todo" \in Ops
  /\ CompleteTask(i, act)
  /\ UNCHANGED <<doc, stale, round, call, applied, faults>>

Console(i) ==
  /\ "console" \in Ops
  /\ inst[i].state = "ACTIVE"
  /\ CancelInstance(i)
  /\ UNCHANGED <<doc, stale, round, call, applied, faults>>

-----------------------------------------------------------------------------
(* submit: preempt the CR, read it, look for an instance that is still     *)
(* active, start a new one, confirm the applicant's task.                  *)

Submit(s) ==
  /\ Begins(s, "submit")
  /\ round < MaxRounds
  /\ TryWins({"draft", "rejected"}, "approving")
  /\ round' = round + 1
  /\ call' = [call EXCEPT ![s] = [at |-> "s_read", i |-> 0, arg |-> "none", round |-> round + 1]]
  /\ UNCHANGED <<inst, applied, faults>>

SubmitRead(s) ==
  /\ At(s, "s_read")
  /\ IF doc = "approving" THEN Goto(s, "s_query", 0, "none") ELSE Return(s)
  /\ UNCHANGED <<doc, stale, inst, round, applied, faults>>

HasActive == \E i \in 1 .. Newest : inst[i].state = "ACTIVE"

(* A query that fails counts as "no instance".                             *)
SubmitQuery(s) ==
  /\ At(s, "s_query")
  /\ \/ /\ Goto(s, IF HasActive THEN "s_revert" ELSE "s_start", 0, "none")
        /\ UNCHANGED faults
     \/ Goto(s, "s_start", 0, "none") /\ Fault("refused")
  /\ UNCHANGED <<doc, stale, inst, round, applied>>

SubmitStart(s) ==
  /\ At(s, "s_start")
  /\ \/ /\ NewInstance(call[s].round)
        /\ Goto(s, "s_confirm", Newest + 1, "none")
        /\ UNCHANGED faults
     \/ NewInstance(call[s].round) /\ Goto(s, "s_revert", 0, "none") /\ Fault("timeout")
     \/ UNCHANGED inst /\ Goto(s, "s_revert", 0, "none") /\ Fault("refused")
  /\ UNCHANGED <<doc, stale, round, applied>>

(* A failure of the confirmation is not rolled back, and a task that is    *)
(* already done counts as confirmed.                                       *)
SubmitConfirm(s) ==
  /\ At(s, "s_confirm")
  /\ \/ CompleteTask(call[s].i, "apply") /\ UNCHANGED faults
     \/ ~Open(call[s].i, "apply") /\ UNCHANGED <<inst, faults>>
     \/ Fault("refused") /\ UNCHANGED inst
  /\ Return(s)
  /\ UNCHANGED <<doc, stale, round, applied>>

(* The preemption is rolled back with an unconditional write.              *)
SubmitRevert(s) ==
  /\ At(s, "s_revert")
  /\ SetDoc("draft")
  /\ Return(s)
  /\ UNCHANGED <<inst, round, applied, faults>>

-----------------------------------------------------------------------------
(* abort: check, then an unconditional write.                              *)

AbortCheck(s) ==
  /\ Begins(s, "abort")
  /\ doc = "draft"
  /\ Goto(s, "a_set", 0, "none")
  /\ UNCHANGED <<doc, stale, inst, round, applied, faults>>

AbortSet(s) ==
  /\ At(s, "a_set")
  /\ SetDoc("aborted")
  /\ Return(s)
  /\ UNCHANGED <<inst, round, applied, faults>>

-----------------------------------------------------------------------------
(* withdraw: check the CR, find its newest instance, cancel it, write      *)
(* draft.                                                                  *)

WithdrawCheck(s) ==
  /\ Begins(s, "withdraw")
  /\ doc = "approving"
  /\ Goto(s, "w_query", 0, "none")
  /\ UNCHANGED <<doc, stale, inst, round, applied, faults>>

(* Mutant: the engine's state is taken for the event.                      *)
EventRaw(v) == v.state

(* The event for which a finished instance is synchronised.                *)
EventOf(v) == IF v.state = "COMPLETED" THEN "completed" ELSE "terminated"

WithdrawQuery(s) ==
  /\ At(s, "w_query")
  /\ IF Newest = 0 THEN Return(s)
     ELSE IF inst[Newest].state = "ACTIVE" THEN Goto(s, "w_cancel", Newest, "none")
     ELSE Goto(s, "y_current", Newest, EventOf(inst[Newest]))
  /\ UNCHANGED <<doc, stale, inst, round, applied, faults>>

WithdrawCancel(s) ==
  /\ At(s, "w_cancel")
  /\ \/ CancelInstance(call[s].i) /\ Goto(s, "w_set", call[s].i, "none") /\ UNCHANGED faults
     \/ CancelInstance(call[s].i) /\ Return(s) /\ Fault("timeout")
     \/ UNCHANGED inst /\ Return(s) /\ Fault("refused")
  /\ UNCHANGED <<doc, stale, round, applied>>

WithdrawSet(s) ==
  /\ At(s, "w_set")
  /\ SetDoc("draft")
  /\ Return(s)
  /\ UNCHANGED <<inst, round, applied, faults>>

-----------------------------------------------------------------------------
(* review, return, confirm-apply: check the CR, locate the open task of    *)
(* its active instance, act on it; approve and reject then synchronise.    *)

ReviewCheck(s, act) ==
  /\ Begins(s, "review")
  /\ doc = "approving"
  /\ Goto(s, "r_locate", 0, act)
  /\ UNCHANGED <<doc, stale, inst, round, applied, faults>>

NewestActive(i) ==
  /\ inst[i].state = "ACTIVE"
  /\ \A j \in i + 1 .. Newest : inst[j].state # "ACTIVE"

ReviewLocate(s) ==
  LET act == call[s].arg
      tasks == {i \in 1 .. Newest : NewestActive(i) /\ Open(i, act)} IN
  /\ At(s, "r_locate")
  /\ \/ \E i \in tasks : Goto(s, "r_act", i, act)
     \/ tasks = {} /\ Return(s)
  /\ UNCHANGED <<doc, stale, inst, round, applied, faults>>

ReviewAct(s) ==
  LET i == call[s].i  act == call[s].arg IN
  /\ At(s, "r_act")
  /\ \/ /\ CompleteTask(i, act)
        /\ IF act \in Decisions THEN Goto(s, "y_current", i, "completed") ELSE Return(s)
        /\ UNCHANGED faults
     \/ ~Open(i, act) /\ Return(s) /\ UNCHANGED <<inst, faults>>
     \/ CompleteTask(i, act) /\ Return(s) /\ Fault("timeout")
     \/ UNCHANGED inst /\ Return(s) /\ Fault("refused")
  /\ UNCHANGED <<doc, stale, round, applied>>

-----------------------------------------------------------------------------
(* The webhook: once an instance is finished its event may arrive at any   *)
(* time, any number of times, or never.  Events whose state does not fit   *)
(* are ignored (classify_callback_event), as are those of other processes. *)

Callback(s, i) ==
  /\ Begins(s, "callback")
  /\ inst[i].state # "ACTIVE"
  /\ Goto(s, "y_current", i, EventOf(inst[i]))
  /\ UNCHANGED <<doc, stale, inst, round, applied, faults>>

(* Lazy sync: a reader of the CR compares it with its newest instance.     *)
LazyCheck(s) ==
  /\ Begins(s, "lazy")
  /\ doc \in {"approving", "activating"}
  /\ Goto(s, "l_query", 0, doc)
  /\ UNCHANGED <<doc, stale, inst, round, applied, faults>>

(* Mutants: without an instance nothing is done; without the webhook       *)
(* neither.                                                                *)
LazyQueryWithoutDraft(s) ==
  /\ At(s, "l_query")
  /\ IF Newest = 0 \/ inst[Newest].state = "ACTIVE" THEN Return(s)
     ELSE Goto(s, "y_current", Newest, EventOf(inst[Newest]))
  /\ UNCHANGED <<doc, stale, inst, round, applied, faults>>

LazyQueryOnlyDrafts(s) ==
  /\ At(s, "l_query")
  /\ IF Newest = 0 /\ call[s].arg = "approving" /\ stale THEN Goto(s, "l_draft", 0, "none")
     ELSE Return(s)
  /\ UNCHANGED <<doc, stale, inst, round, applied, faults>>

LazyQuery(s) ==
  /\ At(s, "l_query")
  /\ IF Newest = 0
       THEN IF call[s].arg = "approving" /\ stale
              THEN Goto(s, "l_draft", 0, "none") ELSE Return(s)
       ELSE IF inst[Newest].state = "ACTIVE" THEN Return(s)
       ELSE Goto(s, "y_current", Newest, EventOf(inst[Newest]))
  /\ UNCHANGED <<doc, stale, inst, round, applied, faults>>

LazyDraft(s) ==
  /\ At(s, "l_draft")
  /\ TryWins({"approving"}, "draft") \/ TryLoses({"approving"})
  /\ Return(s)
  /\ UNCHANGED <<inst, round, applied, faults>>

-----------------------------------------------------------------------------
(* sync_flow_result: rule 2 accepts the event of the newest instance only, *)
(* then the instance's result decides.                                     *)

SyncCurrent(s) ==
  /\ At(s, "y_current")
  /\ IF call[s].i = Newest THEN Goto(s, "y_decide", call[s].i, call[s].arg) ELSE Return(s)
  /\ UNCHANGED <<doc, stale, inst, round, applied, faults>>

(* Mutant: every completed instance counts as approved.                    *)
RejectedNever(i) == FALSE

Rejected(i) == inst[i].decision = "reject"

SyncDecide(s) ==
  LET completed == call[s].arg = "completed"
      target == IF ~completed THEN "aborted"
                ELSE IF Rejected(call[s].i) THEN "rejected" ELSE "activating" IN
  /\ At(s, "y_decide")
  /\ \/ /\ TryWins({"approving"}, target)
        /\ IF target = "activating" THEN Goto(s, "y_read", call[s].i, "none") ELSE Return(s)
     \/ TryLoses({"approving"}) /\ Return(s)
  /\ UNCHANGED <<inst, round, applied, faults>>

(* The activator reads the CR at the start of its transaction and writes   *)
(* activated, unconditionally, at its end.                                 *)
Activatable == {"activating", "approving"}

(* Where a request goes on when the activator fails: the synchronisation   *)
(* writes approving, unconditionally; the manual endpoint just returns.    *)
ActivationFails(s) ==
  IF call[s].at \in {"y_read", "y_commit"} THEN Goto(s, "y_unset", 0, "none") ELSE Return(s)

ActivateRead(s) ==
  /\ call[s].at \in {"y_read", "m_read"}
  /\ \/ /\ doc \in Activatable
        /\ Goto(s, IF At(s, "y_read") THEN "y_commit" ELSE "m_commit", call[s].i, "none")
     \/ doc \notin Activatable /\ ActivationFails(s)
  /\ UNCHANGED <<doc, stale, inst, round, applied, faults>>

(* An administrator's activation is not counted.                           *)
Committed(s) ==
  /\ SetDoc("activated")
  /\ applied' = IF At(s, "m_commit") \/ applied = 2 THEN applied ELSE applied + 1

ActivateCommit(s) ==
  /\ call[s].at \in {"y_commit", "m_commit"}
  /\ \/ Committed(s) /\ Return(s) /\ UNCHANGED faults
     \/ Committed(s) /\ ActivationFails(s) /\ Fault("commit")
     \/ UNCHANGED <<doc, stale, applied>> /\ ActivationFails(s) /\ Fault("activation")
  /\ UNCHANGED <<inst, round>>

ActivateUnset(s) ==
  /\ At(s, "y_unset")
  /\ SetDoc("approving")
  /\ Return(s)
  /\ UNCHANGED <<inst, round, applied, faults>>

(* The manual endpoint (off unless manual_override_enabled) calls the      *)
(* activator directly.                                                     *)
ManualActivate(s) ==
  /\ Begins(s, "manual")
  /\ Goto(s, "m_read", 0, "none")
  /\ UNCHANGED <<doc, stale, inst, round, applied, faults>>

-----------------------------------------------------------------------------
Submitting == {"s_read", "s_query", "s_start", "s_confirm", "s_revert"}

(* The process dies, or the request's next call fails and the handler      *)
(* gives up (a failed remote query, a failed statement).                   *)
Dies(s) ==
  /\ call[s] # Idle
  /\ Return(s)
  /\ Fault(IF call[s].at \in Submitting THEN "lostsubmit" ELSE "crash")
  /\ UNCHANGED <<doc, stale, inst, round, applied>>

(* update_time grows old.  A submission that is alive finishes in time:    *)
(* its remote calls are cut off after seconds.                             *)
GrowOld ==
  /\ ~stale
  /\ doc = "approving"
  /\ \A s \in Slots : call[s].at \notin Submitting
  /\ stale' = TRUE
  /\ UNCHANGED <<doc, inst, round, call, applied, faults>>

-----------------------------------------------------------------------------

Handler(s) ==
  \/ SubmitRead(s) \/ SubmitQuery(s) \/ SubmitStart(s) \/ SubmitConfirm(s) \/ SubmitRevert(s)
  \/ AbortSet(s)
  \/ WithdrawQuery(s) \/ WithdrawCancel(s) \/ WithdrawSet(s)
  \/ ReviewLocate(s) \/ ReviewAct(s)
  \/ LazyQuery(s) \/ LazyDraft(s)
  \/ SyncCurrent(s) \/ SyncDecide(s)
  \/ ActivateRead(s) \/ ActivateCommit(s) \/ ActivateUnset(s)

Request(s) ==
  \/ Submit(s)
  \/ AbortCheck(s)
  \/ WithdrawCheck(s)
  \/ \E act \in TaskActions : ReviewCheck(s, act)
  \/ \E i \in 1 .. Newest : Callback(s, i)
  \/ LazyCheck(s)
  \/ ManualActivate(s)

FlowUser ==
  \E i \in 1 .. Newest : Console(i) \/ \E act \in TaskActions : TodoCentre(i, act)

Next ==
  \/ \E s \in Slots : Request(s) \/ Handler(s) \/ Dies(s)
  \/ FlowUser
  \/ GrowOld

Spec == Init /\ [][Next]_vars

(* Fairness: a request in progress takes its next step (unless it dies),   *)
(* time passes, and readers keep opening the CR, which is what the lazy    *)
(* synchronisation relies on.  Nobody else need do anything.               *)
Fairness ==
  /\ \A s \in Slots : WF_vars(Handler(s))
  /\ WF_vars(GrowOld)
  /\ SF_vars(\E s \in Slots : LazyCheck(s))

FairSpec == Spec /\ Fairness

-----------------------------------------------------------------------------
(* Properties.                                                             *)

(* Every variable stays in its type.                                       *)
TypeOK ==
  /\ doc \in DocStatuses
  /\ stale \in BOOLEAN
  /\ inst \in Seq(Instances) /\ Newest <= round
  /\ round \in 0 .. MaxRounds
  /\ call \in [Slots -> Requests]
  /\ applied \in 0 .. 2
  /\ faults \in 0 .. MaxFaults

(* Master data changes only after somebody approved: whichever of the      *)
(* webhook, the lazy sync, the withdrawal and the review handler gets      *)
(* there first, and whatever fails or dies, no result is applied to a CR   *)
(* none of whose instances was approved.  Only the manual endpoint does    *)
(* without.                                                                *)
ActivationNeedsApproval ==
  applied > 0 => \E i \in 1 .. Newest : inst[i].state = "COMPLETED" /\ inst[i].decision = "approve"

(* A CR is activated once: repeated webhooks, lazy syncs and reviews that  *)
(* race, and activations that failed before, do not apply it twice.        *)
ActivatedOnce == applied <= 1

(* To its applicant the approval is that of ApprovalContract, with the     *)
(* verdict of the newest round's instance: webhooks, readers, reviews and  *)
(* failed activations never reject, abort or publish a CR otherwise, and   *)
(* only drafts are aborted by abort (the state machine of cr_service.rs).  *)
Verdict ==
  IF Newest = 0 \/ inst[Newest].round # round \/ inst[Newest].state = "ACTIVE" THEN "none"
  ELSE IF inst[Newest].state = "TERMINATED" THEN "cancel"
  ELSE inst[Newest].decision

Contract == INSTANCE ApprovalContract
              WITH stage <- IF doc \in {"approving", "activating"} THEN "pending" ELSE doc,
                   verdict <- Verdict,
                   published <- applied

ApprovesAsPromised == Contract!Spec

(* A request that had made the CR activating has died, or failed to set it *)
(* back: it stays so, since the synchronisation starts from approving only.*)
Abandoned ==
  doc = "activating" /\ \A s \in Slots : call[s].at \notin {"y_read", "y_commit", "y_unset"}

(* A finished approval is applied to its CR: whichever webhook is lost,    *)
(* and whichever query or activation fails, the lazy sync                  *)
(* (mdm_cr_flow_status) makes it good, unless a new submission starts      *)
(* another instance first, or the request dies in the activation.          *)
ResultIsApplied ==
  LET underway == doc \in {"approving", "activating"}
      finished == Newest > 0 /\ inst[Newest].state # "ACTIVE" IN
  underway /\ finished ~> ~underway \/ ~finished \/ Abandoned

(* A submission that died before it started an instance does not leave the *)
(* CR in approval for ever.                                                *)
CrashedSubmitHeals == doc = "approving" /\ Newest = 0 ~> doc # "approving" \/ Newest > 0
=============================================================================
