----------------------------- MODULE ApprovalProofs -----------------------------
(***************************************************************************)
(* More theorems about the approval of a CR: that it is applied once, and  *)
(* that it is the approval that ApprovalContract promises.  They rest on   *)
(* the types and the facts about instances proved in ChangeRequestProofs.  *)
(***************************************************************************)
EXTENDS ChangeRequestProofs

-----------------------------------------------------------------------------
(* A CR that is submitted once is activated once.                          *)

(* A request that has made the CR activating and will commit, or undo that. *)
TokenPlaces == {"y_read", "y_commit", "y_unset"}
Token(s) == call[s].at \in TokenPlaces

ManualPlaces == {"m_read", "m_commit"}

(* Either the CR is approving, or one request is activating it, or neither; *)
(* and once it has been activated, neither.                                *)
OnceInv ==
  /\ \A s, t \in Slots : Token(s) /\ Token(t) => s = t
  /\ \A s \in Slots : Token(s) => doc # "approving" /\ applied = 0 /\ round > 0
  /\ \A s \in Slots : call[s].at \notin ManualPlaces
  /\ doc = "approving" \/ round = 0 => applied = 0
  /\ applied <= 1

(* The others stay where they are.                                         *)
Only(s) == \A t \in Slots \ {s} : call'[t] = call[t]

(* A step that makes no request a token and the CR not approving.          *)
LEMMA OnceKept ==
  ASSUME Inv, OnceInv, NEW s \in Slots, Only(s), Token(s)' => Token(s),
         call'[s].at \notin ManualPlaces,
         doc' = "approving" => doc = "approving", UNCHANGED <<round, applied>>
  PROVE  OnceInv'
BY DEF OnceInv, Only, Token

(* The requests that begin, except a submission.                           *)
LEMMA OnceBegin ==
  ASSUME Inv, OnceInv, NEW s \in Slots, "manual" \notin Ops, Request(s), ~Submit(s)
  PROVE  OnceInv'
<1>1. UNCHANGED <<doc, round, applied>>
  BY DEF Request, AbortCheck, WithdrawCheck, ReviewCheck, Callback, LazyCheck, ManualActivate
<1>2. \E place \in {"a_set", "w_query", "r_locate", "y_current", "l_query"} : \E i, arg : Goto(s, place, i, arg)
  BY Zenon DEF Request, AbortCheck, WithdrawCheck, ReviewCheck, Callback, LazyCheck, ManualActivate, Begins
<1>3. Only(s) /\ ~Token(s)' /\ call'[s].at \notin ManualPlaces
  BY <1>2, GotoAt DEF Inv, Only, Token, TokenPlaces, ManualPlaces
<1> QED
  BY <1>1, <1>3, OnceKept

(* The handlers' steps that neither decide nor activate.                   *)
LEMMA OnceElsewhere ==
  ASSUME Inv, OnceInv, NEW s \in Slots,
         \/ SubmitRead(s) \/ SubmitQuery(s) \/ SubmitStart(s) \/ SubmitConfirm(s) \/ SubmitRevert(s)
         \/ AbortSet(s) \/ WithdrawQuery(s) \/ WithdrawCancel(s) \/ WithdrawSet(s)
         \/ ReviewLocate(s) \/ ReviewAct(s) \/ LazyQuery(s) \/ LazyDraft(s) \/ SyncCurrent(s) \/ Dies(s)
  PROVE  OnceInv'
<1>1. UNCHANGED <<round, applied>>
  BY DEF SubmitRead, SubmitQuery, SubmitStart, SubmitConfirm, SubmitRevert, AbortSet, WithdrawQuery,
         WithdrawCancel, WithdrawSet, ReviewLocate, ReviewAct, LazyQuery, LazyDraft, SyncCurrent, Dies
<1>2. doc' = "approving" => doc = "approving"
  BY DEF SubmitRead, SubmitQuery, SubmitStart, SubmitConfirm, SubmitRevert, AbortSet, WithdrawQuery,
         WithdrawCancel, WithdrawSet, ReviewLocate, ReviewAct, LazyQuery, LazyDraft, SyncCurrent, Dies,
         SetDoc, TryWins, TryLoses
<1>3. Return(s) \/ \E place \in {"s_query", "s_start", "s_confirm", "s_revert", "w_cancel", "w_set",
                                 "r_act", "l_draft", "y_current", "y_decide"} : \E i, arg : Goto(s, place, i, arg)
  BY Zenon DEF SubmitRead, SubmitQuery, SubmitStart, SubmitConfirm, SubmitRevert, AbortSet, WithdrawQuery,
         WithdrawCancel, WithdrawSet, ReviewLocate, ReviewAct, LazyQuery, LazyDraft, SyncCurrent, Dies
<1>4. Only(s) /\ ~Token(s)' /\ call'[s].at \notin ManualPlaces
  BY <1>3, GotoAt, ReturnAt DEF Inv, Only, Token, TokenPlaces, ManualPlaces
<1> QED
  BY <1>1, <1>2, <1>4, OnceKept

(* The token: it is taken by the one that makes the CR activating, and     *)
(* spent by the commit or the return to approving.                         *)
LEMMA OnceToken ==
  ASSUME Inv, OnceInv, NEW s \in Slots, "commit" \notin FaultKinds,
         SyncDecide(s) \/ ActivateRead(s) \/ ActivateCommit(s) \/ ActivateUnset(s)
  PROVE  OnceInv'
<1>1. applied \in Nat /\ call[s].at \notin ManualPlaces
  BY DEF Inv, TypeOK, OnceInv
<1>2. CASE SyncDecide(s)
  <2>1. UNCHANGED <<round, applied>> /\ At(s, "y_decide")
    BY <1>2 DEF SyncDecide
  <2>2. CASE Return(s) /\ (doc' = "approving" => doc = "approving")
    <3>1. Only(s) /\ ~Token(s)' /\ call'[s].at \notin ManualPlaces
      BY <2>2, ReturnAt DEF Inv, Only, Token, TokenPlaces, ManualPlaces
    <3> QED
      BY <2>1, <2>2, <3>1, OnceKept
  <2>3. CASE Goto(s, "y_read", call[s].i, "none") /\ doc = "approving" /\ doc' = "activating"
    <3>1. Only(s) /\ call'[s].at = "y_read"
      BY <2>3, GotoAt DEF Inv, Only
    <3>2. round > 0
      BY <2>1 DEF At, Inv, GoodCall, OnInstance, TypeOK, Newest
    <3> QED
      BY <2>1, <2>3, <3>1, <3>2 DEF OnceInv, Only, Token, ManualPlaces
  <2> QED
    BY <1>2, <2>2, <2>3 DEF SyncDecide, TryWins, TryLoses
<1>3. CASE ActivateRead(s)
  <2>1. Token(s) /\ UNCHANGED <<doc, round, applied>>
    BY <1>1, <1>3 DEF ActivateRead, Token, TokenPlaces, ManualPlaces
  <2>2. \E place \in {"y_commit", "y_unset"} : \E i, arg : Goto(s, place, i, arg)
    BY <1>1, <1>3, Zenon DEF ActivateRead, ActivationFails, ManualPlaces, At
  <2>3. Only(s) /\ call'[s].at \notin ManualPlaces
    BY <2>2, GotoAt DEF Inv, Only, ManualPlaces
  <2> QED
    BY <2>1, <2>3, OnceKept
<1>4. CASE ActivateCommit(s)
  <2>1. Token(s) /\ round' = round /\ call[s].at = "y_commit"
    BY <1>1, <1>4 DEF ActivateCommit, Token, TokenPlaces, ManualPlaces
  <2>2. CASE Committed(s) /\ Return(s)
    <3>1. Only(s) /\ ~Token(s)' /\ call'[s].at \notin ManualPlaces
      BY <2>2, ReturnAt DEF Inv, Only, Token, TokenPlaces, ManualPlaces
    <3>2. applied' = 1 /\ doc' = "activated" /\ round > 0
      BY <1>1, <2>1, <2>2 DEF Committed, SetDoc, OnceInv, ManualPlaces, At
    <3>3. \A t \in Slots : ~Token(t)'
      BY <2>1, <3>1 DEF OnceInv, Only, Token
    <3> QED
      BY <2>1, <3>1, <3>2, <3>3 DEF OnceInv, Only
  <2>3. CASE UNCHANGED <<doc, stale, applied>> /\ ActivationFails(s)
    <3>1. Only(s) /\ call'[s].at \notin ManualPlaces
      BY <2>1, <2>3, GotoAt DEF Inv, Only, ManualPlaces, ActivationFails
    <3> QED
      BY <2>1, <2>3, <3>1, OnceKept
  <2> QED
    BY <1>4, <2>2, <2>3 DEF ActivateCommit, Fault
<1>5. CASE ActivateUnset(s)
  <2>1. Token(s) /\ UNCHANGED <<round, applied>> /\ doc' = "approving"
    BY <1>5 DEF ActivateUnset, At, Token, TokenPlaces, SetDoc
  <2>2. Only(s) /\ ~Token(s)' /\ call'[s].at \notin ManualPlaces
    BY <1>5, ReturnAt DEF ActivateUnset, Inv, Only, Token, TokenPlaces, ManualPlaces
  <2>3. applied = 0 /\ \A t \in Slots : ~Token(t)'
    BY <2>1, <2>2 DEF OnceInv, Only, Token
  <2> QED
    BY <2>1, <2>2, <2>3 DEF OnceInv, Only
<1> QED
  BY <1>2, <1>3, <1>4, <1>5

LEMMA OnceHolds ==
  ASSUME MaxRounds = 1, "manual" \notin Ops, "commit" \notin FaultKinds
  PROVE  Spec => [](Inv /\ OnceInv)
<1>1. Init => OnceInv
  BY DEF Init, OnceInv, Token, TokenPlaces, ManualPlaces, Idle
<1>2. Inv /\ OnceInv /\ [Next]_vars => OnceInv'
  <2> SUFFICES ASSUME Inv, OnceInv, [Next]_vars PROVE OnceInv'
    OBVIOUS
  <2>1. ASSUME NEW s \in Slots, Submit(s) PROVE OnceInv'
    <3>1. round = 0 /\ round' = 1 /\ applied' = applied /\ doc' = "approving"
      BY <2>1 DEF Submit, TryWins, Inv, TypeOK
    <3>2. call'[s].at = "s_read" /\ Only(s)
      BY <2>1 DEF Submit, Inv, TypeOK, Only
    <3> QED
      BY <3>1, <3>2 DEF OnceInv, Only, Token, TokenPlaces, ManualPlaces
  <2>2. ASSUME NEW s \in Slots, Request(s) PROVE OnceInv'
    BY <2>1, <2>2, OnceBegin
  <2>3. ASSUME NEW s \in Slots, Handler(s) \/ Dies(s) PROVE OnceInv'
    BY <2>3, OnceElsewhere, OnceToken DEF Handler
  <2>4. ASSUME FlowUser \/ GrowOld \/ UNCHANGED vars PROVE OnceInv'
    <3>1. UNCHANGED <<doc, round, call, applied>>
      BY <2>4 DEF FlowUser, TodoCentre, Console, GrowOld, vars
    <3> QED
      BY <3>1 DEF OnceInv, Token
  <2> QED
    BY <2>2, <2>3, <2>4 DEF Next
<1> QED
  BY <1>1, <1>2, InvHolds, PTL DEF Spec

(* A CR that is submitted once is activated at most once: however many     *)
(* webhooks, readers and reviewers bring its result, whoever dies or       *)
(* withdraws between two steps, and whatever calls fail, all but one lose  *)
(* the compare-and-set of sync_flow_result.  (Not if the activator is told *)
(* that a commit failed which did not.)                                    *)
THEOREM OneActivation ==
  ASSUME MaxRounds = 1, "manual" \notin Ops, "commit" \notin FaultKinds
  PROVE  Spec => []ActivatedOnce
<1>1. OnceInv => ActivatedOnce
  BY DEF OnceInv, ActivatedOnce
<1> QED
  BY <1>1, OnceHolds, PTL

-----------------------------------------------------------------------------
(* Requests bring what the flow engine decided.                            *)

(* A finished instance never changes.                                      *)
Frozen == \A i \in 1 .. Newest : inst[i].state # "ACTIVE" => inst'[i] = inst[i]

GoodEvent(s) ==
  call[s].at \in {"y_current", "y_decide"} =>
    inst[call[s].i].state # "ACTIVE" /\ call[s].arg = EventOf(inst[call[s].i])

(* An instance completes with a decision; whoever brings an event brings   *)
(* that of an instance which has finished.                                 *)
EventOK ==
  /\ \A i \in 1 .. Newest : inst[i].state = "COMPLETED" => inst[i].decision \in Decisions
  /\ \A s \in Slots : GoodEvent(s)

(* Completing a task and cancelling leave finished instances alone.        *)
LEMMA EngineFreezes ==
  ASSUME Inv, NEW i \in 1 .. Newest,
         \/ UNCHANGED inst
         \/ \E act : CompleteTask(i, act)
         \/ CancelInstance(i)
  PROVE  Frozen
<1>1. inst \in Seq(Instances) /\ Newest = Len(inst)
  BY DEF Inv, TypeOK, Newest
<1>2. CASE UNCHANGED inst
  BY <1>2 DEF Frozen
<1>3. CASE \E act : CompleteTask(i, act)
  BY <1>1, <1>3 DEF CompleteTask, Open, Frozen
<1>4. CASE CancelInstance(i)
  BY <1>1, <1>4 DEF CancelInstance, Frozen
<1> QED
  BY <1>2, <1>3, <1>4

(* What a step does to the instances: it starts one, or keeps them.        *)
LEMMA EngineStep ==
  ASSUME Inv, [Next]_vars
  PROVE  \/ InstKept /\ Frozen
         \/ \E s \in Slots : SubmitStart(s) /\ NewInstance(call[s].round)
<1>1. CASE UNCHANGED inst
  BY <1>1, SameKeeps DEF Inv, Frozen
<1>2. ASSUME NEW s \in Slots, SubmitConfirm(s) \/ WithdrawCancel(s) \/ ReviewAct(s)
      PROVE  InstKept /\ Frozen
  <2>1. call[s].i \in 1 .. Newest
    BY <1>2 DEF Inv, GoodCall, OnInstance, At, SubmitConfirm, WithdrawCancel, ReviewAct
  <2>2. \/ UNCHANGED inst \/ CancelInstance(call[s].i)
        \/ \E act : CompleteTask(call[s].i, act)
    BY <1>2, Zenon DEF SubmitConfirm, WithdrawCancel, ReviewAct
  <2> QED
    BY <1>2, <2>1, <2>2, FlowKept, EngineFreezes
<1>3. ASSUME NEW i \in 1 .. Newest, Console(i) \/ \E act \in TaskActions : TodoCentre(i, act)
      PROVE  InstKept /\ Frozen
  <2>1. CancelInstance(i) \/ \E act \in TaskActions : CompleteTask(i, act)
    BY <1>3, Zenon DEF Console, TodoCentre
  <2> QED
    BY <2>1, CompleteKeeps, CancelKeeps, EngineFreezes DEF Inv
<1>4. ASSUME NEW s \in Slots, SubmitStart(s)
      PROVE  NewInstance(call[s].round) \/ UNCHANGED inst
  BY <1>4 DEF SubmitStart
<1>5. ASSUME NEW s \in Slots, Request(s) \/ Dies(s)
      PROVE  UNCHANGED inst
  BY <1>5 DEF Request, Submit, AbortCheck, WithdrawCheck, ReviewCheck, Callback, LazyCheck,
              ManualActivate, Dies
<1>6. ASSUME NEW s \in Slots, Handler(s), ~SubmitStart(s), ~SubmitConfirm(s), ~WithdrawCancel(s),
             ~ReviewAct(s)
      PROVE  UNCHANGED inst
  BY <1>6 DEF Handler, SubmitRead, SubmitQuery, SubmitRevert, AbortSet, WithdrawQuery, WithdrawSet,
              ReviewLocate, LazyQuery, LazyDraft, SyncCurrent, SyncDecide, ActivateRead,
              ActivateCommit, ActivateUnset
<1>7. GrowOld \/ UNCHANGED vars => UNCHANGED inst
  BY DEF GrowOld, vars
<1> QED
  BY <1>1, <1>2, <1>3, <1>4, <1>5, <1>6, <1>7 DEF Next, FlowUser

(* A request that moves brings no event, or one that has happened.         *)
LEMMA EventMove ==
  ASSUME Inv, EventOK, NEW s \in Slots, Request(s) \/ Handler(s) \/ Dies(s)
  PROVE  Only(s) /\ GoodEvent(s)'
<1> USE DEF Inv
<1>1. CASE Return(s)
  BY <1>1, ReturnAt DEF Only, GoodEvent
<1>2. CASE \E place \in Places \ {"y_current", "y_decide"} : \E i, arg : Goto(s, place, i, arg)
  BY <1>2, GotoAt DEF Only, GoodEvent
<1>3. CASE UNCHANGED inst /\ \E i \in 1 .. Newest : inst[i].state # "ACTIVE" /\ Goto(s, "y_current", i, EventOf(inst[i]))
  BY <1>3, GotoAt DEF Only, GoodEvent
<1>4. CASE ReviewAct(s)
  <2>1. CASE /\ CompleteTask(call[s].i, call[s].arg) /\ call[s].arg \in Decisions
             /\ Goto(s, "y_current", call[s].i, "completed")
    <3>1. call[s].i \in 1 .. Newest
      BY <1>4 DEF ReviewAct, At, GoodCall, OnInstance
    <3>2. inst[call[s].i] \in Instances
      BY <3>1 DEF TypeOK, Newest
    <3>3. Completed(inst[call[s].i], call[s].arg) =
            [inst[call[s].i] EXCEPT !.state = "COMPLETED", !.decision = call[s].arg]
      BY <2>1 DEF Completed, Decisions
    <3>4. inst'[call[s].i].state = "COMPLETED"
      BY <2>1, <3>1, <3>2, <3>3 DEF CompleteTask, TypeOK, Newest, Instances
    <3> QED
      BY <2>1, <3>4, GotoAt DEF Only, GoodEvent, EventOf
  <2> QED
    BY <1>1, <1>4, <2>1 DEF ReviewAct
<1>5. CASE SyncCurrent(s)
  <2>1. UNCHANGED inst /\ GoodEvent(s) /\ call[s].at = "y_current"
    BY <1>5 DEF SyncCurrent, At, EventOK
  <2>2. CASE Goto(s, "y_decide", call[s].i, call[s].arg)
    BY <2>1, <2>2, GotoAt DEF Only, GoodEvent
  <2> QED
    BY <1>1, <1>5, <2>2 DEF SyncCurrent
<1>6. CASE WithdrawQuery(s) \/ LazyQuery(s)
  <2>1. UNCHANGED inst /\ Newest \in Nat /\ (Newest # 0 => Newest \in 1 .. Newest)
    BY <1>6 DEF WithdrawQuery, LazyQuery, TypeOK, Newest
  <2>2. \/ Return(s) \/ Goto(s, "w_cancel", Newest, "none") \/ Goto(s, "l_draft", 0, "none")
        \/ /\ Newest # 0 /\ inst[Newest].state # "ACTIVE"
           /\ Goto(s, "y_current", Newest, EventOf(inst[Newest]))
    BY <1>6 DEF WithdrawQuery, LazyQuery
  <2>3. {"w_cancel", "l_draft"} \subseteq Places \ {"y_current", "y_decide"}
    BY DEF Places
  <2> QED
    BY <1>1, <1>2, <1>3, <2>1, <2>2, <2>3
<1>7. CASE Submit(s)
  BY <1>7 DEF Submit, TypeOK, Only, GoodEvent
<1>8. CASE Request(s) /\ ~Submit(s)
  <2>1. CASE \E i \in 1 .. Newest : Callback(s, i)
    BY <1>3, <2>1 DEF Callback
  <2>2. CASE ~\E i \in 1 .. Newest : Callback(s, i)
    <3>1. \E place \in {"a_set", "w_query", "r_locate", "l_query", "m_read"} : \E i, arg : Goto(s, place, i, arg)
      BY <1>8, <2>2, Zenon DEF Request, AbortCheck, WithdrawCheck, ReviewCheck, LazyCheck, ManualActivate
    <3> QED
      BY <1>2, <3>1 DEF Places
  <2> QED
    BY <2>1, <2>2
<1>9. CASE \/ SubmitRead(s) \/ SubmitQuery(s) \/ SubmitStart(s) \/ SubmitConfirm(s) \/ SubmitRevert(s)
          \/ AbortSet(s) \/ WithdrawCancel(s) \/ WithdrawSet(s) \/ ReviewLocate(s) \/ LazyDraft(s)
          \/ SyncDecide(s) \/ ActivateRead(s) \/ ActivateCommit(s) \/ ActivateUnset(s) \/ Dies(s)
  <2>1. Return(s) \/ \E place \in {"s_query", "s_start", "s_confirm", "s_revert", "w_set", "r_act", "y_read",
                                   "y_commit", "m_commit", "y_unset"} : \E i, arg : Goto(s, place, i, arg)
    BY <1>9, Zenon DEF SubmitRead, SubmitQuery, SubmitStart, SubmitConfirm, SubmitRevert, AbortSet,
           WithdrawCancel, WithdrawSet, ReviewLocate, LazyDraft, SyncDecide, ActivateRead,
           ActivateCommit, ActivationFails, ActivateUnset, Dies
  <2> QED
    BY <1>1, <1>2, <2>1 DEF Places
<1> QED
  BY <1>4, <1>5, <1>6, <1>7, <1>8, <1>9 DEF Handler

LEMMA EventHolds == Spec => [](Inv /\ EventOK)
<1>1. Init => EventOK
  BY DEF Init, EventOK, GoodEvent, Idle, Newest
<1>2. Inv /\ EventOK /\ [Next]_vars => EventOK'
  <2> SUFFICES ASSUME Inv, EventOK, [Next]_vars PROVE EventOK'
    OBVIOUS
  <2>1. /\ InstGrows
        /\ \A i \in 1 .. Newest : inst[i].state # "ACTIVE" => inst'[i] = inst[i]
    <3>1. CASE InstKept /\ Frozen
      BY <3>1, KeptGrows DEF Inv, Frozen
    <3>2. CASE \E s \in Slots : SubmitStart(s) /\ NewInstance(call[s].round)
      <4>1. inst' \in Seq(Instances)
        BY NextInv DEF Inv, TypeOK
      <4>2. \A i \in 1 .. Newest : inst'[i] = inst[i]
        BY <3>2 DEF NewInstance, Inv, TypeOK, Newest
      <4> QED
        BY <3>2, <4>1, <4>2, NewGrows DEF Inv
    <3> QED
      BY <3>1, <3>2, EngineStep
  <2>2. \A i \in 1 .. Len(inst') : inst'[i].state = "COMPLETED" => inst'[i].decision \in Decisions
    BY <2>1 DEF EventOK, InstGrows, Newest, Inv, TypeOK
  <2>3. ASSUME NEW t \in Slots, call'[t] = call[t]
        PROVE  GoodEvent(t)'
    BY <2>1, <2>3 DEF EventOK, GoodEvent, Inv, GoodCall, OnInstance
  <2>4. \A t \in Slots : GoodEvent(t)'
    <3>1. ASSUME NEW s \in Slots, Request(s) \/ Handler(s) \/ Dies(s)
          PROVE  \A t \in Slots : GoodEvent(t)'
      BY <2>3, <3>1, EventMove DEF Only
    <3>2. FlowUser \/ GrowOld \/ UNCHANGED vars => call' = call
      BY DEF FlowUser, TodoCentre, Console, GrowOld, vars
    <3> QED
      BY <2>3, <3>1, <3>2 DEF Next
  <2> QED
    BY <2>2, <2>4 DEF EventOK, Newest
<1> QED
  BY <1>1, <1>2, InvHolds, PTL DEF Spec

-----------------------------------------------------------------------------
(* A CR that is activating is in somebody's hands, as long as none dies.   *)

Held == doc = "activating" => \E s \in Slots : Token(s)

(* A step that does not make the CR activating and takes no token away.    *)
LEMMA HeldKept ==
  ASSUME Inv, Held, NEW s \in Slots, Only(s), doc' = "activating" => doc = "activating" /\ ~Token(s)
  PROVE  Held'
BY DEF Held, Only, Token, Inv, TypeOK

(* The steps that take a token, keep it or spend it.                       *)
LEMMA HeldToken ==
  ASSUME Inv, Held, NEW s \in Slots,
         SyncDecide(s) \/ ActivateRead(s) \/ ActivateCommit(s) \/ ActivateUnset(s)
  PROVE  Held'
<1>1. Token(s)' => Held'
  BY DEF Held
<1>2. \A place, i, arg : Goto(s, place, i, arg) => call'[s].at = place /\ Only(s)
  BY GotoAt DEF Inv, Only
<1>3. Return(s) => Only(s)
  BY ReturnAt DEF Inv, Only
<1>4. CASE SyncDecide(s)
  <2>1. Token(s)' \/ doc' # "activating" \/ (doc' = doc /\ Return(s))
    BY <1>2, <1>4 DEF SyncDecide, TryWins, TryLoses, Token, TokenPlaces
  <2>2. Only(s) /\ ~Token(s)
    BY <1>2, <1>3, <1>4, Zenon DEF SyncDecide, At, Token, TokenPlaces
  <2> QED
    BY <1>1, <2>1, <2>2, HeldKept DEF Held
<1>5. CASE ActivateRead(s)
  <2>1. doc' = doc
    BY <1>5 DEF ActivateRead
  <2>2. CASE Goto(s, "y_commit", call[s].i, "none") \/ Goto(s, "y_unset", 0, "none")
    BY <1>1, <1>2, <2>2 DEF Token, TokenPlaces
  <2>3. CASE At(s, "m_read")
    <3>1. Only(s)
      BY <1>2, <1>3, <1>5, <2>3, Zenon DEF ActivateRead, ActivationFails, At
    <3>2. ~Token(s)
      BY <2>3 DEF At, Token, TokenPlaces
    <3> QED
      BY <2>1, <3>1, <3>2, HeldKept
  <2> QED
    BY <1>5, <2>2, <2>3 DEF ActivateRead, ActivationFails, At
<1>6. CASE ActivateCommit(s)
  <2>1. CASE Goto(s, "y_unset", 0, "none")
    BY <1>1, <1>2, <2>1 DEF Token, TokenPlaces
  <2>2. CASE Return(s) /\ doc' = "activated"
    BY <2>2 DEF Held
  <2>3. CASE Return(s) /\ doc' = doc /\ At(s, "m_commit")
    BY <1>3, <2>3, HeldKept DEF At, Token, TokenPlaces
  <2> QED
    BY <1>6, <2>1, <2>2, <2>3 DEF ActivateCommit, ActivationFails, Committed, SetDoc, At
<1>7. CASE ActivateUnset(s)
  BY <1>7 DEF ActivateUnset, SetDoc, Held
<1> QED
  BY <1>4, <1>5, <1>6, <1>7

(* The other steps, unless a process dies that holds the CR.               *)
LEMMA HeldElsewhere ==
  ASSUME Inv, Held, NEW s \in Slots, "crash" \notin FaultKinds,
         \/ Request(s)
         \/ SubmitRead(s) \/ SubmitQuery(s) \/ SubmitStart(s) \/ SubmitConfirm(s) \/ SubmitRevert(s)
         \/ AbortSet(s) \/ WithdrawQuery(s) \/ WithdrawCancel(s) \/ WithdrawSet(s)
         \/ ReviewLocate(s) \/ ReviewAct(s) \/ LazyQuery(s) \/ LazyDraft(s) \/ SyncCurrent(s) \/ Dies(s)
  PROVE  Held'
<1>1. CASE Request(s)
  <2>1. call[s] = Idle /\ \A t \in Slots \ {s} : call'[t] = call[t]
    BY <1>1 DEF Request, Submit, AbortCheck, WithdrawCheck, ReviewCheck, Callback, LazyCheck,
                ManualActivate, Begins, Goto, Inv, TypeOK
  <2>2. doc' = "activating" => doc = "activating"
    BY <1>1 DEF Request, Submit, TryWins, AbortCheck, WithdrawCheck, ReviewCheck, Callback, LazyCheck,
                ManualActivate
  <2> QED
    BY <2>1, <2>2, HeldKept DEF Only, Idle, Token, TokenPlaces
<1>2. CASE Dies(s)
  <2>1. doc' = doc /\ ~Token(s) /\ Return(s)
    BY <1>2 DEF Dies, Fault, Submitting, Token, TokenPlaces
  <2> QED
    BY <2>1, ReturnAt, HeldKept DEF Inv, Only
<1>3. CASE ~Request(s) /\ ~Dies(s)
  <2>1. ~Token(s)
    BY <1>3 DEF SubmitRead, SubmitQuery, SubmitStart, SubmitConfirm, SubmitRevert, AbortSet, WithdrawQuery,
         WithdrawCancel, WithdrawSet, ReviewLocate, ReviewAct, LazyQuery, LazyDraft, SyncCurrent,
         At, Token, TokenPlaces
  <2>2. doc' = "activating" => doc = "activating"
    BY <1>3 DEF SubmitRead, SubmitQuery, SubmitStart, SubmitConfirm, SubmitRevert, AbortSet, WithdrawQuery,
         WithdrawCancel, WithdrawSet, ReviewLocate, ReviewAct, LazyQuery, LazyDraft, SyncCurrent,
         SetDoc, TryWins, TryLoses
  <2>3. Return(s) \/ \E place, i, arg : Goto(s, place, i, arg)
    BY <1>3, Zenon DEF SubmitRead, SubmitQuery, SubmitStart, SubmitConfirm, SubmitRevert, AbortSet, WithdrawQuery,
         WithdrawCancel, WithdrawSet, ReviewLocate, ReviewAct, LazyQuery, LazyDraft, SyncCurrent
  <2>4. Only(s)
    BY <2>3, GotoAt, ReturnAt DEF Inv, Only
  <2> QED
    BY <2>1, <2>2, <2>4, HeldKept
<1> QED
  BY <1>1, <1>2, <1>3

(* Only a request that dies, or cannot set the status back, leaves a CR    *)
(* activating with nobody at work on it: ResultIsApplied exempts nothing   *)
(* else.                                                                   *)
THEOREM NobodyAbandons ==
  ASSUME "crash" \notin FaultKinds
  PROVE  Spec => []~Abandoned
<1>1. Init => Held
  BY DEF Init, Held
<1>2. Inv /\ Held /\ [Next]_vars => Held'
  <2> SUFFICES ASSUME Inv, Held, [Next]_vars PROVE Held'
    OBVIOUS
  <2>1. ASSUME NEW s \in Slots, Request(s) \/ Handler(s) \/ Dies(s) PROVE Held'
    BY <2>1, HeldToken, HeldElsewhere DEF Handler
  <2>2. CASE FlowUser \/ GrowOld \/ UNCHANGED vars
    <3>1. UNCHANGED <<doc, call>>
      BY <2>2 DEF FlowUser, TodoCentre, Console, GrowOld, vars
    <3> QED
      BY <3>1 DEF Held, Token
  <2> QED
    BY <2>1, <2>2 DEF Next
<1>3. Held => ~Abandoned
  BY DEF Held, Abandoned, Token, TokenPlaces
<1> QED
  BY <1>1, <1>2, <1>3, InvHolds, PTL DEF Spec

-----------------------------------------------------------------------------
(* The approval is the one that ApprovalContract promises, as long as      *)
(* handlers that write the CR without comparing it, do it in the state     *)
(* they believe it to be in.                                               *)

Honest(s) ==
  /\ At(s, "s_start") => Verdict = "none"
  /\ call[s].at \in {"s_revert", "w_set", "y_commit", "y_unset"} => doc \in Activatable
  /\ At(s, "a_set") => doc = "draft"
  /\ At(s, "y_decide") /\ doc = "approving" => call[s].i = Newest /\ inst[Newest].round = round
  /\ At(s, "y_commit") => Verdict = "approve"
  /\ ~At(s, "m_commit")

(* The flow engine gives a verdict once.                                   *)
Judged ==
  \/ Verdict' = Verdict
  \/ Verdict = "none" /\ Verdict' \in {"approve", "reject", "cancel"}

LEMMA EngineJudges ==
  ASSUME Inv, EventOK, EventOK', InstKept, Frozen, round' = round
  PROVE  Judged
<1>1. Newest \in Nat /\ Len(inst') = Newest
  BY DEF Inv, TypeOK, Newest, InstKept
<1>2. CASE Newest = 0
  <2>1. Verdict = "none" /\ Verdict' = "none"
    BY <1>1, <1>2 DEF Verdict, Newest
  <2> QED
    BY <2>1 DEF Judged
<1>3. CASE Newest # 0
  <2>1. /\ Newest \in 1 .. Newest /\ inst'[Newest].round = inst[Newest].round
        /\ inst[Newest].state # "ACTIVE" => inst'[Newest] = inst[Newest]
    BY <1>1, <1>3 DEF InstKept, Frozen
  <2>2. /\ inst'[Newest].state \in InstStates
        /\ inst'[Newest].state = "COMPLETED" => inst'[Newest].decision \in Decisions
    <3>1. inst' \in Seq(Instances) /\ Newest \in 1 .. Len(inst')
      BY <1>1, <2>1 DEF InstKept
    <3>2. inst'[Newest] \in Instances
      BY <3>1
    <3>3. \A i \in 1 .. Len(inst') : inst'[i].state = "COMPLETED" => inst'[i].decision \in Decisions
      BY DEF EventOK, Newest
    <3> QED
      BY <3>1, <3>2, <3>3 DEF Instances
  <2>3. CASE inst[Newest].round # round \/ inst[Newest].state = "ACTIVE"
    <3>1. Verdict = "none"
      BY <2>3 DEF Verdict
    <3>2. Verdict' \in {"none", "approve", "reject", "cancel"}
      BY <1>1, <2>2 DEF Verdict, Newest, InstStates, Decisions
    <3> QED
      BY <3>1, <3>2 DEF Judged
  <2>4. CASE inst[Newest].round = round /\ inst[Newest].state # "ACTIVE"
    <3>1. Verdict' = Verdict
      BY <1>1, <2>1, <2>4 DEF Verdict, Newest
    <3> QED
      BY <3>1 DEF Judged
  <2> QED
    BY <2>3, <2>4
<1> QED
  BY <1>2, <1>3

(* The verdict stays when neither instances nor rounds change.             *)
LEMMA VerdictStays == UNCHANGED <<inst, round>> => Verdict' = Verdict
BY DEF Verdict, Newest

(* A step that leaves the CR's status and activations alone.               *)
LEMMA ContractJudge ==
  ASSUME Judged, UNCHANGED <<doc, applied>>
  PROVE  [Contract!Next]_(Contract!vars)
BY DEF Judged, Contract!Next, Contract!Judge, Contract!vars

LEMMA ContractSubmit ==
  ASSUME Inv, NEW s \in Slots, Submit(s)
  PROVE  Contract!Submit
<1>1. /\ doc \in {"draft", "rejected"} /\ doc' = "approving" /\ applied' = applied
      /\ inst' = inst /\ round' = round + 1
  BY DEF Submit, TryWins
<1>2. Newest \in Nat /\ round \in Nat /\ \A i \in 1 .. Newest : inst[i].round <= round
  BY DEF Inv, TypeOK, RoundOK, Newest
<1>3. Verdict' = "none"
  BY <1>1, <1>2 DEF Verdict, Newest
<1> QED
  BY <1>1, <1>3 DEF Contract!Submit

(* A started instance has no verdict, as the submission had none.          *)
LEMMA ContractStart ==
  ASSUME Inv, NEW s \in Slots, Honest(s), SubmitStart(s), NewInstance(call[s].round)
  PROVE  [Contract!Next]_(Contract!vars)
<1>1. UNCHANGED <<doc, round, applied>> /\ Verdict = "none"
  BY DEF SubmitStart, Honest
<1>2. /\ Newest \in Nat
      /\ inst' = Append(inst, [state |-> "ACTIVE", node |-> "apply", decision |-> "none", round |-> call[s].round])
  BY DEF Inv, TypeOK, NewInstance, Newest
<1>3. Len(inst') = Newest + 1 /\ inst'[Newest + 1].state = "ACTIVE"
  BY <1>2 DEF Inv, TypeOK, Newest
<1>4. Verdict' = "none"
  BY <1>2, <1>3 DEF Verdict, Newest
<1> QED
  BY <1>1, <1>4 DEF Contract!vars

(* The steps that write the CR.                                            *)
LEMMA ContractWrite ==
  ASSUME Inv, EventOK, NEW s \in Slots, Honest(s),
         SubmitRevert(s) \/ AbortSet(s) \/ WithdrawSet(s) \/ LazyDraft(s) \/ SyncDecide(s) \/ ActivateUnset(s)
  PROVE  [Contract!Next]_(Contract!vars)
<1>1. Verdict' = Verdict /\ applied' = applied
  BY VerdictStays DEF SubmitRevert, AbortSet, WithdrawSet, LazyDraft, SyncDecide, ActivateUnset
<1>2. CASE doc' = doc
  BY <1>1, <1>2, ContractJudge DEF Judged
<1>3. CASE doc \in Activatable /\ doc' = "draft"
  BY <1>1, <1>3 DEF Contract!Next, Contract!Withdraw, Contract!Ends, Activatable
<1>4. CASE SubmitRevert(s) \/ WithdrawSet(s) \/ LazyDraft(s)
  BY <1>2, <1>3, <1>4 DEF SubmitRevert, WithdrawSet, LazyDraft, SetDoc, TryWins, TryLoses, At, Honest, Activatable
<1>5. CASE AbortSet(s)
  <2>1. doc = "draft" /\ doc' = "aborted"
    BY <1>5 DEF AbortSet, SetDoc, At, Honest
  <2> QED
    BY <1>1, <2>1 DEF Contract!Next, Contract!Abort, Contract!Ends
<1>6. CASE ActivateUnset(s)
  <2>1. doc \in Activatable /\ doc' = "approving"
    BY <1>6 DEF ActivateUnset, SetDoc, At, Honest
  <2> QED
    BY <1>1, <2>1 DEF Contract!vars, Activatable
<1>7. CASE SyncDecide(s) /\ doc' # doc
  <2> DEFINE v == inst[call[s].i]
  <2>1. doc = "approving" /\ call[s].i = Newest /\ Newest # 0 /\ v.round = round
    <3>1. doc = "approving" /\ At(s, "y_decide")
      BY <1>7 DEF SyncDecide, TryWins, TryLoses
    <3> QED
      BY <3>1 DEF Honest, Inv, GoodCall, OnInstance, At, TypeOK, Newest
  <2>2. v.state # "ACTIVE" /\ call[s].arg = EventOf(v)
    BY <1>7 DEF SyncDecide, At, EventOK, GoodEvent
  <2>3. v.state \in InstStates /\ (v.state = "COMPLETED" => v.decision \in Decisions)
    <3>1. Newest \in 1 .. Newest /\ inst[Newest] \in Instances
      BY <2>1 DEF Inv, TypeOK, Newest
    <3> QED
      BY <2>1, <3>1 DEF Instances, EventOK
  <2>4. \/ v.state = "TERMINATED" /\ doc' = "aborted"
        \/ v.state = "COMPLETED" /\ v.decision = "reject" /\ doc' = "rejected"
        \/ doc' = "activating"
    BY <1>7, <2>2, <2>3 DEF SyncDecide, TryWins, TryLoses, Rejected, EventOf, InstStates, Decisions
  <2>5. CASE v.state = "TERMINATED" /\ doc' = "aborted"
    BY <1>1, <2>1, <2>5 DEF Verdict, Contract!Next, Contract!Cancel, Contract!Ends
  <2>6. CASE v.state = "COMPLETED" /\ v.decision = "reject" /\ doc' = "rejected"
    BY <1>1, <2>1, <2>6 DEF Verdict, Contract!Next, Contract!Reject, Contract!Ends
  <2>7. CASE doc' = "activating"
    BY <1>1, <2>1, <2>7 DEF Contract!vars
  <2> QED
    BY <2>4, <2>5, <2>6, <2>7
<1> QED
  BY <1>2, <1>4, <1>5, <1>6, <1>7

LEMMA ContractCommit ==
  ASSUME Inv, NEW s \in Slots, Honest(s), doc \in Activatable => applied < 2,
         "commit" \notin FaultKinds, ActivateCommit(s)
  PROVE  [Contract!Next]_(Contract!vars)
<1>1. Verdict' = Verdict /\ applied \in Nat
  BY VerdictStays DEF ActivateCommit, Inv, TypeOK
<1>2. CASE UNCHANGED <<doc, applied>>
  BY <1>1, <1>2, ContractJudge DEF Judged
<1>3. CASE Committed(s)
  <2>1. doc \in Activatable /\ doc' = "activated" /\ Verdict = "approve" /\ At(s, "y_commit")
    BY <1>3 DEF ActivateCommit, Honest, Committed, SetDoc, At
  <2>2. applied' = applied + 1
    BY <1>1, <1>3, <2>1 DEF Committed, At
  <2> QED
    BY <1>1, <2>1, <2>2 DEF Contract!Next, Contract!Publish, Activatable
<1> QED
  BY <1>2, <1>3 DEF ActivateCommit

(* A step of honest requests is a step of the contract.                    *)
LEMMA ContractStep ==
  ASSUME Inv, EventOK, EventOK', \A s \in Slots : Honest(s), doc \in Activatable => applied < 2,
         "commit" \notin FaultKinds, [Next]_vars
  PROVE  [Contract!Next]_(Contract!vars)
<1>1. CASE \E s \in Slots : Submit(s)
  BY <1>1, ContractSubmit DEF Contract!Next
<1>2. CASE \E s \in Slots : SubmitStart(s) /\ NewInstance(call[s].round)
  BY <1>2, ContractStart
<1>3. CASE \E s \in Slots : \/ SubmitRevert(s) \/ AbortSet(s) \/ WithdrawSet(s) \/ LazyDraft(s)
                          \/ SyncDecide(s) \/ ActivateUnset(s) \/ ActivateCommit(s)
  BY <1>3, ContractWrite, ContractCommit
<1>4. CASE /\ InstKept /\ Frozen
           /\ ~\E s \in Slots :
                \/ Submit(s) \/ SubmitRevert(s) \/ AbortSet(s) \/ WithdrawSet(s) \/ LazyDraft(s)
                \/ SyncDecide(s) \/ ActivateUnset(s) \/ ActivateCommit(s)
  <2>1. UNCHANGED <<doc, round, applied>>
    <3>1. ASSUME NEW s \in Slots, Request(s) PROVE UNCHANGED <<doc, round, applied>>
      BY <1>4, <3>1 DEF Request, AbortCheck, WithdrawCheck, ReviewCheck, Callback, LazyCheck, ManualActivate
    <3>2. ASSUME NEW s \in Slots, Handler(s) \/ Dies(s) PROVE UNCHANGED <<doc, round, applied>>
      BY <1>4, <3>2 DEF Handler, SubmitRead, SubmitQuery, SubmitStart, SubmitConfirm, WithdrawQuery,
         WithdrawCancel, ReviewLocate, ReviewAct, LazyQuery, SyncCurrent, ActivateRead, Dies
    <3>3. FlowUser \/ GrowOld \/ UNCHANGED vars => UNCHANGED <<doc, round, applied>>
      BY DEF FlowUser, TodoCentre, Console, GrowOld, vars
    <3> QED
      BY <3>1, <3>2, <3>3 DEF Next
  <2> QED
    BY <1>4, <2>1, EngineJudges, ContractJudge
<1> QED
  BY <1>1, <1>2, <1>3, <1>4, EngineStep

LEMMA ContractInit == Init => Contract!Init
BY DEF Init, Contract!Init, Verdict, Newest

-----------------------------------------------------------------------------
(* A CR that is submitted once.                                            *)

Sub(s) == call[s].at \in Submitting

(* The submission is not over while no instance exists, unless it died;    *)
(* the lazy sync gives the CR back only then.                              *)
RoundInv ==
  /\ round = 0 => doc = "draft" /\ stale = FALSE /\ \A s \in Slots : call[s] = Idle
  /\ \A s, t \in Slots : Sub(s) /\ Sub(t) => s = t
  /\ \A s, t \in Slots : stale = TRUE \/ At(t, "l_draft") => ~Sub(s)
  /\ \A s \in Slots : Sub(s) /\ ~At(s, "s_confirm") => Newest = 0 /\ doc = "approving"
  /\ \A s \in Slots : Token(s) => doc = "activating" /\ Newest > 0
  /\ \A s \in Slots : call[s].at \notin ManualPlaces \cup {"a_set", "w_query", "w_cancel", "w_set"}

(* One request moves.                                                      *)
LEMMA RoundKept ==
  ASSUME Inv, RoundInv, NEW s \in Slots, Only(s), round' = round, round # 0,
         stale' = TRUE => stale = TRUE,
         Sub(s)' => Sub(s), At(s, "l_draft")' => stale = TRUE,
         call'[s].at \notin ManualPlaces \cup {"a_set", "w_query", "w_cancel", "w_set"},
         Sub(s)' /\ ~At(s, "s_confirm")' => Newest' = 0 /\ doc' = "approving",
         Token(s)' => doc' = "activating" /\ Newest' > 0,
         \A t \in Slots \ {s} : Sub(t) /\ ~At(t, "s_confirm") => Newest' = 0 /\ doc' = "approving",
         \A t \in Slots \ {s} : Token(t) => doc' = "activating" /\ Newest' > 0
  PROVE  RoundInv'
<1>1. \A t \in Slots : Sub(t)' => Sub(t)
  BY DEF Only, Sub
<1>2. \A t \in Slots : At(t, "l_draft")' => stale = TRUE \/ At(t, "l_draft")
  BY DEF Only, At
<1> QED
  BY <1>1, <1>2 DEF RoundInv, Only, Sub, Token, At

(* One request moves, and the CR stays.                                    *)
LEMMA RoundMoves ==
  ASSUME Inv, RoundInv, NEW s \in Slots, UNCHANGED <<doc, stale, round>>, Len(inst') = Len(inst), round # 0,
         \/ Return(s)
         \/ \E place \in {"r_locate", "r_act", "y_current", "y_decide", "l_query"} : \E i, arg : Goto(s, place, i, arg)
         \/ At(s, "s_read") /\ Goto(s, "s_query", 0, "none")
         \/ At(s, "s_query") /\ \E place \in {"s_start", "s_revert"} : Goto(s, place, 0, "none")
         \/ At(s, "s_start") /\ Goto(s, "s_revert", 0, "none")
         \/ Token(s) /\ \E place \in {"y_commit", "y_unset"} : \E i, arg : Goto(s, place, i, arg)
         \/ stale = TRUE /\ Goto(s, "l_draft", 0, "none")
  PROVE  RoundInv'
<1>1. /\ Only(s) /\ (Sub(s)' => Sub(s)) /\ (At(s, "l_draft")' => stale = TRUE) /\ (Token(s)' => Token(s))
      /\ call'[s].at \notin ManualPlaces \cup {"a_set", "w_query", "w_cancel", "w_set"}
      /\ ~At(s, "s_confirm")'
      /\ Sub(s)' => ~At(s, "s_confirm")
  BY GotoAt, ReturnAt DEF Inv, Only, Sub, Submitting, Token, TokenPlaces, At, ManualPlaces
<1> QED
  BY <1>1, RoundKept DEF RoundInv, Newest

(* The requests that begin.                                                *)
LEMMA RoundBegin ==
  ASSUME Inv, RoundInv, MaxRounds = 1, {"withdraw", "abort", "manual"} \cap Ops = {},
         NEW s \in Slots, Request(s)
  PROVE  RoundInv'
<1>1. CASE Submit(s)
  <2>1. round = 0 /\ round' = 1 /\ doc' = "approving" /\ inst' = inst /\ stale' = FALSE
    BY <1>1 DEF Submit, TryWins, Inv, TypeOK
  <2>2. Newest = 0 /\ \A t \in Slots : call[t].at = "idle"
    BY <2>1 DEF RoundInv, Idle, Inv, TypeOK, Newest
  <2>3. call'[s].at = "s_read" /\ Only(s)
    BY <1>1 DEF Submit, Inv, TypeOK, Only
  <2> QED
    BY <2>1, <2>2, <2>3 DEF RoundInv, Only, Sub, Submitting, Token, TokenPlaces, ManualPlaces, At, Newest
<1>2. CASE ~Submit(s)
  <2>1. \/ \E act \in TaskActions : ReviewCheck(s, act)
        \/ \E i \in 1 .. Newest : Callback(s, i)
        \/ LazyCheck(s)
    BY <1>2 DEF Request, AbortCheck, WithdrawCheck, ManualActivate, Begins
  <2>2. UNCHANGED <<doc, stale, inst, round>>
    BY <2>1 DEF ReviewCheck, Callback, LazyCheck
  <2>3. \E place \in {"r_locate", "y_current", "l_query"} : \E i, arg : Goto(s, place, i, arg)
    BY <2>1, Zenon DEF ReviewCheck, Callback, LazyCheck
  <2>4. round # 0
    BY <2>1 DEF ReviewCheck, Callback, LazyCheck, RoundInv, Inv, TypeOK, RoundOK, Newest
  <2> QED
    BY <2>2, <2>3, <2>4, RoundMoves
<1> QED
  BY <1>1, <1>2

(* The steps of requests in progress that leave the CR alone.              *)
LEMMA RoundQuiet ==
  ASSUME Inv, RoundInv, "timeout" \notin FaultKinds, NEW s \in Slots,
         \/ SubmitRead(s) \/ SubmitQuery(s) \/ SubmitStart(s) \/ SubmitConfirm(s)
         \/ ReviewLocate(s) \/ ReviewAct(s) \/ LazyQuery(s) \/ SyncCurrent(s) \/ ActivateRead(s) \/ Dies(s)
  PROVE  RoundInv'
<1>1. UNCHANGED <<doc, stale, round>>
  BY DEF SubmitRead, SubmitQuery, SubmitStart, SubmitConfirm, ReviewLocate, ReviewAct, LazyQuery,
         SyncCurrent, ActivateRead, Dies
<1>2. round # 0
  BY DEF RoundInv, Idle, At, SubmitRead, SubmitQuery, SubmitStart, SubmitConfirm, ReviewLocate, ReviewAct,
         LazyQuery, SyncCurrent, ActivateRead, Dies
<1>3. CASE SubmitStart(s) /\ NewInstance(call[s].round)
  <2>1. Goto(s, "s_confirm", Newest + 1, "none") /\ At(s, "s_start")
    <3>1. ~Fault("timeout")
      BY DEF Fault
    <3>2. Len(inst') # Len(inst)
      BY <1>3 DEF NewInstance, Inv, TypeOK
    <3> QED
      BY <1>3, <3>1, <3>2 DEF SubmitStart
  <2>2. call'[s].at = "s_confirm" /\ Only(s)
    BY <2>1, GotoAt DEF Inv, Only
  <2>3. \A t \in Slots \ {s} : ~Sub(t)
    BY <2>1 DEF RoundInv, Sub, Submitting, At
  <2>4. Newest' = Newest + 1 /\ Newest \in Nat
    BY <1>3 DEF NewInstance, Inv, TypeOK, Newest
  <2> QED
    BY <1>1, <1>2, <2>1, <2>2, <2>3, <2>4, RoundKept
    DEF RoundInv, Sub, Submitting, Token, TokenPlaces, ManualPlaces, At
<1>4. CASE ~(SubmitStart(s) /\ NewInstance(call[s].round))
  <2>1. Len(inst') = Len(inst)
    <3>1. SubmitConfirm(s) \/ ReviewAct(s) => InstKept
      BY FlowKept
    <3>2. ~SubmitConfirm(s) /\ ~ReviewAct(s) => UNCHANGED inst
      BY <1>4 DEF SubmitRead, SubmitQuery, SubmitStart, ReviewLocate, LazyQuery, SyncCurrent, ActivateRead, Dies
    <3> QED
      BY <3>1, <3>2 DEF InstKept, Newest
  <2>2. CASE SubmitRead(s) \/ SubmitQuery(s) \/ SubmitStart(s) \/ SubmitConfirm(s) \/ Dies(s)
    BY <1>1, <1>2, <1>4, <2>1, <2>2, RoundMoves DEF SubmitRead, SubmitQuery, SubmitStart, SubmitConfirm, Dies
  <2>3. CASE ReviewLocate(s) \/ ReviewAct(s) \/ SyncCurrent(s)
    <3>1. Return(s) \/ \E place \in {"r_act", "y_current", "y_decide"} : \E i, arg : Goto(s, place, i, arg)
      BY <2>3, Zenon DEF ReviewLocate, ReviewAct, SyncCurrent
    <3> QED
      BY <1>1, <1>2, <2>1, <3>1, RoundMoves
  <2>4. CASE LazyQuery(s)
    <3>1. Return(s) \/ (\E i, arg : Goto(s, "y_current", i, arg)) \/ (stale = TRUE /\ Goto(s, "l_draft", 0, "none"))
      BY <2>4, Zenon DEF LazyQuery
    <3> QED
      BY <1>1, <1>2, <2>1, <3>1, RoundMoves
  <2>5. CASE ActivateRead(s)
    <3>1. Token(s)
      BY <2>5 DEF ActivateRead, RoundInv, ManualPlaces, Token, TokenPlaces
    <3>2. \E place \in {"y_commit", "y_unset"} : \E i, arg : Goto(s, place, i, arg)
      BY <2>5, Zenon DEF ActivateRead, RoundInv, ManualPlaces, ActivationFails, At
    <3> QED
      BY <1>1, <1>2, <2>1, <3>1, <3>2, RoundMoves
  <2> QED
    BY <2>2, <2>3, <2>4, <2>5
<1> QED
  BY <1>3, <1>4

(* The steps that write the CR.                                            *)
LEMMA RoundWrite ==
  ASSUME Inv, OnceInv, RoundInv, "commit" \notin FaultKinds, NEW s \in Slots,
         SubmitRevert(s) \/ LazyDraft(s) \/ SyncDecide(s) \/ ActivateCommit(s) \/ ActivateUnset(s)
  PROVE  RoundInv'
<1>1. UNCHANGED <<inst, round>> /\ round # 0 /\ Newest' = Newest
  <2>1. UNCHANGED <<inst, round>> /\ call[s] # Idle
    BY DEF SubmitRevert, LazyDraft, SyncDecide, ActivateCommit, ActivateUnset, Idle, At
  <2> QED
    BY <2>1 DEF RoundInv, Newest
<1>2. stale' = TRUE => stale = TRUE
  BY DEF SubmitRevert, LazyDraft, SyncDecide, ActivateCommit, ActivateUnset, SetDoc, TryWins, TryLoses, Committed
<1> DEFINE Alone == /\ \A t \in Slots \ {s} : ~Token(t)
                    /\ \A t \in Slots \ {s} : Sub(t) => At(t, "s_confirm")
<1>3. CASE Return(s) /\ Alone
  <2>1. call'[s].at = "idle" /\ Only(s)
    BY <1>3, ReturnAt DEF Inv, Only
  <2> QED
    BY <1>1, <1>2, <1>3, <2>1, RoundKept DEF Sub, Submitting, Token, TokenPlaces, ManualPlaces, At
<1>4. CASE SubmitRevert(s)
  <2>1. Sub(s) /\ ~At(s, "s_confirm")
    BY <1>4 DEF SubmitRevert, Sub, Submitting, At
  <2> QED
    BY <1>3, <1>4, <2>1 DEF SubmitRevert, RoundInv
<1>5. CASE LazyDraft(s)
  <2>1. CASE UNCHANGED <<doc, stale>>
    BY <1>1, <1>5, <2>1, RoundMoves DEF LazyDraft
  <2>2. CASE doc = "approving"
    BY <1>3, <1>5, <2>2 DEF LazyDraft, RoundInv
  <2> QED
    BY <1>5, <2>1, <2>2 DEF LazyDraft, TryWins, TryLoses
<1>6. CASE SyncDecide(s)
  <2>1. CASE UNCHANGED <<doc, stale>> /\ Return(s)
    BY <1>1, <2>1, RoundMoves
  <2>2. CASE doc = "approving"
    <3>1. Newest > 0
      BY <1>6 DEF SyncDecide, At, Inv, GoodCall, OnInstance, TypeOK, Newest
    <3>2. Alone
      BY <2>2, <3>1 DEF RoundInv
    <3>3. CASE Goto(s, "y_read", call[s].i, "none") /\ doc' = "activating"
      <4>1. call'[s].at = "y_read" /\ Only(s)
        BY <3>3, GotoAt DEF Inv, Only
      <4> QED
        BY <1>1, <1>2, <3>1, <3>2, <3>3, <4>1, RoundKept DEF Sub, Submitting, Token, TokenPlaces, ManualPlaces, At
    <3> QED
      BY <1>3, <1>6, <2>1, <3>2, <3>3 DEF SyncDecide, TryWins, TryLoses
  <2> QED
    BY <1>6, <2>1, <2>2 DEF SyncDecide, TryWins, TryLoses
<1>7. CASE ActivateCommit(s) \/ ActivateUnset(s)
  <2>1. Token(s)
    BY <1>7 DEF ActivateCommit, ActivateUnset, RoundInv, ManualPlaces, Token, TokenPlaces, At
  <2>2. Alone
    BY <2>1 DEF OnceInv, RoundInv
  <2>3. CASE UNCHANGED <<doc, stale>> /\ Goto(s, "y_unset", 0, "none")
    BY <1>1, <2>1, <2>3, RoundMoves
  <2>4. Return(s) \/ (UNCHANGED <<doc, stale>> /\ Goto(s, "y_unset", 0, "none"))
    BY <1>7 DEF ActivateCommit, ActivateUnset, ActivationFails, Fault
  <2> QED
    BY <1>3, <2>2, <2>3, <2>4
<1> QED
  BY <1>4, <1>5, <1>6, <1>7

(* The requests of a CR that is submitted once are honest.                 *)
LEMMA RoundHonest ==
  ASSUME Inv, EventOK, OnceInv, RoundInv, MaxRounds = 1, ApprovedOK, NEW s \in Slots
  PROVE  Honest(s)
<1>1. Newest \in Nat /\ round \in Nat /\ Newest <= round /\ round <= 1
  BY DEF Inv, TypeOK, Newest
<1>2. At(s, "s_start") => Verdict = "none"
  BY DEF RoundInv, At, Sub, Submitting, Verdict
<1>3. Newest > 0 => Newest = 1 /\ inst[Newest].round = round
  BY <1>1 DEF Inv, RoundOK
<1>4. call[s].at \in {"s_revert", "y_commit", "y_unset"} => doc \in Activatable
  BY DEF RoundInv, At, Sub, Submitting, Token, TokenPlaces, Activatable
<1>5. At(s, "y_decide") => call[s].i \in 1 .. Newest
  BY DEF Inv, GoodCall, OnInstance, At
<1>6. At(s, "y_commit") => Verdict = "approve"
  <2> SUFFICES ASSUME At(s, "y_commit") PROVE Verdict = "approve"
    OBVIOUS
  <2>1. Approved(call[s].i)
    BY DEF ApprovedOK, GoodSync, At
  <2> QED
    BY <1>1, <1>3, <2>1 DEF Approved, Verdict
<1> QED
  BY <1>1, <1>2, <1>3, <1>4, <1>5, <1>6 DEF Honest, RoundInv, ManualPlaces, At

LEMMA RoundStep ==
  ASSUME Inv, OnceInv, RoundInv, MaxRounds = 1, {"withdraw", "abort", "manual"} \cap Ops = {},
         {"timeout", "commit"} \cap FaultKinds = {}, [Next]_vars
  PROVE  RoundInv'
<1>1. ASSUME NEW s \in Slots, Request(s) PROVE RoundInv'
  BY <1>1, RoundBegin
<1>2. ASSUME NEW s \in Slots, Handler(s) \/ Dies(s) PROVE RoundInv'
  <2>1. ~AbortSet(s) /\ ~WithdrawQuery(s) /\ ~WithdrawCancel(s) /\ ~WithdrawSet(s)
    BY DEF AbortSet, WithdrawQuery, WithdrawCancel, WithdrawSet, RoundInv, At
  <2> QED
    BY <1>2, <2>1, RoundQuiet, RoundWrite DEF Handler
<1>3. CASE FlowUser \/ UNCHANGED vars
  <2>1. UNCHANGED <<doc, stale, round, call>>
    BY <1>3 DEF FlowUser, TodoCentre, Console, vars
  <2>2. Newest' = Newest
    <3>1. ASSUME NEW i \in 1 .. Newest, Console(i) \/ \E act \in TaskActions : TodoCentre(i, act)
          PROVE  Newest' = Newest
      <4>1. CancelInstance(i) \/ \E act \in TaskActions : CompleteTask(i, act)
        BY <3>1, Zenon DEF Console, TodoCentre
      <4> QED
        BY <4>1, CompleteKeeps, CancelKeeps DEF Inv, InstKept, Newest
    <3> QED
      BY <1>3, <3>1 DEF FlowUser, vars, Newest
  <2> QED
    BY <2>1, <2>2 DEF RoundInv, Sub, Token, At
<1>4. CASE GrowOld
  <2>1. UNCHANGED <<doc, inst, round, call>> /\ doc = "approving" /\ \A s \in Slots : ~Sub(s)
    BY <1>4 DEF GrowOld, Sub
  <2> QED
    BY <2>1 DEF RoundInv, Sub, Token, At, Newest
<1> QED
  BY <1>1, <1>2, <1>3, <1>4 DEF Next

LEMMA RoundInit == Init => RoundInv
<1> SUFFICES ASSUME Init PROVE RoundInv
  OBVIOUS
<1>1. stale = FALSE /\ doc = "draft" /\ \A s \in Slots : call[s] = Idle /\ call[s].at = "idle"
  BY DEF Init, Idle
<1> QED
  BY <1>1 DEF RoundInv, Sub, Submitting, Token, TokenPlaces, ManualPlaces, At

(* A CR that is submitted once, and neither withdrawn nor aborted, is      *)
(* approved as ApprovalContract promises, however many webhooks, readers,  *)
(* reviews and users of the flow engine race for its result and whichever  *)
(* of their calls fail or die.                                             *)
THEOREM OneRoundKeepsContract ==
  ASSUME MaxRounds = 1, {"withdraw", "abort", "manual"} \cap Ops = {},
         {"timeout", "commit"} \cap FaultKinds = {}
  PROVE  Spec => ApprovesAsPromised
<1>1. "manual" \notin Ops /\ "commit" \notin FaultKinds
  OBVIOUS
<1>2. Inv /\ OnceInv /\ RoundInv /\ [Next]_vars => RoundInv'
  BY RoundStep
<1>3. Inv /\ EventOK /\ EventOK' /\ OnceInv /\ RoundInv /\ ApprovedOK /\ [Next]_vars
        => [Contract!Next]_(Contract!vars)
  <2> SUFFICES ASSUME Inv, EventOK, EventOK', OnceInv, RoundInv, ApprovedOK, [Next]_vars
               PROVE  [Contract!Next]_(Contract!vars)
    OBVIOUS
  <2>1. applied < 2
    BY DEF OnceInv, Inv, TypeOK
  <2> QED
    BY <1>1, <2>1, RoundHonest, ContractStep
<1>4. Spec => []ApprovedOK
  BY <1>1, ApprovedHolds
<1>5. Spec => [](Inv /\ OnceInv)
  BY <1>1, OnceHolds
<1> QED
  BY <1>2, <1>3, <1>4, <1>5, EventHolds, RoundInit, ContractInit, PTL DEF Spec, ApprovesAsPromised, Contract!Spec

=============================================================================
