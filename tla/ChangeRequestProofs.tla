------------------------ MODULE ChangeRequestProofs ------------------------
(***************************************************************************)
(* Theorems about the approval of a CR, for every number of requests in    *)
(* progress, rounds and faults.                                            *)
(***************************************************************************)
EXTENDS ChangeRequest, FiniteSetTheorems, TLAPS

-----------------------------------------------------------------------------
(* The strengthening of the type invariant.                                *)

Starting(s) == call[s].at \in {"s_read", "s_query", "s_start"}

OnInstance == {"s_confirm", "w_cancel", "r_act", "y_current", "y_decide"}

(* What a request remembers fits the place it is at.                       *)
GoodCall(s) ==
  /\ call[s].i \in 0 .. Newest
  /\ call[s].at \in {"r_locate", "r_act"} => call[s].arg \in TaskActions
  /\ call[s].at \in OnInstance => call[s].i \in 1 .. Newest

(* Every submission starts at most one instance, so instances do not       *)
(* outnumber submissions.                                                  *)
RoundOK ==
  /\ \A i \in 1 .. Newest : inst[i].round \in 1 .. round
  /\ \A i, j \in 1 .. Newest : i # j => inst[i].round # inst[j].round
  /\ \A s \in Slots : Starting(s) =>
       /\ call[s].round \in 1 .. round
       /\ \A i \in 1 .. Newest : inst[i].round # call[s].round
       /\ \A t \in Slots \ {s} : Starting(t) => call[t].round # call[s].round

Inv == TypeOK /\ RoundOK /\ \A s \in Slots : GoodCall(s)

-----------------------------------------------------------------------------
(* Lemmas on the building blocks.                                          *)

(* No instance is removed or changes its round; one that completes does so *)
(* with a decision, and never changes again.                               *)
InstKept ==
  /\ inst' \in Seq(Instances)
  /\ Len(inst') = Newest
  /\ \A i \in 1 .. Newest :
       /\ inst'[i].round = inst[i].round
       /\ inst[i].state = "COMPLETED" => inst'[i] = inst[i]
       /\ inst'[i].state = "COMPLETED" =>
            inst[i].state = "COMPLETED" \/ inst'[i].decision \in Decisions

(* The requests stay in their type; only one that was starting an instance *)
(* is still starting it; and what they remember fits their place.          *)
CallsKept ==
  /\ call' \in [Slots -> Requests]
  /\ \A t \in Slots :
       /\ GoodCall(t)'
       /\ Starting(t)' => Starting(t) /\ call'[t].round = call[t].round

(* A task that is completed leaves the other instances alone.              *)
LEMMA CompleteKeeps ==
  ASSUME TypeOK, NEW i \in 1 .. Newest, NEW act \in TaskActions, CompleteTask(i, act)
  PROVE  InstKept
<1>1. inst[i] \in Instances /\ inst[i].state = "ACTIVE"
  BY DEF TypeOK, CompleteTask, Open, Newest
<1>2. /\ Completed(inst[i], act) \in Instances
      /\ Completed(inst[i], act).round = inst[i].round
      /\ Completed(inst[i], act).state = "COMPLETED" =>
           Completed(inst[i], act).decision \in Decisions
  <2>1. CASE act = "apply"
    BY <1>1, <2>1 DEF Completed, Instances
  <2>2. CASE act = "return"
    BY <1>1, <2>2 DEF Completed, Instances
  <2>3. CASE act \in Decisions
    <3>1. Completed(inst[i], act) =
            [inst[i] EXCEPT !.state = "COMPLETED", !.decision = act]
      BY <2>3 DEF Completed, Decisions
    <3> QED
      BY <1>1, <2>3, <3>1 DEF Instances, InstStates
  <2> QED
    BY <2>1, <2>2, <2>3 DEF TaskActions
<1>3. inst' = [inst EXCEPT ![i] = Completed(inst[i], act)]
  BY DEF CompleteTask
<1> QED
  BY <1>1, <1>2, <1>3 DEF InstKept, TypeOK, Newest

(* So does one that is cancelled.                                          *)
LEMMA CancelKeeps ==
  ASSUME TypeOK, NEW i \in 1 .. Newest, CancelInstance(i)
  PROVE  InstKept
<1>1. inst[i] \in Instances
  BY DEF TypeOK, Newest
<1>2. CASE inst[i].state = "ACTIVE"
  <2>1. inst' = [inst EXCEPT ![i].state = "TERMINATED"]
    BY <1>2 DEF CancelInstance
  <2>2. [inst[i] EXCEPT !.state = "TERMINATED"] \in Instances
    BY <1>1 DEF Instances, InstStates
  <2> QED
    BY <1>1, <1>2, <2>1, <2>2 DEF InstKept, TypeOK, Newest, Instances
<1>3. CASE inst[i].state # "ACTIVE"
  BY <1>3 DEF CancelInstance, InstKept, TypeOK, Newest
<1> QED
  BY <1>2, <1>3

(* A step that leaves the instances alone keeps them.                      *)
LEMMA SameKeeps == TypeOK /\ UNCHANGED inst => InstKept
BY DEF TypeOK, InstKept, Newest

(* A request that returns remembers nothing.                               *)
LEMMA ReturnKeeps ==
  ASSUME Inv, InstKept, NEW s \in Slots, Return(s)
  PROVE  CallsKept
<1>1. call' = [call EXCEPT ![s] = Idle] /\ Len(inst') = Len(inst)
  BY DEF Return, InstKept, Newest
<1>2. Idle \in Requests /\ Idle.at = "idle" /\ Idle.i = 0
  BY ChangeRequestAssumption
  DEF Idle, Requests, Places, Args, ChangeRequestAssumption
<1>3. call' \in [Slots -> Requests]
  BY <1>1, <1>2 DEF Inv, TypeOK
<1>4. call'[s].at = "idle" /\ call'[s].i = 0 /\ \A t \in Slots \ {s} : call'[t] = call[t]
  BY <1>1, <1>2 DEF Inv, TypeOK
<1>5. GoodCall(s)' /\ ~Starting(s)'
  BY <1>1, <1>4 DEF Inv, TypeOK, GoodCall, Starting, OnInstance, Newest
<1>6. ASSUME NEW t \in Slots \ {s}
      PROVE  GoodCall(t)' /\ (Starting(t)' => Starting(t))
  BY <1>1, <1>4 DEF Inv, GoodCall, Starting, Newest
<1> QED
  BY <1>3, <1>4, <1>5, <1>6 DEF CallsKept

(* A request that goes to a place with what belongs there keeps Inv's part *)
(* about requests.                                                         *)
LEMMA GotoKeeps ==
  ASSUME Inv, InstKept, NEW s \in Slots, NEW place \in Places, NEW i \in 0 .. Newest,
         NEW arg \in Args, Goto(s, place, i, arg),
         place \in {"s_read", "s_query", "s_start"} => Starting(s),
         place \in {"r_locate", "r_act"} => arg \in TaskActions,
         place \in OnInstance => i \in 1 .. Newest
  PROVE  CallsKept
<1>1. call[s] \in Requests /\ i \in 0 .. MaxRounds /\ Len(inst') = Len(inst)
  BY ChangeRequestAssumption DEF Inv, TypeOK, Newest, InstKept, ChangeRequestAssumption
<1>2. [call[s] EXCEPT !.at = place, !.i = i, !.arg = arg] \in Requests
  BY <1>1 DEF Requests
<1>3. call' = [call EXCEPT ![s] = [call[s] EXCEPT !.at = place, !.i = i, !.arg = arg]]
  BY DEF Goto
<1>4. call' \in [Slots -> Requests]
  BY <1>2, <1>3 DEF Inv, TypeOK
<1>5. /\ call'[s].at = place /\ call'[s].i = i /\ call'[s].arg = arg
      /\ call'[s].round = call[s].round
  BY <1>1, <1>3 DEF Inv, TypeOK, Requests
<1>6. \A t \in Slots \ {s} : call'[t] = call[t]
  BY <1>3 DEF Inv, TypeOK
<1>7. GoodCall(s)' /\ (Starting(s)' => Starting(s))
  BY <1>1, <1>5 DEF GoodCall, Starting, Newest
<1>8. ASSUME NEW t \in Slots \ {s}
      PROVE  GoodCall(t)' /\ (Starting(t)' => Starting(t))
  BY <1>1, <1>6 DEF Inv, GoodCall, Starting, Newest
<1> QED
  BY <1>4, <1>5, <1>6, <1>7, <1>8 DEF CallsKept

(* A step that keeps instances and requests in order keeps Inv.            *)
LEMMA StepKeeps ==
  ASSUME Inv, InstKept, CallsKept, round' = round, doc' \in DocStatuses, stale' \in BOOLEAN,
         applied' \in 0 .. 2, faults' \in 0 .. MaxFaults
  PROVE  Inv'
<1>1. TypeOK'
  BY DEF Inv, TypeOK, InstKept, CallsKept, Newest
<1>2. RoundOK'
  <2>1. /\ Len(inst') = Len(inst)
        /\ \A i \in 1 .. Len(inst) : inst'[i].round = inst[i].round
        /\ \A t \in Slots : Starting(t)' => Starting(t) /\ call'[t].round = call[t].round
    BY DEF InstKept, CallsKept, Newest
  <2> QED
    BY <2>1 DEF Inv, RoundOK, Newest
<1> QED
  BY <1>1, <1>2 DEF Inv, CallsKept
-----------------------------------------------------------------------------
(* Each action keeps Inv.                                                  *)

(* Init establishes Inv.                                                   *)
LEMMA InitInv == Init => Inv
<1> SUFFICES ASSUME Init PROVE Inv
  OBVIOUS
<1>1. inst \in Seq(Instances) /\ Newest = 0
  BY DEF Init, Newest
<1>2. Idle \in Requests /\ Idle.at = "idle" /\ Idle.i = 0
  BY ChangeRequestAssumption
  DEF Idle, Requests, Places, Args, ChangeRequestAssumption
<1>3. TypeOK
  <2>1. stale \in BOOLEAN
    BY Zenon DEF Init
  <2>2. /\ doc \in DocStatuses /\ Newest <= round /\ round \in 0 .. MaxRounds
        /\ call \in [Slots -> Requests] /\ applied \in 0 .. 2 /\ faults \in 0 .. MaxFaults
    <3>1. doc = "draft" /\ round = 0 /\ applied = 0 /\ faults = 0 /\ call = [s \in Slots |-> Idle]
      BY Zenon DEF Init
    <3> QED
      BY <1>1, <1>2, <3>1, ChangeRequestAssumption DEF DocStatuses, ChangeRequestAssumption
  <2> QED
    BY <1>1, <2>1, <2>2 DEF TypeOK
<1>4. RoundOK /\ \A s \in Slots : GoodCall(s)
  BY <1>1, <1>2 DEF Init, RoundOK, GoodCall, Starting, OnInstance
<1> QED
  BY <1>3, <1>4 DEF Inv

(* A submission takes the next round.                                      *)
LEMMA SubmitInv ==
  ASSUME Inv, NEW s \in Slots, Submit(s)
  PROVE  Inv'
<1> USE ChangeRequestAssumption DEF ChangeRequestAssumption
<1> DEFINE c == [at |-> "s_read", i |-> 0, arg |-> "none", round |-> round + 1]
<1>1. c \in Requests /\ c.at = "s_read" /\ c.round = round + 1
  <2>1. round + 1 \in 0 .. MaxRounds
    BY DEF Submit, Inv, TypeOK
  <2> QED
    BY <2>1 DEF Requests, Places, Args
<1>2. call' = [call EXCEPT ![s] = c] /\ round' = round + 1 /\ inst' = inst
  BY DEF Submit
<1>3. call' \in [Slots -> Requests] /\ call'[s] = c /\ \A t \in Slots \ {s} : call'[t] = call[t]
  BY <1>1, <1>2 DEF Inv, TypeOK
<1>4. TypeOK'
  <2>1. stale' \in BOOLEAN
    BY Zenon DEF Submit, TryWins
  <2>2. doc' = "approving" /\ applied' = applied /\ faults' = faults /\ round < MaxRounds
    BY Zenon DEF Submit, TryWins
  <2> QED
    BY <1>2, <1>3, <2>1, <2>2 DEF Inv, TypeOK, Newest, DocStatuses
<1>5. \A t \in Slots : GoodCall(t)'
  BY <1>1, <1>2, <1>3 DEF Inv, GoodCall, Newest, OnInstance
<1>6. RoundOK'
  BY <1>1, <1>2, <1>3 DEF Inv, TypeOK, RoundOK, Starting, Newest
<1> QED
  BY <1>4, <1>5, <1>6 DEF Inv

(* Fewer instances than rounds exist while a submission starts its own.    *)
LEMMA RoomForOne ==
  ASSUME Inv, NEW s \in Slots, Starting(s)
  PROVE  Newest < round
<1>1. Newest \in Nat /\ round \in Nat
  BY DEF Inv, TypeOK, Newest
<1> DEFINE S == 1 .. Newest + 1
           f == [i \in S |-> IF i <= Newest THEN inst[i].round ELSE call[s].round]
<1>2. f \in Injection(S, 1 .. round)
  <2>1. f \in [S -> 1 .. round]
    BY <1>1 DEF Inv, RoundOK
  <2>2. \A i, j \in S : f[i] = f[j] => i = j
    BY <1>1 DEF Inv, RoundOK
  <2> QED
    BY <2>1, <2>2 DEF Injection, IsInjective
<1>3. IsFiniteSet(1 .. round) /\ Cardinality(1 .. round) = round /\ Cardinality(S) = Newest + 1
  BY <1>1, FS_Interval
<1>4. Cardinality(S) <= Cardinality(1 .. round)
  BY <1>2, <1>3, FS_Injection
<1> QED
  BY <1>1, <1>3, <1>4

(* Starting an instance uses up the request's round.                       *)
LEMMA SubmitStartInv ==
  ASSUME Inv, NEW s \in Slots, SubmitStart(s)
  PROVE  Inv'
<1> DEFINE v == [state |-> "ACTIVE", node |-> "apply", decision |-> "none",
                 round |-> call[s].round]
<1>1. /\ Starting(s) /\ Newest < round /\ Newest \in Nat /\ MaxFaults \in Nat
      /\ call[s] \in Requests /\ round \in 0 .. MaxRounds
  BY RoomForOne, ChangeRequestAssumption
  DEF SubmitStart, At, Starting, Inv, TypeOK, Newest, ChangeRequestAssumption
<1>2. UNCHANGED <<doc, stale, round, applied>> /\ faults' \in 0 .. MaxFaults
  BY <1>1 DEF SubmitStart, Fault, Inv, TypeOK
<1>3. CASE UNCHANGED inst /\ Goto(s, "s_revert", 0, "none")
  <2>1. InstKept
    BY <1>3, SameKeeps DEF Inv
  <2>2. CallsKept
    BY <1>1, <1>3, <2>1, GotoKeeps DEF Places, Args, OnInstance
  <2> QED
    BY <1>2, <2>1, <2>2, StepKeeps DEF Inv, TypeOK
<1>4. CASE /\ NewInstance(call[s].round)
           /\ \/ Goto(s, "s_confirm", Newest + 1, "none")
              \/ Goto(s, "s_revert", 0, "none")
  <2>1. PICK place \in {"s_confirm", "s_revert"}, i \in {0, Newest + 1} :
          /\ place = "s_confirm" => i = Newest + 1
          /\ Goto(s, place, i, "none")
    BY <1>4
  <2>2. call[s].round \in 1 .. round /\ \A j \in 1 .. Newest : inst[j].round # call[s].round
    BY <1>1 DEF Inv, RoundOK
  <2>3. v \in Instances
    <3>1. call[s].round \in 1 .. MaxRounds
      BY <1>1, <2>2, ChangeRequestAssumption DEF ChangeRequestAssumption
    <3> QED
      BY <3>1 DEF Instances, InstStates
  <2>4. inst' = Append(inst, v)
    BY <1>4 DEF NewInstance
  <2>5. /\ inst' \in Seq(Instances) /\ Len(inst') = Newest + 1 /\ inst'[Newest + 1] = v
        /\ \A j \in 1 .. Newest : inst'[j] = inst[j]
    BY <1>1, <2>3, <2>4 DEF Inv, TypeOK, Newest
  <2>6. [call[s] EXCEPT !.at = place, !.i = i, !.arg = "none"] \in Requests
    <3>1. i \in 0 .. MaxRounds /\ place \in Places /\ "none" \in Args
      BY <1>1, ChangeRequestAssumption DEF Places, Args, ChangeRequestAssumption
    <3> HIDE DEF v
    <3> QED
      BY <1>1, <3>1 DEF Requests
  <2>7. /\ call' \in [Slots -> Requests]
        /\ call'[s] = [call[s] EXCEPT !.at = place, !.i = i, !.arg = "none"]
        /\ \A t \in Slots \ {s} : call'[t] = call[t]
    BY <2>1, <2>6 DEF Goto, Inv, TypeOK
  <2>8. call'[s].at = place /\ call'[s].i = i
    BY <1>1, <2>7 DEF Requests
  <2>9. TypeOK'
    BY <1>1, <1>2, <2>5, <2>7 DEF Inv, TypeOK, Newest
  <2>10. \A t \in Slots : GoodCall(t)'
    <3>1. GoodCall(s)'
      BY <1>1, <2>1, <2>5, <2>8 DEF GoodCall, Newest, OnInstance
    <3>2. ASSUME NEW t \in Slots \ {s}
          PROVE  GoodCall(t)'
      <4>1. GoodCall(t) /\ call'[t] = call[t]
        BY <2>7 DEF Inv
      <4> QED
        BY <1>1, <2>5, <4>1 DEF GoodCall, Newest
    <3> QED
      BY <3>1, <3>2
  <2>11. RoundOK'
    <3>1. ~Starting(s)' /\ \A t \in Slots \ {s} : (Starting(t)' <=> Starting(t)) /\ call'[t] = call[t]
      BY <2>1, <2>7, <2>8 DEF Starting
    <3>2. \A t \in Slots \ {s} : Starting(t) => call[t].round # call[s].round
      BY <1>1 DEF Inv, RoundOK
    <3>3. \A j \in 1 .. Len(inst') : inst'[j].round \in 1 .. round'
      BY <1>1, <1>2, <2>2, <2>5 DEF Inv, RoundOK
    <3>4. \A j, k \in 1 .. Len(inst') : j # k => inst'[j].round # inst'[k].round
      BY <1>1, <2>2, <2>5 DEF Inv, RoundOK
    <3>5. ASSUME NEW t \in Slots, Starting(t)'
          PROVE  /\ call'[t].round \in 1 .. round'
                 /\ \A j \in 1 .. Len(inst') : inst'[j].round # call'[t].round
                 /\ \A u \in Slots \ {t} : Starting(u)' => call'[u].round # call'[t].round
      <4>1. t # s /\ Starting(t) /\ call'[t] = call[t]
        BY <3>1, <3>5
      <4>2. /\ call[t].round \in 1 .. round
            /\ \A j \in 1 .. Newest : inst[j].round # call[t].round
        BY <4>1 DEF Inv, RoundOK
      <4>3. call[t].round # call[s].round
        BY <3>2, <4>1
      <4>4. /\ call'[t].round \in 1 .. round'
            /\ \A j \in 1 .. Len(inst') : inst'[j].round # call'[t].round
        <5>1. ASSUME NEW j \in 1 .. Len(inst')
              PROVE  inst'[j].round # call[t].round
          <6>1. CASE j \in 1 .. Newest
            BY <2>5, <4>2, <6>1
          <6>2. CASE j = Newest + 1
            <7>1. inst'[j].round = call[s].round
              BY <2>5, <6>2
            <7> QED
              BY <4>3, <7>1
          <6> QED
            BY <1>1, <2>5, <6>1, <6>2
        <5> QED
          BY <1>2, <4>1, <4>2, <5>1
      <4>5. ASSUME NEW u \in Slots \ {t}, Starting(u)'
            PROVE  call'[u].round # call'[t].round
        <5>1. u # s /\ Starting(u) /\ call'[u] = call[u]
          BY <3>1, <4>5
        <5> QED
          BY <4>1, <4>5, <5>1 DEF Inv, RoundOK
      <4> QED
        BY <4>4, <4>5
    <3> QED
      BY <3>3, <3>4, <3>5 DEF RoundOK, Newest
  <2> QED
    BY <2>9, <2>10, <2>11 DEF Inv
<1> QED
  BY <1>3, <1>4 DEF SubmitStart

(* The writes of doc_status, and the steps that leave it alone.            *)
LEMMA DocType ==
  ASSUME TypeOK, NEW to \in DocStatuses, NEW from,
         \/ TryWins(from, to) \/ TryLoses(from) \/ SetDoc(to) \/ UNCHANGED <<doc, stale>>
  PROVE  doc' \in DocStatuses /\ stale' \in BOOLEAN
<1>1. doc' \in DocStatuses
  BY DEF TypeOK, TryWins, TryLoses, SetDoc
<1>2. stale' \in BOOLEAN
  BY Zenon DEF TypeOK, TryWins, TryLoses, SetDoc
<1> QED
  BY <1>1, <1>2

(* Faults are counted up to their bound.                                   *)
LEMMA FaultsType ==
  ASSUME TypeOK, NEW kind, Fault(kind) \/ UNCHANGED faults
  PROVE  faults' \in 0 .. MaxFaults
BY ChangeRequestAssumption DEF ChangeRequestAssumption, TypeOK, Fault

(* The requests that begin by reading the CR.                              *)
LEMMA BeginInv ==
  ASSUME Inv, NEW s \in Slots,
         \/ AbortCheck(s) \/ WithdrawCheck(s) \/ LazyCheck(s) \/ ManualActivate(s)
         \/ \E act \in TaskActions : ReviewCheck(s, act)
         \/ \E i \in 1 .. Newest : Callback(s, i)
  PROVE  Inv'
<1>1. UNCHANGED <<doc, stale, inst, round, applied, faults>>
  BY DEF AbortCheck, WithdrawCheck, LazyCheck, ManualActivate, ReviewCheck, Callback
<1>2. InstKept
  BY <1>1, SameKeeps DEF Inv
<1>3. PICK place \in {"a_set", "w_query", "l_query", "m_read", "r_locate", "y_current"},
           i \in 0 .. Newest, arg \in Args :
        /\ Goto(s, place, i, arg)
        /\ place = "r_locate" => arg \in TaskActions
        /\ place = "y_current" => i \in 1 .. Newest
  <2>1. CASE AbortCheck(s) \/ WithdrawCheck(s) \/ ManualActivate(s)
    BY <2>1 DEF AbortCheck, WithdrawCheck, ManualActivate, Args, Inv, TypeOK, Newest
  <2>2. CASE LazyCheck(s)
    BY <2>2 DEF LazyCheck, Args, Inv, TypeOK, Newest
  <2>3. CASE \E act \in TaskActions : ReviewCheck(s, act)
    <3>1. PICK act \in TaskActions : Goto(s, "r_locate", 0, act)
      BY <2>3, Zenon DEF ReviewCheck
    <3>2. act \in Args /\ 0 \in 0 .. Newest
      BY DEF Args, Inv, TypeOK, Newest
    <3> QED
      BY <3>1, <3>2
  <2>4. CASE \E i \in 1 .. Newest : Callback(s, i)
    BY <2>4 DEF Callback, EventOf, Args, Inv, TypeOK, Newest
  <2> QED
    BY <2>1, <2>2, <2>3, <2>4
<1>4. CallsKept
  BY <1>2, <1>3, GotoKeeps DEF Places, OnInstance
<1> QED
  BY <1>1, <1>2, <1>4, StepKeeps, DocType, FaultsType DEF Inv, TypeOK

(* The handlers' steps that neither start nor change an instance.          *)
LEMMA HandlerInv ==
  ASSUME Inv, NEW s \in Slots,
         \/ SubmitRead(s) \/ SubmitQuery(s) \/ SubmitRevert(s) \/ AbortSet(s)
         \/ WithdrawQuery(s) \/ WithdrawSet(s) \/ ReviewLocate(s)
         \/ LazyQuery(s) \/ LazyDraft(s) \/ SyncCurrent(s) \/ SyncDecide(s)
         \/ ActivateRead(s) \/ ActivateCommit(s) \/ ActivateUnset(s) \/ Dies(s)
  PROVE  Inv'
<1>1. UNCHANGED <<inst, round>>
  BY DEF SubmitRead, SubmitQuery, SubmitRevert, AbortSet, WithdrawQuery, WithdrawSet,
         ReviewLocate, LazyQuery, LazyDraft, SyncCurrent, SyncDecide, ActivateRead,
         ActivateCommit, ActivateUnset, Dies
<1>2. InstKept
  BY <1>1, SameKeeps DEF Inv
<1>3. doc' \in DocStatuses /\ stale' \in BOOLEAN
  <2>1. \E to \in DocStatuses, from \in SUBSET DocStatuses :
          TryWins(from, to) \/ TryLoses(from) \/ SetDoc(to) \/ UNCHANGED <<doc, stale>>
    BY DEF SubmitRead, SubmitQuery, SubmitRevert, AbortSet, WithdrawQuery, WithdrawSet,
           ReviewLocate, LazyQuery, LazyDraft, SyncCurrent, SyncDecide, ActivateRead,
           ActivateCommit, Committed, ActivateUnset, Dies, DocStatuses
  <2> QED
    BY <2>1, DocType DEF Inv
<1>4. applied' \in 0 .. 2
  BY DEF SubmitRead, SubmitQuery, SubmitRevert, AbortSet, WithdrawQuery, WithdrawSet,
         ReviewLocate, LazyQuery, LazyDraft, SyncCurrent, SyncDecide, ActivateRead,
         ActivateCommit, Committed, ActivateUnset, Dies, Inv, TypeOK
<1>5. faults' \in 0 .. MaxFaults
  <2>1. \E kind \in Kinds : Fault(kind) \/ UNCHANGED faults
    BY DEF SubmitRead, SubmitQuery, SubmitRevert, AbortSet, WithdrawQuery, WithdrawSet,
           ReviewLocate, LazyQuery, LazyDraft, SyncCurrent, SyncDecide, ActivateRead,
           ActivateCommit, ActivateUnset, Dies, Kinds
  <2> QED
    BY <2>1, FaultsType DEF Inv
<1>6. CallsKept
  <2> USE DEF Inv
  <2>1. /\ Newest \in Nat /\ call[s] \in Requests /\ {"none"} \cup TaskActions \subseteq Args
        /\ \A i \in 1 .. Newest : EventOf(inst[i]) \in Args
    BY DEF TypeOK, Newest, Args, EventOf
  <2>2. CASE \/ SubmitRevert(s) \/ AbortSet(s) \/ WithdrawSet(s) \/ LazyDraft(s)
             \/ ActivateUnset(s) \/ Dies(s)
    <3>1. Return(s)
      BY <2>2 DEF SubmitRevert, AbortSet, WithdrawSet, LazyDraft, ActivateUnset, Dies
    <3> QED
      BY <1>2, <3>1, ReturnKeeps
  <2>3. CASE \/ SubmitRead(s) \/ SubmitQuery(s)
    <3>1. Starting(s)
      BY <2>3 DEF SubmitRead, SubmitQuery, At, Starting
    <3>2. CASE Return(s)
      BY <1>2, <3>2, ReturnKeeps
    <3>3. CASE \E place \in {"s_query", "s_start", "s_revert"} : Goto(s, place, 0, "none")
      BY <1>2, <2>1, <3>1, <3>3, GotoKeeps DEF Places, OnInstance
    <3> QED
      BY <2>3, <3>2, <3>3 DEF SubmitRead, SubmitQuery
  <2>4. CASE \/ WithdrawQuery(s) \/ LazyQuery(s) \/ SyncCurrent(s)
    <3>1. CASE Return(s)
      BY <1>2, <3>1, ReturnKeeps
    <3>2. CASE Newest # 0 /\ Goto(s, "w_cancel", Newest, "none")
      BY <1>2, <2>1, <3>2, GotoKeeps DEF Places, OnInstance
    <3>3. CASE Newest # 0 /\ Goto(s, "y_current", Newest, EventOf(inst[Newest]))
      BY <1>2, <2>1, <3>3, GotoKeeps DEF Places, OnInstance
    <3>4. CASE Goto(s, "l_draft", 0, "none")
      BY <1>2, <2>1, <3>4, GotoKeeps DEF Places, OnInstance
    <3>5. CASE At(s, "y_current") /\ Goto(s, "y_decide", call[s].i, call[s].arg)
      <4>1. call[s].i \in 1 .. Newest /\ call[s].arg \in Args
        BY <2>1, <3>5 DEF GoodCall, OnInstance, At, Requests
      <4> QED
        BY <1>2, <2>1, <3>5, <4>1, GotoKeeps DEF Places, OnInstance
    <3> QED
      BY <2>4, <3>1, <3>2, <3>3, <3>4, <3>5 DEF WithdrawQuery, LazyQuery, SyncCurrent
  <2>5. CASE ReviewLocate(s)
    <3>1. CASE Return(s)
      BY <1>2, <3>1, ReturnKeeps
    <3>2. CASE \E i \in 1 .. Newest : Goto(s, "r_act", i, call[s].arg)
      <4>1. call[s].arg \in TaskActions
        BY <2>5 DEF ReviewLocate, At, GoodCall
      <4> QED
        BY <1>2, <2>1, <3>2, <4>1, GotoKeeps DEF Places, OnInstance
    <3> QED
      BY <2>5, <3>1, <3>2 DEF ReviewLocate
  <2>6. CASE \/ SyncDecide(s) \/ ActivateRead(s) \/ ActivateCommit(s)
    <3>1. CASE Return(s)
      BY <1>2, <3>1, ReturnKeeps
    <3>2. CASE Goto(s, "y_unset", 0, "none")
      BY <1>2, <2>1, <3>2, GotoKeeps DEF Places, OnInstance
    <3>3. CASE \E place \in {"y_read", "y_commit", "m_commit"} :
                 Goto(s, place, call[s].i, "none")
      <4>1. call[s].i \in 0 .. Newest
        BY DEF GoodCall
      <4> QED
        BY <1>2, <2>1, <3>3, <4>1, GotoKeeps DEF Places, OnInstance
    <3> QED
      BY <2>6, <3>1, <3>2, <3>3 DEF SyncDecide, ActivateRead, ActivateCommit, ActivationFails
  <2> QED
    BY <2>2, <2>3, <2>4, <2>5, <2>6
<1> QED
  BY <1>1, <1>2, <1>3, <1>4, <1>5, <1>6, StepKeeps
(* A handler that completes a task or cancels an instance keeps them all.  *)
LEMMA FlowKept ==
  ASSUME Inv, NEW s \in Slots,
         SubmitConfirm(s) \/ WithdrawCancel(s) \/ ReviewAct(s)
  PROVE  InstKept
<1>1. call[s].i \in 1 .. Newest /\ (At(s, "r_act") => call[s].arg \in TaskActions)
  BY DEF Inv, GoodCall, OnInstance, At, SubmitConfirm, WithdrawCancel, ReviewAct
<1>2. CASE CompleteTask(call[s].i, "apply")
  BY <1>1, <1>2, CompleteKeeps DEF Inv, TaskActions
<1>3. CASE At(s, "r_act") /\ CompleteTask(call[s].i, call[s].arg)
  BY <1>1, <1>3, CompleteKeeps DEF Inv
<1>4. CASE CancelInstance(call[s].i)
  BY <1>1, <1>4, CancelKeeps DEF Inv
<1>5. CASE UNCHANGED inst
  BY <1>5, SameKeeps DEF Inv
<1> QED
  BY <1>2, <1>3, <1>4, <1>5 DEF SubmitConfirm, WithdrawCancel, ReviewAct

(* The steps that complete or cancel a task or an instance.                *)
LEMMA FlowInv ==
  ASSUME Inv, NEW s \in Slots,
         SubmitConfirm(s) \/ WithdrawCancel(s) \/ ReviewAct(s)
  PROVE  Inv'
<1>1. UNCHANGED <<doc, stale, round, applied>>
  BY DEF SubmitConfirm, WithdrawCancel, ReviewAct
<1>2. faults' \in 0 .. MaxFaults
  <2>1. \E kind \in Kinds : Fault(kind) \/ UNCHANGED faults
    BY DEF SubmitConfirm, WithdrawCancel, ReviewAct, Kinds
  <2> QED
    BY <2>1, FaultsType DEF Inv
<1>3. call[s].i \in 1 .. Newest
  BY DEF Inv, GoodCall, OnInstance, At, SubmitConfirm, WithdrawCancel, ReviewAct
<1>4. InstKept
  BY FlowKept
<1>5. CallsKept
  <2>1. CASE Return(s)
    BY <1>4, <2>1, ReturnKeeps
  <2>2. CASE Goto(s, "w_set", call[s].i, "none") \/ Goto(s, "y_current", call[s].i, "completed")
    <3>1. call[s].i \in 0 .. Newest
      BY DEF Inv, GoodCall
    <3> QED
      BY <1>3, <1>4, <2>2, <3>1, GotoKeeps DEF Places, Args, OnInstance
  <2> QED
    BY <2>1, <2>2 DEF SubmitConfirm, WithdrawCancel, ReviewAct
<1> QED
  BY <1>1, <1>2, <1>4, <1>5, StepKeeps DEF Inv, TypeOK

(* The flow engine's own users, and time.                                  *)
LEMMA EnvironmentInv ==
  ASSUME Inv, FlowUser \/ GrowOld \/ UNCHANGED vars
  PROVE  Inv'
<1>1. UNCHANGED <<doc, round, call, applied, faults>>
  BY DEF FlowUser, TodoCentre, Console, GrowOld, vars
<1>2. stale' \in BOOLEAN
  BY Zenon DEF Inv, TypeOK, FlowUser, TodoCentre, Console, GrowOld, vars
<1>3. InstKept
  <2>1. CASE \E i \in 1 .. Newest, act \in TaskActions : CompleteTask(i, act)
    BY <2>1, CompleteKeeps DEF Inv
  <2>2. CASE \E i \in 1 .. Newest : CancelInstance(i)
    BY <2>2, CancelKeeps DEF Inv
  <2>3. CASE UNCHANGED inst
    BY <2>3, SameKeeps DEF Inv
  <2> QED
    BY <2>1, <2>2, <2>3 DEF FlowUser, TodoCentre, Console, GrowOld, vars
<1>4. CallsKept
  <2>1. Len(inst') = Len(inst)
    BY <1>3 DEF InstKept, Newest
  <2> QED
    BY <1>1, <2>1 DEF Inv, TypeOK, CallsKept, GoodCall, Starting, Newest
<1> QED
  BY <1>1, <1>2, <1>3, <1>4, StepKeeps DEF Inv, TypeOK

(* Every step keeps Inv.                                                   *)
LEMMA NextInv == Inv /\ [Next]_vars => Inv'
<1> SUFFICES ASSUME Inv, [Next]_vars PROVE Inv'
  OBVIOUS
<1>1. ASSUME NEW s \in Slots, Request(s) PROVE Inv'
  BY <1>1, SubmitInv, BeginInv DEF Request
<1>2. ASSUME NEW s \in Slots, Handler(s) PROVE Inv'
  BY <1>2, SubmitStartInv, HandlerInv, FlowInv DEF Handler
<1>3. ASSUME NEW s \in Slots, Dies(s) PROVE Inv'
  BY <1>3, HandlerInv
<1> QED
  BY <1>1, <1>2, <1>3, EnvironmentInv DEF Next

(* Inv holds in every reachable state.                                     *)
LEMMA InvHolds == Spec => []Inv
BY InitInv, NextInv, PTL DEF Spec

(* Every variable stays in its type, however many requests, rounds and     *)
(* faults there are; in particular no submission starts two instances.     *)
THEOREM CrTypeCorrect == Spec => []TypeOK
<1>1. Inv => TypeOK
  BY DEF Inv
<1> QED
  BY <1>1, InvHolds, PTL

-----------------------------------------------------------------------------
(* Activation needs approval.                                              *)

Approved(i) ==
  /\ i \in 1 .. Newest
  /\ inst[i].state = "COMPLETED" /\ inst[i].decision = "approve"

(* A request that brings a completion brings one that happened, and a      *)
(* request that activates does so for an instance that was approved.       *)
GoodSync(s) ==
  /\ call[s].at \in {"y_current", "y_decide"} /\ call[s].arg = "completed"
       => inst[call[s].i].state = "COMPLETED"
  /\ call[s].at \in {"y_read", "y_commit"} => Approved(call[s].i)

ApprovedOK ==
  /\ \A i \in 1 .. Newest : inst[i].state = "COMPLETED" => inst[i].decision \in Decisions
  /\ \A s \in Slots : GoodSync(s)
  /\ applied > 0 => \E i \in 1 .. Newest : Approved(i)

(* Instances never lose a completion, and complete with a decision.        *)
InstGrows ==
  /\ Len(inst') \in Nat /\ Newest <= Len(inst')
  /\ \A i \in 1 .. Newest : inst[i].state = "COMPLETED" => inst'[i] = inst[i]
  /\ \A i \in 1 .. Len(inst') : inst'[i].state = "COMPLETED" =>
       \/ i <= Newest /\ inst[i].state = "COMPLETED"
       \/ inst'[i].decision \in Decisions

(* Kept instances are grown ones.                                          *)
LEMMA KeptGrows == TypeOK /\ InstKept => InstGrows
BY DEF TypeOK, InstKept, InstGrows, Newest

(* Starting an instance adds one that is active.                           *)
LEMMA NewGrows ==
  ASSUME TypeOK, NEW r, NewInstance(r), inst' \in Seq(Instances)
  PROVE  InstGrows
<1> DEFINE v == [state |-> "ACTIVE", node |-> "apply", decision |-> "none", round |-> r]
<1>1. inst' = Append(inst, v) /\ Newest \in Nat
  BY DEF NewInstance, TypeOK, Newest
<1>2. Len(inst') = Newest + 1 /\ \A i \in 1 .. Newest : inst'[i] = inst[i]
  BY <1>1 DEF TypeOK, Newest
<1>3. inst'[Newest + 1] = v
  BY <1>1 DEF TypeOK, Newest
<1> QED
  BY <1>1, <1>2, <1>3 DEF InstGrows

(* A request that goes to a place is there, and the others stay.           *)
LEMMA GotoAt ==
  ASSUME TypeOK, NEW s \in Slots, NEW place, NEW i, NEW arg, Goto(s, place, i, arg)
  PROVE  /\ call'[s].at = place /\ call'[s].i = i /\ call'[s].arg = arg
         /\ call'[s].round = call[s].round
         /\ \A t \in Slots \ {s} : call'[t] = call[t]
<1>1. call[s] \in Requests
  BY DEF TypeOK
<1> QED
  BY <1>1 DEF TypeOK, Goto, Requests

(* A request that returns is idle, and the others stay where they are.     *)
LEMMA ReturnAt ==
  ASSUME TypeOK, NEW s \in Slots, Return(s)
  PROVE  call'[s].at = "idle" /\ \A t \in Slots \ {s} : call'[t] = call[t]
BY DEF TypeOK, Return, Idle

(* A step keeps ApprovedOK when the one request it moves keeps GoodSync    *)
(* and nothing is applied but what was approved.                           *)
LEMMA ApprovedStep ==
  ASSUME Inv, ApprovedOK, InstGrows, NEW s \in Slots,
         GoodSync(s)', \A t \in Slots \ {s} : call'[t] = call[t],
         applied' = applied \/ \E i \in 1 .. Newest : Approved(i)
  PROVE  ApprovedOK'
<1>1. \A i : Approved(i) => Approved(i)'
  BY DEF InstGrows, Approved, Inv, TypeOK, Newest
<1>2. \A i \in 1 .. Len(inst') : inst'[i].state = "COMPLETED" => inst'[i].decision \in Decisions
  BY DEF ApprovedOK, InstGrows, Inv, TypeOK, Newest
<1>3. ASSUME NEW t \in Slots \ {s}
      PROVE  GoodSync(t)'
  <2>1. call'[t] = call[t] /\ GoodSync(t) /\ GoodCall(t)
    BY DEF ApprovedOK, Inv
  <2> QED
    BY <1>1, <2>1 DEF GoodSync, GoodCall, OnInstance, InstGrows, Newest
<1>4. applied' > 0 => \E i \in 1 .. Len(inst') : Approved(i)'
  <2>1. ASSUME applied' > 0 PROVE \E i \in 1 .. Newest : Approved(i)
    BY <2>1 DEF ApprovedOK
  <2> QED
    BY <1>1, <2>1 DEF Approved, Newest
<1> QED
  BY <1>2, <1>3, <1>4 DEF ApprovedOK, Newest

(* Places that have to do with no result.                                  *)
Elsewhere == Places \ {"y_current", "y_decide", "y_read", "y_commit"}

(* Going elsewhere, or back.                                               *)
LEMMA ElsewhereSync ==
  ASSUME TypeOK, NEW s \in Slots,
         Return(s) \/ \E place \in Elsewhere, i \in Int, arg \in Args : Goto(s, place, i, arg)
  PROVE  GoodSync(s)' /\ \A t \in Slots \ {s} : call'[t] = call[t]
<1>1. CASE Return(s)
  BY <1>1, ReturnAt DEF GoodSync
<1>2. CASE \E place \in Elsewhere, i \in Int, arg \in Args : Goto(s, place, i, arg)
  BY <1>2, GotoAt DEF GoodSync, Elsewhere
<1> QED
  BY <1>1, <1>2

(* Going to synchronise a finished instance.                               *)
LEMMA CurrentSync ==
  ASSUME TypeOK, InstKept, NEW s \in Slots, NEW i \in 1 .. Newest,
         Goto(s, "y_current", i, EventOf(inst[i]))
  PROVE  GoodSync(s)' /\ \A t \in Slots \ {s} : call'[t] = call[t]
<1>1. inst[i].state = "COMPLETED" => inst'[i].state = "COMPLETED"
  BY DEF InstKept
<1> QED
  BY <1>1, GotoAt DEF GoodSync, EventOf

(* Requests that begin keep ApprovedOK: only a callback brings a result.   *)
LEMMA ApprovedRequest ==
  ASSUME Inv, ApprovedOK, NEW s \in Slots, Request(s)
  PROVE  ApprovedOK'
<1>1. UNCHANGED <<inst, applied>>
  BY DEF Request, Submit, AbortCheck, WithdrawCheck, ReviewCheck, Callback, LazyCheck,
         ManualActivate
<1>2. InstGrows /\ InstKept
  BY <1>1, SameKeeps, KeptGrows DEF Inv
<1>3. GoodSync(s)' /\ \A t \in Slots \ {s} : call'[t] = call[t]
  <2>1. CASE Submit(s)
    BY <2>1 DEF Submit, Inv, TypeOK, GoodSync
  <2>2. CASE AbortCheck(s) \/ WithdrawCheck(s) \/ LazyCheck(s) \/ ManualActivate(s)
    <3>1. \E place \in Elsewhere, arg \in Args : Goto(s, place, 0, arg)
      BY <2>2 DEF AbortCheck, WithdrawCheck, LazyCheck, ManualActivate, Elsewhere, Places, Args
    <3> QED
      BY <3>1, ElsewhereSync DEF Inv
  <2>3. CASE \E act \in TaskActions : ReviewCheck(s, act)
    <3>1. PICK act \in TaskActions : Goto(s, "r_locate", 0, act)
      BY <2>3, Zenon DEF ReviewCheck
    <3>2. act \in Args /\ "r_locate" \in Elsewhere
      BY DEF Args, Elsewhere, Places
    <3> QED
      BY <3>1, <3>2, ElsewhereSync DEF Inv
  <2>4. CASE \E i \in 1 .. Newest : Callback(s, i)
    BY <1>2, <2>4, CurrentSync DEF Callback, Inv
  <2> QED
    BY <2>1, <2>2, <2>3, <2>4 DEF Request
<1> QED
  BY <1>1, <1>2, <1>3, ApprovedStep

(* The handlers' steps that bring no result.                               *)
LEMMA ApprovedElsewhere ==
  ASSUME Inv, ApprovedOK, InstKept, NEW s \in Slots,
         \/ SubmitRead(s) \/ SubmitQuery(s) \/ SubmitConfirm(s) \/ SubmitRevert(s)
         \/ AbortSet(s) \/ WithdrawCancel(s) \/ WithdrawSet(s) \/ ReviewLocate(s)
         \/ LazyDraft(s) \/ ActivateUnset(s) \/ Dies(s)
  PROVE  ApprovedOK'
<1>1. applied' = applied
  BY DEF SubmitRead, SubmitQuery, SubmitConfirm, SubmitRevert, AbortSet, WithdrawCancel,
         WithdrawSet, ReviewLocate, LazyDraft, ActivateUnset, Dies
<1>2. Return(s) \/ \E place \in Elsewhere, i \in Int, arg \in Args : Goto(s, place, i, arg)
  <2>1. call[s].i \in Int /\ call[s].arg \in Args
    BY DEF Inv, TypeOK, Requests
  <2>2. CASE SubmitRead(s) \/ SubmitQuery(s)
    BY <2>2 DEF SubmitRead, SubmitQuery, Elsewhere, Places, Args
  <2>6. CASE SubmitConfirm(s) \/ SubmitRevert(s)
    BY <2>6 DEF SubmitConfirm, SubmitRevert, Elsewhere, Places, Args
  <2>3. CASE AbortSet(s) \/ WithdrawSet(s) \/ LazyDraft(s) \/ ActivateUnset(s) \/ Dies(s)
    BY <2>3 DEF AbortSet, WithdrawSet, LazyDraft, ActivateUnset, Dies
  <2>4. CASE WithdrawCancel(s)
    BY <2>1, <2>4 DEF WithdrawCancel, Elsewhere, Places, Args
  <2>5. CASE ReviewLocate(s)
    BY <2>1, <2>5 DEF ReviewLocate, Elsewhere, Places
  <2> QED
    BY <2>2, <2>3, <2>4, <2>5, <2>6
<1>3. GoodSync(s)' /\ \A t \in Slots \ {s} : call'[t] = call[t]
  BY <1>2, ElsewhereSync DEF Inv
<1> QED
  BY <1>1, <1>3, KeptGrows, ApprovedStep DEF Inv

(* So does a submission that starts its instance.                          *)
LEMMA ApprovedStart ==
  ASSUME Inv, Inv', ApprovedOK, NEW s \in Slots, SubmitStart(s)
  PROVE  ApprovedOK'
<1>1. applied' = applied
  BY DEF SubmitStart
<1>2. InstGrows
  <2>1. CASE NewInstance(call[s].round)
    BY <2>1, NewGrows DEF Inv, TypeOK
  <2>2. CASE UNCHANGED inst
    BY <2>2, SameKeeps, KeptGrows DEF Inv
  <2> QED
    BY <2>1, <2>2 DEF SubmitStart
<1>3. \E place \in Elsewhere, i \in Int : Goto(s, place, i, "none")
  <2>1. Newest + 1 \in Int
    BY DEF Inv, TypeOK, Newest
  <2> QED
    BY <2>1 DEF SubmitStart, Elsewhere, Places
<1>4. GoodSync(s)' /\ \A t \in Slots \ {s} : call'[t] = call[t]
  BY <1>3, ElsewhereSync DEF Inv, Args
<1> QED
  BY <1>1, <1>2, <1>4, ApprovedStep

(* The handlers' steps that bring, apply or drop a result.                 *)
LEMMA ApprovedResult ==
  ASSUME Inv, ApprovedOK, InstKept, NEW s \in Slots,
         \/ WithdrawQuery(s) \/ LazyQuery(s) \/ ReviewAct(s) \/ SyncCurrent(s)
         \/ SyncDecide(s) \/ ActivateRead(s) \/ ActivateCommit(s)
  PROVE  ApprovedOK'
<1> USE DEF Inv
<1>0. Newest \in Nat /\ InstGrows /\ call[s].i \in Int /\ call[s].arg \in Args
  BY KeptGrows DEF TypeOK, Newest, Requests
<1> DEFINE Moved == GoodSync(s)' /\ \A t \in Slots \ {s} : call'[t] = call[t]
<1>1. Return(s) => Moved
  BY ElsewhereSync
<1>2. CASE WithdrawQuery(s) \/ LazyQuery(s)
  <2>1. applied' = applied
    BY <1>2 DEF WithdrawQuery, LazyQuery
  <2>2. CASE Newest # 0 /\ Goto(s, "y_current", Newest, EventOf(inst[Newest]))
    BY <1>0, <2>1, <2>2, CurrentSync, ApprovedStep
  <2>3. CASE Goto(s, "w_cancel", Newest, "none") \/ Goto(s, "l_draft", 0, "none")
    <3>1. {"w_cancel", "l_draft"} \subseteq Elsewhere /\ "none" \in Args
      BY DEF Elsewhere, Places, Args
    <3>2. Moved
      BY <1>0, <2>3, <3>1, ElsewhereSync
    <3> QED
      BY <1>0, <2>1, <3>2, ApprovedStep
  <2>4. CASE Return(s)
    BY <1>0, <1>1, <2>1, <2>4, ApprovedStep
  <2> QED
    BY <1>2, <2>2, <2>3, <2>4 DEF WithdrawQuery, LazyQuery
<1>3. CASE ReviewAct(s)
  <2>1. applied' = applied
    BY <1>3 DEF ReviewAct
  <2>2. CASE /\ CompleteTask(call[s].i, call[s].arg) /\ call[s].arg \in Decisions
             /\ Goto(s, "y_current", call[s].i, "completed")
    <3>1. call[s].i \in 1 .. Newest
      BY <1>3 DEF ReviewAct, At, GoodCall, OnInstance
    <3>2. inst[call[s].i] \in Instances
      BY <3>1 DEF TypeOK, Newest
    <3>3. Completed(inst[call[s].i], call[s].arg) =
            [inst[call[s].i] EXCEPT !.state = "COMPLETED", !.decision = call[s].arg]
      BY <2>2 DEF Completed, Decisions
    <3>4. inst'[call[s].i].state = "COMPLETED"
      BY <2>2, <3>1, <3>2, <3>3 DEF CompleteTask, TypeOK, Newest, Instances
    <3>5. Moved
      BY <2>2, <3>4, GotoAt DEF GoodSync
    <3> QED
      BY <1>0, <2>1, <3>5, ApprovedStep
  <2>3. CASE Return(s)
    BY <1>0, <1>1, <2>1, <2>3, ApprovedStep
  <2> QED
    BY <1>3, <2>2, <2>3 DEF ReviewAct
<1>4. CASE SyncCurrent(s)
  <2>1. UNCHANGED <<inst, applied>>
    BY <1>4 DEF SyncCurrent
  <2>2. CASE Goto(s, "y_decide", call[s].i, call[s].arg)
    <3>1. GoodSync(s) /\ call[s].at = "y_current"
      BY <1>4 DEF ApprovedOK, SyncCurrent, At
    <3>2. Moved
      BY <2>1, <2>2, <3>1, GotoAt DEF GoodSync
    <3> QED
      BY <1>0, <2>1, <3>2, ApprovedStep
  <2>3. CASE Return(s)
    BY <1>0, <1>1, <2>1, <2>3, ApprovedStep
  <2> QED
    BY <1>4, <2>2, <2>3 DEF SyncCurrent
<1>5. CASE SyncDecide(s)
  <2>1. UNCHANGED <<inst, applied>>
    BY <1>5 DEF SyncDecide
  <2>2. CASE /\ call[s].arg = "completed" /\ ~Rejected(call[s].i)
             /\ Goto(s, "y_read", call[s].i, "none")
    <3>1. call[s].i \in 1 .. Newest /\ inst[call[s].i].state = "COMPLETED"
      BY <1>5, <2>2 DEF SyncDecide, At, GoodCall, OnInstance, ApprovedOK, GoodSync
    <3>2. Approved(call[s].i)
      BY <2>2, <3>1 DEF ApprovedOK, Approved, Rejected, Decisions
    <3>3. PICK k \in 1 .. Newest : k = call[s].i /\ Approved(k)
      BY <3>1, <3>2
    <3>4. Moved
      <4>1. /\ call'[s].at = "y_read" /\ call'[s].i = k
            /\ \A t \in Slots \ {s} : call'[t] = call[t]
        BY <2>2, <3>3, GotoAt
      <4>2. Approved(k)'
        BY <2>1, <3>3 DEF Approved, Newest
      <4> QED
        BY <4>1, <4>2 DEF GoodSync
    <3> QED
      BY <1>0, <2>1, <3>4, ApprovedStep
  <2>3. CASE Return(s)
    BY <1>0, <1>1, <2>1, <2>3, ApprovedStep
  <2> QED
    BY <1>5, <2>2, <2>3 DEF SyncDecide
<1>6. CASE (ActivateRead(s) \/ ActivateCommit(s)) /\ call[s].at \in {"y_read", "y_commit"}
  <2>1. call[s].at \in {"y_read", "y_commit"} /\ Approved(call[s].i) /\ UNCHANGED inst
    BY <1>6 DEF ActivateRead, ActivateCommit, At, ApprovedOK, GoodSync
  <2>2. \E i \in 1 .. Newest : Approved(i)
    BY <2>1 DEF Approved
  <2>3. CASE Goto(s, "y_commit", call[s].i, "none")
    <3>1. PICK k \in 1 .. Newest : k = call[s].i /\ Approved(k)
      BY <2>1 DEF Approved
    <3>2. /\ call'[s].at = "y_commit" /\ call'[s].i = k
          /\ \A t \in Slots \ {s} : call'[t] = call[t]
      BY <2>3, <3>1, GotoAt
    <3>3. Moved
      <4>1. Approved(k)'
        BY <2>1, <3>1 DEF Approved, Newest
      <4> QED
        BY <3>2, <4>1 DEF GoodSync
    <3> QED
      BY <1>0, <2>2, <3>3, ApprovedStep
  <2>4. CASE Goto(s, "y_unset", 0, "none")
    <3>1. "y_unset" \in Elsewhere /\ "none" \in Args
      BY DEF Elsewhere, Places, Args
    <3>2. Moved
      BY <2>4, <3>1, ElsewhereSync
    <3> QED
      BY <1>0, <2>2, <3>2, ApprovedStep
  <2>5. CASE Return(s)
    BY <1>0, <1>1, <2>2, <2>5, ApprovedStep
  <2> QED
    BY <1>6, <2>1, <2>3, <2>4, <2>5 DEF ActivateRead, ActivateCommit, ActivationFails, At
<1>7. CASE (ActivateRead(s) \/ ActivateCommit(s)) /\ call[s].at \in {"m_read", "m_commit"}
  <2>1. applied' = applied
    BY <1>7 DEF ActivateRead, ActivateCommit, Committed, At
  <2>2. CASE Goto(s, "m_commit", call[s].i, "none")
    <3>1. "m_commit" \in Elsewhere /\ "none" \in Args
      BY DEF Elsewhere, Places, Args
    <3>2. Moved
      BY <1>0, <2>2, <3>1, ElsewhereSync
    <3> QED
      BY <1>0, <2>1, <3>2, ApprovedStep
  <2>3. CASE Return(s)
    BY <1>0, <1>1, <2>1, <2>3, ApprovedStep
  <2> QED
    BY <1>7, <2>2, <2>3 DEF ActivateRead, ActivateCommit, ActivationFails, At
<1> QED
  BY <1>2, <1>3, <1>4, <1>5, <1>6, <1>7 DEF ActivateRead, ActivateCommit

(* So do the flow engine's own users and time.                             *)
LEMMA ApprovedEnvironment ==
  ASSUME Inv, ApprovedOK, FlowUser \/ GrowOld \/ UNCHANGED vars
  PROVE  ApprovedOK'
<1>1. UNCHANGED <<call, applied>>
  BY DEF FlowUser, TodoCentre, Console, GrowOld, vars
<1>2. InstGrows
  <2>1. CASE \E i \in 1 .. Newest, act \in TaskActions : CompleteTask(i, act)
    BY <2>1, CompleteKeeps, KeptGrows DEF Inv
  <2>2. CASE \E i \in 1 .. Newest : CancelInstance(i)
    BY <2>2, CancelKeeps, KeptGrows DEF Inv
  <2>3. CASE UNCHANGED inst
    BY <2>3, SameKeeps, KeptGrows DEF Inv
  <2> QED
    BY <2>1, <2>2, <2>3 DEF FlowUser, TodoCentre, Console, GrowOld, vars
<1>3. \A i \in 1 .. Len(inst') : inst'[i].state = "COMPLETED" => inst'[i].decision \in Decisions
  BY <1>2 DEF ApprovedOK, InstGrows, Inv, TypeOK, Newest
<1>4. \A i : Approved(i) => Approved(i)'
  BY <1>2 DEF InstGrows, Approved, Inv, TypeOK, Newest
<1>5. ASSUME NEW s \in Slots
      PROVE  GoodSync(s)'
  BY <1>1, <1>2, <1>4 DEF ApprovedOK, Inv, GoodSync, GoodCall, OnInstance, InstGrows, Newest
<1> QED
  BY <1>1, <1>3, <1>4, <1>5 DEF ApprovedOK, Approved, Newest

(* ApprovedOK holds in every reachable state.                              *)
LEMMA ApprovedHolds == Spec => []ApprovedOK
<1>1. Init => ApprovedOK
  <2>1. ASSUME Init PROVE Newest = 0 /\ applied = 0 /\ \A s \in Slots : call[s].at = "idle"
    BY <2>1 DEF Init, Newest, Idle
  <2> QED
    BY <2>1 DEF ApprovedOK, GoodSync
<1>2. Inv /\ Inv' /\ ApprovedOK /\ [Next]_vars => ApprovedOK'
  <2> SUFFICES ASSUME Inv, Inv', ApprovedOK, [Next]_vars PROVE ApprovedOK'
    OBVIOUS
  <2>1. ASSUME NEW s \in Slots, Request(s) PROVE ApprovedOK'
    BY <2>1, ApprovedRequest
  <2>2. ASSUME NEW s \in Slots, Handler(s) \/ Dies(s) PROVE ApprovedOK'
    <3>1. CASE SubmitStart(s)
      BY <3>1, ApprovedStart
    <3>2. CASE SubmitConfirm(s) \/ WithdrawCancel(s) \/ ReviewAct(s)
      <4>1. InstKept
        BY <3>2, FlowKept
      <4> QED
        BY <3>2, <4>1, ApprovedElsewhere, ApprovedResult
    <3>3. CASE ~SubmitStart(s) /\ ~SubmitConfirm(s) /\ ~WithdrawCancel(s) /\ ~ReviewAct(s)
      <4>1. InstKept
        <5>1. UNCHANGED inst
          BY <2>2, <3>3
          DEF Handler, SubmitRead, SubmitQuery, SubmitRevert, AbortSet, WithdrawQuery,
              WithdrawSet, ReviewLocate, LazyQuery, LazyDraft, SyncCurrent, SyncDecide,
              ActivateRead, ActivateCommit, ActivateUnset, Dies
        <5> QED
          BY <5>1, SameKeeps DEF Inv
      <4> QED
        BY <2>2, <3>3, <4>1, ApprovedElsewhere, ApprovedResult DEF Handler
    <3> QED
      BY <3>1, <3>2, <3>3
  <2> QED
    BY <2>1, <2>2, ApprovedEnvironment DEF Next
<1> QED
  BY <1>1, <1>2, InvHolds, PTL DEF Spec

(* No result is applied without an approval, whatever races, fails or dies *)
(* and whatever administrators activate themselves.                        *)
THEOREM ActivationIsApproved == Spec => []ActivationNeedsApproval
<1>1. ApprovedOK => ActivationNeedsApproval
  BY DEF ApprovedOK, Approved, ActivationNeedsApproval
<1> QED
  BY <1>1, ApprovedHolds, PTL

=============================================================================
