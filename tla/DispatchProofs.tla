--------------------------- MODULE DispatchProofs ---------------------------
(***************************************************************************)
(* Theorems about the distribution engine, for every number of nodes,      *)
(* subscriptions and events and every value of the settings.               *)
(***************************************************************************)
EXTENDS Dispatch, FiniteSetTheorems, TLAPS

-----------------------------------------------------------------------------
(* Type correctness.                                                       *)

(* The retry counter stays within its bound when it is bumped.             *)
LEMMA BumpType ==
  ASSUME NEW a \in 0 .. AttemptCap
  PROVE  Bump(a) \in 0 .. AttemptCap
BY DispatchAssumption DEF DispatchAssumption, Bump

(* Whatever verdict a claimed row has, marking it writes a known status.   *)
LEMMA MarkedStatusType ==
  ASSUME NEW c
  PROVE  MarkedStatus(c) \in {"delivered", "failed", "dead"}
BY DEF MarkedStatus

(* A write of a status to some rows keeps the status table in its type.    *)
LEMMA WriteType ==
  ASSUME NEW R, NEW st \in Statuses, Write(R, st),
         status \in [Rows -> Statuses], elapsed \subseteq Rows
  PROVE  status' \in [Rows -> Statuses] /\ elapsed' \subseteq Rows
BY DEF Write

(* Init establishes the type invariant.                                    *)
LEMMA InitType == Init => TypeOK
BY DispatchAssumption
   DEF DispatchAssumption, Init, TypeOK, EvStates, Phases, Statuses, Seqs

(* Producers keep the types.                                               *)
LEMMA ProduceType == TypeOK /\ Produce => TypeOK'
BY DEF TypeOK, Produce, WriteEvent, EndEventTxn, ArchiveEvent, EvStates,
       subVars, dbVars, nodeVars, Claims

(* The dispatcher loop keeps the types.                                    *)
LEMMA EngineType ==
  ASSUME TypeOK, NEW n \in Nodes, Engine(n)
  PROVE  TypeOK'
<1> USE DEF subVars, dbVars, nodeVars
<1>1. CASE FanoutBegin(n)
  <2>1. batch' \in [Nodes -> SUBSET Seqs] /\ pc' \in [Nodes -> Phases]
    BY <1>1 DEF FanoutBegin, TypeOK, Visible, Phases
  <2>2. owed' \subseteq Rows
    BY <1>1, DispatchAssumption DEF FanoutBegin, DispatchAssumption
  <2> QED
    BY <1>1, <2>1, <2>2 DEF FanoutBegin, TypeOK, Claims
<1>9. CASE FanoutSubs(n)
  BY <1>9 DEF FanoutSubs, TypeOK, Phases, Claims
<1>2. CASE FanoutCommit(n)
  <2>1. status' \in [Rows -> Statuses] /\ elapsed' \subseteq Rows
    BY <1>2, WriteType DEF FanoutCommit, TypeOK, Statuses, Unfinished
  <2>2. watermark' \in 0 .. MaxSeq
    BY <1>2 DEF FanoutCommit, TypeOK, Seqs
  <2> QED
    BY <1>2, <2>1, <2>2 DEF FanoutCommit, TypeOK, Phases, Claims
<1>3. CASE ReclaimRunning(n)
  <2>1. status' \in [Rows -> Statuses] /\ elapsed' \subseteq Rows
    BY <1>3, WriteType DEF ReclaimRunning, TypeOK, Statuses, Unfinished
  <2>2. attempts' \in [Rows -> 0 .. AttemptCap]
    BY <1>3, BumpType DEF ReclaimRunning, TypeOK
  <2> QED
    BY <1>3, <2>1, <2>2 DEF ReclaimRunning, TypeOK, Phases, Claims
<1>4. CASE ClaimDispatches(n)
  <2>1. PICK C \in SUBSET Claimable :
          /\ Write(C, "running")
          /\ claims' = claims \cup
               {[node |-> n, row |-> r, att |-> attempts[r], step |-> "claimed"] : r \in C}
          /\ pc' = [pc EXCEPT ![n] = IF C = {} THEN "idle" ELSE "load"]
    BY <1>4 DEF ClaimDispatches
  <2>2. status' \in [Rows -> Statuses] /\ elapsed' \subseteq Rows
    BY <2>1, WriteType DEF TypeOK, Statuses, Unfinished
  <2>3. claims' \subseteq Claims
    BY <2>1 DEF TypeOK, Claims, Steps, Claimable
  <2>4. pc' \in [Nodes -> Phases]
    BY <2>1 DEF TypeOK, Phases
  <2> QED
    BY <1>4, <2>2, <2>3, <2>4 DEF ClaimDispatches, TypeOK, Claims
<1>5. CASE LoadRound(n)
  <2>1. \A c \in ClaimsOf(n) : [c EXCEPT !.step = Routed(c)] \in Claims
    BY DEF TypeOK, ClaimsOf, Claims, Routed, Steps, Verdicts
  <2>2. claims' \subseteq Claims
    BY <1>5, <2>1 DEF LoadRound, TypeOK
  <2>3. pc' \in [Nodes -> Phases]
    BY <1>5 DEF LoadRound, TypeOK, Phases
  <2> QED
    BY <1>5, <2>2, <2>3 DEF LoadRound, TypeOK
<1>6. CASE \E c \in ClaimsOf(n) : Deliver(c)
  <2>1. PICK c \in ClaimsOf(n) : Deliver(c)
    BY <1>6
  <2>2. c \in Claims
    BY DEF ClaimsOf, TypeOK
  <2>3. claims' \subseteq Claims /\ received' \subseteq Rows
    BY <2>1, <2>2 DEF Deliver, TypeOK, Claims, Steps, Verdicts
  <2> QED
    BY <2>1, <2>3 DEF Deliver, TypeOK
<1>7. CASE \E c \in ClaimsOf(n) : MarkDispatch(c)
  <2>1. PICK c \in ClaimsOf(n) : MarkDispatch(c)
    BY <1>7
  <2>2. c \in Claims
    BY DEF ClaimsOf, TypeOK
  <2>3. status' \in [Rows -> Statuses] /\ elapsed' \subseteq Rows
    BY <2>1, MarkedStatusType, WriteType
    DEF MarkDispatch, TypeOK, Statuses, Unfinished, Final
  <2>4. attempts' \in [Rows -> 0 .. AttemptCap]
    BY <2>1, <2>2, BumpType DEF MarkDispatch, TypeOK, Claims
  <2> QED
    BY <2>1, <2>3, <2>4 DEF MarkDispatch, TypeOK, Claims
<1>8. CASE EndRound(n)
  BY <1>8 DEF EndRound, TypeOK, Phases, Claims
<1> QED
  BY <1>1, <1>2, <1>3, <1>4, <1>5, <1>6, <1>7, <1>8, <1>9 DEF Engine

(* Failures keep the types.                                                *)
LEMMA FaultType ==
  ASSUME TypeOK, NEW n \in Nodes, Fault(n)
  PROVE  TypeOK'
<1> USE DispatchAssumption DEF DispatchAssumption, subVars, dbVars, nodeVars
<1>1. ASSUME NEW phase \in {"idle", "down"}, Leave(n, phase)
      PROVE  TypeOK'
  <2>1. faults' \in 0 .. MaxFaults
    BY <1>1 DEF Leave, TypeOK
  <2>2. /\ batch' \in [Nodes -> SUBSET Seqs] /\ pc' \in [Nodes -> Phases]
        /\ targets' \in [Nodes -> SUBSET Subs] /\ owed' \subseteq Rows
    BY <1>1 DEF Leave, TypeOK, Phases
  <2>3. claims' \subseteq Claims /\ lock' \in Nodes \cup {NoNode}
    BY <1>1 DEF Leave, TypeOK
  <2> QED
    BY <1>1, <2>1, <2>2, <2>3 DEF Leave, TypeOK
<1>2. CASE Restart(n)
  BY <1>2 DEF Restart, TypeOK, Phases
<1>3. CASE \E c \in ClaimsOf(n) : MarkLost(c)
  BY <1>3 DEF MarkLost, TypeOK
<1> QED
  BY <1>1, <1>2, <1>3 DEF Fault, TickFails, Crash

(* Timers keep the types.                                                  *)
LEMMA ElapseType ==
  ASSUME TypeOK, NEW r \in Rows, Elapse(r)
  PROVE  TypeOK'
BY DEF Elapse, TypeOK, subVars, nodeVars, Claims

(* Administrators keep the types.                                          *)
LEMMA AdminType == TypeOK /\ Admin => TypeOK'
<1> USE DEF subVars, dbVars, nodeVars
<1> SUFFICES ASSUME TypeOK, Admin PROVE TypeOK'
  OBVIOUS
<1>1. ASSUME NEW R \in SUBSET Rows, RetryDispatches(R) \/ SkipDispatches(R)
      PROVE  TypeOK'
  <2>1. status' \in [Rows -> Statuses] /\ elapsed' \subseteq Rows
    BY <1>1, WriteType
    DEF RetryDispatches, SkipDispatches, TypeOK, Statuses, Unfinished, Final
  <2> QED
    BY <1>1, <2>1 DEF RetryDispatches, SkipDispatches, TypeOK
<1>2. ASSUME NEW S, NEW from, NEW to, NEW force, PublishRebuild(S, from, to, force)
      PROVE  TypeOK'
  <2>1. status' \in [Rows -> Statuses] /\ elapsed' \subseteq Rows
    BY <1>2, WriteType DEF PublishRebuild, TypeOK, Statuses, Unfinished
  <2> QED
    BY <1>2, <2>1 DEF PublishRebuild, TypeOK
<1>3. ASSUME NEW s \in Subs, NEW to \in {"active", "inactive"},
             SetSubscriptionActive(s, to) \/ UpsertSubscription(s, to)
      PROVE  TypeOK'
  BY <1>3 DEF SetSubscriptionActive, UpsertSubscription, Switch, TypeOK
<1>4. ASSUME NEW s \in Subs, DeleteCheck(s) \/ DeleteSubscription(s)
      PROVE  TypeOK'
  BY <1>4 DEF DeleteCheck, DeleteSubscription, Switch, TypeOK
<1>5. ASSUME NEW S, NEW st, RetryByStatus(S, st)
      PROVE  TypeOK'
  <2>1. status' \in [Rows -> Statuses] /\ elapsed' \subseteq Rows
    BY <1>5, WriteType DEF RetryByStatus, TypeOK, Statuses, Unfinished
  <2> QED
    BY <1>5, <2>1 DEF RetryByStatus, TypeOK
<1> QED
  BY <1>1, <1>2, <1>3, <1>4, <1>5 DEF Admin

(* Every step keeps the types.                                             *)
LEMMA StepType == TypeOK /\ [Next]_vars => TypeOK'
<1>1. CASE UNCHANGED vars
  BY <1>1 DEF vars, TypeOK, Claims
<1> QED
  BY <1>1, ProduceType, EngineType, FaultType, ElapseType, AdminType DEF Next

(* Every variable of the engine stays in its type.                         *)
THEOREM TypeCorrect == Spec => []TypeOK
BY InitType, StepType, PTL DEF Spec

-----------------------------------------------------------------------------
(* The watermark.                                                          *)

(* A node inside the fan-out transaction holds the watermark row lock, and *)
(* only such a node has a batch, all of it above the watermark.            *)
InFanout(n) == pc[n] \in {"fanout", "insert"}

LockOK ==
  \A n \in Nodes :
    /\ InFanout(n) => lock = n
    /\ \A e \in batch[n] : InFanout(n) /\ e > watermark

(* Producers, timers and administrators touch no node and no watermark.    *)
LEMMA OutsideFrame ==
  ASSUME Produce \/ (\E r \in Rows : Elapse(r)) \/ Admin
  PROVE  UNCHANGED <<watermark, received, pc, lock, batch, claims>>
<1>1. CASE Produce
  BY <1>1 DEF Produce, WriteEvent, EndEventTxn, ArchiveEvent, nodeVars
<1>2. CASE \E r \in Rows : Elapse(r)
  BY <1>2 DEF Elapse, nodeVars
<1>3. CASE Admin
  BY <1>3
  DEF Admin, RetryDispatches, RetryByStatus, SkipDispatches, PublishRebuild,
      SetSubscriptionActive, UpsertSubscription, Switch, DeleteCheck, DeleteSubscription, nodeVars
<1> QED
  BY <1>1, <1>2, <1>3

(* What a fan-out transaction reads: some visible events, and none is left *)
(* out below one that is read.                                             *)
LEMMA FanoutBatchRead ==
  ASSUME TypeOK, NEW n \in Nodes, FanoutBegin(n)
  PROVE  /\ batch' = [batch EXCEPT ![n] = batch'[n]]
         /\ batch'[n] \subseteq Visible
         /\ \A e \in batch'[n], f \in Visible \ batch'[n] : e < f
<1>1. PICK B \in SUBSET Visible :
        /\ \A e \in B, f \in Visible \ B : e < f
        /\ batch' = [batch EXCEPT ![n] = B]
  BY DEF FanoutBegin
<1> QED
  BY <1>1 DEF TypeOK

(* The lock discipline is kept by every step, and no step moves the        *)
(* watermark back.                                                         *)
LEMMA LockStep ==
  ASSUME TypeOK, LockOK, [Next]_vars
  PROVE  LockOK' /\ watermark' >= watermark
<1>t. watermark \in Int /\ watermark <= MaxSeq
  BY DispatchAssumption DEF TypeOK, DispatchAssumption
<1>1. CASE Produce \/ (\E r \in Rows : Elapse(r)) \/ Admin
  BY <1>1, <1>t, OutsideFrame DEF InFanout, LockOK
<1>2. ASSUME NEW n \in Nodes, FanoutBegin(n)
      PROVE  LockOK' /\ watermark' >= watermark
  <2>1. \A m \in Nodes : ~InFanout(m)
    BY <1>2, DispatchAssumption
    DEF FanoutBegin, WatermarkRowFree, LockOK, DispatchAssumption
  <2>2. batch' = [batch EXCEPT ![n] = batch'[n]] /\ batch'[n] \subseteq Visible
    BY <1>2, FanoutBatchRead
  <2>3. \E p \in {"insert", "fanout"} : pc' = [pc EXCEPT ![n] = p]
    BY <1>2 DEF FanoutBegin
  <2> QED
    BY <1>2, <1>t, <2>1, <2>2, <2>3 DEF FanoutBegin, InFanout, LockOK, TypeOK, Visible
<1>8. ASSUME NEW n \in Nodes, FanoutSubs(n)
      PROVE  LockOK' /\ watermark' >= watermark
  BY <1>8, <1>t DEF FanoutSubs, InFanout, LockOK, TypeOK
<1>3. ASSUME NEW n \in Nodes, FanoutCommit(n)
      PROVE  LockOK' /\ watermark' >= watermark
  <2>1. \A m \in Nodes : m # n => ~InFanout(m) /\ batch[m] = {}
    BY <1>3 DEF FanoutCommit, InFanout, LockOK
  <2>2. watermark' >= watermark
    <3>1. CASE batch[n] = {}
      BY <1>3, <1>t, <3>1 DEF FanoutCommit
    <3>2. ASSUME NEW top \in batch[n], watermark' = top
          PROVE  watermark' >= watermark
      BY <1>t, <3>2 DEF LockOK, TypeOK, Seqs
    <3> QED
      BY <1>3, <3>1, <3>2 DEF FanoutCommit
  <2>3. LockOK'
    BY <1>3, <2>1 DEF FanoutCommit, InFanout, LockOK, TypeOK
  <2> QED
    BY <2>2, <2>3
<1>4. ASSUME NEW n \in Nodes, ReclaimRunning(n) \/ ClaimDispatches(n) \/ LoadRound(n)
                                \/ EndRound(n) \/ Restart(n)
      PROVE  LockOK' /\ watermark' >= watermark
  <2>1. /\ UNCHANGED <<watermark, lock, batch>>
        /\ ~InFanout(n)
        /\ \E p \in Phases \ {"fanout", "insert"} : pc' = [pc EXCEPT ![n] = p]
    BY <1>4 DEF ReclaimRunning, ClaimDispatches, LoadRound, EndRound, Restart, Phases, InFanout
  <2> QED
    BY <1>t, <2>1 DEF InFanout, LockOK, TypeOK
<1>5. ASSUME NEW c, Deliver(c) \/ MarkDispatch(c) \/ MarkLost(c)
      PROVE  LockOK' /\ watermark' >= watermark
  BY <1>5, <1>t DEF Deliver, MarkDispatch, MarkLost, InFanout, LockOK
<1>6. ASSUME NEW n \in Nodes, NEW phase \in {"idle", "down"}, Leave(n, phase)
      PROVE  LockOK' /\ watermark' >= watermark
  BY <1>6, <1>t DEF Leave, InFanout, LockOK, TypeOK
<1>7. CASE UNCHANGED vars
  BY <1>7, <1>t DEF vars, InFanout, LockOK
<1> QED
  BY <1>1, <1>2, <1>3, <1>4, <1>5, <1>6, <1>7, <1>8
  DEF Next, Engine, Fault, TickFails, Crash

(* The lock discipline is an invariant.                                    *)
LEMMA LockInvariant == Spec => [](TypeOK /\ LockOK)
<1>1. Init => LockOK
  BY DEF Init, InFanout, LockOK
<1> QED
  BY <1>1, InitType, StepType, LockStep, PTL DEF Spec

(* Two nodes never fan out in the same window: the watermark never moves   *)
(* back, even if the transactions that write events overlap.               *)
THEOREM WatermarkNeverMovesBack == Spec => WatermarkMonotonic
<1>1. TypeOK /\ LockOK /\ [Next]_vars => [watermark' >= watermark]_vars
  BY LockStep
<1> QED
  BY <1>1, LockInvariant, PTL DEF Spec, WatermarkMonotonic

-----------------------------------------------------------------------------
(* What a node does between a claim and the mark.                          *)

(* The steps of a node that call no channel and mark no row.               *)
NodeStep(n) ==
  \/ FanoutBegin(n) \/ FanoutSubs(n) \/ FanoutCommit(n)
  \/ ReclaimRunning(n) \/ EndRound(n) \/ Restart(n)

(* Those steps leave the claims and the receivers alone.                   *)
LEMMA NodeFrame ==
  ASSUME NEW n \in Nodes, NodeStep(n)
  PROVE  UNCHANGED <<claims, received>>
BY DEF NodeStep, FanoutBegin, FanoutSubs, FanoutCommit, ReclaimRunning, EndRound, Restart

(* How next-state steps are split in the proofs below.                     *)
LEMMA StepCases ==
  ASSUME [Next]_vars
  PROVE  \/ Produce
         \/ \E r \in Rows : Elapse(r)
         \/ Admin
         \/ UNCHANGED vars
         \/ \E n \in Nodes :
              \/ NodeStep(n)
              \/ ClaimDispatches(n)
              \/ LoadRound(n)
              \/ Leave(n, "idle")
              \/ Leave(n, "down")
              \/ \E c \in ClaimsOf(n) : Deliver(c) \/ MarkDispatch(c) \/ MarkLost(c)
BY DEF Next, Engine, Fault, TickFails, Crash, NodeStep

(* No step but a mark writes "delivered".                                  *)
LEMMA OnlyMarksDeliver ==
  ASSUME TypeOK, [Next]_vars, NEW r \in Rows,
         status'[r] = "delivered", status[r] # "delivered"
  PROVE  \E c \in claims : MarkDispatch(c) /\ c.row = r
<1> USE DEF dbVars, Write, TypeOK
<1>1. ASSUME Produce \/ (\E q \in Rows : Elapse(q)) \/ UNCHANGED vars
      PROVE  FALSE
  BY <1>1 DEF Produce, WriteEvent, EndEventTxn, ArchiveEvent, Elapse, vars
<1>2. ASSUME Admin
      PROVE  FALSE
  BY <1>2
  DEF Admin, RetryDispatches, RetryByStatus, SkipDispatches, PublishRebuild,
      SetSubscriptionActive, UpsertSubscription, Switch, DeleteCheck, DeleteSubscription
<1>3. ASSUME NEW n \in Nodes, NodeStep(n)
      PROVE  FALSE
  BY <1>3 DEF NodeStep, FanoutBegin, FanoutSubs, FanoutCommit, ReclaimRunning, EndRound, Restart
<1>4. ASSUME NEW n \in Nodes, ClaimDispatches(n)
      PROVE  FALSE
  BY <1>4 DEF ClaimDispatches
<1>5. ASSUME NEW n \in Nodes, LoadRound(n) \/ Leave(n, "idle") \/ Leave(n, "down")
      PROVE  FALSE
  BY <1>5 DEF LoadRound, Leave
<1>6. ASSUME NEW c \in claims, Deliver(c) \/ MarkLost(c)
      PROVE  FALSE
  BY <1>6 DEF Deliver, MarkLost
<1>7. ASSUME NEW c \in claims, MarkDispatch(c)
      PROVE  c.row = r
  BY <1>7 DEF MarkDispatch
<1> QED
  BY <1>1, <1>2, <1>3, <1>4, <1>5, <1>6, <1>7, StepCases DEF ClaimsOf

(* A verdict "ok" is held only for events the receiver has acknowledged.   *)
OkWasReceived == \A c \in claims : c.step = "ok" => c.row \in received

(* Nothing is ever taken back from a receiver.                             *)
LEMMA ReceivedGrows == [Next]_vars => received \subseteq received'
<1> SUFFICES ASSUME [Next]_vars PROVE received \subseteq received'
  OBVIOUS
<1>1. ASSUME NEW n \in Nodes, ClaimDispatches(n) \/ LoadRound(n)
                               \/ Leave(n, "idle") \/ Leave(n, "down")
      PROVE  received \subseteq received'
  BY <1>1 DEF ClaimDispatches, LoadRound, Leave
<1>2. ASSUME NEW c, Deliver(c) \/ MarkDispatch(c) \/ MarkLost(c)
      PROVE  received \subseteq received'
  BY <1>2 DEF Deliver, MarkDispatch, MarkLost
<1>3. CASE UNCHANGED vars
  BY <1>3 DEF vars
<1> QED
  BY <1>1, <1>2, <1>3, OutsideFrame, NodeFrame, StepCases

(* The verdicts held by the nodes stay truthful.                           *)
LEMMA OkStep ==
  ASSUME TypeOK, OkWasReceived, [Next]_vars
  PROVE  OkWasReceived'
<1>1. CASE Produce \/ (\E r \in Rows : Elapse(r)) \/ Admin
  BY <1>1, OutsideFrame DEF OkWasReceived
<1>2. ASSUME NEW n \in Nodes, NodeStep(n)
      PROVE  OkWasReceived'
  BY <1>2, NodeFrame DEF OkWasReceived
<1>3. ASSUME NEW n \in Nodes, ClaimDispatches(n)
      PROVE  OkWasReceived'
  BY <1>3 DEF ClaimDispatches, OkWasReceived
<1>4. ASSUME NEW n \in Nodes, LoadRound(n)
      PROVE  OkWasReceived'
  <2>1. \A c \in ClaimsOf(n) : [c EXCEPT !.step = Routed(c)].step = Routed(c)
    BY DEF ClaimsOf, TypeOK, Claims
  <2>2. \A c : Routed(c) # "ok"
    BY DEF Routed
  <2> QED
    BY <1>4, <2>1, <2>2 DEF LoadRound, OkWasReceived
<1>5. ASSUME NEW n \in Nodes, Leave(n, "idle") \/ Leave(n, "down")
      PROVE  OkWasReceived'
  BY <1>5 DEF Leave, OkWasReceived
<1>6. ASSUME NEW c \in claims, Deliver(c)
      PROVE  OkWasReceived'
  <2>1. c \in Claims
    BY DEF TypeOK
  <2>2. PICK verdict \in {"ok", "retry", "fatal"} :
          /\ claims' = (claims \ {c}) \cup {[c EXCEPT !.step = verdict]}
          /\ \/ received' = received \cup {c.row}
             \/ verdict # "ok" /\ UNCHANGED received
    BY <1>6 DEF Deliver
  <2>3. [c EXCEPT !.step = verdict].step = verdict /\ [c EXCEPT !.step = verdict].row = c.row
    BY <2>1 DEF Claims
  <2> QED
    BY <2>2, <2>3 DEF OkWasReceived
<1>7. ASSUME NEW c \in claims, MarkDispatch(c) \/ MarkLost(c)
      PROVE  OkWasReceived'
  BY <1>7 DEF MarkDispatch, MarkLost, OkWasReceived
<1>8. CASE UNCHANGED vars
  BY <1>8 DEF vars, OkWasReceived
<1> QED
  BY <1>1, <1>2, <1>3, <1>4, <1>5, <1>6, <1>7, <1>8, StepCases DEF ClaimsOf

(* A row is recorded as delivered only after its receiver acknowledged it, *)
(* whatever late nodes, crashes and administrators (forced rebuilds        *)
(* included) do.                                                           *)
THEOREM DeliveredIsAcknowledged == Spec => []DeliveredWasReceived
<1>1. Init => OkWasReceived /\ DeliveredWasReceived
  BY DEF Init, OkWasReceived, DeliveredWasReceived
<1>2. TypeOK /\ OkWasReceived /\ DeliveredWasReceived /\ [Next]_vars
        => DeliveredWasReceived'
  <2> SUFFICES ASSUME TypeOK, OkWasReceived, DeliveredWasReceived, [Next]_vars,
                      NEW r \in Rows, status'[r] = "delivered"
               PROVE  r \in received'
    BY DEF DeliveredWasReceived
  <2>1. CASE status[r] = "delivered"
    BY <2>1, ReceivedGrows DEF DeliveredWasReceived
  <2>2. CASE status[r] # "delivered"
    <3>1. PICK c \in claims : MarkDispatch(c) /\ c.row = r
      BY <2>2, OnlyMarksDeliver
    <3>2. c.step = "ok"
      BY <3>1 DEF MarkDispatch, MarkedStatus, Write
    <3> QED
      BY <3>1, <3>2, ReceivedGrows DEF OkWasReceived
  <2> QED
    BY <2>1, <2>2
<1> QED
  BY <1>1, <1>2, InitType, StepType, OkStep, PTL DEF Spec

-----------------------------------------------------------------------------
(* Who works on a row.                                                     *)

(* A claimed row is running, its timer has not run out, and one claim      *)
(* holds it.                                                               *)
OwnOK ==
  /\ \A c, d \in claims : c.row = d.row => c = d
  /\ \A c \in claims : status[c.row] = "running" /\ c.row \notin elapsed

(* A write of rows nobody has claimed, beside unchanged claims, takes no   *)
(* row away from a node.                                                   *)
LEMMA WriteElsewhere ==
  ASSUME TypeOK, OwnOK, NEW R, NEW st, Write(R, st), UNCHANGED claims,
         \A c \in claims : c.row \notin R
  PROVE  OwnOK'
<1>1. \A c \in claims : c.row \in Rows
  BY DEF TypeOK, Claims
<1> QED
  BY <1>1 DEF Write, OwnOK

(* The statements of the engine and of the administrators keep OwnOK when  *)
(* no node outlasts the reclaim time and no rebuild is forced.             *)
LEMMA OwnStep ==
  ASSUME ~LateNodes, AdminOps \cap {"batch", "force"} = {},
         TypeOK, OwnOK, [Next]_vars
  PROVE  OwnOK'
<1> USE DEF dbVars
<1>r. \A c \in claims : c \in Claims /\ c.row \in Rows
  BY DEF TypeOK, Claims
<1>1. CASE Produce
  BY <1>1, OutsideFrame DEF OwnOK, Produce, WriteEvent, EndEventTxn, ArchiveEvent
<1>2. ASSUME NEW r \in Rows, Elapse(r)
      PROVE  OwnOK'
  BY <1>2, OutsideFrame DEF OwnOK, Elapse, Owned
<1>3. CASE Admin
  <2>1. ASSUME NEW R \in SUBSET Rows, RetryDispatches(R) \/ SkipDispatches(R)
        PROVE  OwnOK'
    BY <2>1, <1>3, OutsideFrame, WriteElsewhere
    DEF RetryDispatches, SkipDispatches, OwnOK
  <2>2. ASSUME NEW S \in SUBSET Subs, NEW from, NEW to, NEW force \in BOOLEAN,
               PublishRebuild(S, from, to, force)
        PROVE  OwnOK'
    <3>1. Write({r \in Rebuilt(S, from, to) : status[r] = "none"}, "pending")
      BY <2>2 DEF PublishRebuild
    <3> QED
      BY <3>1, <1>3, OutsideFrame, WriteElsewhere DEF OwnOK
  <2>3. ASSUME UNCHANGED dbVars
        PROVE  OwnOK'
    BY <2>3, <1>3, OutsideFrame DEF OwnOK
  <2>4. \A S, st : ~RetryByStatus(S, st)
    BY DEF RetryByStatus
  <2>5. ASSUME NEW s \in Subs, NEW to,
               \/ SetSubscriptionActive(s, to) \/ UpsertSubscription(s, to)
               \/ DeleteCheck(s) \/ DeleteSubscription(s)
        PROVE  UNCHANGED dbVars
    BY <2>5 DEF SetSubscriptionActive, UpsertSubscription, Switch, DeleteCheck, DeleteSubscription
  <2> QED
    BY <1>3, <2>1, <2>2, <2>3, <2>4, <2>5 DEF Admin
<1>4. CASE UNCHANGED vars
  BY <1>4 DEF vars, OwnOK
<1>5. ASSUME NEW n \in Nodes, NodeStep(n)
      PROVE  OwnOK'
  <2>1. CASE FanoutBegin(n) \/ FanoutSubs(n) \/ EndRound(n) \/ Restart(n)
    BY <2>1 DEF FanoutBegin, FanoutSubs, EndRound, Restart, OwnOK
  <2>2. CASE FanoutCommit(n)
    BY <2>2, WriteElsewhere DEF FanoutCommit, Inserted, OwnOK
  <2>3. CASE ReclaimRunning(n)
    BY <2>3, WriteElsewhere DEF ReclaimRunning, Stale, OwnOK
  <2> QED
    BY <1>5, <2>1, <2>2, <2>3 DEF NodeStep
<1>6. ASSUME NEW n \in Nodes, ClaimDispatches(n)
      PROVE  OwnOK'
  <2>1. PICK C \in SUBSET Claimable :
          /\ Write(C, "running")
          /\ claims' = claims \cup
               {[node |-> n, row |-> r, att |-> attempts[r], step |-> "claimed"] : r \in C}
    BY <1>6 DEF ClaimDispatches
  <2>2. \A c \in claims : c.row \notin C
    BY DEF Claimable, Due, OwnOK
  <2>3. \A c \in claims' : c \in claims \/ (c.row \in C /\ c.row \in Rows)
    BY <2>1 DEF Claimable
  <2>4. \A c, d \in claims' : c.row = d.row => c = d
    BY <2>1, <2>2 DEF OwnOK
  <2>5. \A c \in claims' : status'[c.row] = "running" /\ c.row \notin elapsed'
    BY <1>r, <2>1, <2>2, <2>3 DEF OwnOK, Write
  <2> QED
    BY <2>4, <2>5 DEF OwnOK
<1>7. ASSUME NEW n \in Nodes, LoadRound(n)
      PROVE  OwnOK'
  <2>1. \A c \in claims : [c EXCEPT !.step = Routed(c)].row = c.row
    BY <1>r DEF Claims
  <2>2. \A d \in claims' :
          \E c \in claims : /\ d.row = c.row
                            /\ d = IF c \in ClaimsOf(n)
                                     THEN [c EXCEPT !.step = Routed(c)] ELSE c
    BY <1>7, <2>1 DEF LoadRound, ClaimsOf
  <2> QED
    BY <1>7, <2>2 DEF LoadRound, OwnOK
<1>8. ASSUME NEW n \in Nodes, Leave(n, "idle") \/ Leave(n, "down")
      PROVE  OwnOK'
  BY <1>8 DEF Leave, OwnOK
<1>9. ASSUME NEW c \in claims, Deliver(c)
      PROVE  OwnOK'
  <2>1. \E d : d.row = c.row /\ claims' = (claims \ {c}) \cup {d}
    BY <1>9, <1>r DEF Deliver, Claims
  <2> QED
    BY <1>9, <2>1 DEF Deliver, OwnOK
<1>10. ASSUME NEW c \in claims, MarkDispatch(c)
       PROVE  OwnOK'
  BY <1>10, <1>r DEF MarkDispatch, Write, OwnOK
<1>11. ASSUME NEW c \in claims, MarkLost(c)
       PROVE  OwnOK'
  BY <1>11 DEF MarkLost, OwnOK
<1> QED
  BY <1>1, <1>2, <1>3, <1>4, <1>5, <1>6, <1>7, <1>8, <1>9, <1>10, <1>11, StepCases
  DEF ClaimsOf

(* Claims are exclusive in every reachable state.                          *)
LEMMA OwnInvariant ==
  ASSUME ~LateNodes, AdminOps \cap {"batch", "force"} = {}
  PROVE  Spec => [](TypeOK /\ OwnOK)
<1>1. Init => OwnOK
  BY DEF Init, OwnOK
<1>2. OwnOK /\ TypeOK /\ [Next]_vars => OwnOK'
  BY OwnStep
<1> QED
  BY <1>1, <1>2, TypeCorrect, PTL DEF Spec

(* No row is ever delivered by two nodes at once, whatever crashes,        *)
(* retries, skips and unforced rebuilds happen, as long as nodes finish    *)
(* their rounds within the reclaim time.                                   *)
THEOREM OneOwner ==
  ASSUME ~LateNodes, AdminOps \cap {"batch", "force"} = {}
  PROVE  Spec => []OneOwnerPerRow
<1>1. OwnOK => OneOwnerPerRow
  BY DEF OwnOK, OneOwnerPerRow
<1> QED
  BY <1>1, OwnInvariant, PTL

-----------------------------------------------------------------------------
(* The order of the events of one subscription.                            *)

(* Rows exist only up to the watermark, and while a row runs no earlier    *)
(* row of its subscription is unfinished.                                  *)
OrderOK ==
  /\ \A r \in Rows : status[r] # "none" => r[2] <= watermark
  /\ \A r, q \in Rows :
       status[r] = "running" /\ Earlier(q, r) => status[q] \notin Unfinished

(* A write that makes no row running, and reopens no finished or absent    *)
(* row, keeps the order.                                                   *)
LEMMA WriteKeepsOrder ==
  ASSUME TypeOK, OrderOK, UNCHANGED watermark,
         NEW R \in SUBSET Rows, NEW st \in Statuses \ {"running"}, Write(R, st),
         \A r \in R : status[r] \in Unfinished \/ (status[r] = "dead" /\ st = "skipped")
  PROVE  OrderOK'
BY DEF TypeOK, OrderOK, Write, Unfinished, Earlier, Rows

(* Without manual retries, rebuilds and late nodes, every step keeps the   *)
(* order.                                                                  *)
LEMMA OrderStep ==
  ASSUME ~LateNodes, AdminOps \cap {"retry", "batch", "rebuild", "force"} = {},
         TypeOK, LockOK, OwnOK, OrderOK, [Next]_vars
  PROVE  OrderOK'
<1> USE DEF dbVars
<1>1. CASE Produce \/ (\E r \in Rows : Elapse(r)) \/ UNCHANGED vars
  BY <1>1, OutsideFrame
  DEF Produce, WriteEvent, EndEventTxn, ArchiveEvent, Elapse, vars, OrderOK
<1>2. CASE Admin
  <2>1. ASSUME NEW R \in SUBSET Rows, SkipDispatches(R)
        PROVE  OrderOK'
    BY <2>1, <1>2, OutsideFrame, WriteKeepsOrder
    DEF SkipDispatches, Statuses, Final, Unfinished
  <2>2. ASSUME UNCHANGED dbVars
        PROVE  OrderOK'
    BY <2>2, <1>2, OutsideFrame DEF OrderOK
  <2> QED
    BY <1>2, <2>1, <2>2
    DEF Admin, RetryDispatches, RetryByStatus, PublishRebuild,
        SetSubscriptionActive, UpsertSubscription, Switch, DeleteCheck, DeleteSubscription
<1>3. ASSUME NEW n \in Nodes, FanoutBegin(n) \/ FanoutSubs(n) \/ EndRound(n) \/ Restart(n)
                               \/ LoadRound(n) \/ Leave(n, "idle") \/ Leave(n, "down")
      PROVE  OrderOK'
  BY <1>3 DEF FanoutBegin, FanoutSubs, EndRound, Restart, LoadRound, Leave, OrderOK
<1>4. ASSUME NEW n \in Nodes, FanoutCommit(n)
      PROVE  OrderOK'
  <2>1. \A e \in batch[n] : e > watermark /\ e \in Int
    BY DEF LockOK, TypeOK, Seqs
  <2>2. watermark' >= watermark /\ watermark \in Int /\ watermark' \in Int
    BY StepType, LockStep DEF TypeOK
  <2>3. \A e \in batch[n] : e <= watermark'
    BY <1>4 DEF FanoutCommit
  <2>4. \A r \in Rows : r[2] \in Int
    BY DEF Rows, Seqs
  <2>5. /\ Write(Inserted(n), "pending")
        /\ Inserted(n) \subseteq {r \in Rows : r[2] \in batch[n]}
    BY <1>4, DispatchAssumption DEF FanoutCommit, Inserted, DispatchAssumption
  <2>6. \A r \in Rows : status'[r] # "none" => r[2] <= watermark'
    BY <2>2, <2>3, <2>4, <2>5 DEF Write, TypeOK, OrderOK
  <2>7. ASSUME NEW r \in Rows, NEW q \in Rows, status'[r] = "running", Earlier(q, r)
        PROVE  status'[q] \notin Unfinished
    <3>1. status[r] = "running" /\ r[2] <= watermark
      BY <2>5, <2>7 DEF Write, TypeOK, OrderOK
    <3>2. q \notin Inserted(n)
      BY <2>1, <2>2, <2>4, <2>5, <2>7, <3>1 DEF Earlier
    <3> QED
      BY <2>5, <2>7, <3>1, <3>2 DEF Write, TypeOK, OrderOK
  <2> QED
    BY <2>6, <2>7 DEF OrderOK
<1>5. ASSUME NEW n \in Nodes, ReclaimRunning(n)
      PROVE  OrderOK'
  BY <1>5, WriteKeepsOrder DEF ReclaimRunning, Stale, Statuses, Unfinished
<1>6. ASSUME NEW n \in Nodes, ClaimDispatches(n)
      PROVE  OrderOK'
  <2>1. PICK C \in SUBSET Claimable : Write(C, "running")
    BY <1>6 DEF ClaimDispatches
  <2>2. \A r \in C : status[r] \in Unfinished /\ NotBlocked(r)
    BY DEF Claimable, Due, Unfinished
  <2>3. ASSUME NEW r \in Rows, NEW q \in Rows, status'[r] = "running", Earlier(q, r)
        PROVE  status'[q] \notin Unfinished
    <3>1. status[q] \notin Unfinished
      BY <2>1, <2>2, <2>3 DEF Write, TypeOK, OrderOK, NotBlocked
    <3> QED
      BY <2>1, <2>2, <3>1 DEF Write, TypeOK
  <2>4. \A r \in Rows : status'[r] # "none" => r[2] <= watermark'
    BY <1>6, <2>1, <2>2 DEF ClaimDispatches, Write, TypeOK, OrderOK, Unfinished
  <2> QED
    BY <2>3, <2>4 DEF OrderOK
<1>7. ASSUME NEW c \in claims, Deliver(c) \/ MarkLost(c)
      PROVE  OrderOK'
  BY <1>7 DEF Deliver, MarkLost, OrderOK
<1>8. ASSUME NEW c \in claims, MarkDispatch(c)
      PROVE  OrderOK'
  <2>1. status[c.row] = "running" /\ c.row \in Rows
    BY DEF OwnOK, TypeOK, Claims
  <2>2. MarkedStatus(c) \in Statuses \ {"running"}
    BY MarkedStatusType DEF Statuses, Unfinished, Final
  <2> QED
    BY <1>8, <2>1, <2>2, WriteKeepsOrder DEF MarkDispatch, Unfinished
<1> QED
  BY <1>1, <1>2, <1>3, <1>4, <1>5, <1>6, <1>7, <1>8, StepCases DEF NodeStep, ClaimsOf

(* The engine keeps its queues in order.                                   *)
LEMMA OrderInvariant ==
  ASSUME ~LateNodes, AdminOps \cap {"retry", "batch", "rebuild", "force"} = {}
  PROVE  Spec => [](TypeOK /\ LockOK /\ OwnOK /\ OrderOK)
<1>1. Init => OrderOK
  BY DEF Init, OrderOK, Rows
<1>2. TypeOK /\ LockOK /\ OwnOK /\ OrderOK /\ [Next]_vars => OrderOK'
  BY OrderStep
<1>3. Spec => [](TypeOK /\ OwnOK)
  BY OwnInvariant
<1> QED
  BY <1>1, <1>2, <1>3, LockInvariant, PTL DEF Spec

(* At any time one node delivers to a subscription, and only its running   *)
(* row.                                                                    *)
THEOREM OneDelivery ==
  ASSUME ~LateNodes, AdminOps \cap {"retry", "batch", "rebuild", "force"} = {}
  PROVE  Spec => []OneInFlight
<1>1. TypeOK /\ OwnOK /\ OrderOK => OneInFlight
  <2> SUFFICES ASSUME TypeOK, OwnOK, OrderOK,
                      NEW c \in claims, NEW d \in claims, c.row[1] = d.row[1]
               PROVE  c = d
    BY DEF OneInFlight, OwnOK
  <2>1. c.row \in Rows /\ d.row \in Rows
    BY DEF TypeOK, Claims
  <2>2. ~Earlier(c.row, d.row) /\ ~Earlier(d.row, c.row)
    BY <2>1 DEF OwnOK, OrderOK, Unfinished
  <2>3. c.row = d.row
    BY <2>1, <2>2 DEF Earlier, Rows, Seqs
  <2> QED
    BY <2>3 DEF OwnOK
<1> QED
  BY <1>1, OrderInvariant, PTL

(* A step that reaches a receiver is a Deliver of a claimed row.           *)
LEMMA OnlyDeliverReaches ==
  ASSUME [Next]_vars, NEW r \in received' \ received
  PROVE  \E c \in claims : Deliver(c) /\ c.row = r
<1>1. ASSUME NEW n \in Nodes, ClaimDispatches(n) \/ LoadRound(n)
                               \/ Leave(n, "idle") \/ Leave(n, "down")
      PROVE  UNCHANGED received
  BY <1>1 DEF ClaimDispatches, LoadRound, Leave
<1>2. ASSUME NEW c, MarkDispatch(c) \/ MarkLost(c)
      PROVE  UNCHANGED received
  BY <1>2 DEF MarkDispatch, MarkLost
<1>3. ASSUME NEW c, Deliver(c)
      PROVE  r = c.row
  BY <1>3 DEF Deliver
<1>4. CASE UNCHANGED vars
  BY <1>4 DEF vars
<1> QED
  BY <1>1, <1>2, <1>3, <1>4, OutsideFrame, NodeFrame, StepCases DEF ClaimsOf

(* Events reach a receiver for the first time in sequence order.           *)
THEOREM FirstReceiptsAreOrdered ==
  ASSUME ~LateNodes, AdminOps \cap {"retry", "batch", "rebuild", "force"} = {}
  PROVE  Spec => FirstReceiptInOrder
<1>1. ASSUME TypeOK, OwnOK, OrderOK, [Next]_vars,
             NEW r \in received' \ received, NEW q \in Rows, Earlier(q, r)
      PROVE  status[q] \notin Unfinished
  <2>1. PICK c \in claims : c.row = r
    BY <1>1, OnlyDeliverReaches
  <2> QED
    BY <1>1, <2>1 DEF OwnOK, OrderOK, TypeOK, Claims
<1>2. TypeOK /\ OwnOK /\ OrderOK /\ [Next]_vars =>
        [\A r \in received' \ received :
           \A q \in Rows : Earlier(q, r) => status[q] \notin Unfinished]_vars
  BY <1>1
<1> QED
  BY <1>2, OrderInvariant, PTL DEF Spec, FirstReceiptInOrder

(* What a step may do to a finished row.                                   *)
KeepsFinal ==
  \A r \in Rows :
    status[r] \in Final =>
      \/ status'[r] = status[r]
      \/ (status[r] = "dead" /\ status'[r] = "skipped")

(* A write of rows that are not finished leaves the finished rows alone.   *)
LEMMA WriteKeepsFinal ==
  ASSUME NEW R, NEW st, Write(R, st), \A r \in R : status[r] \notin Final
  PROVE  KeepsFinal
BY DEF Write, KeepsFinal

(* Without manual retries, forced rebuilds and late nodes a finished row   *)
(* stays as it is, unless a dead one is skipped.                           *)
LEMMA FinalStep ==
  ASSUME ~LateNodes, AdminOps \cap {"retry", "batch", "force"} = {},
         TypeOK, OwnOK, [Next]_vars
  PROVE  KeepsFinal
<1> USE DEF dbVars, Final
<1>1. ASSUME UNCHANGED status
      PROVE  KeepsFinal
  BY <1>1 DEF KeepsFinal
<1>2. CASE Produce \/ (\E r \in Rows : Elapse(r)) \/ UNCHANGED vars
  BY <1>2, <1>1 DEF Produce, WriteEvent, EndEventTxn, ArchiveEvent, Elapse, vars
<1>3. CASE Admin
  <2>1. ASSUME NEW R, SkipDispatches(R)
        PROVE  KeepsFinal
    BY <2>1 DEF SkipDispatches, Write, KeepsFinal
  <2>2. ASSUME NEW S, NEW from, NEW to, NEW force \in BOOLEAN,
               PublishRebuild(S, from, to, force)
        PROVE  KeepsFinal
    BY <2>2, WriteKeepsFinal DEF PublishRebuild
  <2> QED
    BY <1>1, <1>3, <2>1, <2>2
    DEF Admin, RetryDispatches, RetryByStatus, SetSubscriptionActive, UpsertSubscription, Switch,
        DeleteCheck, DeleteSubscription
<1>4. ASSUME NEW n \in Nodes, NodeStep(n)
      PROVE  KeepsFinal
  <2>1. CASE FanoutBegin(n) \/ FanoutSubs(n) \/ EndRound(n) \/ Restart(n)
    BY <1>1, <2>1 DEF FanoutBegin, FanoutSubs, EndRound, Restart
  <2>2. CASE FanoutCommit(n)
    BY <2>2, WriteKeepsFinal DEF FanoutCommit, Inserted
  <2>3. CASE ReclaimRunning(n)
    BY <2>3, WriteKeepsFinal DEF ReclaimRunning, Stale
  <2> QED
    BY <1>4, <2>1, <2>2, <2>3 DEF NodeStep
<1>5. ASSUME NEW n \in Nodes, ClaimDispatches(n)
      PROVE  KeepsFinal
  BY <1>5, WriteKeepsFinal DEF ClaimDispatches, Claimable, Due
<1>6. ASSUME NEW n \in Nodes, LoadRound(n) \/ Leave(n, "idle") \/ Leave(n, "down")
      PROVE  KeepsFinal
  BY <1>1, <1>6 DEF LoadRound, Leave
<1>7. ASSUME NEW c \in claims, Deliver(c) \/ MarkLost(c)
      PROVE  KeepsFinal
  BY <1>1, <1>7 DEF Deliver, MarkLost
<1>8. ASSUME NEW c \in claims, MarkDispatch(c)
      PROVE  KeepsFinal
  BY <1>8, WriteKeepsFinal DEF MarkDispatch, OwnOK
<1> QED
  BY <1>2, <1>3, <1>4, <1>5, <1>6, <1>7, <1>8, StepCases DEF ClaimsOf

(* delivered, dead and skipped are final for the engine.                   *)
THEOREM FinalRowsStay ==
  ASSUME ~LateNodes, AdminOps \cap {"retry", "batch", "force"} = {}
  PROVE  Spec => FinalIsFinal
<1>1. TypeOK /\ OwnOK /\ [Next]_vars =>
        [\A r \in Rows :
           status[r] \in Final =>
             status'[r] = status[r] \/ (status[r] = "dead" /\ status'[r] = "skipped")]_vars
  BY FinalStep DEF KeepsFinal
<1>2. Spec => [](TypeOK /\ OwnOK)
  BY OwnInvariant
<1> QED
  BY <1>1, <1>2, PTL DEF Spec, FinalIsFinal

-----------------------------------------------------------------------------
(* No event falls through the fan-out window.                              *)

(* The fan-out transaction underway has read every event it owes up to the *)
(* last one it read, all above the watermark; the subscriptions it owes    *)
(* are active, and known to it once it has read the subscriptions.         *)
OwedOK ==
  /\ owed \subseteq Matches
  /\ \A r \in owed : r[2] > watermark /\ sub[r[1]] = "active"
  /\ \A n \in Nodes : InFanout(n) =>
       \A r \in owed :
         /\ \A top \in batch[n] : r[2] <= top => r[2] \in batch[n]
         /\ pc[n] = "insert" /\ batch[n] # {} => r[1] \in targets[n]

(* Only the commit of a fan-out transaction moves the watermark, to the    *)
(* last event of its batch.                                                *)
LEMMA OnlyFanoutMoves ==
  ASSUME [Next]_vars, watermark' # watermark
  PROVE  \E n \in Nodes : FanoutCommit(n) /\ watermark' \in batch[n]
<1>1. ASSUME NEW n \in Nodes, FanoutBegin(n) \/ FanoutSubs(n) \/ ReclaimRunning(n) \/ EndRound(n)
                               \/ Restart(n) \/ ClaimDispatches(n) \/ LoadRound(n)
                               \/ Leave(n, "idle") \/ Leave(n, "down")
      PROVE  UNCHANGED watermark
  BY <1>1 DEF FanoutBegin, FanoutSubs, ReclaimRunning, EndRound, Restart, ClaimDispatches,
              LoadRound, Leave
<1>2. ASSUME NEW c, Deliver(c) \/ MarkDispatch(c) \/ MarkLost(c)
      PROVE  UNCHANGED watermark
  BY <1>2 DEF Deliver, MarkDispatch, MarkLost
<1>3. CASE UNCHANGED vars
  BY <1>3 DEF vars
<1>4. \E n \in Nodes : FanoutCommit(n)
  BY <1>1, <1>2, <1>3, OutsideFrame, StepCases DEF NodeStep
<1>5. ASSUME NEW n \in Nodes, FanoutCommit(n)
      PROVE  watermark' \in batch[n]
  <2>1. batch[n] # {}
    BY <1>5 DEF FanoutCommit
  <2>2. \E top \in batch[n] : watermark' = top
    BY <1>5, <2>1 DEF FanoutCommit
  <2> QED
    BY <2>2
<1> QED
  BY <1>4, <1>5

(* What a fan-out owes is decided when it begins.                          *)
LEMMA OwedBegins ==
  ASSUME TypeOK, LockOK, NEW n \in Nodes, FanoutBegin(n)
  PROVE  OwedOK'
<1>1. \A r \in owed' : r \in Matches /\ r[2] \in Visible /\ sub'[r[1]] = "active"
  <2>1. \A r \in Matches : r[2] \in Seqs
    BY DispatchAssumption DEF DispatchAssumption, Rows
  <2> QED
    BY <2>1 DEF FanoutBegin, Visible
<1>2. \A r \in owed', top \in batch'[n] : r[2] <= top => r[2] \in batch'[n]
  BY <1>1, FanoutBatchRead DEF Visible, Seqs
<1>3. pc'[n] = "insert" => batch'[n] = {}
  BY DEF FanoutBegin, TypeOK
<1>4. \A m \in Nodes : InFanout(m)' => m = n
  BY DispatchAssumption
  DEF FanoutBegin, InFanout, LockOK, WatermarkRowFree, TypeOK, DispatchAssumption
<1> QED
  BY <1>1, <1>2, <1>3, <1>4 DEF FanoutBegin, OwedOK

(* Every step keeps what the fan-out owes within its reach.                *)
LEMMA OwedStep ==
  ASSUME TypeOK, LockOK, OwedOK, [Next]_vars
  PROVE  OwedOK'
<1> USE DEF subVars, InFanout
<1>1. ASSUME UNCHANGED <<watermark, pc, batch, targets, sub, owed>>
      PROVE  OwedOK'
  BY <1>1 DEF OwedOK
<1>2. CASE Produce \/ (\E r \in Rows : Elapse(r)) \/ UNCHANGED vars
  BY <1>1, <1>2 DEF Produce, WriteEvent, EndEventTxn, ArchiveEvent, Elapse, vars, nodeVars
<1>3. CASE Admin
  <2>1. UNCHANGED <<watermark, pc, batch, targets>>
    BY <1>3
    DEF Admin, RetryDispatches, RetryByStatus, SkipDispatches, PublishRebuild,
        SetSubscriptionActive, UpsertSubscription, DeleteCheck, DeleteSubscription, nodeVars
  <2>2. ASSUME NEW s \in Subs, NEW to, Switch(s, to)
        PROVE  OwedOK'
    BY <2>1, <2>2 DEF Switch, OwedOK, TypeOK, Rows
  <2> QED
    BY <1>1, <1>3, <2>1, <2>2
    DEF Admin, RetryDispatches, RetryByStatus, SkipDispatches, PublishRebuild,
        SetSubscriptionActive, UpsertSubscription, DeleteCheck, DeleteSubscription
<1>4. ASSUME NEW n \in Nodes, FanoutSubs(n)
      PROVE  OwedOK'
  BY <1>4 DEF FanoutSubs, OwedOK, TypeOK, Rows
<1>5. ASSUME NEW n \in Nodes, FanoutCommit(n)
      PROVE  OwedOK'
  BY <1>5 DEF FanoutCommit, OwedOK
<1>6. ASSUME NEW n \in Nodes, ReclaimRunning(n) \/ ClaimDispatches(n) \/ LoadRound(n)
                                \/ EndRound(n) \/ Restart(n)
      PROVE  OwedOK'
  <2>1. /\ UNCHANGED <<watermark, batch, targets, sub, owed>>
        /\ \E p \in Phases \ {"fanout", "insert"} : pc' = [pc EXCEPT ![n] = p]
    BY <1>6 DEF ReclaimRunning, ClaimDispatches, LoadRound, EndRound, Restart, Phases
  <2> QED
    BY <2>1 DEF OwedOK, TypeOK
<1>7. ASSUME NEW c, Deliver(c) \/ MarkDispatch(c) \/ MarkLost(c)
      PROVE  OwedOK'
  BY <1>1, <1>7 DEF Deliver, MarkDispatch, MarkLost
<1>8. ASSUME NEW n \in Nodes, NEW phase \in {"idle", "down"}, Leave(n, phase)
      PROVE  OwedOK'
  BY <1>8 DEF Leave, OwedOK, TypeOK
<1> QED
  BY <1>2, <1>3, <1>4, <1>5, <1>6, <1>7, <1>8, OwedBegins, StepCases DEF NodeStep

(* Whatever subscriptions are switched, written or deleted while it runs,  *)
(* and however event transactions overlap it, a fan-out leaves no row out  *)
(* that it could know of.                                                  *)
THEOREM FanoutLeavesNoGap == Spec => FanoutIsComplete
<1>1. ASSUME TypeOK, OwedOK, [Next]_vars, NEW r \in owed, r[2] <= watermark'
      PROVE  status'[r] # "none"
  <2>1. r \in Matches /\ r \in Rows /\ r[2] > watermark /\ r[2] \in Int /\ watermark \in Int
    BY <1>1 DEF OwedOK, TypeOK, Rows, Seqs
  <2>2. PICK n \in Nodes : FanoutCommit(n) /\ watermark' \in batch[n]
    BY <1>1, <2>1, OnlyFanoutMoves
  <2>3. r[2] \in batch[n] /\ r[1] \in targets[n]
    BY <1>1, <2>2 DEF FanoutCommit, OwedOK, InFanout
  <2>4. Write(Inserted(n), "pending")
    BY <2>2 DEF FanoutCommit
  <2> QED
    BY <1>1, <2>1, <2>3, <2>4 DEF Inserted, Write, TypeOK
<1>2. TypeOK /\ OwedOK /\ [Next]_vars
        => [\A r \in owed : r[2] <= watermark' => status'[r] # "none"]_vars
  BY <1>1
<1>3. Init => OwedOK
  BY DEF Init, OwedOK
<1>4. TypeOK /\ LockOK /\ OwedOK /\ [Next]_vars => OwedOK'
  BY OwedStep
<1> QED
  BY <1>2, <1>3, <1>4, LockInvariant, PTL DEF Spec, FanoutIsComplete

-----------------------------------------------------------------------------
(* The retry budget.                                                       *)

(* Where every subscription keeps a row and a registered channel, no       *)
(* claimed row is turned away before its channel is called.                *)
ChannelOK ==
  /\ deleting = {}
  /\ \A s \in Subs : sub[s] # "absent"
  /\ \A c \in claims : c.step # "reject"

(* Every step keeps the subscriptions and the routes to their channels.    *)
LEMMA ChannelStep ==
  ASSUME Registered = Subs, "delete" \notin AdminOps, TypeOK, ChannelOK, [Next]_vars
  PROVE  ChannelOK'
<1> USE DEF subVars
<1>r. \A c \in claims : c \in Claims /\ c.row[1] \in Subs
  BY DEF TypeOK, Claims, Rows
<1>1. CASE Produce \/ (\E r \in Rows : Elapse(r)) \/ UNCHANGED vars
  BY <1>1, OutsideFrame
  DEF Produce, WriteEvent, EndEventTxn, ArchiveEvent, Elapse, vars, ChannelOK
<1>2. CASE Admin
  BY <1>2, OutsideFrame
  DEF Admin, RetryDispatches, RetryByStatus, SkipDispatches, PublishRebuild,
      SetSubscriptionActive, UpsertSubscription, Switch, DeleteCheck, DeleteSubscription, ChannelOK, TypeOK
<1>3. ASSUME NEW n \in Nodes, NodeStep(n) \/ Leave(n, "idle") \/ Leave(n, "down")
      PROVE  ChannelOK'
  BY <1>3 DEF NodeStep, FanoutBegin, FanoutSubs, FanoutCommit, ReclaimRunning, EndRound, Restart,
              Leave, ChannelOK
<1>4. ASSUME NEW n \in Nodes, ClaimDispatches(n)
      PROVE  ChannelOK'
  BY <1>4 DEF ClaimDispatches, ChannelOK
<1>5. ASSUME NEW n \in Nodes, LoadRound(n)
      PROVE  ChannelOK'
  <2>1. \A c \in ClaimsOf(n) : /\ Routed(c) # "reject"
                               /\ [c EXCEPT !.step = Routed(c)].step = Routed(c)
    BY <1>r DEF Routed, ChannelOK, ClaimsOf, Claims
  <2> QED
    BY <1>5, <2>1 DEF LoadRound, ChannelOK
<1>6. ASSUME NEW c \in claims, Deliver(c)
      PROVE  ChannelOK'
  <2>1. \A v \in {"ok", "retry", "fatal"} : [c EXCEPT !.step = v].step # "reject"
    BY <1>r DEF Claims
  <2>2. PICK v \in {"ok", "retry", "fatal"} :
          claims' = (claims \ {c}) \cup {[c EXCEPT !.step = v]}
    BY <1>6 DEF Deliver
  <2> QED
    BY <1>6, <2>1, <2>2 DEF Deliver, ChannelOK
<1>7. ASSUME NEW c \in claims, MarkDispatch(c) \/ MarkLost(c)
      PROVE  ChannelOK'
  BY <1>7 DEF MarkDispatch, MarkLost, ChannelOK
<1> QED
  BY <1>1, <1>2, <1>3, <1>4, <1>5, <1>6, <1>7, StepCases DEF ClaimsOf

(* Only a mark makes a row failed, and the row then has attempts left.     *)
LEMMA FailedStep ==
  ASSUME TypeOK, ChannelOK, FailedHasAttemptsLeft, [Next]_vars
  PROVE  FailedHasAttemptsLeft'
<1> USE DEF dbVars, TypeOK, FailedHasAttemptsLeft
<1>1. ASSUME NEW R, NEW st, st # "failed", Write(R, st), UNCHANGED attempts
      PROVE  FailedHasAttemptsLeft'
  BY <1>1 DEF Write
<1>2. CASE Produce \/ (\E q \in Rows : Elapse(q)) \/ UNCHANGED vars
  BY <1>2 DEF Produce, WriteEvent, EndEventTxn, ArchiveEvent, Elapse, vars
<1>3. CASE Admin
  BY <1>1, <1>3
  DEF Admin, RetryDispatches, RetryByStatus, SkipDispatches, PublishRebuild,
      SetSubscriptionActive, UpsertSubscription, Switch, DeleteCheck, DeleteSubscription
<1>4. ASSUME NEW n \in Nodes, FanoutBegin(n) \/ FanoutSubs(n) \/ FanoutCommit(n) \/ EndRound(n)
                               \/ Restart(n) \/ ClaimDispatches(n)
      PROVE  FailedHasAttemptsLeft'
  BY <1>1, <1>4
  DEF FanoutBegin, FanoutSubs, FanoutCommit, EndRound, Restart, ClaimDispatches
<1>5. ASSUME NEW n \in Nodes, ReclaimRunning(n)
      PROVE  FailedHasAttemptsLeft'
  BY <1>5 DEF ReclaimRunning, Stale, Write
<1>6. ASSUME NEW n \in Nodes, LoadRound(n) \/ Leave(n, "idle") \/ Leave(n, "down")
      PROVE  FailedHasAttemptsLeft'
  BY <1>6 DEF LoadRound, Leave
<1>7. ASSUME NEW c \in claims, Deliver(c) \/ MarkLost(c)
      PROVE  FailedHasAttemptsLeft'
  BY <1>7 DEF Deliver, MarkLost
<1>8. ASSUME NEW c \in claims, MarkDispatch(c)
      PROVE  FailedHasAttemptsLeft'
  <2>1. c.att \in 0 .. AttemptCap /\ Bump(c.att) \in Int
    BY BumpType DEF Claims
  <2>2. MarkedStatus(c) = "failed" => ~(Bump(c.att) >= RetryMax)
    BY DEF MarkedStatus, ChannelOK
  <2>3. MarkedStatus(c) = "failed" => Bump(c.att) < RetryMax
    BY <2>1, <2>2, DispatchAssumption DEF DispatchAssumption
  <2> QED
    BY <1>8, <2>3 DEF MarkDispatch, Write
<1> QED
  BY <1>2, <1>3, <1>4, <1>5, <1>6, <1>7, <1>8, StepCases DEF NodeStep, ClaimsOf

(* A row that used its last attempt is dead: only rows with attempts left  *)
(* wait for a retry, however many crashes and reclaims they went through.  *)
THEOREM RetryBudget ==
  ASSUME Registered = Subs, "delete" \notin AdminOps
  PROVE  Spec => []FailedHasAttemptsLeft
<1>1. Init => ChannelOK /\ FailedHasAttemptsLeft
  BY DEF Init, ChannelOK, FailedHasAttemptsLeft
<1>2. TypeOK /\ ChannelOK /\ [Next]_vars => ChannelOK'
  BY ChannelStep
<1>3. TypeOK /\ ChannelOK /\ FailedHasAttemptsLeft /\ [Next]_vars
        => FailedHasAttemptsLeft'
  BY FailedStep
<1> QED
  BY <1>1, <1>2, <1>3, TypeCorrect, PTL DEF Spec

-----------------------------------------------------------------------------
(* The engine implements its contract.                                     *)

(* A write moves the stage of the rows that it writes, and of no other.    *)
LEMMA WriteMoves ==
  ASSUME TypeOK, NEW R \in SUBSET Rows, NEW st \in {"pending", "delivered", "dead", "skipped"},
         NEW to, to = IF st = "pending" THEN "queued" ELSE st, Write(R, st)
  PROVE  Contract!Moved(R, to)
BY DEF Contract!Moved, Stage, Write, TypeOK, Unfinished

(* A step that leaves the receivers and the statuses alone, or moves rows  *)
(* between unfinished ones only, does not show.                            *)
LEMMA StageStays ==
  ASSUME UNCHANGED received,
         \A r \in Rows : \/ status'[r] = status[r]
                         \/ status[r] \in Unfinished /\ status'[r] \in Unfinished
  PROVE  UNCHANGED Contract!vars
<1>1. \A r \in Rows : Stage(r)' = Stage(r)
  BY DEF Stage, Unfinished
<1> QED
  BY <1>1 DEF Contract!vars

(* A claimed row is the head of its subscription's queue.                  *)
LEMMA ClaimedIsHead ==
  ASSUME TypeOK, OwnOK, OrderOK, NEW c \in claims
  PROVE  c.row \in Rows /\ status[c.row] = "running" /\ Contract!Head(c.row)
<1>1. c.row \in Rows /\ status[c.row] = "running"
  BY DEF TypeOK, Claims, OwnOK
<1>2. \A q \in Rows : Contract!Before(q, c.row) => status[q] \notin Unfinished
  BY <1>1 DEF OrderOK, Earlier, Contract!Before
<1>3. \A q \in Rows : status[q] \notin Unfinished => Stage(q) # "queued"
  BY DEF Stage, TypeOK, Statuses, Unfinished, Final
<1> QED
  BY <1>1, <1>2, <1>3 DEF Contract!Head, Stage, Unfinished

(* A fan-out appends to the queues.                                        *)
LEMMA FanoutEnqueues ==
  ASSUME TypeOK, LockOK, OrderOK, NEW n \in Nodes, FanoutCommit(n)
  PROVE  Contract!Enqueue(Inserted(n)) /\ Inserted(n) \in SUBSET Rows
<1>1. Inserted(n) \in SUBSET Rows
  BY DispatchAssumption DEF DispatchAssumption, Inserted
<1>2. Contract!Moved(Inserted(n), "queued")
  BY <1>1, WriteMoves DEF FanoutCommit
<1>3. ASSUME NEW r \in Inserted(n), NEW q \in Rows, Contract!Before(r, q)
      PROVE  status[q] = "none"
  <2>1. r[2] \in Int /\ q[2] \in Int /\ watermark \in Int /\ r[2] > watermark
    BY <1>1 DEF TypeOK, LockOK, Inserted, Rows, Seqs
  <2> QED
    BY <1>3, <2>1 DEF OrderOK, Contract!Before
<1> QED
  BY <1>1, <1>2, <1>3 DEF Contract!Enqueue, Stage, Inserted, FanoutCommit

(* Every step of the engine is one of its contract, or does not show.      *)
LEMMA ContractStep ==
  ASSUME ~LateNodes, AdminOps \cap {"retry", "batch", "rebuild", "force"} = {},
         TypeOK, LockOK, OwnOK, OrderOK, OkWasReceived, [Next]_vars
  PROVE  [Contract!Next]_(Contract!vars)
<1> USE DEF dbVars
<1>1. ASSUME UNCHANGED <<status, received>>
      PROVE  UNCHANGED Contract!vars
  BY <1>1, StageStays
<1>2. CASE Produce \/ (\E r \in Rows : Elapse(r)) \/ UNCHANGED vars
  BY <1>1, <1>2 DEF Produce, WriteEvent, EndEventTxn, ArchiveEvent, Elapse, vars
<1>3. CASE Admin
  <2>1. ASSUME NEW R \in SUBSET Rows, SkipDispatches(R)
        PROVE  Contract!Skip(R)
    BY <2>1, WriteMoves DEF SkipDispatches, Contract!Skip, Stage, Unfinished
  <2> QED
    BY <1>1, <1>3, <2>1
    DEF Admin, RetryDispatches, RetryByStatus, PublishRebuild, SetSubscriptionActive,
        UpsertSubscription, DeleteCheck, DeleteSubscription, Contract!Next
<1>4. ASSUME NEW n \in Nodes, NodeStep(n)
      PROVE  [Contract!Next]_(Contract!vars)
  <2>1. CASE FanoutBegin(n) \/ FanoutSubs(n) \/ EndRound(n) \/ Restart(n)
    BY <1>1, <2>1 DEF FanoutBegin, FanoutSubs, EndRound, Restart
  <2>2. CASE FanoutCommit(n)
    BY <2>2, FanoutEnqueues DEF Contract!Next
  <2>3. CASE ReclaimRunning(n)
    BY <2>3, StageStays DEF ReclaimRunning, Stale, Write, TypeOK, Unfinished
  <2> QED
    BY <1>4, <2>1, <2>2, <2>3 DEF NodeStep
<1>5. ASSUME NEW n \in Nodes, ClaimDispatches(n)
      PROVE  UNCHANGED Contract!vars
  BY <1>5, StageStays DEF ClaimDispatches, Claimable, Due, Write, TypeOK, Unfinished
<1>6. ASSUME NEW n \in Nodes, LoadRound(n) \/ Leave(n, "idle") \/ Leave(n, "down")
      PROVE  UNCHANGED Contract!vars
  BY <1>1, <1>6 DEF LoadRound, Leave
<1>7. ASSUME NEW c \in claims, MarkLost(c)
      PROVE  UNCHANGED Contract!vars
  BY <1>1, <1>7 DEF MarkLost
<1>8. ASSUME NEW c \in claims, Deliver(c)
      PROVE  [Contract!Next]_(Contract!vars)
  <2>1. UNCHANGED status /\ (UNCHANGED received \/ received' = received \cup {c.row})
    BY <1>8 DEF Deliver
  <2>2. \A r \in Rows : Stage(r)' = Stage(r)
    BY <2>1 DEF Stage
  <2>3. CASE received' = received \cup {c.row}
    BY <2>2, <2>3, ClaimedIsHead DEF Contract!Next, Contract!Receive
  <2> QED
    BY <1>1, <2>1, <2>3
<1>9. ASSUME NEW c \in claims, MarkDispatch(c)
      PROVE  [Contract!Next]_(Contract!vars)
  <2>1. /\ c.row \in Rows /\ status[c.row] = "running" /\ Contract!Head(c.row)
        /\ Write({c.row}, MarkedStatus(c)) /\ UNCHANGED received
    BY <1>9, ClaimedIsHead DEF MarkDispatch
  <2>2. MarkedStatus(c) \in {"failed", "delivered", "dead"}
    BY MarkedStatusType
  <2>3. CASE MarkedStatus(c) = "failed"
    BY <2>1, <2>3, StageStays DEF Write, Unfinished
  <2>4. ASSUME NEW to \in {"delivered", "dead"}, MarkedStatus(c) = to
        PROVE  Contract!Settle(c.row, to)
    <3>1. Contract!Moved({c.row}, to)
      BY <2>1, <2>4, WriteMoves
    <3>2. to = "delivered" => c.row \in received
      BY <2>4 DEF MarkedStatus, OkWasReceived
    <3> QED
      BY <2>1, <3>1, <3>2 DEF Contract!Settle
  <2> QED
    BY <2>1, <2>2, <2>3, <2>4 DEF Contract!Next
<1> QED
  BY <1>2, <1>3, <1>4, <1>5, <1>6, <1>7, <1>8, <1>9, StepCases DEF ClaimsOf

(* Whatever nodes do and however they fail, a subscriber is served by a    *)
(* queue that keeps its order and loses nothing, as long as nodes finish   *)
(* their rounds within the reclaim time and administrators neither retry   *)
(* nor rebuild.                                                            *)
THEOREM ImplementsContract ==
  ASSUME ~LateNodes, AdminOps \cap {"retry", "batch", "rebuild", "force"} = {}
  PROVE  Spec => DeliversAsPromised
<1>1. Init => Contract!Init /\ OkWasReceived
  BY DEF Init, Contract!Init, Stage, OkWasReceived
<1>2. TypeOK /\ LockOK /\ OwnOK /\ OrderOK /\ OkWasReceived /\ [Next]_vars
        => [Contract!Next]_(Contract!vars)
  BY ContractStep
<1>3. TypeOK /\ OkWasReceived /\ [Next]_vars => OkWasReceived'
  BY OkStep
<1> QED
  BY <1>1, <1>2, <1>3, OrderInvariant, PTL
  DEF Spec, DeliversAsPromised, Contract!Spec
=============================================================================
