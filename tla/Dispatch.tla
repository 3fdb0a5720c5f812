------------------------------ MODULE Dispatch ------------------------------
(***************************************************************************)
(* The event distribution engine of cmx-mdm.                               *)
(*                                                                         *)
(* Activation and merge transactions append events to the outbox table     *)
(* md_event_log.  Every server node runs the same loop (dispatcher::tick): *)
(*                                                                         *)
(*   fan-out  : under the watermark row lock, turn new events into one     *)
(*              md_dispatch_log row per matching subscription;             *)
(*   reclaim  : give rows left "running" for too long back to the queue;   *)
(*   claim    : take, per subscription, the smallest unfinished row;       *)
(*   deliver  : call the subscription's channel, one task per subscription;*)
(*   mark     : record delivered / failed / dead.                          *)
(*                                                                         *)
(* All the nodes share one database, may crash between any two statements, *)
(* and race with administrators who retry, skip or rebuild rows and who    *)
(* switch subscriptions on and off.  One action is one SQL statement or    *)
(* one transaction of the code; what a node keeps in memory between two    *)
(* statements is kept in batch, pc and claims.                             *)
(***************************************************************************)
EXTENDS Integers, FiniteSets

CONSTANTS
  Nodes,         (* server processes running the dispatcher loop           *)
  NoNode,        (* "nobody holds the watermark row lock"                  *)
  Subs,          (* subscription ids (numbers: the claim orders by them)   *)
  MaxSeq,        (* bound: sequence numbers allocated by md_event_log      *)
  MaxOpen,       (* bound: event-writing transactions open at a time       *)
  FanoutBatch,   (* cfg.fanout_batch                                       *)
  DeliverBatch,  (* cfg.deliver_batch                                      *)
  RetryMax,      (* md_subscription.retry_max                              *)
  AttemptCap,    (* attempts are counted exactly up to this value          *)
  DictMatches,   (* <<s, e>>: event e is of the dictionary s subscribes to *)
  Matches,       (* those that also pass event_types and filter            *)
  Registered,    (* subscriptions whose channel type is registered         *)
  LateNodes,     (* may a live node outlast running_reclaim_minutes?       *)
  AdminOps,      (* the administrator endpoints in use                     *)
  MaxFaults      (* bound: crashes, failed ticks and lost marks            *)

Seqs == 1 .. MaxSeq
Rows == Subs \X Seqs

ASSUME DispatchAssumption ==
  /\ NoNode \notin Nodes
  /\ Subs \subseteq Nat
  /\ MaxSeq \in Nat /\ MaxOpen \in Nat /\ MaxFaults \in Nat
  /\ FanoutBatch \in Nat \ {0} /\ DeliverBatch \in Nat \ {0}
  /\ RetryMax \in Nat /\ AttemptCap \in Nat /\ RetryMax < AttemptCap
  /\ DictMatches \subseteq Rows
  /\ Matches \subseteq DictMatches
  /\ Registered \subseteq Subs
  /\ LateNodes \in BOOLEAN
  /\ AdminOps \subseteq
       {"retry", "batch", "skip", "rebuild", "force", "toggle", "delete", "archive"}

VARIABLES
  ev,        (* md_event_log, per sequence number                          *)
  watermark, (* md_dist_watermark.last_seq                                 *)
  lock,      (* the node whose fan-out transaction holds the watermark row *)
  batch,     (* events a node's fan-out transaction has read               *)
  targets,   (* subscriptions it has read as active                        *)
  owed,      (* history: rows the fan-out underway owes, see FanoutBegin   *)
  sub,       (* md_subscription: absent, or its active flag                *)
  deleting,  (* subscriptions a delete request has found inactive          *)
  status,    (* md_dispatch_log.status, "none" where there is no row       *)
  attempts,  (* md_dispatch_log.attempts                                   *)
  elapsed,   (* rows whose timer has run out: next_retry_at is reached     *)
             (* (failed) or updated_at is too old (running)                *)
  pc,        (* where a node is in its tick                                *)
  claims,    (* rows claimed by a node's round and not yet marked          *)
  received,  (* <<s, e>>: the receiver of s got event e at least once      *)
  faults     (* crashes, failed ticks and lost marks so far                *)

dbVars   == <<status, attempts, elapsed>>
nodeVars == <<pc, lock, batch, targets, claims>>
subVars  == <<sub, deleting, owed>>
vars == <<ev, watermark, lock, batch, targets, owed, sub, deleting, status,
          attempts, elapsed, pc, claims, received, faults>>

-----------------------------------------------------------------------------
(* Rows and claims.                                                        *)

Unfinished == {"pending", "running", "failed"}
Final      == {"delivered", "dead", "skipped"}
Statuses   == {"none"} \cup Unfinished \cup Final

EvStates == {"unused", "open", "committed", "rolledback", "archived"}
Phases   ==
  {"idle", "fanout", "insert", "reclaim", "claim", "load", "deliver", "down"}

(* A claimed row goes from "claimed" to "send" when the round has loaded   *)
(* its event and its subscription, and to the channel's verdict when it is *)
(* sent; "reject" and "gone" are the rows no channel is called for.        *)
Verdicts == {"ok", "retry", "fatal", "reject", "gone"}
Steps    == {"claimed", "send"} \cup Verdicts

Claims == [node : Nodes, row : Rows, att : 0 .. AttemptCap, step : Steps]

ClaimsOf(n) == {c \in claims : c.node = n}

Earlier(q, r) == q[1] = r[1] /\ q[2] < r[2]

Bump(a) == IF a < AttemptCap THEN a + 1 ELSE a

Min2(a, b) == IF a < b THEN a ELSE b

(* Every UPDATE of a row's status also sets updated_at: its timer restarts. *)
Write(R, st) ==
  /\ status' = [r \in Rows |-> IF r \in R THEN st ELSE status[r]]
  /\ elapsed' = elapsed \ R

Init ==
  /\ ev = [e \in Seqs |-> "unused"]
  /\ watermark = 0
  /\ lock = NoNode
  /\ batch = [n \in Nodes |-> {}]
  /\ targets = [n \in Nodes |-> {}]
  /\ owed = {}
  /\ sub = [s \in Subs |-> "active"]
  /\ deleting = {}
  /\ status = [r \in Rows |-> "none"]
  /\ attempts = [r \in Rows |-> 0]
  /\ elapsed = {}
  /\ pc = [n \in Nodes |-> "idle"]
  /\ claims = {}
  /\ received = {}
  /\ faults = 0

-----------------------------------------------------------------------------
(* Producers: md_accessor::write_event inside the activation or merge      *)
(* transaction.  The sequence number is taken by the INSERT, the event     *)
(* becomes visible at COMMIT.                                              *)

WriteEvent(e) ==
  /\ ev[e] = "unused"
  /\ \A f \in Seqs : f < e => ev[f] # "unused"
  /\ Cardinality({f \in Seqs : ev[f] = "open"}) < MaxOpen
  /\ ev' = [ev EXCEPT ![e] = "open"]
  /\ UNCHANGED <<watermark, subVars, received, faults, dbVars, nodeVars>>

EndEventTxn(e, outcome) ==
  /\ ev[e] = "open"
  /\ ev' = [ev EXCEPT ![e] = outcome]
  /\ UNCHANGED <<watermark, subVars, received, faults, dbVars, nodeVars>>

(* Archiving the event log is done outside this program, which only guards *)
(* against it (an event that can no longer be loaded).                     *)
ArchiveEvent(e) ==
  /\ "archive" \in AdminOps
  /\ ev[e] = "committed"
  /\ ev' = [ev EXCEPT ![e] = "archived"]
  /\ UNCHANGED <<watermark, subVars, received, faults, dbVars, nodeVars>>

-----------------------------------------------------------------------------
(* Fan-out: one transaction of three reads and a write.  It waits for the  *)
(* watermark row and reads the first FanoutBatch committed events above    *)
(* the watermark; then the active subscriptions; then it inserts the rows, *)
(* moves the watermark and commits.  Events and subscriptions committed in *)
(* between are seen by the later statements only (READ COMMITTED).         *)

(* Mutant: the watermark is read without FOR UPDATE.                       *)
WatermarkRowUnlocked == TRUE

WatermarkRowFree == lock = NoNode

(* Mutant: the window starts one event too late.                           *)
VisibleSkipsOne == {e \in Seqs : ev[e] = "committed" /\ e > watermark + 1}

Visible == {e \in Seqs : ev[e] = "committed" /\ e > watermark}

(* The history variable owed keeps what this transaction must not miss:    *)
(* the matching rows of the events it could see, for the subscriptions     *)
(* that are active from here to its commit.                                *)
FanoutBegin(n) ==
  /\ pc[n] = "idle"
  /\ WatermarkRowFree
  /\ lock' = n
  /\ \E B \in SUBSET Visible :
       /\ Cardinality(B) = Min2(FanoutBatch, Cardinality(Visible))
       /\ \A e \in B, f \in Visible \ B : e < f
       /\ batch' = [batch EXCEPT ![n] = B]
       /\ pc' = [pc EXCEPT ![n] = IF B = {} THEN "insert" ELSE "fanout"]
  /\ owed' = {r \in Matches : /\ ev[r[2]] = "committed" /\ r[2] > watermark
                              /\ sub[r[1]] = "active"}
  /\ UNCHANGED <<ev, watermark, sub, deleting, targets, claims, received, faults, dbVars>>

FanoutSubs(n) ==
  /\ pc[n] = "fanout"
  /\ targets' = [targets EXCEPT ![n] = {s \in Subs : sub[s] = "active"}]
  /\ pc' = [pc EXCEPT ![n] = "insert"]
  /\ UNCHANGED <<ev, watermark, subVars, lock, batch, claims, received, faults, dbVars>>

(* The rows a fan-out inserts: ON CONFLICT (subscription_id, event_id) DO  *)
(* NOTHING leaves the rows that exist alone.                               *)
Inserted(n) ==
  {r \in Matches : r[2] \in batch[n] /\ r[1] \in targets[n] /\ status[r] = "none"}

(* The rows are inserted, the watermark is moved to the last event read,   *)
(* and the transaction commits.                                            *)
FanoutCommit(n) ==
  /\ pc[n] = "insert"
  /\ Write(Inserted(n), "pending")
  /\ IF batch[n] = {}
       THEN UNCHANGED watermark
       ELSE \E top \in batch[n] :
              /\ \A e \in batch[n] : e <= top
              /\ watermark' = top
  /\ lock' = NoNode
  /\ batch' = [batch EXCEPT ![n] = {}]
  /\ targets' = [targets EXCEPT ![n] = {}]
  /\ owed' = {}
  /\ pc' = [pc EXCEPT ![n] = "reclaim"]
  /\ UNCHANGED <<ev, sub, deleting, attempts, claims, received, faults>>

-----------------------------------------------------------------------------
(* Reclaim and claim: one statement each.                                  *)

(* Mutants: reclaim without the age of the row; reclaim of nothing.        *)
StaleAtOnce == {r \in Rows : status[r] = "running"}
StaleNever  == {}

Stale == {r \in Rows : status[r] = "running" /\ r \in elapsed}

ReclaimRunning(n) ==
  /\ pc[n] = "reclaim"
  /\ Write(Stale, "pending")
  /\ attempts' = [r \in Rows |-> IF r \in Stale THEN Bump(attempts[r]) ELSE attempts[r]]
  /\ pc' = [pc EXCEPT ![n] = "claim"]
  /\ UNCHANGED <<ev, watermark, lock, batch, targets, subVars, claims, received, faults>>

Due(r) == status[r] = "pending" \/ (status[r] = "failed" /\ r \in elapsed)

(* Mutants: an ordering guard that forgets running or failed rows, or that *)
(* takes a dead row for unfinished work.                                   *)
NotBlockedByRunning(r) ==
  \A q \in Rows : Earlier(q, r) => status[q] \notin Unfinished \ {"running"}
NotBlockedByFailed(r) ==
  \A q \in Rows : Earlier(q, r) => status[q] \notin Unfinished \ {"failed"}
BlockedByDead(r) ==
  \A q \in Rows : Earlier(q, r) => status[q] \notin Unfinished \cup {"dead"}

(* The ordering guard: no earlier row of the subscription is unfinished.   *)
NotBlocked(r) == \A q \in Rows : Earlier(q, r) => status[q] \notin Unfinished

Claimable == {r \in Rows : Due(r) /\ NotBlocked(r)}

ClaimDispatches(n) ==
  /\ pc[n] = "claim"
  /\ \E C \in SUBSET Claimable :
       /\ Cardinality(C) = Min2(DeliverBatch, Cardinality(Claimable))
       /\ \A r \in C, q \in Claimable \ C : r[1] < q[1]
       /\ Write(C, "running")
       /\ claims' = claims \cup
            {[node |-> n, row |-> r, att |-> attempts[r], step |-> "claimed"] : r \in C}
       /\ pc' = [pc EXCEPT ![n] = IF C = {} THEN "idle" ELSE "load"]
  /\ UNCHANGED <<ev, watermark, lock, batch, targets, subVars, attempts, received, faults>>

-----------------------------------------------------------------------------
(* A delivery round: load, send, mark.                                     *)

(* What deliver_round and deliver_group decide before calling a channel.   *)
Routed(c) ==
  IF sub[c.row[1]] = "absent" \/ c.row[1] \notin Registered THEN "reject"
  ELSE IF ev[c.row[2]] = "archived" THEN "gone"
  ELSE "send"

LoadRound(n) ==
  /\ pc[n] = "load"
  /\ claims' = (claims \ ClaimsOf(n)) \cup
                 {[c EXCEPT !.step = Routed(c)] : c \in ClaimsOf(n)}
  /\ pc' = [pc EXCEPT ![n] = "deliver"]
  /\ UNCHANGED <<ev, watermark, lock, batch, targets, subVars, received, faults, dbVars>>

(* channel.deliver: a 2xx answer means the receiver has the event; after   *)
(* any other answer, or none, it may or may not have it.                   *)
Deliver(c) ==
  /\ pc[c.node] = "deliver"
  /\ c.step = "send"
  /\ \E verdict \in {"ok", "retry", "fatal"} :
       /\ claims' = (claims \ {c}) \cup {[c EXCEPT !.step = verdict]}
       /\ \/ received' = received \cup {c.row}
          \/ verdict # "ok" /\ UNCHANGED received
  /\ UNCHANGED <<ev, watermark, subVars, pc, lock, batch, targets, faults, dbVars>>

(* Mutants: a status outside the table's vocabulary, an off-by-one of the  *)
(* retry budget, a refused event recorded as delivered.                    *)
MarkedSuccess(c) == IF c.step = "ok" THEN "success" ELSE "failed"
MarkedOneTooMany(c) ==
  CASE c.step = "ok"     -> "delivered"
    [] c.step = "retry"  -> IF c.att >= RetryMax THEN "dead" ELSE "failed"
    [] c.step = "reject" -> "failed"
    [] OTHER             -> "dead"
MarkedFatalDelivered(c) ==
  CASE c.step \in {"ok", "fatal"} -> "delivered"
    [] c.step = "retry"  -> IF Bump(c.att) >= RetryMax THEN "dead" ELSE "failed"
    [] c.step = "reject" -> "failed"
    [] OTHER             -> "dead"

MarkedStatus(c) ==
  CASE c.step = "ok"     -> "delivered"
    [] c.step = "retry"  -> IF Bump(c.att) >= RetryMax THEN "dead" ELSE "failed"
    [] c.step = "reject" -> "failed"
    [] OTHER             -> "dead"

(* mark_dispatch is an UPDATE by id: it looks at neither the row's status  *)
(* nor its attempts.                                                       *)
MarkDispatch(c) ==
  /\ pc[c.node] = "deliver"
  /\ c.step \in Verdicts
  /\ Write({c.row}, MarkedStatus(c))
  /\ attempts' = [attempts EXCEPT ![c.row] = Bump(c.att)]
  /\ claims' = claims \ {c}
  /\ UNCHANGED <<ev, watermark, subVars, pc, lock, batch, targets, received, faults>>

EndRound(n) ==
  /\ pc[n] = "deliver"
  /\ ClaimsOf(n) = {}
  /\ pc' = [pc EXCEPT ![n] = "idle"]
  /\ UNCHANGED <<ev, watermark, subVars, lock, batch, targets, claims, received, faults, dbVars>>

-----------------------------------------------------------------------------
(* Failures.  A crash loses what the node holds in memory; PostgreSQL      *)
(* rolls its open transaction back.                                        *)

Leave(n, phase) ==
  /\ faults < MaxFaults
  /\ faults' = faults + 1
  /\ claims' = claims \ ClaimsOf(n)
  /\ lock' = IF lock = n THEN NoNode ELSE lock
  /\ batch' = [batch EXCEPT ![n] = {}]
  /\ targets' = [targets EXCEPT ![n] = {}]
  /\ owed' = IF lock = n THEN {} ELSE owed
  /\ pc' = [pc EXCEPT ![n] = phase]
  /\ UNCHANGED <<ev, watermark, sub, deleting, received, dbVars>>

(* A statement of the tick fails: the loop logs it and starts over.        *)
TickFails(n) ==
  /\ pc[n] \in {"fanout", "insert", "reclaim", "claim", "load"}
  /\ Leave(n, "idle")

Crash(n) ==
  /\ pc[n] # "down"
  /\ Leave(n, "down")

Restart(n) ==
  /\ pc[n] = "down"
  /\ pc' = [pc EXCEPT ![n] = "idle"]
  /\ UNCHANGED <<ev, watermark, subVars, lock, batch, targets, claims, received, faults, dbVars>>

(* The UPDATE of mark_dispatch fails; its error is dropped (let _ = ...).  *)
MarkLost(c) ==
  /\ pc[c.node] = "deliver"
  /\ c.step \in Verdicts
  /\ faults < MaxFaults
  /\ faults' = faults + 1
  /\ claims' = claims \ {c}
  /\ UNCHANGED <<ev, watermark, subVars, pc, lock, batch, targets, received, dbVars>>

-----------------------------------------------------------------------------
(* Time: next_retry_at of a failed row is reached, or a running row has    *)
(* not been updated for running_reclaim_minutes.  Unless LateNodes, a node *)
(* that is alive finishes its round within that time.                      *)

Owned(r) == \E c \in claims : c.row = r

Elapse(r) ==
  /\ r \notin elapsed
  /\ \/ status[r] = "failed"
     \/ status[r] = "running" /\ (LateNodes \/ ~Owned(r))
  /\ elapsed' = elapsed \cup {r}
  /\ UNCHANGED <<ev, watermark, subVars, status, attempts, received, faults, nodeVars>>

-----------------------------------------------------------------------------
(* Administrators.                                                         *)

RetryDispatches(R) ==
  /\ "retry" \in AdminOps
  /\ \A r \in R : status[r] \in {"failed", "dead"}
  /\ Write(R, "pending")
  /\ UNCHANGED <<ev, watermark, subVars, attempts, received, faults, nodeVars>>

(* Without ids, retry_dispatches takes every row of the status the body    *)
(* names, whichever that is, of one subscription or of all.                *)
RetryByStatus(S, st) ==
  /\ "batch" \in AdminOps
  /\ Write({r \in Rows : r[1] \in S /\ status[r] = st}, "pending")
  /\ UNCHANGED <<ev, watermark, subVars, attempts, received, faults, nodeVars>>

SkipDispatches(R) ==
  /\ "skip" \in AdminOps
  /\ \A r \in R : status[r] = "dead"
  /\ Write(R, "skipped")
  /\ UNCHANGED <<ev, watermark, subVars, attempts, received, faults, nodeVars>>

(* publish_rebuild joins events and subscriptions on the dictionary alone: *)
(* neither active nor event_types nor filter is looked at.                 *)
Rebuilt(S, from, to) ==
  {r \in DictMatches : /\ r[1] \in S /\ sub[r[1]] # "absent"
                       /\ r[2] \in from .. to /\ ev[r[2]] = "committed"}

PublishRebuild(S, from, to, force) ==
  /\ "rebuild" \in AdminOps
  /\ force => "force" \in AdminOps
  /\ Write({r \in Rebuilt(S, from, to) : force \/ status[r] = "none"}, "pending")
  /\ UNCHANGED <<ev, watermark, subVars, attempts, received, faults, nodeVars>>

Switch(s, to) ==
  /\ sub' = [sub EXCEPT ![s] = to]
  /\ owed' = IF to = "active" THEN owed ELSE {r \in owed : r[1] # s}

SetSubscriptionActive(s, to) ==
  /\ "toggle" \in AdminOps
  /\ sub[s] # "absent"
  /\ Switch(s, to)
  /\ UNCHANGED <<ev, watermark, deleting, received, faults, dbVars, nodeVars>>

(* The upsert of a subscription form: INSERT ... ON CONFLICT (id) DO UPDATE. *)
UpsertSubscription(s, to) ==
  /\ "toggle" \in AdminOps
  /\ Switch(s, to)
  /\ UNCHANGED <<ev, watermark, deleting, received, faults, dbVars, nodeVars>>

(* Deleting reads the row, refuses an active one, then deletes by id in a  *)
(* second statement.                                                       *)
DeleteCheck(s) ==
  /\ "delete" \in AdminOps
  /\ sub[s] = "inactive"
  /\ deleting' = deleting \cup {s}
  /\ UNCHANGED <<ev, watermark, sub, owed, received, faults, dbVars, nodeVars>>

DeleteSubscription(s) ==
  /\ s \in deleting
  /\ deleting' = deleting \ {s}
  /\ Switch(s, "absent")
  /\ UNCHANGED <<ev, watermark, received, faults, dbVars, nodeVars>>

-----------------------------------------------------------------------------

Produce ==
  \E e \in Seqs :
    \/ WriteEvent(e)
    \/ \E outcome \in {"committed", "rolledback"} : EndEventTxn(e, outcome)
    \/ ArchiveEvent(e)

Engine(n) ==
  \/ FanoutBegin(n)
  \/ FanoutSubs(n)
  \/ FanoutCommit(n)
  \/ ReclaimRunning(n)
  \/ ClaimDispatches(n)
  \/ LoadRound(n)
  \/ \E c \in ClaimsOf(n) : Deliver(c) \/ MarkDispatch(c)
  \/ EndRound(n)

Fault(n) ==
  \/ TickFails(n)
  \/ Crash(n)
  \/ Restart(n)
  \/ \E c \in ClaimsOf(n) : MarkLost(c)

Admin ==
  \/ \E R \in SUBSET Rows : RetryDispatches(R) \/ SkipDispatches(R)
  \/ \E S \in {Subs} \cup {{s} : s \in Subs}, st \in Statuses \ {"none"} :
       RetryByStatus(S, st)
  \/ \E S \in SUBSET Subs, from, to \in Seqs, force \in BOOLEAN :
       PublishRebuild(S, from, to, force)
  \/ \E s \in Subs :
       \/ \E to \in {"active", "inactive"} :
            SetSubscriptionActive(s, to) \/ UpsertSubscription(s, to)
       \/ DeleteCheck(s)
       \/ DeleteSubscription(s)

Next ==
  \/ Produce
  \/ \E n \in Nodes : Engine(n) \/ Fault(n)
  \/ \E r \in Rows : Elapse(r)
  \/ Admin

Spec == Init /\ [][Next]_vars

(* Fairness.  The loop never exits (dispatcher::run), so a node that is up *)
(* takes its next step; a crashed node is restarted; timers run out.  An   *)
(* open event transaction need not end, and administrators need not act.   *)
Fairness ==
  /\ \A n \in Nodes :
       /\ WF_vars(FanoutBegin(n)) /\ WF_vars(FanoutSubs(n))
       /\ WF_vars(FanoutCommit(n))
       /\ WF_vars(ReclaimRunning(n)) /\ WF_vars(ClaimDispatches(n))
       /\ WF_vars(LoadRound(n)) /\ WF_vars(EndRound(n))
       /\ WF_vars(\E c \in ClaimsOf(n) : Deliver(c) \/ MarkDispatch(c))
       /\ WF_vars(Restart(n))
  /\ \A r \in Rows : WF_vars(Elapse(r))

FairSpec == Spec /\ Fairness

-----------------------------------------------------------------------------
(* Properties.                                                             *)

(* Every variable stays in its type.                                       *)
TypeOK ==
  /\ ev \in [Seqs -> EvStates]
  /\ watermark \in 0 .. MaxSeq
  /\ lock \in Nodes \cup {NoNode}
  /\ batch \in [Nodes -> SUBSET Seqs]
  /\ targets \in [Nodes -> SUBSET Subs]
  /\ owed \subseteq Rows
  /\ sub \in [Subs -> {"absent", "active", "inactive"}]
  /\ deleting \subseteq Subs
  /\ status \in [Rows -> Statuses]
  /\ attempts \in [Rows -> 0 .. AttemptCap]
  /\ elapsed \subseteq Rows
  /\ pc \in [Nodes -> Phases]
  /\ claims \subseteq Claims
  /\ received \subseteq Rows
  /\ faults \in 0 .. MaxFaults

(* A row recorded as delivered was acknowledged by its receiver: whatever  *)
(* late marks, reclaims and administrators do, "delivered" is written only *)
(* after a 2xx answer (deliver_group), so the log never hides a lost event. *)
DeliveredWasReceived == \A r \in Rows : status[r] = "delivered" => r \in received

(* "The watermark means fanned out" (dispatch_store.rs, step 5): an event  *)
(* that is committed and not above the watermark has a row for every       *)
(* subscription that has been active all along.                            *)
NoEventSkipped ==
  \A r \in Matches :
    ev[r[2]] = "committed" /\ r[2] <= watermark => status[r] # "none"

(* At any time at most one node delivers to a subscription, and only its   *)
(* running row: the guard of claim_dispatches and the row lock serialise   *)
(* the rounds of all the nodes.                                            *)
OneInFlight ==
  /\ \A c, d \in claims : c.row[1] = d.row[1] => c = d
  /\ \A c \in claims : status[c.row] = "running"

(* No row is delivered by two nodes at once, and the row a node delivers   *)
(* is running: retries, skips, rebuilds without force, and switching or    *)
(* deleting its subscription do not take it away from that node.           *)
OneOwnerPerRow ==
  /\ \A c, d \in claims : c.row = d.row => c = d
  /\ \A c \in claims : status[c.row] = "running"

(* A row that failed has attempts left: with its channel available, a row  *)
(* that used its last attempt is dead, however many crashes and reclaims   *)
(* it went through.                                                        *)
FailedHasAttemptsLeft ==
  \A r \in Rows : status[r] = "failed" => attempts[r] < RetryMax

(* The fan-out window is exclusive: the watermark never moves back, so no  *)
(* batch is fanned out a second time by a node that was slow to commit.    *)
WatermarkMonotonic == [][watermark' >= watermark]_vars

(* When the watermark moves, every event below it that the fan-out         *)
(* transaction could see has a row for every subscription that was active  *)
(* from the transaction's first read to its commit: neither the limit on a *)
(* batch, nor subscriptions switched, written or deleted between its       *)
(* statements, nor event transactions that overlap it, open another gap.   *)
(* (A subscription switched on in between gets nothing: it had no claim.)  *)
FanoutIsComplete ==
  [][\A r \in owed : r[2] <= watermark' => status'[r] # "none"]_vars

(* Per subscription, events arrive in sequence order: when an event first  *)
(* reaches the receiver, no earlier row of the subscription is unfinished. *)
FirstReceiptInOrder ==
  [][\A r \in received' \ received :
       \A q \in Rows : Earlier(q, r) => status[q] \notin Unfinished]_vars

(* delivered, dead and skipped are final for the engine: no crash, reclaim *)
(* or mark brings such a row back into the queue or changes its verdict.   *)
FinalIsFinal ==
  [][\A r \in Rows :
       status[r] \in Final =>
         status'[r] = status[r] \/ (status[r] = "dead" /\ status'[r] = "skipped")]_vars

(* To a subscriber the engine is a queue (DeliveryContract): nodes that    *)
(* race and crash, reclaims, retries and lost marks do not show, but for   *)
(* events that are received again.                                         *)
Stage(r) ==
  IF status[r] = "none" THEN "absent"
  ELSE IF status[r] \in Unfinished THEN "queued"
  ELSE status[r]

Contract == INSTANCE DeliveryContract
              WITH Queue <- Rows, stage <- [r \in Rows |-> Stage(r)]

DeliversAsPromised == Contract!Spec

(* Every committed event a subscription matches is eventually delivered or *)
(* given up as dead, unless it is archived first: neither crashes, lost    *)
(* marks and receiver failures nor the subscriptions that the claim, which *)
(* takes a limited number of rows, prefers leave a row queued for ever.    *)
EveryEventSettles ==
  \A r \in Matches :
    ev[r[2]] = "committed" /\ r[1] \in Registered
      ~> status[r] \in {"delivered", "dead"} \/ ev[r[2]] = "archived"

(* No row stays running for ever (reclaim_running), whoever claimed it and *)
(* whatever became of that node or of the row's subscription.              *)
RunningIsReleased ==
  \A r \in Rows : status[r] = "running" ~> status[r] # "running"
=============================================================================
