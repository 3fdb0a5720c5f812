# TLA+ models of cmx-mdm

cmx-mdm is a master-data platform: users apply for new or changed records with
change requests (CRs), a workflow engine approves them, an activator writes the
golden record, stewards find and merge duplicates, and a distribution engine
delivers what changed to subscribed systems. This directory models the parts of
it that are hard to test: everything that runs concurrently, crosses a process
or transaction boundary, or must survive failures, and the algorithms the
findings of duplicates and the contents of records and events rest on.

Paths below are relative to `src/crates/`. `PROJECT.json` maps every definition
to the lines it models.

## 1. The system

| Component | Source | State it keeps | Operations | Talks to |
|---|---|---|---|---|
| Distribution engine | `cmx-mdm-store-pg/src/dispatch_store.rs`, `cmx-mdm-app/src/distribution/{mod,dispatcher}.rs`, `channels/webhook.rs`, `md_accessor.rs` (`write_event`) | outbox `md_event_log`, `md_dist_watermark`, `md_dispatch_log` (status, attempts, next_retry_at), the claims of a round in memory | fan-out, reclaim, claim, deliver, mark; one loop per server node | the event-writing transactions; subscriptions; receivers by HTTP |
| Dispatch administration | `dispatch_store.rs` 500-824, `handlers/distribution.rs`, `handlers/governance.rs`, `match_store/governance.rs` | `md_subscription` | retry by ids or by status, skip, publish_rebuild; save, switch, delete of subscriptions | the rows the engine works on |
| CR approval | `handlers/{cr,flow_cb,review}.rs`, `flow_client.rs`, `cr_service.rs` | `cv_mdm_apply.doc_status` and `update_time` | submit, withdraw, abort, review, return, confirm, webhook, lazy sync, manual activation | the flow engine by HTTP; the activator |
| Activator | `activation_service/activate.rs`, `cmx-mdm-model/src/activation.rs`, `dct_accessor.rs`, `sql_builder.rs` | golden records and their lines (`cm_*`), versions | activate a create or an update CR in one transaction: map the form or its changes to columns, compare and set the version, write the event | CR status, outbox |
| Merge and undo | `activation_service/{merge,unmerge}.rs`, `handlers/merge.rs`, `match_store/{match_group,xref}.rs` | life and version of records, owner and life of lines, `md_merge_record`, `md_xref` | merge, start again, reject, undo | update CRs on the same records; outbox; findings |
| Scan and findings | `scan_store.rs`, `handlers/scan.rs`, `match_store/loader.rs` | `md_match_scan` | run, ignore, link to a merge | records; merge |
| Matching | `cmx-mdm-model/src/match_algo.rs`, `handlers/dedup.rs` | none | blocking, compare, decide, find candidates, scan clusters; key check, search | loader |
| Survivorship | `cmx-mdm-model/src/survivorship.rs` | none | survive, pick: the master's row after a merge | merge |
| Pull consumers, snapshot | `dispatch_store.rs` 654-696, `handlers/distribution.rs` 187-262 | `md_consumer_offset` | events since a number, acknowledge, paged snapshot | outbox, records |
| Envelope, filter, mapping | `distribution/transform.rs`, `registry.rs`, `cmx-mdm-model/src/distribution.rs` | none | does a subscription want an event; include, rename, mask its columns | engine |
| Code generation | `cmx-mdm-model/src/codegen.rs` | none | propose a code | activator |
| Message-queue channels | `channels/{kafka,rocketmq}.rs` | none | refuse every delivery | engine |
| Plumbing, read-only queries, web pages | `main.rs`, `auth.rs`, `ctx.rs`, `db_id.rs`, `error.rs`, `dashboard.rs`, `openapi.rs`, `web/` | none | routing, lists, counts | all |

### What is hard, and what makes each component correct

* **Distribution.** Several nodes run the same loop over one database and crash
  between any two statements; deliveries are at least once; administrators
  change the rows a node works on. Correct: no committed event is skipped, also
  when subscriptions change between the statements of a fan-out, one
  delivery per subscription at a time, first receipts in sequence order, final
  rows stay final, delivered means acknowledged, retries are bounded, everything
  is settled in the end.
* **CR approval.** Two systems without a common transaction. Webhooks get lost,
  are late or repeated; readers of the list apply results as well; calls time
  out after they took effect. Correct: activated once and only when approved,
  activated for good, the verdict of the current round counts, lost results are
  made up for.
* **Merge and undo.** Transactions at READ COMMITTED that read, then act upon
  what they read, on overlapping records. Correct: some golden record of a set
  of duplicates remains, no published line hangs below a merged record, no
  business key is lost, an undo gives back the lines its merge changed.
* **Scan.** Blocking is done twice, by the database and by the program, and the
  check for a known finding precedes its insertion. Correct: no duplicate is
  lost, a scanner stores none twice while it is pending, settled findings stay
  settled.

* **Records and what others know of them.** CRs carry forms that were filled in
  some time before, other CRs and merges commit meanwhile; a snapshot is several
  requests of several statements, its consumer restarts, and acknowledgements
  overtake each other. Correct: a published value changes only by what a user
  changed or a steward approved, events tell the record as it is, subscribers and
  consumers end up with the current records of which they were told.

`PROJECT.json` lists the hazards line by line, each with the properties that
would show it go wrong.

## 2. Modules

| Module | Models |
|---|---|
| `Dispatch` | the distribution engine and its administration |
| `DeliveryContract` | what the engine promises a subscriber, a queue; implemented by `Dispatch` |
| `DispatchProofs` | theorems about `Dispatch`, this refinement among them |
| `ChangeRequest` | the approval of a CR, the activator's status protocol, the flow engine as an external part |
| `ApprovalContract` | what the approval promises; implemented by `ChangeRequest` |
| `ChangeRequestProofs` | types and lasting facts of `ChangeRequest` |
| `ApprovalProofs` | theorems about one round, `ApprovalContract` among them, and about requests that die; extends `ChangeRequestProofs` |
| `Stewardship` | merge, reject, undo, and the update CRs beside them, statement by statement |
| `StewardshipProofs` | theorems about `Stewardship` |
| `MatchScan` | matching, the key check, the search and the scan |
| `MatchAlgoProofs` | what the matching algorithms compute, for all texts and rows |
| `MatchScanProofs` | theorems about the scan; extends `MatchAlgoProofs` |
| `Induction` | induction over numbers and finite sets, recursion, folds as functions: facts the other proofs use |
| `Transform` | filter and field map of a subscription, pure functions |
| `MasterData` | the contents of records: forms, activation, survivorship, undo, and the events they write; extends `Transform` |
| `Feed` | who follows the records: subscribers, the snapshot, pull consumers, acknowledgements; extends `MasterData` |
| `FeedProofs` | theorems about `Feed` |
| `MCDispatch`, `MCChangeRequest`, `MCStewardship`, `MCMatchScan`, `MCFeed` | values of constants and symmetry for TLC |

The modules meet where one leaves off. `ChangeRequest` decides when a CR is
activated, `MasterData` what that does to the record, `Stewardship` how the
statements of merges and edits interleave; the log that `MasterData` appends to
is the one `Dispatch` delivers (it begins with the event-writing transaction),
and `Feed` composes records, log and followers.

Operators whose comment begins with "Mutant" are variants of the definition
below them with a plausible bug; they are used only to see that each property
notices such a bug.

### Dispatch

One action is one SQL statement or one transaction. `ev` is the outbox (a
sequence number is taken by the INSERT, visible at COMMIT: `WriteEvent`,
`EndEventTxn`), `lock` the watermark row (`SELECT ... FOR UPDATE`), `status`,
`attempts` and `elapsed` the dispatch rows, `pc`, `batch` and `claims` what a
node holds in memory. `elapsed` abstracts `next_retry_at <= now()` of a failed
row and "older than running_reclaim_minutes" of a running one: `Elapse` lets a
timer run out at any time (for the row of a live node only with `LateNodes`).
`received` is a history of what reached the receivers.

A fan-out is one transaction at READ COMMITTED in three steps, and anybody may
commit between them: `FanoutBegin` waits for the watermark row and reads a batch
of events, `FanoutSubs` reads the active subscriptions (`targets`), `FanoutCommit`
inserts the rows, moves the watermark and commits. `owed` is a history: the rows
of the events that the first step could see, for the subscriptions that have been
active ever since; a subscription that is switched off or deleted leaves it.

The claim, with its NOT EXISTS guard and SKIP LOCKED, is one atomic statement
that takes the smallest due row of each subscription; so a chunk of
`deliver_round` holds one row per subscription, and the semaphore only delays.
`Matches` abstracts dictionary, event type and filter, of which `Transform` has
the functions. `attempts` saturates at
`AttemptCap` > `RetryMax`. A webhook call ends as ok, retryable or fatal; on
"retryable" the receiver may have processed the event.
Not modelled: the contents of envelopes, dead-letter notifications (an external
call without effect on the state), rest_pull subscriptions (no rows are made for
them), chunked rebuilds (500 and 5000 rows are out of reach).

`Stage` maps a row to `DeliveryContract`: no row is absent; pending, running and
retryable rows are queued; the others are what they say. New events go to the
end of their subscription's queue, only its head is received and leaves it.

### ChangeRequest

A slot is a request in progress; its `at` names the next statement or call. All
the requests share `sync_flow_result_with` (`y_...` places). Instances of the
flow engine are records with state, node, decision and round; a webhook is
derived from any finished instance, so it may be lost, late and repeated.
`stale` is "update_time is older than LAZY_SYNC_STALE_SECS" (300 s, while a
remote call times out after 10 s, so the CR does not grow old under a live
submission: `Submitting`). A "crash" also stands for a failed statement after
which the handler gives up, the one that sets a CR back after a failed activation
among them. `applied` counts commits of the activator for a result of the
approval; what an administrator activates by hand is not counted, and needs no
approval. `Abandoned` is a CR that is activating while no request is at work on it.
Abstracted: permissions, the contents of documents, comments. The three remote
reads of a review are one. The status "approved" is unreachable in the code.

`ApprovalContract` sees a CR as draft, pending, rejected, activated or aborted,
with the verdict of the current submission: `Verdict` reads it off the instance
that was started last. `activating` and a returned task are still pending. A
withdrawal is possible whatever the verdict is: a user may withdraw a CR that was
approved a moment ago and is not yet activated, and that approval is dropped.

### Stewardship

`row` are the committed rows of records, lines and merge records; `new` and
`holder` the uncommitted versions and their transaction, which gives READ
COMMITTED: a statement sees committed rows and its own, waits for rows held by
another transaction, and a deadlock's victim rolls back (`Fails`). A request
names any merge record, whatever its status: `MergeAgain` leaves it to the
statement that reads the record to refuse a rejected one, so a record that is
reviewed or unmerged may be carried out again, with a new log. The steps of
a merge are its statements in order: lock the master, read the members, retire
the victim, select lines, move or soft-delete them, write the master by version
compare-and-set, write the merge record. `Victims` are the lists of victims a
request may name. Left out: the surviving values and the events (see
`MasterData`), and audit rows.

### MatchScan

Texts are sequences of characters, rows functions from fields to texts. The
operators follow `match_algo`: `Levenshtein` is the two-row table, `Compare` the
integer weighted mean over fields that are not both empty, `BlockKey` the first
filled cluster key, `Candidates` and `ScanClusters` the two users. `Suspects` is
`load_suspects`: the published records that share any cluster key with another
one, with the columns that the request names. These differ: the scan names the
compared and the surviving fields (`ScanColumns`), the search the displayed ones
as well (`SearchColumns`), the key check the compared ones, `code` and `name`
(`KeyColumns`); nobody adds the cluster keys, and a field that was not read is empty
(`Seen`). A scan has the three steps of `mdm_match_scan_run` that touch the
database, one insert at a time; several run at once. `by`, who stored a finding,
is history.

### MasterData and Transform

`rec` are the rows of one dictionary's table with life, version and
`update_time`; `clock` counts the changes that set `update_time` (a create, a
merge of its victims, an undo; `update_header` and the merge of the master do
not). `cr[c]` holds the form as it was left (payload) and the changed fields
(deltas), `Fill` takes the former from the record of that moment. An activation
and a merge are a step that reads and a step that writes and commits, with the
event in the same transaction: the first write takes the row lock, and a merge
locks its master before it reads (`Locked`) but not its victims. `PlanCreate` and
`PlanUpdate` are `plan_create` and `plan_update` with `header_mapping` and
`subject_name_field`; `Survivors` is `survive`, victim by victim, with the rules
of `pick`; `Written` lays the manual overrides over it. The victims come in the
order in which the database returns them (`load_by_ids` has no ORDER BY), so
every order is possible. `MergeFails` stands for any error. `told` is a history:
an undo changes a record without an event.

`Transform` has `event_matches_sub`, the filter's conditions and the field map in
the order of the code: include, rename (one after the other), mask (by new
names). `like` looks at a leading `%` only, as the code does. The filter sees the
new row of an event.

### Feed

The server's part is `Page`, `SnapshotList`, `SnapshotSeq` (two statements of
one request, outside of a transaction; if the second fails the answer is 0),
`Batch` and the two statements of an acknowledgement (`AckUpdate`, `AckInsert`).
The consumers are external; they
follow the contract of the endpoints: load pages until one is not full, go on
with the events above the number in the answer to the last one (`maxSeq`, as the
comment at `handlers/distribution.rs:242` says), drop an event that is not newer
than the copy, acknowledge, and restart from what they acknowledged.
Acknowledgements on their way (`acks`) overtake each other and restarts. `from` is
a history: the number above which a consumer has been sent every event, or
`Everything` if no event was written while it loaded its snapshot. `offset` is
`md_consumer_offset`.
The log is in the order of commits (see `DispatchLateCommit` for what else there
is). The consumer ignores `updatedFrom` and other time filters.

## 3. Runs

`tlc -workers 2 -config X.cfg M` in this directory; each takes less than three
minutes on two cores.

| Run | Shows | Bounds, and why they are enough |
|---|---|---|
| `DispatchEngine` | types, one delivery in flight, no event skipped, retry budget, monotonic watermark, ordered first receipts, final rows stay, `DeliveryContract` is implemented | 2 nodes, 1 subscription, 3 events (an order of three rows, a window of 2), 2 attempts, 2 faults: a row is claimed, lost, reclaimed by the other node and lost again |
| `DispatchAdmin` | delivered was acknowledged, the fan-out leaves no gap | every administrator operation between any two statements, event transactions that overlap, a fan-out of one event at a time, nodes may outlast the reclaim time; 2 events, one of them filtered; no retries by the engine itself, which `DispatchEngine` has |
| `DispatchLive` | every event is settled, running rows are released | 2 subscriptions with a channel and three rows (one and two), a claim of one row that prefers the first subscription, so that it could starve the other; archived events, 1 fault |
| `DispatchLateCommit` | **violation** of `NoEventSkipped` | two event transactions that overlap |
| `CrRound` | activated once; `ApprovalContract` is implemented (activated for good, by the verdict) | 1 round, 3 concurrent requests, 2 faults |
| `CrAll` | types, activation needs approval; lost results and dead submissions are healed | every endpoint, the manual one too, 2 concurrent requests, 2 rounds, 2 faults of any kind, processes that die among them: 414 000 states |
| `StewardMerge` | a golden record exists, no hidden line, no key lost | 3 records, 4 lines of which one is added by a CR, 3 requests, 2 at a time, up to two victims: a cycle of merges and a merge that crosses an edit occur |
| `StewardUndo` | types, one merge per victim, an undo returns lines, a reject is final | 3 records, 3 requests, 2 at a time: merges of one and two victims, started again from any status, rejected, undone |
| `UndoPairs` | **violation** of `UndoRestores` | a merge of two victims and its undo |
| `MatchScan` | nothing is lost by blocking, clustering or known findings; no scanner stores a pending finding twice; settled is final; search and scan agree; the distance is minimal | 3 records with any of 5 rows (two blocks by two keys, like and unlike members, the least score), one cluster key that the scan loads and one that only the search does; 1 change, 2 scans that may overlap, with a failure between any two statements; distances of all pairs of texts of up to 3 characters of 2 |
| `CheckKey` | **violation** of `CheckedIsNew` | rows as in `MatchScan`, blocked by a field that the key check loads |
| `Feed` | types, events tell the record, published values change by approval only, subscribers and a consumer are current, acknowledgements only rise | 3 records of 3 columns of 3 values or null, 2 CRs (one new form, two kinds of change, of which one clears and empties fields), 1 merge of one or two victims with each survivorship rule, 1 undo; 2 subscribers, one with filter and field map; 1 consumer with pages of 2 and pulls of 2 events, 2 acknowledgements, 1 restart: two updates or an update and a merge of one record cross, a form is older than the record, changes fall between pages, between the last page and its number, between pulls and a restart |

Deadlock is checked in the `Dispatch` runs. The others say
`CHECK_DEADLOCK FALSE`: a finished CR has nothing left to do, and the number of
merges, changes and scans is bounded.

Nodes, slots, records and requests are symmetric where a run says SYMMETRY (no
run with liveness properties does).

**Fairness.** `Dispatch!FairSpec`: weak fairness of every step of a node, of its
restart and of the timers. The loop of `dispatcher::run` never ends and drops
errors of a tick (33-57), a crashed server is restarted by its supervisor, and
clocks advance. Nothing is assumed of producers or administrators.
`ChangeRequest!FairSpec`: weak fairness of every begun request (each awaits
calls with timeouts) and of time passing, strong fairness of `LazyCheck`: people
keep opening the list of CRs, also when another request is always in the way.
No fairness of webhooks, reviewers or users of the flow engine.

## 4. What the violations show

* `DispatchLateCommit`: `fanout_tick` moves the watermark to the largest visible
  sequence number; an event with a smaller one whose transaction commits later
  is never fanned out (`dispatch_store.rs:171`; comment at 170).
* `CheckKey`: the key check compares with `load_suspects`, whose
  `HAVING COUNT(*) > 1` drops a record that is alone with its key; the row is
  declared new although its twin is published (`handlers/dedup.rs:322` against
  its doc at 254).
* `UndoPairs`: `merge_inner` assigns the log of moved lines anew for each victim
  (`activation_service/merge.rs:235`), so a merge of two victims is undone with the
  lines of the last one: the victim that is restored gets the other's, or leaves
  its own with the master (`unmerge.rs:105-112` against its doc at 12).

### Boundaries of what holds

The runs and theorems state under which circumstances a property holds. Outside
of them the models show these behaviours of the code; each is reproduced by
changing the named constant of the named configuration.

* A row whose node dies in every round is claimed again for ever: `reclaim` puts
  it back without looking at `retry_max` (`dispatch_store.rs:202, 255`).
* `LateNodes = TRUE` in `DispatchEngine`: a node that outlasts the reclaim time
  overwrites what another one marked, `FinalIsFinal` and `OneInFlight` fail
  (`:316` against `:239`).
* `Registered # Subs`: rows without a channel stay failed beyond their budget,
  `FailedHasAttemptsLeft` fails (`dispatcher.rs:174`).
* `AdminOps` with batch retry or forced rebuild: a running row is taken from its
  node (`:526`, `:782`); manual retries may reorder receipts, and a row retried
  for ever keeps later ones waiting (so `DispatchLive` has no retry).
* The check and the delete of a subscription are two statements
  (`handlers/governance.rs:247-250`): one switched on in between is deleted.
* `MaxRounds = 2` in `CrRound`: which instance is current is read before the status
  is taken (`flow_cb.rs:203-207`), so a late webhook decides the round that was
  submitted meanwhile, and may apply an old approval: `ApprovesAsPromised` fails.
* `Ops` with "abort" in `CrRound`: `abort_cr` checks, then writes unconditionally
  (`cr_service.rs:142`), and overwrites a submission: `ApprovesAsPromised` fails.
  With "manual": it enters the activator without taking `activating`
  (`handlers/activation.rs:149`), without a verdict and beside a request that applies
  one, so two requests may activate one CR: `ApprovesAsPromised` fails.
* `Ops` with "withdraw" in `CrRound`: `mdm_cr_withdraw` writes `draft`
  unconditionally after cancelling (`flow_cb.rs:350`); if the review completed and
  activated the CR meanwhile, an activated CR becomes a draft, against rule 5 of
  the file's head (line 10) and the comment at 285: `ApprovesAsPromised` fails.
* "timeout" in `CrAll`: when the call that starts an instance times out, the
  submission sets the CR back to draft beside a live instance (`cr.rs:123`); its
  comment attributes such an instance to a crash only. Later submissions are
  refused until that instance is decided or cancelled in the flow engine.
* "crash" in `CrAll`: a request that dies in the activation, or cannot set the CR
  back, leaves it activating for ever. Nothing heals it, as `sync_flow_result_with`
  starts from `approving` only (`flow_cb.rs:258`), although the doc of the lazy
  synchronisation promises to make up for lost results (356-357).
  `ResultIsApplied` exempts this case by name (`Abandoned`), and theorem
  `NobodyAbandons` shows that nothing else is exempted.
* "commit" in `CrRound`: a commit that is reported as failed took effect;
  `approving` is written over `activated` (`flow_cb.rs:275`), and a second
  activation follows: `ActivatedOnce` fails.
* A merge record that is carried out again overwrites its log. `UndoReturnsLines`
  speaks of the lines as the last merge of the record left them.
* `Ops` with "undo" in `StewardMerge`: it moves lines away from a master that
  it does not lock, while a merge counts on them: `MergeKeepsKeys` fails. The undo
  of a merge of two victims may also publish a line of the victim that stays
  merged: `NoHiddenLine` fails.
* `Undoable` with "rejected", `Victims <- Single` and four requests in `StewardUndo`:
  the endpoint undoes any merge record whose victim is merged, `RejectedIsFinal`
  fails; the pages offer reviewed ones only. A failed merge leaves a pending record
  behind.
* Scans that overlap each find no pending hash and each store the cluster: no lock
  or constraint prevents it (`scan_store.rs:67-80`), although the head (6-8) rules
  repeated findings out. `MatchScan` has this: `ScannerRepeatsNothing` says only that
  no scanner stores a cluster twice while its finding is pending, so there are at
  most as many as there are scanners.
* A cluster key that a request does not load is empty for it, and without one no
  block is formed. `mdm_match_scan_run` loads the compared and the surviving fields
  (`handlers/scan.rs:103-112`), and the example in its own doc (41-45) blocks by
  `tax_no`, which is neither: such a scan finds nothing. The search also loads the
  displayed fields (`handlers/dedup.rs:208-219`), so it may find what no scan
  stores. `ScanFindsAll` and `SearchAgreesWithScan` ask for pairs that are joined by
  a key which the scan loads (`JoinedBy`); drop that conjunct to see the others lost.
* A cluster holds all the members of a block that are like some other member:
  two unlike pairs of one block are one finding.
* `Registered = {2}` in `DispatchLive`: the rows of a subscription without a
  channel never settle. They are due again every minute, and when as many of
  them as the claim takes (100) are due at every tick, those of later
  subscriptions wait for ever: `EveryEventSettles` fails.
* A consumer that loads a snapshot while events are written may lose changes. The
  list of a page is read before the largest number (`handlers/distribution.rs:235-258`):
  a change between the two is in neither, although the comment at 242 offers that
  number to go on from. And pages are cut by OFFSET from an order that a merge, a
  creation or an undo shifts (`:231`), so that a record slips between two of them.
  `FollowerCatchesUp` therefore asks for all records only if nothing was written
  meanwhile (`from = Everything`), and otherwise for those that an event has told
  since; with `from` fixed at `Everything` it fails in `Feed`.
* An acknowledgement that was sent before a restart may land after it, above
  what the copy holds by then; another restart goes on from there, and the events
  in between are not repeated. `Restart` moves `from` up to it.
* An undo writes no event (`activation_service/unmerge.rs:72-138`): whoever
  follows the events does not see the victim again. The properties of `Feed`
  exempt such records (`told`) until their next change.
* A record that changes so that a filter no longer passes it is not told to that
  subscriber, which keeps the old row; a merge whose new row the filter rejects
  does not tell it of the victims.

Consequences of the translated definitions that no property forbids:

* `update_header` leaves `update_time`: rule "latest" and the snapshot's
  `updatedFrom` do not see updates. "latest" compares each of several victims
  with the master's original time (`merge.rs:171-176`), so the last newer one
  wins, not the newest, and takes empty values as well; which one is last is up
  to the database.
* A merge reads its victims without a lock: an update CR that commits between
  the reading and the retirement is lost with the victim.
* An emptied text (`new: ''`) counts as unchanged (`cmx-mdm-model/src/activation.rs:228`),
  though the form sends it for a cleared field (`web/pages/cr-form.js:905`); only
  null clears a column.
* Of two first acknowledgements both find no row; the one whose INSERT does
  nothing is lost. That costs a repetition after a restart, nothing else.
* Pull consumers share `DispatchLateCommit`: an event that becomes visible below
  the number they have reached is never pulled.

## 5. Proofs

`tlapm M.tla` for `DispatchProofs`, `ChangeRequestProofs`, `ApprovalProofs`,
`StewardshipProofs`, `MatchAlgoProofs`, `MatchScanProofs`, `FeedProofs` and
`Induction`. Every theorem is for all values of the constants (any number of
nodes, subscriptions, events, slots, rounds, faults, records, texts, requests,
consumers); the assumptions below are the ones beyond the modules' ASSUME.

| Theorem | Property | Assumes |
|---|---|---|
| *Dispatch* | | |
| `TypeCorrect` | `TypeOK` | nothing |
| `WatermarkNeverMovesBack` | `WatermarkMonotonic` | nothing |
| `DeliveredIsAcknowledged` | `DeliveredWasReceived` | nothing |
| `OneOwner` | one node per running row | no late nodes, no batch retry, no forced rebuild |
| `OneDelivery` | `OneInFlight` | no late nodes, no retry, no rebuild |
| `FirstReceiptsAreOrdered` | `FirstReceiptInOrder` | as above |
| `FinalRowsStay` | `FinalIsFinal` | no late nodes, no retry, no forced rebuild |
| `FanoutLeavesNoGap` | `FanoutIsComplete` | nothing |
| `RetryBudget` | `FailedHasAttemptsLeft` | every channel is registered, no subscription is deleted |
| `ImplementsContract` | `DeliversAsPromised` | no late nodes, no retry, no rebuild |
| *ChangeRequest* | | |
| `CrTypeCorrect` | `TypeOK` | nothing |
| `ActivationIsApproved` | `ActivationNeedsApproval` | nothing |
| `OneActivation` | `ActivatedOnce` | one round, the manual endpoint is closed, no commit is reported as failed; any number of requests |
| `OneRoundKeepsContract` | `ApprovesAsPromised` | one round, no withdrawal, abort or manual activation; no call times out after it took effect, no commit is reported as failed; any number of requests |
| `NobodyAbandons` | no CR is `Abandoned` | no request dies or fails in the activation |
| *Stewardship* | | |
| `RowsAreTyped` | `TypeOK` | nothing |
| `MastersLeadToGold` | `GoldenRecordExists` | nothing |
| `RejectStands` | `RejectedIsFinal` | the pages' rule: reviewed and unmerged merges are offered for undo only |
| `LinesStayVisible` | `NoHiddenLine` | no undo |
| `KeysSurvive` | `MergeKeepsKeys` | no undo |
| `VictimsAreNotShared` | `OneMergePerVictim` | no undo |
| *MatchScan* | | |
| `ScansAreTyped` | `TypeOK` | nothing |
| `DistancesAreMinimal` | `DistanceIsMinimal` | nothing |
| `LevenshteinIsEditDistance`, `CompareIsFair` | what these compute for all texts and rows | nothing |
| `SettledOnce` | `SettledIsFinal` | nothing |
| `SearchAndScanAgree` | `SearchAgreesWithScan` | the threshold is at most 80, the search's own |
| `ScanLosesNothing` | `ScanFindsAll` | nothing |
| `NobodyRepeatsPending` | `ScannerRepeatsNothing` | nothing |
| *Feed* | | |
| `FeedIsTyped` | `TypeOK` | nothing |
| `EventsAreTrue` | `EventsTellTheRecord` | nothing |
| `OnlyApprovedChanges` | `ChangesAreApproved` | nothing |
| `OffsetsOnlyRise` | `OffsetNeverFalls` | nothing |
| `SubscribersKnow` | `SubscribersAreCurrent` | each subscription wants all kinds of events, and no two columns get one name in its field map; any filters |
| `FollowersCatchUp` | `FollowerCatchesUp` | nothing |

The assumptions are the boundaries of section 4: where a theorem assumes
something, a run without it either shows the property violated or is listed
there with the constant to change. None of these properties is inductive as it
stands. The strengthenings, each proved as its own lemma on top of the type
invariant:

### Dispatch

* `LockOK`: a node in its fan-out holds the lock, and its batch is above the
  watermark; hence the watermark moves only forward.
* `OwnOK`: every claim is of a running row whose timer has not run out, and no
  row has two claims. `OrderOK`: rows exist up to the watermark only, and while
  a row runs no earlier one of its subscription is unfinished. Together they
  give one delivery and the order: a fan-out cannot slip an earlier row under a
  running one.
* `OwedOK`: a fan-out has read every event it owes up to the last one of its batch,
  all above the watermark, and the subscriptions it owes are active and, once it
  has read them, among its `targets`. The lock is what makes it so: no other node
  moves the watermark or forgets what is owed (`OnlyFanoutMoves`).
* `ChannelOK`: every subscription keeps its row and its channel, so that no claim
  is turned away before the channel is called; hence attempts are counted.
* `ImplementsContract` is a refinement: initial states map to initial states, and
  each step either leaves every `Stage` (`StageStays`) or is a step of the queue.
  From `OwnOK` and `OrderOK` follows that a claimed row is the head of its queue
  (`ClaimedIsHead`), and from `LockOK` that a fan-out appends to its end; that a
  delivered row was received is `OkWasReceived`.

### Approval

* `RoundOK` and `GoodCall`: instances never outnumber submissions, because
  a submission in progress has room for one (a pigeonhole argument), and what a
  request remembers exists. `ApprovedOK` with `GoodSync`: a request on its way to
  the activator deals with an instance that was approved; instances only grow
  (`InstGrows`), so it stays approved.
* `OnceInv`: in one round the right to activate is a token (`Token`). A request
  takes it by the compare-and-set from `approving`, so nobody else has it; it
  gives it back only if nothing was applied, and nothing is applied while the CR is
  `approving`. A commit that is reported as failed gives the token back all the
  same, which is why that fault is excluded.
* `RoundInv`: in one round there is one submission, no instance exists while it
  runs, and a token exists only while the CR is `activating`. Hence every request
  is `Honest`: it writes the CR in the state it believes it to be in and applies
  the contract's `Verdict`, as finished instances stay as they are (`Frozen`).
* `Held`: a CR that is activating is in the hands of a request with the token, in
  any number of rounds; a request lets go of it by committing or setting the status
  back, unless it dies. So a CR is `Abandoned` by a death only.

### Stewardship

The layers build on each other, each preserved by every statement of every
request (`OwnStep` splits a step into the request's own part and what it leaves
to the others).

* `TypeInv`: types, and who holds which row; a request holds exactly what it
  wrote.
* `MergeInv`: a merge in progress holds its master, which is published, and the
  victims it has retired. So a merge adds an edge from a record that was
  published to a record that stays published until it commits, and no cycle of masters
  appears: from any record the chain of masters ends at a golden one.
* `StatusOK`: a merge record that was rejected is asked for by nobody, given the
  pages' rule.
* `LinesInv`: whoever writes a line holds the records it belongs to, before and
  after (`LineOK`), so the plan of a merge is still true when it is carried out
  (`PlanOK`); a victim that a merge is done with lists no line (`EmptyOK`), and each key
  of its committed lines is carried by a published line of the master (`KeyOK`).
* `GroupInv`: two merge records in force do not share a victim, because the second
  merge waits for the victim's row and then finds it retired (`TodoOK`, `DoneOK`).

### MatchScan

* The two-row table of `levenshtein` is a fold; `IsTable` and `FollowsRow` say that
  row `i`, place `j` holds the value of the recurrence. `LeastEdits` is the claim
  that this value is the least number of edits over the alignments of the first
  `i` and `j` characters (`AlignUpTo`), proved by induction over the table: an
  alignment either ends with a pair of last characters or leaves one out.
* `FindingsGrow`: findings are only appended, and each changes from pending to
  settled at most once; hence settled is final beside anything.
* `Seeks`: until it ends, every pair of duplicates that a scan has read, joined by a
  cluster key that it loads, is in a cluster it has still to store or in a finding.
  It holds when the scan has formed its clusters, because two duplicates share a
  block and are alike (`PairsAreClustered`), and a block key that is loaded is the
  same seen through any columns that contain it (`BlockKeySeen`), which also
  compares the search's blocks with the scan's.
* `KnowsItsOwn`: a scanner that inserts remembers every pending finding that it
  stored itself, whatever others store beside it.

### Feed

* `EventsBehind` and `Tells`: no event carries a version above its record's,
  and the last event of a record that is told carries its row. An
  activation raises the version it compared by one, a merge keeps its master
  locked, so the appended event is above the others of its record; an undo raises
  the version and clears `told`. `OffsetOK`: no offset is below `NoRow`.
* `ValuesOK` with `SurvivorsFollowRules`: rows, forms and plans are rows of the
  dictionary's columns whatever the mapping and the rules are, and the survivors,
  a fold over the victims in any order, take each field from the master, from a
  victim by the field's rule, or from an override. An activation writes where its
  version still holds, a merge holds its master, so a published value is what
  was planned for it.
* `NewsOK` with `LastAbout`: what a subscriber was last sent about a record is the
  last event about it that it wants. `MapShows` and `RenamedAll`: with names that do
  not collide, include, rename and mask (folds) show each column under its last
  name.
* `FollowOK`: while no event has been written since a consumer's first page, its copy
  has the records of the pages before the next one (`PagesOK`), which the order of
  the snapshot lists without gaps (`Rank`), and in the end all of them
  (`SnapshotOK`). A consumer that follows knows each record that was not told about
  beyond the number it has reached, if it has the whole snapshot or was told of the
  record since `from` (`KnowsOK`). Each event it applies keeps that, and a restart
  falls back to a number below or moves `from` up to it.

### Only model-checked

* Liveness, which is out of the prover's reach: `EveryEventSettles`,
  `RunningIsReleased`, `ResultIsApplied`, `CrashedSubmitHeals`.
* `UndoReturnsLines`.
* Whatever lies outside of the assumptions in the table and inside the bounds of
  the runs: undo beside merges is a run of TLC where the properties hold, and a
  boundary above where they do not.

What recursive functions and folds compute is proved from `Induction`: an
induction over numbers is the well-founded order of the library applied to the
least counterexample (`LeastElement`, `NumberInduction`), one over finite sets goes
by cardinality (`SetInduction`), and `Recursion` and `Folding` say that a recursive
function and a fold satisfy their equations.

## 6. Not modelled

Code generation (random, stateless), the recomputation of hierarchies, audit rows
and the survivorship log, the layout of envelopes, the values of updated lines
(`plan_lines`; that lines are added, archived and moved is in `Stewardship`),
message-queue channels (skeletons), configuration edits (single statements), the
time filters of the snapshot, read-only queries, server plumbing, and the web
pages, whose calls are among the ones the models allow. The caps of 500 members
per block and 50000 suspects truncate silently and are taken to be out of reach.
What remains of these keeps no state of its own, or changes it by one statement.

Hazards that the code has and that would break a property of a run are described
under the boundaries, each with the constants that reproduce it; `PROJECT.json`
lists them with a note in place of a property.

## 7. Plan

Done: `Dispatch` with its contract, `ChangeRequest` with its contract,
`Stewardship`, `MatchScan`, `Transform`, `MasterData`, `Feed`, and the proofs
above. Left:

1. Proofs: `UndoReturnsLines`, whose invariant relates the log of a merge in force to
   its lines, with merges that are started again; the contract of the approval with
   withdrawals in one round.
2. `plan_lines` as a pure function against a reference definition of a line diff.
   A form that was filled before a line was added does not mention it, and
   its activation archives it (`activate.rs:277-303`).
3. `Feed` over a log whose numbers become visible out of order.
