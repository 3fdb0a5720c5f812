----------------------------- MODULE Stewardship -----------------------------
(***************************************************************************)
(* Merging duplicate records of cmx-mdm, and taking a merge back.          *)
(*                                                                         *)
(* A merge retires victims in favour of a master, in one transaction       *)
(* (activation_service::merge): their lines move to the master, or are     *)
(* soft-deleted where the master has a line of the same business key, and  *)
(* what was moved is logged in the merge record (md_merge_record), from    *)
(* which unmerge restores a victim.  Activations of update CRs change the  *)
(* same records and lines.                                                 *)
(*                                                                         *)
(* The database runs these transactions at READ COMMITTED: a statement     *)
(* sees committed rows and those its own transaction wrote; it waits for   *)
(* rows another transaction has written or locked, and a cycle of waiting  *)
(* transactions loses one of its members.  One action is one statement, or *)
(* a few adjacent ones on the lines of a record that is locked already.    *)
(* The events that a merge writes are the subject of Dispatch.             *)
(***************************************************************************)
EXTENDS Integers, Sequences, FiniteSets

CONSTANTS
  Reqs,        (* requests that may be in progress at the same time        *)
  Nobody,      (* no request; also: no record                              *)
  Records,     (* master-data records                                      *)
  Lines,       (* rows of their detail table                               *)
  Owner,       (* the record a line belongs to at first                    *)
  Key,         (* its business key                                         *)
  Unborn,      (* lines that are not inserted yet                          *)
  DedupKeys,   (* has the detail table a business key (dedup_keys)?        *)
  Ops,         (* the operations in use                                    *)
  Undoable,    (* status of the merge records an undo is asked for: the    *)
               (* pages offer it for reviewed ones, the handler takes all  *)
  Victims,     (* the lists of victims that a merge may name               *)
  MaxRequests  (* bound: requests                                          *)

Groups == 1 .. MaxRequests
Rows   == Records \cup Lines \cup Groups

ASSUME StewardshipAssumption ==
  /\ Nobody \notin Reqs \cup Records
  /\ Records \cap Lines = {} /\ (Records \cup Lines) \cap Groups = {}
  /\ Owner \in [Lines -> Records]
  /\ Unborn \subseteq Lines
  /\ DedupKeys \in BOOLEAN
  /\ Ops \subseteq {"merge", "again", "reject", "undo", "edit"}
  /\ Undoable \subseteq {"pending", "reviewed", "rejected", "unmerged"}
  /\ Victims \subseteq Seq(Records) \ {<<>>}
  /\ MaxRequests \in Nat

VARIABLES
  row,    (* the committed rows of the three tables                        *)
  new,    (* what the holder of a row has written to it                    *)
  holder, (* the transaction that has written or locked a row              *)
  req,    (* per request: where it is and what it remembers                *)
  asked,  (* requests so far                                               *)
  into,   (* history: the master a merged record went into                 *)
  moved   (* history: per line, the merge that changed it last, as long as *)
          (* its log stands, and the row it changed                        *)

vars == <<row, new, holder, req, asked, into, moved>>
rowVars  == <<row, new, holder>>
histVars == <<into, moved>>

-----------------------------------------------------------------------------
(* Rows.                                                                   *)

Lives == {"published", "merged", "archived", "unborn"}

(* A head row with its cross references (md_xref), a detail line, a merge  *)
(* record.                                                                 *)
HeadRow == [life : {"published", "merged"}, ver : Nat \ {0}, xref : BOOLEAN]
LineRow == [life : Lives, parent : Records]
GroupRow == [st : {"none", "pending", "reviewed", "rejected", "unmerged"},
             master : Records \cup {Nobody}, members : Seq(Records),
             rep : SUBSET Lines, ded : SUBSET Lines]

NoGroup == [st |-> "none", master |-> Nobody, members |-> <<>>, rep |-> {}, ded |-> {}]

Steps == {"idle", "m_lock", "m_read", "m_retire", "m_plan", "m_move", "m_write", "m_group",
          "r_group", "u_life", "u_log", "u_move", "u_group", "e_read", "e_write", "e_lines",
          "commit"}

(* cur: the record under way; ver: the version read of it or the master.   *)
Requests == [at : Steps, g : {0} \cup Groups, master : Records \cup {Nobody},
             todo : SUBSET Records, cur : Records \cup {Nobody}, ver : Nat,
             rep : SUBSET Lines, ded : SUBSET Lines]

Idle == [at |-> "idle", g |-> 0, master |-> Nobody, todo |-> {}, cur |-> Nobody, ver |-> 0,
         rep |-> {}, ded |-> {}]

Init ==
  /\ row = [x \in Rows |->
              IF x \in Records THEN [life |-> "published", ver |-> 1, xref |-> TRUE]
              ELSE IF x \in Lines
                THEN [life |-> IF x \in Unborn THEN "unborn" ELSE "published", parent |-> Owner[x]]
              ELSE NoGroup]
  /\ new = row
  /\ holder = [x \in Rows |-> Nobody]
  /\ req = [t \in Reqs |-> Idle]
  /\ asked = 0
  /\ into = [r \in Records |-> Nobody]
  /\ moved = [l \in Lines |-> [by |-> 0, was |-> row[l]]]

(* What a statement of transaction t sees of a row, and whether it can     *)
(* write a set of rows without waiting.                                    *)
See(t, x) == IF holder[x] = t THEN new[x] ELSE row[x]
Free(t, X) == \A x \in X : holder[x] \in {t, Nobody}

Put(t, F) ==
  /\ Free(t, DOMAIN F)
  /\ holder' = [x \in Rows |-> IF x \in DOMAIN F THEN t ELSE holder[x]]
  /\ new' = [x \in Rows |-> IF x \in DOMAIN F THEN F[x] ELSE new[x]]
  /\ UNCHANGED row

Goto(t, step) == req' = [req EXCEPT ![t].at = step]

(* The transaction ends without effect: its guard is dropped.              *)
Rollback(t) ==
  /\ new' = [x \in Rows |-> IF holder[x] = t THEN row[x] ELSE new[x]]
  /\ holder' = [x \in Rows |-> IF holder[x] = t THEN Nobody ELSE holder[x]]
  /\ req' = [req EXCEPT ![t] = Idle]
  /\ UNCHANGED <<row, asked, histVars>>

Starts(t, op) == op \in Ops /\ req[t] = Idle /\ asked < MaxRequests /\ asked' = asked + 1

LinesOf(t, r) == {l \in Lines : See(t, l).parent = r /\ See(t, l).life # "unborn"}
PublishedOf(t, r) == {l \in LinesOf(t, r) : See(t, l).life = "published"}

(* set_lifecycle: a compare-and-set of the status that also raises the     *)
(* version.                                                                *)
Relived(head, to) == [head EXCEPT !.life = to, !.ver = @ + 1]

-----------------------------------------------------------------------------
(* merge.  The handler inserts a merge record of its own unless the request *)
(* names one; the transaction that follows may still fail.                 *)

Members(g) == {row[g].members[i] : i \in DOMAIN row[g].members}

MergeAsk(t, m, v) ==
  LET g == asked + 1
      group == [NoGroup EXCEPT !.st = "pending", !.master = m, !.members = <<m>> \o v] IN
  /\ Starts(t, "merge")
  /\ row' = [row EXCEPT ![g] = group]
  /\ new' = [new EXCEPT ![g] = group]
  /\ req' = [req EXCEPT ![t] = [Idle EXCEPT !.at = "m_lock", !.g = g, !.master = m,
                                           !.todo = {v[i] : i \in DOMAIN v}]]
  /\ UNCHANGED <<holder, histVars>>

(* Any merge record may be named, whatever its status.                     *)
MergeAgain(t, g, m) ==
  /\ Starts(t, "again")
  /\ row[g].st # "none"
  /\ m \in Members(g) /\ Members(g) # {m}
  /\ req' = [req EXCEPT ![t] = [Idle EXCEPT !.at = "m_lock", !.g = g, !.master = m,
                                           !.todo = Members(g) \ {m}]]
  /\ UNCHANGED <<rowVars, histVars>>

(* 1: SELECT ... FOR UPDATE of the master.                                 *)
MergeLock(t) ==
  /\ req[t].at = "m_lock"
  /\ Put(t, [r \in {req[t].master} |-> See(t, r)])
  /\ Goto(t, "m_read")
  /\ UNCHANGED <<asked, histVars>>

(* 2: master and victims must be published.                                *)
MergeRead(t) ==
  LET q == req[t] IN
  /\ q.at = "m_read"
  /\ IF \A r \in {q.master} \cup q.todo : See(t, r).life = "published"
       THEN /\ req' = [req EXCEPT ![t].at = "m_retire", ![t].ver = See(t, q.master).ver]
            /\ UNCHANGED <<rowVars, asked, histVars>>
       ELSE Rollback(t)

(* 4: published -> merged, victim by victim in the order of the query.     *)
(* Mutant: the victim's status is not compared.                            *)
RetirableUnchecked(t, v) == TRUE
Retirable(t, v) == See(t, v).life = "published"

MergeRetire(t, v) ==
  /\ req[t].at = "m_retire"
  /\ v \in req[t].todo
  /\ Free(t, {v})
  /\ \/ /\ Retirable(t, v)
        /\ Put(t, [r \in {v} |-> Relived(See(t, v), "merged")])
        /\ req' = [req EXCEPT ![t].at = "m_plan", ![t].cur = v]
        /\ UNCHANGED <<asked, histVars>>
     \/ ~Retirable(t, v) /\ Rollback(t)

(* 5: what moves, and what the master has already.                         *)
(* Mutant: lines are compared by key with those of the victim.             *)
RepeatedOwn(t, m, v) == PublishedOf(t, v)

Repeated(t, m, v) ==
  {l \in PublishedOf(t, v) : \E k \in PublishedOf(t, m) : Key[k] = Key[l]}

MergePlan(t) ==
  LET q == req[t]
      ded == IF DedupKeys THEN Repeated(t, q.master, q.cur) ELSE {}
      rep == IF DedupKeys THEN PublishedOf(t, q.cur) \ ded ELSE LinesOf(t, q.cur) IN
  /\ q.at = "m_plan"
  /\ req' = [req EXCEPT ![t].at = "m_move", ![t].rep = rep, ![t].ded = ded]
  /\ UNCHANGED <<rowVars, asked, histVars>>

(* With a business key the planned lines are moved and soft-deleted by id; *)
(* without, all lines the victim then has are moved.  The cross references *)
(* follow (7).                                                             *)
MergeMove(t) ==
  LET q == req[t]
      rep == IF DedupKeys THEN q.rep ELSE LinesOf(t, q.cur)
      ded == {l \in q.ded : See(t, l).life = "published"} IN
  /\ q.at = "m_move"
  /\ Free(t, q.ded)
  /\ Put(t, [x \in rep \cup ded \cup {q.cur} |->
               IF x = q.cur THEN [See(t, x) EXCEPT !.xref = FALSE]
               ELSE IF x \in rep THEN [See(t, x) EXCEPT !.parent = q.master]
               ELSE [See(t, x) EXCEPT !.life = "merged"]])
  /\ req' = [req EXCEPT ![t].todo = @ \ {q.cur},
                        ![t].at = IF q.todo = {q.cur} THEN "m_write" ELSE "m_retire"]
  /\ UNCHANGED <<asked, histVars>>

(* update_header: a compare-and-set of the version of a published record.  *)
(* Mutant: an update by id alone.                                          *)
UpdatableAlways(t, r, ver) == TRUE
Updatable(t, r, ver) == See(t, r).life = "published" /\ See(t, r).ver = ver

(* 6: the surviving values.  A master among its own victims fails here.    *)
MergeWrite(t) ==
  LET m == req[t].master IN
  /\ req[t].at = "m_write"
  /\ Free(t, {m})
  /\ \/ /\ Updatable(t, m, req[t].ver)
        /\ Put(t, [r \in {m} |-> [See(t, m) EXCEPT !.ver = @ + 1]])
        /\ Goto(t, "m_group")
        /\ UNCHANGED <<asked, histVars>>
     \/ ~Updatable(t, m, req[t].ver) /\ Rollback(t)

(* 10: the merge record becomes reviewed, unless it has been rejected.     *)
(* What was moved is logged: of several victims, the last one's lines.     *)
(* Mutant: a rejected merge record is not noticed.                         *)
ArchivableAlways(g) == TRUE
Archivable(g) == row[g].st # "rejected"

(* Mutants: soft-deleted lines are not logged; the id of the wrong table   *)
(* is.                                                                     *)
LogOfMoves(q)  == [rep |-> q.rep, ded |-> {}]
LogOfVictim(q) == [rep |-> {q.cur}, ded |-> q.ded]
LogOf(q) == [rep |-> q.rep, ded |-> q.ded]

MergeGroup(t) ==
  LET q == req[t]  log == LogOf(q) IN
  /\ q.at = "m_group"
  /\ Free(t, {q.g})
  /\ \/ /\ Archivable(q.g)
        /\ Put(t, [g \in {q.g} |-> [row[g] EXCEPT !.st = "reviewed", !.master = q.master,
                                                  !.rep = log.rep, !.ded = log.ded]])
        /\ Goto(t, "commit")
        /\ UNCHANGED <<asked, histVars>>
     \/ ~Archivable(q.g) /\ Rollback(t)

-----------------------------------------------------------------------------
(* reject: pending -> rejected; the log keeps who and why, the master goes. *)

RejectAsk(t, g) ==
  /\ Starts(t, "reject")
  /\ row[g].st # "none"
  /\ req' = [req EXCEPT ![t] = [Idle EXCEPT !.at = "r_group", !.g = g]]
  /\ UNCHANGED <<rowVars, histVars>>

RejectGroup(t) ==
  LET g == req[t].g IN
  /\ req[t].at = "r_group"
  /\ Free(t, {g})
  /\ \/ /\ row[g].st = "pending"
        /\ Put(t, [x \in {g} |-> [row[g] EXCEPT !.st = "rejected", !.master = Nobody]])
        /\ Goto(t, "commit")
        /\ UNCHANGED <<asked, histVars>>
     \/ row[g].st # "pending" /\ Rollback(t)

-----------------------------------------------------------------------------
(* undo.  The handler reads the merge record; the victim is the first      *)
(* member that is not its master (there is none after a reject or undo).   *)

VictimOf(g) ==
  LET other == {i \in DOMAIN row[g].members : row[g].members[i] # row[g].master} IN
  row[g].members[CHOOSE i \in other : \A j \in other : i <= j]

UndoAsk(t, g) ==
  /\ Starts(t, "undo")
  /\ row[g].st \in Undoable
  /\ Members(g) # {row[g].master}      \* otherwise the handler fails
  /\ req' = [req EXCEPT ![t] = [Idle EXCEPT !.at = "u_life", !.g = g, !.cur = VictimOf(g)]]
  /\ UNCHANGED <<rowVars, histVars>>

UndoLife(t) ==
  LET v == req[t].cur IN
  /\ req[t].at = "u_life"
  /\ Free(t, {v})
  /\ \/ /\ See(t, v).life = "merged"
        /\ Put(t, [r \in {v} |-> Relived(See(t, v), "published")])
        /\ Goto(t, "u_log")
        /\ UNCHANGED <<asked, histVars>>
     \/ See(t, v).life # "merged" /\ Rollback(t)

(* The log is read outside the transaction.                                *)
UndoLog(t) ==
  LET g == req[t].g IN
  /\ req[t].at = "u_log"
  /\ req' = [req EXCEPT ![t].at = "u_move", ![t].rep = row[g].rep, ![t].ded = row[g].ded]
  /\ UNCHANGED <<rowVars, asked, histVars>>

(* Lines go back by id, wherever they are; soft-deleted ones are published. *)
UndoMove(t) ==
  LET q == req[t]
      ded == {l \in q.ded : See(t, l).life = "merged"} IN
  /\ q.at = "u_move"
  /\ Free(t, q.ded)
  /\ Put(t, [x \in q.rep \cup ded \cup {q.cur} |->
               IF x = q.cur THEN [See(t, x) EXCEPT !.xref = TRUE]
               ELSE IF x \in q.rep THEN [See(t, x) EXCEPT !.parent = q.cur]
               ELSE [See(t, x) EXCEPT !.life = "published"]])
  /\ Goto(t, "u_group")
  /\ UNCHANGED <<asked, histVars>>

UndoGroup(t) ==
  LET g == req[t].g IN
  /\ req[t].at = "u_group"
  /\ Put(t, [x \in {g} |-> [NoGroup EXCEPT !.st = "unmerged", !.members = row[g].members]])
  /\ Goto(t, "commit")
  /\ UNCHANGED <<asked, histVars>>

-----------------------------------------------------------------------------
(* The activation of an update CR: read the version, compare-and-set the   *)
(* header, archive the published lines the CR does not keep, add its own.  *)

EditAsk(t, r) ==
  /\ Starts(t, "edit")
  /\ req' = [req EXCEPT ![t] = [Idle EXCEPT !.at = "e_read", !.cur = r]]
  /\ UNCHANGED <<rowVars, histVars>>

EditRead(t) ==
  /\ req[t].at = "e_read"
  /\ req' = [req EXCEPT ![t].at = "e_write", ![t].ver = See(t, req[t].cur).ver]
  /\ UNCHANGED <<rowVars, asked, histVars>>

EditWrite(t) ==
  LET r == req[t].cur IN
  /\ req[t].at = "e_write"
  /\ Free(t, {r})
  /\ \/ /\ Updatable(t, r, req[t].ver)
        /\ Put(t, [x \in {r} |-> [See(t, r) EXCEPT !.ver = @ + 1]])
        /\ Goto(t, "e_lines")
        /\ UNCHANGED <<asked, histVars>>
     \/ ~Updatable(t, r, req[t].ver) /\ Rollback(t)

EditLines(t, drop, add) ==
  LET r == req[t].cur IN
  /\ req[t].at = "e_lines"
  /\ drop \subseteq PublishedOf(t, r)
  /\ \A l \in add : See(t, l).life = "unborn"
  /\ Put(t, [x \in drop \cup add |->
               IF x \in drop THEN [See(t, x) EXCEPT !.life = "archived"]
               ELSE [life |-> "published", parent |-> r]])
  /\ Goto(t, "commit")
  /\ UNCHANGED <<asked, histVars>>

-----------------------------------------------------------------------------
(* The end of a transaction.                                               *)

Held(t) == {x \in Rows : holder[x] = t}

IsMerge(t) == req[t].g # 0 /\ \E r \in Held(t) \cap Records : new[r].life = "merged"

Commit(t) ==
  /\ req[t].at = "commit"
  /\ row' = [x \in Rows |-> IF holder[x] = t THEN new[x] ELSE row[x]]
  /\ holder' = [x \in Rows |-> IF holder[x] = t THEN Nobody ELSE holder[x]]
  /\ req' = [req EXCEPT ![t] = Idle]
  /\ into' = [r \in Records |->
                IF r \in Held(t) /\ row[r].life = "published" /\ new[r].life = "merged"
                  THEN req[t].master ELSE into[r]]
  /\ moved' = [l \in Lines |->
                 IF l \in Held(t) /\ new[l] # row[l]
                   THEN [by |-> IF IsMerge(t) THEN req[t].g ELSE 0, was |-> row[l]]
                 ELSE IF IsMerge(t) /\ moved[l].by = req[t].g
                   THEN [moved[l] EXCEPT !.by = 0]     \* the log is written again
                 ELSE moved[l]]
  /\ UNCHANGED <<new, asked>>

(* The process dies, or a statement fails and the guard is dropped.        *)
Fails(t) == req[t] # Idle /\ Rollback(t)

-----------------------------------------------------------------------------
Acts(t) ==
  \/ \E m \in Records, v \in Victims : MergeAsk(t, m, v)
  \/ \E g \in Groups : RejectAsk(t, g) \/ UndoAsk(t, g)
  \/ \E g \in Groups, m \in Records : MergeAgain(t, g, m)
  \/ \E r \in Records : EditAsk(t, r)
  \/ MergeLock(t) \/ MergeRead(t) \/ \E v \in Records : MergeRetire(t, v)
  \/ MergePlan(t) \/ MergeMove(t) \/ MergeWrite(t) \/ MergeGroup(t)
  \/ RejectGroup(t)
  \/ UndoLife(t) \/ UndoLog(t) \/ UndoMove(t) \/ UndoGroup(t)
  \/ EditRead(t) \/ EditWrite(t)
  \/ \E drop \in SUBSET Lines, add \in SUBSET Unborn : EditLines(t, drop, add)
  \/ Commit(t) \/ Fails(t)

Next == \E t \in Reqs : Acts(t)

Spec == Init /\ [][Next]_vars

-----------------------------------------------------------------------------
(* Every variable stays in its type; a lock has an owner in progress, and  *)
(* nothing is uncommitted without a lock.                                  *)
TypeOK ==
  /\ \A x \in Rows :
       LET type == IF x \in Records THEN HeadRow ELSE IF x \in Lines THEN LineRow ELSE GroupRow IN
       row[x] \in type /\ new[x] \in type
  /\ holder \in [Rows -> Reqs \cup {Nobody}]
  /\ req \in [Reqs -> Requests]
  /\ asked \in 0 .. MaxRequests
  /\ into \in [Records -> Records \cup {Nobody}]
  /\ \A x \in Rows : IF holder[x] = Nobody THEN new[x] = row[x] ELSE req[holder[x]] # Idle

(* No set of duplicates merges itself away: in every set of records, one   *)
(* is published or went into a record outside the set.  So the masters of  *)
(* a merged record lead to a published one, whatever merges cross.         *)
GoldenRecordExists ==
  \A S \in (SUBSET Records) \ {{}} :
    \E r \in S : row[r].life = "published" \/ into[r] \notin S

(* A published line hangs under a published record: neither a merge nor an *)
(* update CR beside one, nor an undo, leaves a line where no page and no   *)
(* snapshot shows it.                                                      *)
NoHiddenLine ==
  \A l \in Lines : row[l].life = "published" => row[row[l].parent].life = "published"

(* A record is merged away by one merge at a time: of two merges that name *)
(* the same victim at once, one fails.                                     *)
OneMergePerVictim ==
  \A g, h \in Groups :
    g # h /\ row[g].st = "reviewed" /\ row[h].st = "reviewed" =>
      (Members(g) \ {row[g].master}) \cap (Members(h) \ {row[h].master}) = {}

(* A merge loses no business key: what the victim listed, its master lists *)
(* afterwards, moved or in a line of its own.                              *)
MergeKeepsKeys ==
  [][\A l \in Lines :
       LET r == row[l].parent IN
       row[l].life = "published" /\ row[r].life = "published" /\ row'[r].life = "merged" =>
         \E k \in Lines : /\ row'[k].life = "published" /\ row'[k].parent = into'[r]
                         /\ Key[k] = Key[l]]_vars

(* "The main flow of restoring: victim merged -> published, lines pointed  *)
(* back" (unmerge): of the lines that the merge moved or soft-deleted, and *)
(* that nobody has changed since, the victim's are as before the merge,    *)
(* and those of the merge's other victims stay.                            *)
Undone(g) == row[g].st = "reviewed" /\ row'[g].st = "unmerged"

UndoRestores ==
  [][\A g \in Groups, l \in Lines :
       LET was == moved[l].was  others == Members(g) \ {row[g].master, VictimOf(g)} IN
       Undone(g) /\ moved[l].by = g =>
         /\ was.parent = VictimOf(g) => row'[l] = was
         /\ was.parent \in others => row'[l] = row[l]]_vars

(* What holds of it: an undo puts every line back that its merge has       *)
(* changed, if that had one victim, whether it was started once or again   *)
(* and whatever races it; of a merge of several victims, whose log has the *)
(* last one's lines only, a line stays with the master, or is as before,   *)
(* or is as before but under the victim that is restored.                  *)
UndoReturnsLines ==
  [][\A g \in Groups, l \in Lines :
       LET was == moved[l].was IN
       Undone(g) /\ moved[l].by = g =>
         IF Members(g) = {row[g].master, VictimOf(g)}
           THEN row'[l] = was
           ELSE row'[l] \in {row[l], was, [was EXCEPT !.parent = VictimOf(g)]}]_vars

(* A merge that was rejected is not carried out, even by a transaction     *)
(* that had begun before.                                                  *)
RejectedIsFinal ==
  [][\A g \in Groups : row[g].st = "rejected" => row'[g].st = "rejected"]_vars
=============================================================================
