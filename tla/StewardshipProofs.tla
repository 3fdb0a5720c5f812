--------------------------- MODULE StewardshipProofs ---------------------------
(***************************************************************************)
(* Theorems about merges, rejects, undos and the edits beside them, for    *)
(* any number of records, lines and requests.                              *)
(*                                                                         *)
(* The argument is in five layers: the types; what a merge holds until it  *)
(* commits, with any operations; the status of merge records; and, where   *)
(* no merge is undone, what becomes of lines and of victims.               *)
(***************************************************************************)
EXTENDS Stewardship, WellFoundedInduction, NaturalsInduction, TLAPS

MergeSteps == {"m_lock", "m_read", "m_retire", "m_plan", "m_move", "m_write", "m_group"}
UndoSteps  == {"u_life", "u_log", "u_move", "u_group"}
EditSteps  == {"e_read", "e_write", "e_lines"}

-----------------------------------------------------------------------------
(* Layer 1: types.                                                         *)

RowType(x) == IF x \in Records THEN HeadRow ELSE IF x \in Lines THEN LineRow ELSE GroupRow

RowsOK ==
  /\ row = [x \in Rows |-> row[x]] /\ new = [x \in Rows |-> new[x]]
  /\ \A x \in Rows : row[x] \in RowType(x) /\ new[x] \in RowType(x)
  /\ holder \in [Rows -> Reqs \cup {Nobody}]
  /\ \A x \in Rows :
       IF holder[x] = Nobody THEN new[x] = row[x] ELSE req[holder[x]] # Idle

(* A merge record that has been inserted: its members never change.        *)
Inserted(g) == g <= asked /\ row[g].members # <<>>

(* What a request remembers fits the step it is at.                        *)
ReqOK(t) ==
  LET q == req[t] IN
  /\ q.at \in MergeSteps => q.g \in Groups /\ q.master \in Records
  /\ q.at \in {"m_plan", "m_move"} \cup UndoSteps \cup EditSteps => q.cur \in Records
  /\ q.at \in UndoSteps \cup {"r_group"} => q.g \in Groups
  /\ q.g = 0 \/ Inserted(q.g)

ReqsOK == req \in [Reqs -> Requests] /\ \A t \in Reqs : ReqOK(t)

GroupsOK ==
  \A g \in Groups : /\ Inserted(g) \/ (row[g] = NoGroup /\ holder[g] = Nobody)
                   /\ new[g].members = row[g].members

HistOK == asked \in 0 .. MaxRequests /\ into \in [Records -> Records \cup {Nobody}]

TypeInv == RowsOK /\ ReqsOK /\ GroupsOK /\ HistOK

(* TypeInv says what TypeOK says, and more.                                *)
LEMMA TypeInvIsStronger == TypeInv => TypeOK
BY DEF TypeInv, RowsOK, ReqsOK, HistOK, TypeOK, RowType

(* The kinds of rows are disjoint.                                         *)
LEMMA RowKinds ==
  /\ Records \subseteq Rows /\ Lines \subseteq Rows /\ Groups \subseteq Rows
  /\ \A r \in Records : r \notin Lines /\ r \notin Groups /\ RowType(r) = HeadRow
  /\ \A l \in Lines : l \notin Records /\ l \notin Groups /\ RowType(l) = LineRow
  /\ \A g \in Groups : g \notin Records /\ g \notin Lines /\ RowType(g) = GroupRow
  /\ Groups \subseteq Nat \ {0} /\ Nobody \notin Records /\ Nobody \notin Reqs
BY StewardshipAssumption DEF StewardshipAssumption, Rows, RowType, Groups

(* A nonempty set of numbers has a least one.                              *)
LEMMA LeastNumber ==
  ASSUME NEW S \in SUBSET Nat, S # {}
  PROVE  \E i \in S : \A j \in S : i <= j
<1>1. IsWellFoundedOn(OpToRel(<, Nat), Nat)
  BY NatLessThanWellFounded
<1>2. PICK i \in S : \A j \in S : ~(<<j, i>> \in OpToRel(<, Nat))
  BY <1>1, WFMin
<1>3. \A j \in S : ~(j < i)
  BY <1>2 DEF OpToRel
<1> QED
  BY <1>3

(* The victim that an undo restores is a record.                           *)
LEMMA VictimIsRecord ==
  ASSUME TypeInv, NEW g \in Groups, Members(g) # {row[g].master}, row[g].members # <<>>
  PROVE  VictimOf(g) \in Records
<1> DEFINE ms == row[g].members
           other == {i \in DOMAIN ms : ms[i] # row[g].master}
<1>1. ms \in Seq(Records)
  <2>1. row[g] \in GroupRow
    BY RowKinds DEF TypeInv, RowsOK
  <2> QED
    BY <2>1 DEF GroupRow
<1>2. DOMAIN ms = 1 .. Len(ms) /\ Len(ms) \in Nat /\ ms \in [1 .. Len(ms) -> Records]
  BY <1>1
<1>3. other # {}
  <2>1. PICK i : i \in DOMAIN ms
    BY <1>1, <1>2
  <2> QED
    BY <2>1 DEF Members
<1>4. other \in SUBSET Nat
  BY <1>2
<1>5. \E i \in other : \A j \in other : i <= j
  BY <1>3, <1>4, LeastNumber
<1>6. (CHOOSE i \in other : \A j \in other : i <= j) \in other
  BY <1>5
<1> QED
  BY <1>2, <1>6 DEF VictimOf

-----------------------------------------------------------------------------
(* What a step may do to the rows.                                         *)

(* Transaction t takes the rows X, which nobody else holds; nothing is     *)
(* committed.                                                              *)
Writes(t, X) ==
  /\ row' = row /\ into' = into
  /\ \A x \in X : holder[x] \in {t, Nobody} /\ holder'[x] = t
  /\ \A x \in Rows \ X : holder'[x] = holder[x] /\ new'[x] = new[x]

LEMMA PutFacts ==
  ASSUME RowsOK, NEW t \in Reqs, NEW F, DOMAIN F \subseteq Rows, Put(t, F),
         UNCHANGED <<asked, histVars>>
  PROVE  /\ Writes(t, DOMAIN F)
         /\ new' = [x \in Rows |-> new'[x]]
         /\ holder' \in [Rows -> Reqs \cup {Nobody}]
         /\ \A x \in DOMAIN F : new'[x] = F[x]
BY DEF Put, Free, RowsOK, Writes, histVars

LEMMA ReadFacts ==
  ASSUME NEW t \in Reqs, UNCHANGED <<rowVars, histVars>>
  PROVE  Writes(t, {})
BY DEF Writes, rowVars, histVars

(* What a statement sees has its type.                                     *)
LEMMA SeeTypes ==
  ASSUME RowsOK, NEW t \in Reqs
  PROVE  /\ \A x \in Rows : See(t, x) \in RowType(x)
         /\ \A r \in Records : See(t, r) \in HeadRow
         /\ \A l \in Lines : See(t, l) \in LineRow
<1>1. \A x \in Rows : See(t, x) \in RowType(x)
  BY DEF RowsOK, See
<1> QED
  BY <1>1, RowKinds

(* Only request t has changed what it remembers.                           *)
OnlyReq(t) ==
  /\ req' \in [Reqs -> Requests]
  /\ \A u \in Reqs \ {t} : req'[u] = req[u]

(* Only its step has changed.                                              *)
SameReq(t) ==
  /\ req'[t].g = req[t].g /\ req'[t].master = req[t].master /\ req'[t].todo = req[t].todo
  /\ req'[t].cur = req[t].cur /\ req'[t].rep = req[t].rep /\ req'[t].ded = req[t].ded

LEMMA GotoFacts ==
  ASSUME ReqsOK, NEW t \in Reqs, NEW step \in Steps, Goto(t, step)
  PROVE  OnlyReq(t) /\ SameReq(t) /\ req'[t].at = step
<1>1. req' = [req EXCEPT ![t].at = step] /\ req[t] \in Requests
  BY DEF Goto, ReqsOK
<1>2. req'[t] = [req[t] EXCEPT !.at = step] /\ req'[t] \in Requests
  BY <1>1 DEF ReqsOK, Requests
<1>3. SameReq(t) /\ req'[t].at = step
  BY <1>1, <1>2 DEF SameReq, Requests
<1> QED
  BY <1>1, <1>2, <1>3 DEF OnlyReq, ReqsOK

(* A merge record stays inserted when its members stay.                    *)
LEMMA StaysInserted ==
  ASSUME HistOK, asked' \in {asked, asked + 1}, NEW g \in Groups, Inserted(g),
         row'[g].members = row[g].members
  PROVE  Inserted(g)'
BY RowKinds DEF HistOK, Inserted

(* The other requests keep their types.                                    *)
LEMMA OthersTyped ==
  ASSUME ReqsOK, NEW t \in Reqs, OnlyReq(t), ReqOK(t)',
         \A g \in Groups : Inserted(g) => Inserted(g)'
  PROVE  ReqsOK'
<1>1. ASSUME NEW u \in Reqs \ {t} PROVE ReqOK(u)'
  <2>1. req[u] \in Requests
    BY DEF ReqsOK
  <2>2. req[u].g \in {0} \cup Groups
    BY <2>1 DEF Requests
  <2> QED
    BY <2>2 DEF OnlyReq, ReqsOK, ReqOK
<1> QED
  BY <1>1 DEF OnlyReq, ReqsOK

(* The types after a statement that writes or locks rows.                  *)
LEMMA PutTypes ==
  ASSUME TypeInv, NEW t \in Reqs, NEW F, DOMAIN F \subseteq Rows, Put(t, F),
         \A x \in DOMAIN F : F[x] \in RowType(x),
         \A g \in Groups : g \in DOMAIN F => F[g].members = row[g].members /\ Inserted(g),
         OnlyReq(t), ReqOK(t)', req'[t].at # "idle", UNCHANGED <<asked, histVars>>
  PROVE  TypeInv' /\ Writes(t, DOMAIN F) /\ \A x \in DOMAIN F : new'[x] = F[x]
<1>1. RowsOK /\ ReqsOK /\ GroupsOK /\ HistOK
  BY DEF TypeInv
<1>0. /\ Writes(t, DOMAIN F) /\ \A x \in DOMAIN F : new'[x] = F[x]
      /\ new' = [x \in Rows |-> new'[x]] /\ holder' \in [Rows -> Reqs \cup {Nobody}]
  BY <1>1, PutFacts
<1>2. /\ row' = row /\ asked' = asked /\ into' = into
      /\ new' = [x \in Rows |-> new'[x]]
      /\ holder' \in [Rows -> Reqs \cup {Nobody}]
      /\ \A x \in DOMAIN F :
           holder[x] \in {t, Nobody} /\ holder'[x] = t /\ new'[x] = F[x]
      /\ \A x \in Rows \ DOMAIN F : holder'[x] = holder[x] /\ new'[x] = new[x]
  BY <1>0 DEF Writes
<1>3. RowsOK'
  <2>1. \A x \in Rows : row'[x] \in RowType(x) /\ new'[x] \in RowType(x)
    BY <1>1, <1>2 DEF RowsOK
  <2>2. req'[t] # Idle
    BY DEF Idle
  <2>3. ASSUME NEW x \in Rows
        PROVE  IF holder'[x] = Nobody THEN new'[x] = row'[x] ELSE req'[holder'[x]] # Idle
    BY <1>1, <1>2, <2>2, RowKinds DEF RowsOK, OnlyReq
  <2> QED
    BY <1>1, <1>2, <2>1, <2>3 DEF RowsOK, RowType
<1>7. \A g \in Groups : Inserted(g) => Inserted(g)'
  BY <1>1, <1>2, StaysInserted
<1>4. ReqsOK'
  BY <1>1, <1>7, OthersTyped
<1>5. GroupsOK'
  <2>1. ASSUME NEW g \in Groups
        PROVE  /\ Inserted(g)' \/ (row'[g] = NoGroup /\ holder'[g] = Nobody)
               /\ new'[g].members = row'[g].members
    <3>1. g \in Rows
      BY RowKinds
    <3>2. CASE g \in DOMAIN F
      BY <1>1, <1>2, <1>7, <3>1, <3>2 DEF GroupsOK
    <3>3. CASE g \notin DOMAIN F
      BY <1>1, <1>2, <1>7, <3>1, <3>3 DEF GroupsOK
    <3> QED
      BY <3>2, <3>3
  <2> QED
    BY <2>1 DEF GroupsOK
<1>6. HistOK'
  BY <1>1, <1>2 DEF HistOK
<1> QED
  BY <1>0, <1>3, <1>4, <1>5, <1>6 DEF TypeInv

(* The types after a step that touches no row.                             *)
LEMMA ReadTypes ==
  ASSUME TypeInv, NEW t \in Reqs, UNCHANGED rowVars, OnlyReq(t), ReqOK(t)', req'[t] # Idle,
         asked' \in {asked, asked + 1}, asked' \in 0 .. MaxRequests, UNCHANGED into
  PROVE  TypeInv'
<1>1. RowsOK /\ ReqsOK /\ GroupsOK /\ HistOK
  BY DEF TypeInv
<1>2. RowsOK'
  BY <1>1, RowKinds DEF RowsOK, rowVars, OnlyReq, RowType
<1>3. row' = row /\ new' = new /\ holder' = holder
  BY DEF rowVars
<1>4. \A g \in Groups : Inserted(g) => Inserted(g)'
  BY <1>1, <1>3, StaysInserted
<1>5. GroupsOK'
  BY <1>1, <1>3, <1>4 DEF GroupsOK
<1> QED
  BY <1>1, <1>2, <1>4, <1>5, OthersTyped DEF TypeInv, HistOK

(* A transaction that holds no row any more.                               *)
LEMMA IdleIsTyped ==
  /\ Idle \in Requests /\ Idle.at = "idle"
  /\ \A t \in Reqs : TypeInv /\ req'[t] = Idle /\ asked' = asked => ReqOK(t)'
<1>1. Idle \in Requests
  BY DEF Idle, Requests, Steps
<1> QED
  BY <1>1 DEF ReqOK, Idle, TypeInv, HistOK, MergeSteps, UndoSteps, EditSteps

LEMMA RollbackFacts ==
  ASSUME TypeInv, NEW t \in Reqs, Rollback(t)
  PROVE  /\ row' = row /\ OnlyReq(t) /\ req'[t] = Idle
         /\ holder' \in [Rows -> Reqs \cup {Nobody}]
         /\ \A x \in Rows : IF holder[x] = t THEN holder'[x] = Nobody /\ new'[x] = row[x]
                            ELSE holder'[x] = holder[x] /\ new'[x] = new[x]
         /\ UNCHANGED <<asked, into, moved>>
BY IdleIsTyped DEF Rollback, TypeInv, RowsOK, ReqsOK, OnlyReq, histVars

LEMMA RollbackTypes ==
  ASSUME TypeInv, NEW t \in Reqs, Rollback(t)
  PROVE  TypeInv'
<1>1. RowsOK /\ ReqsOK /\ GroupsOK /\ HistOK
  BY DEF TypeInv
<1>2. /\ row' = row /\ OnlyReq(t) /\ req'[t] = Idle
      /\ holder' \in [Rows -> Reqs \cup {Nobody}]
      /\ \A x \in Rows : IF holder[x] = t THEN holder'[x] = Nobody /\ new'[x] = row[x]
                         ELSE holder'[x] = holder[x] /\ new'[x] = new[x]
      /\ UNCHANGED <<asked, into, moved>>
  BY RollbackFacts
<1>3. RowsOK'
  <2>1. new' = [x \in Rows |-> new'[x]]
    BY DEF Rollback
  <2>2. \A x \in Rows : row'[x] \in RowType(x) /\ new'[x] \in RowType(x)
    BY <1>1, <1>2 DEF RowsOK
  <2>3. \A x \in Rows : IF holder'[x] = Nobody THEN new'[x] = row'[x] ELSE req'[holder'[x]] # Idle
    BY <1>1, <1>2, RowKinds DEF RowsOK, OnlyReq
  <2> QED
    BY <1>1, <1>2, <2>1, <2>2, <2>3 DEF RowsOK, RowType
<1>6. \A g \in Groups : Inserted(g) => Inserted(g)'
  BY <1>1, <1>2, StaysInserted
<1>4. GroupsOK'
  BY <1>1, <1>2, <1>6, RowKinds DEF GroupsOK
<1>5. ReqsOK'
  BY <1>1, <1>2, <1>6, IdleIsTyped, OthersTyped
<1> QED
  BY <1>1, <1>2, <1>3, <1>4, <1>5 DEF TypeInv, HistOK

-----------------------------------------------------------------------------
(* The types are kept: one lemma for each action.                          *)

(* A request that goes on to a step with what belongs there.               *)
LEMMA GotoTyped ==
  ASSUME TypeInv, NEW t \in Reqs, NEW step \in Steps \ {"idle"}, Goto(t, step), row' = row, asked' = asked,
         step \in MergeSteps => req[t].at \in MergeSteps,
         step \in UndoSteps => req[t].at \in UndoSteps,
         step \in EditSteps => req[t].at \in EditSteps,
         step \notin {"m_plan", "m_move", "r_group"}
  PROVE  OnlyReq(t) /\ ReqOK(t)' /\ SameReq(t) /\ req'[t].at = step /\ req'[t].at # "idle"
<1>1. OnlyReq(t) /\ SameReq(t) /\ req'[t].at = step
  BY GotoFacts DEF TypeInv
<1>2. req[t] \in Requests /\ ReqOK(t)
  BY DEF TypeInv, ReqsOK
<1> QED
  BY <1>1, <1>2 DEF ReqOK, SameReq, Inserted, MergeSteps, UndoSteps, EditSteps

(* A statement that puts one row and goes on.                              *)
LEMMA PutOneTypes ==
  ASSUME TypeInv, NEW t \in Reqs, NEW x \in Rows, NEW v \in RowType(x), Put(t, [y \in {x} |-> v]),
         x \in Groups => v.members = row[x].members /\ Inserted(x),
         OnlyReq(t), ReqOK(t)', req'[t].at # "idle", UNCHANGED <<asked, histVars>>
  PROVE  TypeInv' /\ Writes(t, {x}) /\ new'[x] = v
<1> DEFINE F == [y \in {x} |-> v]
<1>1. DOMAIN F = {x} /\ F[x] = v
  OBVIOUS
<1> HIDE DEF F
<1>2. Put(t, F)
  BY DEF F
<1>3. TypeInv' /\ Writes(t, DOMAIN F) /\ \A y \in DOMAIN F : new'[y] = F[y]
  BY <1>1, <1>2, PutTypes
<1> QED
  BY <1>1, <1>3

(* set_lifecycle keeps a head row a head row.                              *)
LEMMA RelivedTypes ==
  ASSUME NEW head \in HeadRow, NEW to \in {"published", "merged"}
  PROVE  /\ Relived(head, to) \in HeadRow
         /\ Relived(head, to).life = to /\ Relived(head, to).ver = head.ver + 1
<1> DEFINE h == [head EXCEPT !.life = to]
<1>1. h \in HeadRow /\ h.life = to /\ h.ver = head.ver /\ h.ver \in Nat
  BY DEF HeadRow
<1>2. Relived(head, to) = [h EXCEPT !.ver = h.ver + 1]
  BY <1>1 DEF Relived
<1> HIDE DEF h
<1> QED
  BY <1>1, <1>2 DEF HeadRow

(* A merge record with a status has been inserted, and stays so.           *)
LEMMA AskedIsInserted ==
  ASSUME TypeInv, NEW t \in Reqs, NEW op, Starts(t, op), UNCHANGED <<rowVars, histVars>>,
         NEW g \in Groups, row[g].st # "none"
  PROVE  Inserted(g) /\ Inserted(g)'
<1>1. NoGroup.st = "none"
  BY DEF NoGroup
<1>2. HistOK /\ Inserted(g)
  BY <1>1 DEF TypeInv, GroupsOK
<1>3. row' = row /\ asked' = asked + 1
  BY DEF rowVars, Starts
<1> QED
  BY <1>2, <1>3, StaysInserted

LEMMA StartTypes ==
  ASSUME TypeInv, NEW t \in Reqs, NEW op, Starts(t, op), UNCHANGED <<rowVars, histVars>>,
         NEW q \in Requests, req' = [req EXCEPT ![t] = q], q # Idle,
         ReqOK(t)'
  PROVE  TypeInv' /\ OnlyReq(t) /\ Writes(t, {}) /\ req'[t] = q /\ req[t] = Idle /\ op \in Ops
<1>1. asked' \in 0 .. MaxRequests /\ asked' = asked + 1
  BY StewardshipAssumption DEF Starts, TypeInv, HistOK, StewardshipAssumption
<1>2. OnlyReq(t) /\ req'[t] = q
  BY DEF TypeInv, ReqsOK, OnlyReq
<1> QED
  BY <1>1, <1>2, ReadTypes, ReadFacts DEF histVars, Starts

LEMMA MergeAskTypes ==
  ASSUME TypeInv, NEW t \in Reqs, NEW m \in Records, NEW v \in Victims, MergeAsk(t, m, v)
  PROVE  /\ TypeInv'
         /\ asked' = asked + 1 /\ asked + 1 \in Groups /\ OnlyReq(t)
         /\ holder' = holder /\ holder[asked + 1] = Nobody /\ UNCHANGED histVars
         /\ \A x \in Rows \ {asked + 1} : row'[x] = row[x] /\ new'[x] = new[x]
         /\ row[asked + 1] = NoGroup /\ row'[asked + 1] = new'[asked + 1]
         /\ row'[asked + 1].st = "pending" /\ row'[asked + 1].members = <<m>> \o v
         /\ req[t] = Idle
         /\ req'[t].at = "m_lock" /\ req'[t].g = asked + 1 /\ req'[t].master = m
         /\ req'[t].todo = {v[i] : i \in DOMAIN v}
<1>1. RowsOK /\ ReqsOK /\ GroupsOK /\ HistOK
  BY DEF TypeInv
<1>20. asked \in Nat /\ asked' = asked + 1 /\ asked + 1 \in Groups /\ req[t] = Idle
  BY <1>1, StewardshipAssumption DEF MergeAsk, Starts, HistOK, Groups, StewardshipAssumption
<1>21. PICK g \in Groups : g = asked + 1
  BY <1>20
<1>2. asked \in Nat /\ asked' = g /\ g = asked + 1 /\ req[t] = Idle /\ g \in Groups
  BY <1>20, <1>21
<1> DEFINE q == [Idle EXCEPT !.at = "m_lock", !.g = g, !.master = m,
                             !.todo = {v[i] : i \in DOMAIN v}]
           group == [NoGroup EXCEPT !.st = "pending", !.master = m, !.members = <<m>> \o v]
<1>3. row[g] = NoGroup /\ holder[g] = Nobody
  BY <1>1, <1>2 DEF GroupsOK, Inserted
<1>4. v \in Seq(Records) /\ v # <<>>
  BY StewardshipAssumption DEF StewardshipAssumption
<1>5. group \in GroupRow /\ group.members # <<>>
  <2>1. <<m>> \o v \in Seq(Records) /\ <<m>> \o v # <<>>
    BY <1>4
  <2>2. NoGroup \in GroupRow
    <3>1. <<>> \in Seq(Records)
      OBVIOUS
    <3> QED
      BY <3>1 DEF NoGroup, GroupRow
  <2>3. group \in GroupRow /\ group.members = <<m>> \o v
    BY <2>1, <2>2 DEF GroupRow
  <2> QED
    BY <2>1, <2>3
<1>6. req' = [req EXCEPT ![t] = q] /\ row' = [row EXCEPT ![g] = group]
      /\ new' = [new EXCEPT ![g] = group] /\ holder' = holder /\ UNCHANGED histVars
  BY <1>2 DEF MergeAsk
<1>7. q \in Requests
  <2>1. {v[i] : i \in DOMAIN v} \subseteq Records
    BY <1>4
  <2> QED
    BY <1>2, <2>1, RowKinds DEF Requests, Steps, Idle
<1> HIDE DEF q, group
<1>8. OnlyReq(t) /\ req'[t] = q
  BY <1>1, <1>6, <1>7 DEF OnlyReq, ReqsOK
<1>9. /\ q # Idle /\ q.at = "m_lock" /\ q.g = g /\ q.master = m
      /\ q.todo = {v[i] : i \in DOMAIN v}
  BY DEF q, Idle
<1>11. g \in Rows /\ RowType(g) = GroupRow
  BY <1>2, RowKinds
<1>12. /\ row' = [x \in Rows |-> row'[x]] /\ new' = [x \in Rows |-> new'[x]]
       /\ row'[g] = group /\ new'[g] = group
       /\ \A x \in Rows \ {g} : row'[x] = row[x] /\ new'[x] = new[x]
  BY <1>1, <1>6, <1>11 DEF RowsOK
<1>13. RowsOK'
  <2>1. \A x \in Rows : row'[x] \in RowType(x) /\ new'[x] \in RowType(x)
    BY <1>1, <1>5, <1>11, <1>12 DEF RowsOK
  <2>2. \A x \in Rows : IF holder'[x] = Nobody THEN new'[x] = row'[x] ELSE req'[holder'[x]] # Idle
    BY <1>1, <1>3, <1>6, <1>8, <1>9, <1>12 DEF RowsOK, OnlyReq
  <2> QED
    BY <1>1, <1>6, <1>12, <2>1, <2>2 DEF RowsOK, RowType
<1>10. Inserted(g)'
  BY <1>2, <1>5, <1>12, RowKinds DEF Inserted
<1>14. \A h \in Groups : Inserted(h) => Inserted(h)'
  BY <1>1, <1>2, <1>10, <1>12, RowKinds, StaysInserted
<1>18. ReqOK(t)'
  BY <1>2, <1>8, <1>9, <1>10 DEF ReqOK, MergeSteps, UndoSteps, EditSteps
<1>19. GroupsOK'
  <2>1. ASSUME NEW h \in Groups
        PROVE  /\ Inserted(h)' \/ (row'[h] = NoGroup /\ holder'[h] = Nobody)
               /\ new'[h].members = row'[h].members
    <3>1. h \in Rows
      BY RowKinds
    <3>2. CASE h = g
      BY <1>10, <1>12, <3>2
    <3>3. CASE h # g
      BY <1>1, <1>6, <1>12, <1>14, <3>1, <3>3 DEF GroupsOK
    <3> QED
      BY <3>2, <3>3
  <2> QED
    BY <2>1 DEF GroupsOK
<1>15. ReqsOK'
  BY <1>1, <1>8, <1>14, <1>18, OthersTyped
<1>16. HistOK'
  BY <1>1, <1>2, <1>6 DEF HistOK, Groups, histVars
<1>17. group.st = "pending" /\ group.members = <<m>> \o v
  BY DEF group, NoGroup
<1> QED
  BY <1>2, <1>3, <1>6, <1>8, <1>9, <1>12, <1>13, <1>15, <1>19, <1>16, <1>17 DEF TypeInv

LEMMA MergeAgainFacts ==
  ASSUME TypeInv, NEW t \in Reqs, NEW g \in Groups, NEW m \in Records, MergeAgain(t, g, m)
  PROVE  /\ TypeInv' /\ OnlyReq(t) /\ Writes(t, {}) /\ req[t] = Idle
         /\ row[g].st # "none" /\ m \in Members(g)
         /\ req'[t].at = "m_lock" /\ req'[t].g = g /\ req'[t].master = m
         /\ req'[t].todo = Members(g) \ {m}
<1> DEFINE q == [Idle EXCEPT !.at = "m_lock", !.g = g, !.master = m,
                             !.todo = Members(g) \ {m}]
<1>1. Starts(t, "again") /\ UNCHANGED <<rowVars, histVars>> /\ req' = [req EXCEPT ![t] = q]
      /\ row[g].st # "none" /\ m \in Members(g)
  BY DEF MergeAgain
<1>2. Members(g) \subseteq Records
  <2>1. row[g] \in GroupRow
    BY RowKinds DEF RowsOK, TypeInv
  <2>2. row[g].members \in Seq(Records)
    BY <2>1 DEF GroupRow
  <2> QED
    BY <2>2 DEF Members
<1>3. q \in Requests
  BY <1>2 DEF Requests, Steps, Idle
<1>4. q # Idle /\ q.at = "m_lock" /\ q.g = g /\ q.master = m /\ q.todo = Members(g) \ {m}
  BY DEF Idle
<1> HIDE DEF q
<1>5. req'[t] = q
  BY <1>1 DEF TypeInv, ReqsOK
<1>6. Inserted(g)'
  BY <1>1, AskedIsInserted
<1>7. ReqOK(t)'
  BY <1>4, <1>5, <1>6 DEF ReqOK, MergeSteps, UndoSteps, EditSteps
<1>8. TypeInv' /\ OnlyReq(t) /\ Writes(t, {}) /\ req'[t] = q /\ req[t] = Idle
  BY <1>1, <1>3, <1>4, <1>7, StartTypes
<1> QED
  BY <1>1, <1>4, <1>8

LEMMA RejectAskFacts ==
  ASSUME TypeInv, NEW t \in Reqs, NEW g \in Groups, RejectAsk(t, g)
  PROVE  /\ TypeInv' /\ OnlyReq(t) /\ Writes(t, {}) /\ req[t] = Idle
         /\ req'[t].at = "r_group" /\ req'[t].g = g /\ req'[t].master = Nobody
<1> DEFINE q == [Idle EXCEPT !.at = "r_group", !.g = g]
<1>1. Starts(t, "reject") /\ UNCHANGED <<rowVars, histVars>> /\ req' = [req EXCEPT ![t] = q]
      /\ row[g].st # "none"
  BY DEF RejectAsk
<1>2. q \in Requests /\ q # Idle /\ q.at = "r_group" /\ q.g = g /\ q.master = Nobody
  BY DEF Requests, Steps, Idle
<1> HIDE DEF q
<1>3. req'[t] = q
  BY <1>1 DEF TypeInv, ReqsOK
<1>4. Inserted(g)'
  BY <1>1, AskedIsInserted
<1>5. ReqOK(t)'
  BY <1>2, <1>3, <1>4 DEF ReqOK, MergeSteps, UndoSteps, EditSteps
<1>6. TypeInv' /\ OnlyReq(t) /\ Writes(t, {}) /\ req'[t] = q /\ req[t] = Idle
  BY <1>1, <1>2, <1>5, StartTypes
<1> QED
  BY <1>2, <1>6

LEMMA UndoAskFacts ==
  ASSUME TypeInv, NEW t \in Reqs, NEW g \in Groups, UndoAsk(t, g)
  PROVE  /\ TypeInv' /\ OnlyReq(t) /\ Writes(t, {}) /\ req[t] = Idle
         /\ "undo" \in Ops /\ row[g].st \in Undoable
         /\ req'[t].at = "u_life" /\ req'[t].g = g /\ req'[t].master = Nobody
         /\ req'[t].cur = VictimOf(g)
<1> DEFINE q == [Idle EXCEPT !.at = "u_life", !.g = g, !.cur = VictimOf(g)]
<1>1. Starts(t, "undo") /\ UNCHANGED <<rowVars, histVars>> /\ req' = [req EXCEPT ![t] = q]
      /\ row[g].st \in Undoable /\ row[g].st # "none" /\ Members(g) # {row[g].master}
  BY StewardshipAssumption DEF UndoAsk, StewardshipAssumption
<1>2. Inserted(g) /\ Inserted(g)'
  BY <1>1, AskedIsInserted
<1>3. VictimOf(g) \in Records
  BY <1>1, <1>2, VictimIsRecord DEF Inserted
<1>4. /\ q \in Requests /\ q # Idle /\ q.at = "u_life" /\ q.g = g /\ q.cur = VictimOf(g)
      /\ q.master = Nobody
  BY <1>3 DEF Requests, Steps, Idle
<1> HIDE DEF q
<1>5. req'[t] = q
  BY <1>1 DEF TypeInv, ReqsOK
<1>6. ReqOK(t)'
  BY <1>2, <1>3, <1>4, <1>5 DEF ReqOK, MergeSteps, UndoSteps, EditSteps
<1>7. "undo" \in Ops /\ TypeInv' /\ OnlyReq(t) /\ Writes(t, {}) /\ req'[t] = q /\ req[t] = Idle
  BY <1>1, <1>4, <1>6, StartTypes
<1> QED
  BY <1>1, <1>4, <1>7

LEMMA EditAskFacts ==
  ASSUME TypeInv, NEW t \in Reqs, NEW r \in Records, EditAsk(t, r)
  PROVE  /\ TypeInv' /\ OnlyReq(t) /\ Writes(t, {}) /\ req[t] = Idle
         /\ req'[t].at = "e_read" /\ req'[t].g = 0 /\ req'[t].master = Nobody
<1> DEFINE q == [Idle EXCEPT !.at = "e_read", !.cur = r]
<1>1. Starts(t, "edit") /\ UNCHANGED <<rowVars, histVars>> /\ req' = [req EXCEPT ![t] = q]
  BY DEF EditAsk
<1>2. /\ q \in Requests /\ q # Idle /\ q.at = "e_read" /\ q.g = 0 /\ q.cur = r
      /\ q.master = Nobody
  BY DEF Requests, Steps, Idle
<1> HIDE DEF q
<1>3. req'[t] = q
  BY <1>1 DEF TypeInv, ReqsOK
<1>4. ReqOK(t)'
  BY <1>2, <1>3 DEF ReqOK, MergeSteps, UndoSteps, EditSteps
<1>5. TypeInv' /\ OnlyReq(t) /\ Writes(t, {}) /\ req'[t] = q /\ req[t] = Idle
  BY <1>1, <1>2, <1>4, StartTypes
<1> QED
  BY <1>2, <1>5

-----------------------------------------------------------------------------
(* What each action does, and that it keeps the types.                     *)

(* The types before a step, as the proofs below need them.                 *)
LEMMA Typed ==
  ASSUME TypeInv, NEW t \in Reqs
  PROVE  /\ RowsOK /\ ReqsOK /\ GroupsOK /\ HistOK
         /\ req[t] \in Requests /\ ReqOK(t)
         /\ \A r \in Records : See(t, r) \in HeadRow /\ RowType(r) = HeadRow /\ r \in Rows /\ r \notin Groups
         /\ \A l \in Lines : See(t, l) \in LineRow /\ RowType(l) = LineRow /\ l \in Rows
         /\ \A g \in Groups : row[g] \in GroupRow /\ RowType(g) = GroupRow /\ g \in Rows
<1>1. RowsOK /\ ReqsOK /\ GroupsOK /\ HistOK
  BY DEF TypeInv
<1>2. \A g \in Groups : row[g] \in GroupRow
  BY <1>1, RowKinds DEF RowsOK
<1> QED
  BY <1>1, <1>2, SeeTypes, RowKinds DEF ReqsOK

(* A request that only remembers more.                                     *)
LEMMA RemembersTypes ==
  ASSUME TypeInv, NEW t \in Reqs, NEW q \in Requests, req' = [req EXCEPT ![t] = q],
         UNCHANGED <<rowVars, asked, histVars>>,
         req[t].at \in MergeSteps => q.at \in MergeSteps \ {"m_plan"},
         q.at \in MergeSteps => req[t].at \in MergeSteps,
         q.at = "m_move" => req[t].at = "m_plan",
         q.at \in UndoSteps => req[t].at \in UndoSteps,
         q.at \in EditSteps => req[t].at \in EditSteps,
         q.at \notin {"idle", "m_plan", "r_group"},
         q.g = req[t].g, q.master = req[t].master, q.cur = req[t].cur
  PROVE  TypeInv' /\ OnlyReq(t) /\ Writes(t, {}) /\ req'[t] = q
<1>1. ReqsOK /\ ReqOK(t) /\ HistOK
  BY Typed
<1>2. OnlyReq(t) /\ req'[t] = q
  BY <1>1 DEF OnlyReq, ReqsOK
<1>3. ReqOK(t)'
  BY <1>1, <1>2 DEF ReqOK, Inserted, rowVars, MergeSteps, UndoSteps, EditSteps
<1>4. req'[t] # Idle
  BY <1>2, IdleIsTyped
<1>5. asked' = asked /\ asked \in 0 .. MaxRequests
  BY <1>1 DEF HistOK
<1> QED
  BY <1>2, <1>3, <1>4, <1>5, ReadTypes, ReadFacts DEF histVars

LEMMA MergeLockFacts ==
  ASSUME TypeInv, NEW t \in Reqs, MergeLock(t)
  PROVE  /\ TypeInv' /\ OnlyReq(t) /\ SameReq(t)
         /\ req[t].at = "m_lock" /\ req'[t].at = "m_read" /\ req[t].master \in Records
         /\ Writes(t, {req[t].master}) /\ new'[req[t].master] = See(t, req[t].master)
<1> DEFINE m == req[t].master
<1>1. m \in Records /\ Goto(t, "m_read") /\ req[t].at = "m_lock" /\ req[t].at \in MergeSteps
  BY Typed DEF MergeLock, ReqOK, MergeSteps
<1>2. Put(t, [y \in {m} |-> See(t, m)]) /\ UNCHANGED <<asked, histVars>>
  <2>1. [y \in {m} |-> See(t, m)] = [r \in {req[t].master} |-> See(t, r)]
    OBVIOUS
  <2> QED
    BY <2>1 DEF MergeLock
<1>3. OnlyReq(t) /\ ReqOK(t)' /\ SameReq(t) /\ req'[t].at = "m_read" /\ req'[t].at # "idle"
  BY <1>1, <1>2, GotoTyped DEF Put, Steps, MergeSteps, UndoSteps, EditSteps
<1>4. m \in Rows /\ m \notin Groups /\ See(t, m) \in RowType(m)
  BY <1>1, Typed
<1> DEFINE v == See(t, m)
<1>5. TypeInv' /\ Writes(t, {m}) /\ new'[m] = v
  <2>1. m \in Rows /\ v \in RowType(m) /\ Put(t, [y \in {m} |-> v]) /\ UNCHANGED <<asked, histVars>>
    BY <1>2, <1>4
  <2>2. m \in Groups => v.members = row[m].members /\ Inserted(m)
    BY <1>4
  <2> HIDE DEF v, m
  <2> QED
    BY <1>3, <2>1, <2>2, PutOneTypes
<1> QED
  BY <1>1, <1>3, <1>5

LEMMA MergeReadFacts ==
  ASSUME TypeInv, NEW t \in Reqs, MergeRead(t), ~Rollback(t)
  PROVE  /\ TypeInv' /\ OnlyReq(t) /\ SameReq(t)
         /\ req[t].at = "m_read" /\ req'[t].at = "m_retire" /\ req[t].master \in Records
         /\ Writes(t, {})
         /\ \A r \in {req[t].master} \cup req[t].todo : See(t, r).life = "published"
<1> DEFINE m == req[t].master
           q == [req[t] EXCEPT !.at = "m_retire", !.ver = See(t, m).ver]
<1>1. /\ req[t].at = "m_read" /\ req' = [req EXCEPT ![t] = q] /\ UNCHANGED <<rowVars, asked, histVars>>
      /\ \A r \in {m} \cup req[t].todo : See(t, r).life = "published"
  BY DEF MergeRead
<1>2. req[t] \in Requests /\ m \in Records
  BY <1>1, Typed DEF ReqOK, MergeSteps
<1>3. See(t, m).ver \in Nat
  BY <1>2, Typed DEF HeadRow
<1>4. /\ q \in Requests /\ q.at = "m_retire" /\ q.master = m /\ q.g = req[t].g /\ q.cur = req[t].cur
      /\ q.todo = req[t].todo /\ q.rep = req[t].rep /\ q.ded = req[t].ded
  BY <1>2, <1>3 DEF Requests, Steps
<1> HIDE DEF q
<1>5. TypeInv' /\ OnlyReq(t) /\ Writes(t, {}) /\ req'[t] = q
  BY <1>1, <1>4, RemembersTypes DEF MergeSteps, UndoSteps, EditSteps
<1> QED
  BY <1>1, <1>2, <1>4, <1>5 DEF SameReq

LEMMA MergeRetireFacts ==
  ASSUME TypeInv, NEW t \in Reqs, NEW v \in Records, MergeRetire(t, v), ~Rollback(t)
  PROVE  /\ TypeInv' /\ OnlyReq(t)
         /\ req[t].at = "m_retire" /\ req'[t].at = "m_plan" /\ req'[t].cur = v
         /\ req'[t].g = req[t].g /\ req'[t].master = req[t].master /\ req'[t].todo = req[t].todo
         /\ req[t].master \in Records
         /\ v \in req[t].todo /\ See(t, v).life = "published"
         /\ Writes(t, {v}) /\ new'[v].life = "merged"
<1> DEFINE w == Relived(See(t, v), "merged")
           q == [req[t] EXCEPT !.at = "m_plan", !.cur = v]
<1>1. /\ req[t].at = "m_retire" /\ req' = [req EXCEPT ![t] = q] /\ UNCHANGED <<asked, histVars>>
      /\ v \in req[t].todo /\ See(t, v).life = "published"
  BY DEF MergeRetire, Retirable
<1>2. Put(t, [y \in {v} |-> w])
  <2>1. [y \in {v} |-> w] = [r \in {v} |-> Relived(See(t, v), "merged")]
    OBVIOUS
  <2> QED
    BY <2>1 DEF MergeRetire
<1>3. w \in HeadRow /\ w.life = "merged"
  BY Typed, RelivedTypes
<1>4. ReqsOK /\ req[t] \in Requests /\ ReqOK(t)
  BY Typed
<1>5. /\ q \in Requests /\ q.at = "m_plan" /\ q.master = req[t].master /\ q.g = req[t].g
      /\ q.cur = v /\ q.todo = req[t].todo
  BY <1>4 DEF Requests, Steps
<1>6. OnlyReq(t) /\ req'[t] = q
  BY <1>1, <1>4, <1>5 DEF OnlyReq, ReqsOK
<1>7. ReqOK(t)' /\ req'[t].at # "idle" /\ req[t].master \in Records
  BY <1>1, <1>2, <1>4, <1>5, <1>6 DEF Put, ReqOK, Inserted, MergeSteps, UndoSteps, EditSteps
<1>8. v \in Rows /\ v \notin Groups /\ w \in RowType(v)
  BY <1>3, Typed
<1> HIDE DEF w, q
<1>9. TypeInv' /\ Writes(t, {v}) /\ new'[v] = w
  BY <1>1, <1>2, <1>6, <1>7, <1>8, PutOneTypes
<1> QED
  BY <1>1, <1>3, <1>5, <1>6, <1>7, <1>9

LEMMA MergePlanFacts ==
  ASSUME TypeInv, NEW t \in Reqs, MergePlan(t)
  PROVE  /\ TypeInv' /\ OnlyReq(t) /\ Writes(t, {})
         /\ req[t].at = "m_plan" /\ req'[t].at = "m_move"
         /\ req'[t].g = req[t].g /\ req'[t].master = req[t].master /\ req'[t].cur = req[t].cur
         /\ req'[t].todo = req[t].todo
         /\ req'[t].ded = IF DedupKeys THEN Repeated(t, req[t].master, req[t].cur) ELSE {}
         /\ req'[t].rep = IF DedupKeys THEN PublishedOf(t, req[t].cur) \ req'[t].ded
                          ELSE LinesOf(t, req[t].cur)
<1> DEFINE ded == IF DedupKeys THEN Repeated(t, req[t].master, req[t].cur) ELSE {}
           rep == IF DedupKeys THEN PublishedOf(t, req[t].cur) \ ded ELSE LinesOf(t, req[t].cur)
           q == [req[t] EXCEPT !.at = "m_move", !.rep = rep, !.ded = ded]
<1>1. req[t].at = "m_plan" /\ req' = [req EXCEPT ![t] = q] /\ UNCHANGED <<rowVars, asked, histVars>>
  BY DEF MergePlan
<1>2. rep \subseteq Lines /\ ded \subseteq Lines
  BY DEF Repeated, PublishedOf, LinesOf
<1>3. rep = IF DedupKeys THEN PublishedOf(t, req[t].cur) \ ded ELSE LinesOf(t, req[t].cur)
  OBVIOUS
<1>4. ded = IF DedupKeys THEN Repeated(t, req[t].master, req[t].cur) ELSE {}
  OBVIOUS
<1> HIDE DEF rep, ded
<1>5. /\ q \in Requests /\ q.at = "m_move" /\ q.master = req[t].master /\ q.g = req[t].g
      /\ q.cur = req[t].cur /\ q.todo = req[t].todo /\ q.rep = rep /\ q.ded = ded
  BY <1>2, Typed DEF Requests, Steps
<1> HIDE DEF q
<1>6. TypeInv' /\ OnlyReq(t) /\ Writes(t, {}) /\ req'[t] = q
  BY <1>1, <1>5, RemembersTypes DEF MergeSteps, UndoSteps, EditSteps
<1> QED
  BY <1>1, <1>3, <1>4, <1>5, <1>6

(* The lines that a merge moves, and those it soft-deletes.                *)
MovedLines(t)   == IF DedupKeys THEN req[t].rep ELSE LinesOf(t, req[t].cur)
DroppedLines(t) == {l \in req[t].ded : See(t, l).life = "published"}

LEMMA MergeMoveFacts ==
  ASSUME TypeInv, NEW t \in Reqs, MergeMove(t)
  PROVE  /\ TypeInv' /\ OnlyReq(t)
         /\ req[t].at = "m_move"
         /\ req'[t].at = IF req[t].todo = {req[t].cur} THEN "m_write" ELSE "m_retire"
         /\ req'[t].g = req[t].g /\ req'[t].master = req[t].master
         /\ req'[t].todo = req[t].todo \ {req[t].cur}
         /\ req'[t].rep = req[t].rep /\ req'[t].ded = req[t].ded
         /\ req[t].cur \in Records /\ req[t].master \in Records
         /\ MovedLines(t) \subseteq Lines /\ DroppedLines(t) \subseteq Lines
         /\ Writes(t, MovedLines(t) \cup DroppedLines(t) \cup {req[t].cur})
         /\ new'[req[t].cur].life = See(t, req[t].cur).life
         /\ \A l \in MovedLines(t) :
              new'[l].life = See(t, l).life /\ new'[l].parent = req[t].master
         /\ \A l \in DroppedLines(t) \ MovedLines(t) :
              new'[l].life = "merged" /\ new'[l].parent = See(t, l).parent
         /\ \A l \in MovedLines(t) : new'[l] = [See(t, l) EXCEPT !.parent = req[t].master]
         /\ \A l \in DroppedLines(t) \ MovedLines(t) : new'[l] = [See(t, l) EXCEPT !.life = "merged"]
<1> DEFINE c == req[t].cur
           rep == MovedLines(t)
           ded == DroppedLines(t)
           F == [x \in rep \cup ded \cup {c} |->
                   IF x = c THEN [See(t, x) EXCEPT !.xref = FALSE]
                   ELSE IF x \in rep THEN [See(t, x) EXCEPT !.parent = req[t].master]
                   ELSE [See(t, x) EXCEPT !.life = "merged"]]
           q == [req[t] EXCEPT !.todo = @ \ {c},
                               !.at = IF req[t].todo = {c} THEN "m_write" ELSE "m_retire"]
<1>1. req[t].at = "m_move" /\ Put(t, F) /\ req' = [req EXCEPT ![t] = q] /\ UNCHANGED <<asked, histVars>>
  BY DEF MergeMove, MovedLines, DroppedLines
<1>2. ReqsOK /\ req[t] \in Requests /\ ReqOK(t)
  BY Typed
<1>3. c \in Records /\ req[t].master \in Records /\ req[t].g \in Groups
  BY <1>1, <1>2 DEF ReqOK, MergeSteps
<1>4. rep \subseteq Lines /\ ded \subseteq Lines
  BY <1>2 DEF Requests, LinesOf, MovedLines, DroppedLines
<1>5. /\ q \in Requests /\ q.at = IF req[t].todo = {c} THEN "m_write" ELSE "m_retire"
      /\ q.master = req[t].master /\ q.g = req[t].g /\ q.todo = req[t].todo \ {c}
      /\ q.rep = req[t].rep /\ q.ded = req[t].ded
  BY <1>2 DEF Requests, Steps
<1> HIDE DEF q, rep, ded
<1>6. OnlyReq(t) /\ req'[t] = q
  BY <1>1, <1>2, <1>5 DEF OnlyReq, ReqsOK
<1>7. ReqOK(t)' /\ req'[t].at # "idle"
  BY <1>1, <1>2, <1>3, <1>5, <1>6 DEF Put, ReqOK, Inserted, MergeSteps, UndoSteps, EditSteps
<1>8. DOMAIN F = rep \cup ded \cup {c} /\ DOMAIN F \subseteq Rows /\ \A g \in Groups : g \notin DOMAIN F
  BY <1>3, <1>4, RowKinds
<1>9. F[c] \in RowType(c) /\ F[c].life = See(t, c).life
  <2>1. See(t, c) \in HeadRow /\ RowType(c) = HeadRow
    BY <1>3, Typed
  <2>2. F[c] = [See(t, c) EXCEPT !.xref = FALSE]
    OBVIOUS
  <2> HIDE DEF F
  <2> QED
    BY <2>1, <2>2 DEF HeadRow
<1>10. ASSUME NEW l \in rep \cup ded
       PROVE  /\ F[l] \in RowType(l)
              /\ F[l] = IF l \in rep THEN [See(t, l) EXCEPT !.parent = req[t].master]
                        ELSE [See(t, l) EXCEPT !.life = "merged"]
              /\ l \in rep => F[l].life = See(t, l).life /\ F[l].parent = req[t].master
              /\ l \notin rep => F[l].life = "merged" /\ F[l].parent = See(t, l).parent
  <2>1. l \in Lines /\ See(t, l) \in LineRow /\ RowType(l) = LineRow /\ l # c
    BY <1>3, <1>4, Typed, RowKinds
  <2>2. F[l] = IF l \in rep THEN [See(t, l) EXCEPT !.parent = req[t].master]
               ELSE [See(t, l) EXCEPT !.life = "merged"]
    BY <2>1
  <2> HIDE DEF F
  <2> QED
    <3>1. CASE l \in rep
      BY <1>3, <2>1, <2>2, <3>1 DEF LineRow
    <3>2. CASE l \notin rep
      BY <2>1, <2>2, <3>2 DEF LineRow, Lives
    <3> QED
      BY <3>1, <3>2
<1> HIDE DEF F
<1>11. TypeInv' /\ Writes(t, DOMAIN F) /\ \A x \in DOMAIN F : new'[x] = F[x]
  <2>1. \A x \in DOMAIN F : F[x] \in RowType(x)
    BY <1>8, <1>9, <1>10
  <2>2. \A g \in Groups : g \in DOMAIN F => F[g].members = row[g].members /\ Inserted(g)
    BY <1>8
  <2>3. DOMAIN F \subseteq Rows /\ Put(t, F) /\ UNCHANGED <<asked, histVars>>
    BY <1>1, <1>8
  <2> QED
    BY <1>6, <1>7, <2>1, <2>2, <2>3, PutTypes
<1>12. c \in DOMAIN F /\ \A l \in rep \cup ded : l \in DOMAIN F
  BY <1>8
<1>13. /\ new'[c].life = See(t, c).life
       /\ \A l \in rep : new'[l].life = See(t, l).life /\ new'[l].parent = req[t].master
       /\ \A l \in ded \ rep : new'[l].life = "merged" /\ new'[l].parent = See(t, l).parent
       /\ \A l \in rep : new'[l] = [See(t, l) EXCEPT !.parent = req[t].master]
       /\ \A l \in ded \ rep : new'[l] = [See(t, l) EXCEPT !.life = "merged"]
  BY <1>9, <1>10, <1>11, <1>12
<1>14. TypeInv' /\ Writes(t, rep \cup ded \cup {c})
  BY <1>8, <1>11
<1> QED
  BY <1>1, <1>3, <1>4, <1>5, <1>6, <1>13, <1>14 DEF rep, ded

(* A compare-and-set of a version keeps the row's life.                    *)
LEMMA RaisedTypes ==
  ASSUME NEW head \in HeadRow
  PROVE  [head EXCEPT !.ver = @ + 1] \in HeadRow /\ [head EXCEPT !.ver = @ + 1].life = head.life
BY DEF HeadRow

LEMMA MergeWriteFacts ==
  ASSUME TypeInv, NEW t \in Reqs, MergeWrite(t), ~Rollback(t)
  PROVE  /\ TypeInv' /\ OnlyReq(t) /\ SameReq(t)
         /\ req[t].at = "m_write" /\ req'[t].at = "m_group" /\ req[t].master \in Records
         /\ Writes(t, {req[t].master})
         /\ See(t, req[t].master).life = "published" /\ new'[req[t].master].life = "published"
<1> DEFINE m == req[t].master
           w == [See(t, m) EXCEPT !.ver = @ + 1]
<1>1. /\ req[t].at = "m_write" /\ Goto(t, "m_group") /\ UNCHANGED <<asked, histVars>>
      /\ m \in Records /\ See(t, m).life = "published"
  BY Typed DEF MergeWrite, ReqOK, MergeSteps, Updatable
<1>2. Put(t, [y \in {m} |-> w])
  <2>1. [y \in {m} |-> w] = [r \in {m} |-> [See(t, m) EXCEPT !.ver = @ + 1]]
    OBVIOUS
  <2> QED
    BY <2>1 DEF MergeWrite
<1>3. w \in RowType(m) /\ w.life = "published" /\ m \in Rows /\ m \notin Groups
  BY <1>1, Typed, RaisedTypes
<1> HIDE DEF w
<1>4. OnlyReq(t) /\ ReqOK(t)' /\ SameReq(t) /\ req'[t].at = "m_group" /\ req'[t].at # "idle"
  BY <1>1, <1>2, GotoTyped DEF Put, Steps, MergeSteps, UndoSteps, EditSteps
<1>5. TypeInv' /\ Writes(t, {m}) /\ new'[m] = w
  BY <1>1, <1>2, <1>3, <1>4, PutOneTypes
<1> QED
  BY <1>1, <1>3, <1>4, <1>5

LEMMA MergeGroupFacts ==
  ASSUME TypeInv, NEW t \in Reqs, MergeGroup(t), ~Rollback(t)
  PROVE  /\ TypeInv' /\ OnlyReq(t) /\ SameReq(t)
         /\ req[t].at = "m_group" /\ req'[t].at = "commit" /\ req[t].master \in Records
         /\ req[t].g \in Groups /\ Writes(t, {req[t].g}) /\ row[req[t].g].st # "rejected"
         /\ new'[req[t].g].st = "reviewed" /\ new'[req[t].g].master = req[t].master
         /\ new'[req[t].g].rep = req[t].rep /\ new'[req[t].g].ded = req[t].ded
<1> DEFINE g == req[t].g
           w == [row[g] EXCEPT !.st = "reviewed", !.master = req[t].master,
                               !.rep = LogOf(req[t]).rep, !.ded = LogOf(req[t]).ded]
<1>1. /\ req[t].at = "m_group" /\ Goto(t, "commit") /\ UNCHANGED <<asked, histVars>>
      /\ req[t].master \in Records /\ g \in Groups /\ Inserted(g) /\ req[t] \in Requests
      /\ row[g].st # "rejected"
  BY Typed, RowKinds DEF MergeGroup, ReqOK, MergeSteps, Archivable
<1>2. Put(t, [y \in {g} |-> w])
  <2>1. [y \in {g} |-> w] =
          [x \in {g} |-> [row[x] EXCEPT !.st = "reviewed", !.master = req[t].master,
                                        !.rep = LogOf(req[t]).rep, !.ded = LogOf(req[t]).ded]]
    OBVIOUS
  <2> QED
    BY <2>1 DEF MergeGroup
<1>3. row[g] \in GroupRow /\ RowType(g) = GroupRow /\ g \in Rows
  BY <1>1, Typed
<1>4. w \in GroupRow /\ w.members = row[g].members /\ w.st = "reviewed" /\ w.master = req[t].master
      /\ w.rep = req[t].rep /\ w.ded = req[t].ded
  BY <1>1, <1>3 DEF GroupRow, LogOf, Requests
<1>5. OnlyReq(t) /\ ReqOK(t)' /\ SameReq(t) /\ req'[t].at = "commit" /\ req'[t].at # "idle"
  BY <1>1, <1>2, GotoTyped DEF Put, Steps, MergeSteps, UndoSteps, EditSteps
<1> HIDE DEF w
<1>6. TypeInv' /\ Writes(t, {g}) /\ new'[g] = w
  BY <1>1, <1>2, <1>3, <1>4, <1>5, PutOneTypes
<1> QED
  BY <1>1, <1>4, <1>5, <1>6

LEMMA RejectGroupFacts ==
  ASSUME TypeInv, NEW t \in Reqs, RejectGroup(t), ~Rollback(t)
  PROVE  /\ TypeInv' /\ OnlyReq(t) /\ SameReq(t)
         /\ req[t].at = "r_group" /\ req'[t].at = "commit"
         /\ req[t].g \in Groups /\ Writes(t, {req[t].g})
         /\ row[req[t].g].st = "pending" /\ new'[req[t].g].st = "rejected"
<1> DEFINE g == req[t].g
           w == [row[g] EXCEPT !.st = "rejected", !.master = Nobody]
<1>1. /\ req[t].at = "r_group" /\ Goto(t, "commit") /\ UNCHANGED <<asked, histVars>>
      /\ g \in Groups /\ Inserted(g) /\ row[g].st = "pending"
  BY Typed, RowKinds DEF RejectGroup, ReqOK
<1>2. Put(t, [y \in {g} |-> w])
  <2>1. [y \in {g} |-> w] = [x \in {g} |-> [row[g] EXCEPT !.st = "rejected", !.master = Nobody]]
    OBVIOUS
  <2> QED
    BY <2>1 DEF RejectGroup
<1>3. row[g] \in GroupRow /\ RowType(g) = GroupRow /\ g \in Rows
  BY <1>1, Typed
<1>4. w \in GroupRow /\ w.members = row[g].members /\ w.st = "rejected"
  BY <1>3 DEF GroupRow
<1>5. OnlyReq(t) /\ ReqOK(t)' /\ SameReq(t) /\ req'[t].at = "commit" /\ req'[t].at # "idle"
  BY <1>1, <1>2, GotoTyped DEF Put, Steps, MergeSteps, UndoSteps, EditSteps
<1> HIDE DEF w
<1>6. TypeInv' /\ Writes(t, {g}) /\ new'[g] = w
  BY <1>1, <1>2, <1>3, <1>4, <1>5, PutOneTypes
<1> QED
  BY <1>1, <1>4, <1>5, <1>6

LEMMA UndoLifeFacts ==
  ASSUME TypeInv, NEW t \in Reqs, UndoLife(t), ~Rollback(t)
  PROVE  /\ TypeInv' /\ OnlyReq(t) /\ SameReq(t)
         /\ req[t].at = "u_life" /\ req'[t].at = "u_log" /\ req[t].cur \in Records
         /\ Writes(t, {req[t].cur})
         /\ See(t, req[t].cur).life = "merged" /\ new'[req[t].cur].life = "published"
<1> DEFINE v == req[t].cur
           w == Relived(See(t, v), "published")
<1>1. /\ req[t].at = "u_life" /\ Goto(t, "u_log") /\ UNCHANGED <<asked, histVars>>
      /\ v \in Records /\ See(t, v).life = "merged"
  BY Typed DEF UndoLife, ReqOK, UndoSteps
<1>2. Put(t, [y \in {v} |-> w])
  <2>1. [y \in {v} |-> w] = [r \in {v} |-> Relived(See(t, v), "published")]
    OBVIOUS
  <2> QED
    BY <2>1 DEF UndoLife
<1>3. w \in RowType(v) /\ w.life = "published" /\ v \in Rows /\ v \notin Groups
  BY <1>1, Typed, RelivedTypes
<1> HIDE DEF w
<1>4. OnlyReq(t) /\ ReqOK(t)' /\ SameReq(t) /\ req'[t].at = "u_log" /\ req'[t].at # "idle"
  BY <1>1, <1>2, GotoTyped DEF Put, Steps, MergeSteps, UndoSteps, EditSteps
<1>5. TypeInv' /\ Writes(t, {v}) /\ new'[v] = w
  BY <1>1, <1>2, <1>3, <1>4, PutOneTypes
<1> QED
  BY <1>1, <1>3, <1>4, <1>5

LEMMA UndoLogFacts ==
  ASSUME TypeInv, NEW t \in Reqs, UndoLog(t)
  PROVE  /\ TypeInv' /\ OnlyReq(t) /\ Writes(t, {})
         /\ req[t].at = "u_log" /\ req'[t].at = "u_move" /\ req[t].g \in Groups
         /\ req'[t].g = req[t].g /\ req'[t].master = req[t].master /\ req'[t].cur = req[t].cur
         /\ req'[t].rep = row[req[t].g].rep /\ req'[t].ded = row[req[t].g].ded
<1> DEFINE g == req[t].g
           q == [req[t] EXCEPT !.at = "u_move", !.rep = row[g].rep, !.ded = row[g].ded]
<1>1. req[t].at = "u_log" /\ req' = [req EXCEPT ![t] = q] /\ UNCHANGED <<rowVars, asked, histVars>>
  BY DEF UndoLog
<1>2. req[t] \in Requests /\ g \in Groups
  BY <1>1, Typed DEF ReqOK, UndoSteps
<1>3. row[g].rep \subseteq Lines /\ row[g].ded \subseteq Lines
  BY <1>2, Typed DEF GroupRow
<1>4. q \in Requests /\ q.at = "u_move" /\ q.master = req[t].master /\ q.g = g /\ q.cur = req[t].cur
      /\ q.rep = row[g].rep /\ q.ded = row[g].ded
  BY <1>2, <1>3 DEF Requests, Steps
<1> HIDE DEF q
<1>5. TypeInv' /\ OnlyReq(t) /\ Writes(t, {}) /\ req'[t] = q
  BY <1>1, <1>4, RemembersTypes DEF MergeSteps, UndoSteps, EditSteps
<1> QED
  BY <1>1, <1>2, <1>4, <1>5

(* The lines that an undo gives back, or publishes again.                  *)
RestoredLines(t) == req[t].rep \cup {l \in req[t].ded : See(t, l).life = "merged"}

LEMMA UndoMoveFacts ==
  ASSUME TypeInv, NEW t \in Reqs, UndoMove(t)
  PROVE  /\ TypeInv' /\ OnlyReq(t) /\ SameReq(t)
         /\ req[t].at = "u_move" /\ req'[t].at = "u_group" /\ req[t].cur \in Records
         /\ RestoredLines(t) \subseteq Lines
         /\ Writes(t, RestoredLines(t) \cup {req[t].cur})
         /\ \A l \in RestoredLines(t) :
              new'[l] = IF l \in req[t].rep THEN [See(t, l) EXCEPT !.parent = req[t].cur]
                        ELSE [See(t, l) EXCEPT !.life = "published"]
         /\ new'[req[t].cur].life = See(t, req[t].cur).life
<1> DEFINE c == req[t].cur
           rep == req[t].rep
           ded == {l \in req[t].ded : See(t, l).life = "merged"}
           F == [x \in rep \cup ded \cup {c} |->
                   IF x = c THEN [See(t, x) EXCEPT !.xref = TRUE]
                   ELSE IF x \in rep THEN [See(t, x) EXCEPT !.parent = c]
                   ELSE [See(t, x) EXCEPT !.life = "published"]]
<1>1. req[t].at = "u_move" /\ Put(t, F) /\ Goto(t, "u_group") /\ UNCHANGED <<asked, histVars>>
  BY DEF UndoMove
<1>2. req[t] \in Requests /\ c \in Records
  BY <1>1, Typed DEF ReqOK, UndoSteps
<1>3. rep \subseteq Lines /\ ded \subseteq Lines
  BY <1>2 DEF Requests
<1> HIDE DEF rep, ded
<1>4. OnlyReq(t) /\ ReqOK(t)' /\ SameReq(t) /\ req'[t].at = "u_group" /\ req'[t].at # "idle"
  BY <1>1, <1>2, GotoTyped DEF Put, Steps, MergeSteps, UndoSteps, EditSteps
<1>5. DOMAIN F = rep \cup ded \cup {c} /\ DOMAIN F \subseteq Rows /\ \A g \in Groups : g \notin DOMAIN F
  BY <1>2, <1>3, RowKinds
<1>6. F[c] \in RowType(c) /\ F[c].life = See(t, c).life
  <2>1. See(t, c) \in HeadRow /\ RowType(c) = HeadRow
    BY <1>2, Typed
  <2>2. F[c] = [See(t, c) EXCEPT !.xref = TRUE]
    OBVIOUS
  <2> HIDE DEF F
  <2> QED
    BY <2>1, <2>2 DEF HeadRow
<1>7. ASSUME NEW l \in rep \cup ded
      PROVE  /\ F[l] \in RowType(l)
             /\ F[l] = IF l \in rep THEN [See(t, l) EXCEPT !.parent = c]
                       ELSE [See(t, l) EXCEPT !.life = "published"]
  <2>1. l \in Lines /\ See(t, l) \in LineRow /\ RowType(l) = LineRow /\ l # c
    BY <1>2, <1>3, Typed, RowKinds
  <2>2. F[l] = IF l \in rep THEN [See(t, l) EXCEPT !.parent = c]
               ELSE [See(t, l) EXCEPT !.life = "published"]
    BY <2>1
  <2> HIDE DEF F
  <2> QED
    <3>1. CASE l \in rep
      BY <1>2, <2>1, <2>2, <3>1 DEF LineRow
    <3>2. CASE l \notin rep
      BY <2>1, <2>2, <3>2 DEF LineRow, Lives
    <3> QED
      BY <3>1, <3>2
<1> HIDE DEF F
<1>8. TypeInv' /\ Writes(t, DOMAIN F) /\ \A x \in DOMAIN F : new'[x] = F[x]
  <2>1. \A x \in DOMAIN F : F[x] \in RowType(x)
    BY <1>5, <1>6, <1>7
  <2>2. \A g \in Groups : g \in DOMAIN F => F[g].members = row[g].members /\ Inserted(g)
    BY <1>5
  <2>3. DOMAIN F \subseteq Rows /\ Put(t, F) /\ UNCHANGED <<asked, histVars>>
    BY <1>1, <1>5
  <2> QED
    BY <1>4, <2>1, <2>2, <2>3, PutTypes
<1>9. new'[c].life = See(t, c).life
  BY <1>5, <1>6, <1>8
<1>10. DOMAIN F = (rep \cup ded) \cup {c} /\ rep \cup ded \subseteq Lines
  BY <1>3, <1>5
<1>11. RestoredLines(t) = rep \cup ded
  BY DEF RestoredLines, rep, ded
<1>12. \A l \in rep \cup ded : new'[l] = IF l \in rep THEN [See(t, l) EXCEPT !.parent = c]
                                         ELSE [See(t, l) EXCEPT !.life = "published"]
  BY <1>7, <1>8, <1>10
<1>13. \A l \in rep \cup ded : new'[l] = IF l \in req[t].rep THEN [See(t, l) EXCEPT !.parent = c]
                                         ELSE [See(t, l) EXCEPT !.life = "published"]
  BY <1>12 DEF rep
<1> QED
  BY <1>1, <1>2, <1>4, <1>8, <1>9, <1>10, <1>11, <1>13

LEMMA UndoGroupFacts ==
  ASSUME TypeInv, NEW t \in Reqs, UndoGroup(t)
  PROVE  /\ TypeInv' /\ OnlyReq(t) /\ SameReq(t)
         /\ req[t].at = "u_group" /\ req'[t].at = "commit"
         /\ req[t].g \in Groups /\ Writes(t, {req[t].g}) /\ new'[req[t].g].st = "unmerged"
<1> DEFINE g == req[t].g
           w == [NoGroup EXCEPT !.st = "unmerged", !.members = row[g].members]
<1>1. /\ req[t].at = "u_group" /\ Goto(t, "commit") /\ UNCHANGED <<asked, histVars>>
      /\ g \in Groups /\ Inserted(g)
  BY Typed, RowKinds DEF UndoGroup, ReqOK, UndoSteps
<1>2. Put(t, [y \in {g} |-> w])
  <2>1. [y \in {g} |-> w] = [x \in {g} |-> [NoGroup EXCEPT !.st = "unmerged", !.members = row[g].members]]
    OBVIOUS
  <2> QED
    BY <2>1 DEF UndoGroup
<1>3. row[g] \in GroupRow /\ RowType(g) = GroupRow /\ g \in Rows
  BY <1>1, Typed
<1>4. w \in GroupRow /\ w.members = row[g].members /\ w.st = "unmerged"
  <2>1. row[g].members \in Seq(Records) /\ <<>> \in Seq(Records)
    BY <1>3 DEF GroupRow
  <2>2. NoGroup \in GroupRow
    BY <2>1 DEF NoGroup, GroupRow
  <2> QED
    BY <2>1, <2>2 DEF GroupRow
<1>5. OnlyReq(t) /\ ReqOK(t)' /\ SameReq(t) /\ req'[t].at = "commit" /\ req'[t].at # "idle"
  BY <1>1, <1>2, GotoTyped DEF Put, Steps, MergeSteps, UndoSteps, EditSteps
<1> HIDE DEF w
<1>6. TypeInv' /\ Writes(t, {g}) /\ new'[g] = w
  BY <1>1, <1>2, <1>3, <1>4, <1>5, PutOneTypes
<1> QED
  BY <1>1, <1>4, <1>5, <1>6

LEMMA EditReadFacts ==
  ASSUME TypeInv, NEW t \in Reqs, EditRead(t)
  PROVE  /\ TypeInv' /\ OnlyReq(t) /\ SameReq(t) /\ Writes(t, {})
         /\ req[t].at = "e_read" /\ req'[t].at = "e_write"
<1> DEFINE q == [req[t] EXCEPT !.at = "e_write", !.ver = See(t, req[t].cur).ver]
<1>1. req[t].at = "e_read" /\ req' = [req EXCEPT ![t] = q] /\ UNCHANGED <<rowVars, asked, histVars>>
  BY DEF EditRead
<1>2. req[t] \in Requests /\ req[t].cur \in Records
  BY <1>1, Typed DEF ReqOK, EditSteps
<1>3. See(t, req[t].cur).ver \in Nat
  BY <1>2, Typed DEF HeadRow
<1>4. /\ q \in Requests /\ q.at = "e_write" /\ q.master = req[t].master /\ q.g = req[t].g
      /\ q.cur = req[t].cur /\ q.todo = req[t].todo /\ q.rep = req[t].rep /\ q.ded = req[t].ded
  BY <1>2, <1>3 DEF Requests, Steps
<1> HIDE DEF q
<1>5. TypeInv' /\ OnlyReq(t) /\ Writes(t, {}) /\ req'[t] = q
  BY <1>1, <1>4, RemembersTypes DEF MergeSteps, UndoSteps, EditSteps
<1> QED
  BY <1>1, <1>4, <1>5 DEF SameReq

LEMMA EditWriteFacts ==
  ASSUME TypeInv, NEW t \in Reqs, EditWrite(t), ~Rollback(t)
  PROVE  /\ TypeInv' /\ OnlyReq(t) /\ SameReq(t)
         /\ req[t].at = "e_write" /\ req'[t].at = "e_lines" /\ req[t].cur \in Records
         /\ Writes(t, {req[t].cur})
         /\ See(t, req[t].cur).life = "published" /\ new'[req[t].cur].life = "published"
<1> DEFINE m == req[t].cur
           w == [See(t, m) EXCEPT !.ver = @ + 1]
<1>1. /\ req[t].at = "e_write" /\ Goto(t, "e_lines") /\ UNCHANGED <<asked, histVars>>
      /\ m \in Records /\ See(t, m).life = "published"
  BY Typed DEF EditWrite, ReqOK, EditSteps, Updatable
<1>2. Put(t, [y \in {m} |-> w])
  <2>1. [y \in {m} |-> w] = [r \in {m} |-> [See(t, m) EXCEPT !.ver = @ + 1]]
    OBVIOUS
  <2> QED
    BY <2>1 DEF EditWrite
<1>3. w \in RowType(m) /\ w.life = "published" /\ m \in Rows /\ m \notin Groups
  BY <1>1, Typed, RaisedTypes
<1> HIDE DEF w
<1>4. OnlyReq(t) /\ ReqOK(t)' /\ SameReq(t) /\ req'[t].at = "e_lines" /\ req'[t].at # "idle"
  BY <1>1, <1>2, GotoTyped DEF Put, Steps, MergeSteps, UndoSteps, EditSteps
<1>5. TypeInv' /\ Writes(t, {m}) /\ new'[m] = w
  BY <1>1, <1>2, <1>3, <1>4, PutOneTypes
<1> QED
  BY <1>1, <1>3, <1>4, <1>5

(* What EditLines does to the lines that it archives and adds.             *)
EditsLines(t, drop, add) ==
  /\ SameReq(t) /\ req[t].at = "e_lines" /\ req'[t].at = "commit" /\ req[t].cur \in Records
  /\ add \subseteq Lines
  /\ \A l \in drop : See(t, l).life = "published" /\ See(t, l).parent = req[t].cur
  /\ \A l \in add : See(t, l).life = "unborn"
  /\ \A l \in drop : new'[l].life = "archived" /\ new'[l].parent = req[t].cur
  /\ \A l \in add \ drop : new'[l].life = "published" /\ new'[l].parent = req[t].cur

LEMMA EditLinesFacts ==
  ASSUME TypeInv, NEW t \in Reqs, NEW drop \in SUBSET Lines, NEW add \in SUBSET Unborn,
         EditLines(t, drop, add)
  PROVE  TypeInv' /\ OnlyReq(t) /\ Writes(t, drop \cup add) /\ EditsLines(t, drop, add)
<1> DEFINE r == req[t].cur
           F == [x \in drop \cup add |->
                   IF x \in drop THEN [See(t, x) EXCEPT !.life = "archived"]
                   ELSE [life |-> "published", parent |-> r]]
<1>1. /\ req[t].at = "e_lines" /\ Put(t, F) /\ Goto(t, "commit") /\ UNCHANGED <<asked, histVars>>
      /\ \A l \in drop : See(t, l).life = "published" /\ See(t, l).parent = r
      /\ \A l \in add : See(t, l).life = "unborn"
  BY DEF EditLines, PublishedOf, LinesOf
<1>2. r \in Records /\ add \subseteq Lines
  BY <1>1, Typed, StewardshipAssumption DEF ReqOK, EditSteps, StewardshipAssumption
<1>3. OnlyReq(t) /\ ReqOK(t)' /\ SameReq(t) /\ req'[t].at = "commit" /\ req'[t].at # "idle"
  BY <1>1, <1>2, GotoTyped DEF Put, Steps, MergeSteps, UndoSteps, EditSteps
<1>4. DOMAIN F = drop \cup add /\ DOMAIN F \subseteq Rows /\ \A g \in Groups : g \notin DOMAIN F
  BY <1>2, RowKinds
<1>5. ASSUME NEW l \in drop \cup add
      PROVE  /\ F[l] \in RowType(l) /\ F[l].parent = r
             /\ F[l].life = IF l \in drop THEN "archived" ELSE "published"
  <2>1. l \in Lines /\ See(t, l) \in LineRow /\ RowType(l) = LineRow
    BY <1>2, Typed
  <2>2. F[l] = IF l \in drop THEN [See(t, l) EXCEPT !.life = "archived"]
               ELSE [life |-> "published", parent |-> r]
    BY <2>1
  <2> HIDE DEF F
  <2> QED
    BY <1>1, <1>2, <2>1, <2>2 DEF LineRow, Lives
<1> HIDE DEF F
<1>6. TypeInv' /\ Writes(t, DOMAIN F) /\ \A x \in DOMAIN F : new'[x] = F[x]
  BY <1>1, <1>3, <1>4, <1>5, PutTypes
<1>7. TypeInv' /\ Writes(t, drop \cup add)
  BY <1>4, <1>6
<1>8. /\ \A l \in drop : new'[l].life = "archived" /\ new'[l].parent = r
      /\ \A l \in add \ drop : new'[l].life = "published" /\ new'[l].parent = r
  BY <1>4, <1>5, <1>6
<1> QED
  BY <1>1, <1>2, <1>3, <1>7, <1>8 DEF EditsLines

(* Transaction t is about to merge record r away.                          *)
Retires(t, r) == holder[r] = t /\ new[r].life = "merged" /\ row[r].life = "published"

LEMMA CommitFacts ==
  ASSUME TypeInv, NEW t \in Reqs, Commit(t)
  PROVE  /\ TypeInv' /\ OnlyReq(t) /\ req[t].at = "commit" /\ req'[t] = Idle
         /\ asked' = asked
         /\ \A x \in Rows : IF holder[x] = t
                              THEN row'[x] = new[x] /\ holder'[x] = Nobody /\ new'[x] = new[x]
                              ELSE row'[x] = row[x] /\ holder'[x] = holder[x] /\ new'[x] = new[x]
         /\ \A r \in Records : into'[r] = IF Retires(t, r) THEN req[t].master ELSE into[r]
<1>1. RowsOK /\ ReqsOK /\ GroupsOK /\ HistOK /\ req[t] \in Requests
  BY Typed
<1>2. req[t].at = "commit" /\ req' = [req EXCEPT ![t] = Idle] /\ asked' = asked /\ new' = new
  BY DEF Commit
<1>3. OnlyReq(t) /\ req'[t] = Idle
  BY <1>1, <1>2, IdleIsTyped DEF OnlyReq, ReqsOK
<1>4. \A x \in Rows : IF holder[x] = t
                        THEN row'[x] = new[x] /\ holder'[x] = Nobody /\ new'[x] = new[x]
                        ELSE row'[x] = row[x] /\ holder'[x] = holder[x] /\ new'[x] = new[x]
  BY <1>2 DEF Commit
<1>5. \A r \in Records : into'[r] = IF Retires(t, r) THEN req[t].master ELSE into[r]
  <2>1. \A r \in Records : r \in Held(t) <=> holder[r] = t
    BY RowKinds DEF Held
  <2> QED
    BY <2>1 DEF Commit, Retires
<1>6. RowsOK'
  <2>1. /\ row' = [x \in Rows |-> row'[x]] /\ new' = [x \in Rows |-> new'[x]]
        /\ holder' \in [Rows -> Reqs \cup {Nobody}]
    BY <1>1 DEF Commit, RowsOK
  <2>2. \A x \in Rows : row'[x] \in RowType(x) /\ new'[x] \in RowType(x)
    BY <1>1, <1>4 DEF RowsOK
  <2>3. \A x \in Rows : IF holder'[x] = Nobody THEN new'[x] = row'[x] ELSE req'[holder'[x]] # Idle
    BY <1>1, <1>3, <1>4, RowKinds DEF RowsOK, OnlyReq
  <2> QED
    BY <2>1, <2>2, <2>3 DEF RowsOK, RowType
<1>10. \A g \in Groups : Inserted(g) => Inserted(g)'
  BY <1>1, <1>2, <1>4, RowKinds, StaysInserted DEF GroupsOK
<1>7. GroupsOK'
  <2>1. ASSUME NEW g \in Groups
        PROVE  /\ Inserted(g)' \/ (row'[g] = NoGroup /\ holder'[g] = Nobody)
               /\ new'[g].members = row'[g].members
    <3>1. g \in Rows
      BY RowKinds
    <3>2. /\ Inserted(g) \/ (row[g] = NoGroup /\ holder[g] = Nobody)
          /\ new[g].members = row[g].members
      BY <1>1 DEF GroupsOK
    <3> QED
      BY <1>4, <1>10, <3>1, <3>2, RowKinds
  <2> QED
    BY <2>1 DEF GroupsOK
<1>8. ReqsOK'
  BY <1>1, <1>2, <1>3, <1>10, IdleIsTyped, OthersTyped
<1>9. HistOK'
  BY <1>1, <1>2, <1>5 DEF HistOK, Commit, Requests
<1> QED
  BY <1>2, <1>3, <1>4, <1>5, <1>6, <1>7, <1>8, <1>9 DEF TypeInv

(* Every step is a step of one request, and leaves the others their rows.  *)
OwnStep(t) ==
  /\ OnlyReq(t)
  /\ \A x \in Rows, u \in Reqs \ {t} :
       /\ holder'[x] = u <=> holder[x] = u
       /\ holder[x] = u => new'[x] = new[x] /\ row'[x] = row[x]

LEMMA WritesAreOwn ==
  ASSUME RowsOK, NEW t \in Reqs, OnlyReq(t), NEW X, Writes(t, X)
  PROVE  OwnStep(t)
BY RowKinds DEF OwnStep, Writes, RowsOK

LEMMA EndsAreOwn ==
  ASSUME TypeInv, NEW t \in Reqs, Rollback(t) \/ Commit(t)
  PROVE  OwnStep(t) /\ req'[t] = Idle /\ \A x \in Rows : holder'[x] # t
<1>0. Nobody \notin Reqs
  BY RowKinds
<1>1. CASE Rollback(t)
  <2>1. /\ row' = row /\ OnlyReq(t) /\ req'[t] = Idle
        /\ \A x \in Rows : IF holder[x] = t THEN holder'[x] = Nobody /\ new'[x] = row[x]
                           ELSE holder'[x] = holder[x] /\ new'[x] = new[x]
    BY <1>1, RollbackFacts
  <2>2. \A x \in Rows : holder'[x] # t
    BY <1>0, <2>1
  <2>3. OwnStep(t)
    BY <1>0, <2>1 DEF OwnStep
  <2> QED
    BY <2>1, <2>2, <2>3
<1>2. CASE Commit(t)
  <2>1. /\ OnlyReq(t) /\ req'[t] = Idle
        /\ \A x \in Rows : IF holder[x] = t
                             THEN row'[x] = new[x] /\ holder'[x] = Nobody /\ new'[x] = new[x]
                             ELSE row'[x] = row[x] /\ holder'[x] = holder[x] /\ new'[x] = new[x]
    BY <1>2, CommitFacts
  <2>2. \A x \in Rows : holder'[x] # t
    BY <1>0, <2>1
  <2>3. OwnStep(t)
    BY <1>0, <2>1 DEF OwnStep
  <2> QED
    BY <2>1, <2>2, <2>3
<1> QED
  BY <1>1, <1>2

LEMMA MergeAskIsOwn ==
  ASSUME TypeInv, NEW t \in Reqs, NEW m \in Records, NEW v \in Victims, MergeAsk(t, m, v)
  PROVE  OwnStep(t)
<1>1. /\ OnlyReq(t) /\ holder' = holder /\ holder[asked + 1] = Nobody
      /\ \A x \in Rows \ {asked + 1} : row'[x] = row[x] /\ new'[x] = new[x]
  BY MergeAskTypes
<1> QED
  BY <1>1, RowKinds DEF OwnStep

(* An idle request holds no row.                                           *)
LEMMA IdleHoldsNothing ==
  ASSUME TypeInv, NEW t \in Reqs, req[t] = Idle
  PROVE  \A x \in Rows : holder[x] # t
BY RowKinds DEF TypeInv, RowsOK

LEMMA TypeStep == TypeInv /\ [Next]_vars => TypeInv'
<1> SUFFICES ASSUME TypeInv, [Next]_vars PROVE TypeInv'
  OBVIOUS
<1>1. CASE UNCHANGED vars
  BY <1>1 DEF TypeInv, RowsOK, ReqsOK, GroupsOK, HistOK, ReqOK, Inserted, vars, RowType
<1>2. CASE Next
  <2>1. PICK t \in Reqs : Acts(t)
    BY <1>2 DEF Next
  <2>2. Rollback(t) => TypeInv'
    BY RollbackTypes
  <2>3. (\E m \in Records, v \in Victims : MergeAsk(t, m, v)) => TypeInv'
    BY MergeAskTypes
  <2>4. (\E g \in Groups : RejectAsk(t, g) \/ UndoAsk(t, g)) => TypeInv'
    BY RejectAskFacts, UndoAskFacts
  <2>5. (\E g \in Groups, m \in Records : MergeAgain(t, g, m)) => TypeInv'
    BY MergeAgainFacts
  <2>6. (\E r \in Records : EditAsk(t, r)) => TypeInv'
    BY EditAskFacts
  <2>7. (MergeLock(t) \/ MergeRead(t) \/ MergePlan(t) \/ MergeMove(t)) => TypeInv'
    BY <2>2, MergeLockFacts, MergeReadFacts, MergePlanFacts, MergeMoveFacts
  <2>8. (\E v \in Records : MergeRetire(t, v)) => TypeInv'
    BY <2>2, MergeRetireFacts
  <2>9. (MergeWrite(t) \/ MergeGroup(t) \/ RejectGroup(t)) => TypeInv'
    BY <2>2, MergeWriteFacts, MergeGroupFacts, RejectGroupFacts
  <2>10. (UndoLife(t) \/ UndoLog(t) \/ UndoMove(t) \/ UndoGroup(t)) => TypeInv'
    BY <2>2, UndoLifeFacts, UndoLogFacts, UndoMoveFacts, UndoGroupFacts
  <2>11. (EditRead(t) \/ EditWrite(t)) => TypeInv'
    BY <2>2, EditReadFacts, EditWriteFacts
  <2>12. (\E drop \in SUBSET Lines, add \in SUBSET Unborn : EditLines(t, drop, add)) => TypeInv'
    BY EditLinesFacts
  <2>13. (Commit(t) \/ Fails(t)) => TypeInv'
    BY <2>2, CommitFacts DEF Fails
  <2> QED
    BY <2>1, <2>3, <2>4, <2>5, <2>6, <2>7, <2>8, <2>9, <2>10, <2>11, <2>12, <2>13 DEF Acts
<1> QED
  BY <1>1, <1>2

LEMMA TypeInit == Init => TypeInv
<1> SUFFICES ASSUME Init PROVE TypeInv
  OBVIOUS
<1>1. \A r \in Records : row[r] = [life |-> "published", ver |-> 1, xref |-> TRUE]
  BY RowKinds DEF Init
<1>2. \A l \in Lines : row[l] = [life |-> IF l \in Unborn THEN "unborn" ELSE "published",
                                 parent |-> Owner[l]]
  BY RowKinds DEF Init
<1>3. \A g \in Groups : row[g] = NoGroup
  BY RowKinds DEF Init
<1>4. \A x \in Rows : row[x] \in RowType(x)
  <2>1. [life |-> "published", ver |-> 1, xref |-> TRUE] \in HeadRow
    BY DEF HeadRow
  <2>2. ASSUME NEW l \in Lines
        PROVE  [life |-> IF l \in Unborn THEN "unborn" ELSE "published", parent |-> Owner[l]] \in LineRow
    BY StewardshipAssumption DEF LineRow, Lives, StewardshipAssumption
  <2>3. NoGroup \in GroupRow
    <3>1. <<>> \in Seq(Records)
      OBVIOUS
    <3> QED
      BY <3>1 DEF NoGroup, GroupRow
  <2> QED
    BY <1>1, <1>2, <1>3, <2>1, <2>2, <2>3, RowKinds DEF RowType, Rows
<1>5. RowsOK
  <2>1. /\ row = [x \in Rows |-> row[x]] /\ new = row /\ holder = [x \in Rows |-> Nobody]
    BY DEF Init
  <2> QED
    BY <1>4, <2>1 DEF RowsOK
<1>6. ReqsOK
  <2>1. Idle.g = 0
    BY DEF Idle
  <2> QED
    BY <2>1, IdleIsTyped DEF Init, ReqsOK, ReqOK, MergeSteps, UndoSteps, EditSteps
<1>7. GroupsOK
  BY <1>3, RowKinds DEF Init, GroupsOK
<1>8. HistOK
  BY StewardshipAssumption DEF Init, HistOK, StewardshipAssumption
<1> QED
  BY <1>5, <1>6, <1>7, <1>8 DEF TypeInv

LEMMA Typing == Spec => []TypeInv
BY TypeInit, TypeStep, PTL DEF Spec

(* Every row keeps its type, no two transactions hold the same row, and    *)
(* nothing is uncommitted without a transaction in progress that holds it. *)
THEOREM RowsAreTyped == Spec => []TypeOK
BY Typing, TypeInvIsStronger, PTL

-----------------------------------------------------------------------------
(* Layer 2: merged records lead to a published one.                        *)

(* A merge holds its master from the first statement on, and has seen it   *)
(* published, since it holds it, when it writes it.                        *)
MasterOK(t) ==
  req[t].master # Nobody =>
    /\ req[t].at \in MergeSteps \cup {"commit"}
    /\ req[t].at # "m_lock" => holder[req[t].master] = t
    /\ req[t].at \in {"m_group", "commit"} => new[req[t].master].life = "published"

(* Only merges retire records.                                             *)
RetireOK(t) == \A r \in Records : Retires(t, r) => req[t].master # Nobody

MergeInv == \A t \in Reqs : MasterOK(t) /\ RetireOK(t)

LEMMA MergeInvOthers ==
  ASSUME TypeInv, MergeInv, NEW t \in Reqs, OwnStep(t), NEW u \in Reqs \ {t}
  PROVE  MasterOK(u)' /\ RetireOK(u)'
<1>1. req'[u] = req[u] /\ MasterOK(u) /\ RetireOK(u)
  BY DEF OwnStep, OnlyReq, MergeInv
<1>2. req[u].master \in Records \cup {Nobody}
  BY Typed DEF Requests
<1>3. \A r \in Records : r \in Rows
  BY RowKinds
<1>4. MasterOK(u)'
  BY <1>1, <1>2, <1>3 DEF OwnStep, MasterOK
<1>5. RetireOK(u)'
  BY <1>1, <1>3 DEF OwnStep, RetireOK, Retires
<1> QED
  BY <1>4, <1>5

(* What a merge's own statements do to both.                               *)
LEMMA MergeInvMerge ==
  ASSUME TypeInv, MergeInv, NEW t \in Reqs, ~Rollback(t),
         \/ MergeLock(t) \/ MergeRead(t) \/ \E v \in Records : MergeRetire(t, v)
         \/ MergePlan(t) \/ MergeMove(t) \/ MergeWrite(t) \/ MergeGroup(t)
  PROVE  OwnStep(t) /\ MasterOK(t)' /\ RetireOK(t)'
<1>1. MasterOK(t) /\ RowsOK /\ Nobody \notin Records /\ \A r \in Records : r \in Rows /\ r \notin Groups
  BY Typed, RowKinds DEF MergeInv
<1>2. CASE MergeLock(t)
  <2>1. /\ OnlyReq(t) /\ req'[t].at = "m_read" /\ req'[t].master = req[t].master
        /\ req[t].master \in Records /\ Writes(t, {req[t].master})
    BY <1>2, MergeLockFacts DEF SameReq
  <2>3. OwnStep(t)
    BY <1>1, <2>1, WritesAreOwn
  <2> QED
    BY <1>1, <2>1, <2>3 DEF Writes, MasterOK, RetireOK, MergeSteps
<1>3. CASE MergeRead(t)
  <2>1. /\ OnlyReq(t) /\ req'[t].at = "m_retire" /\ req'[t].master = req[t].master
        /\ req[t].at = "m_read" /\ req[t].master \in Records /\ Writes(t, {})
    BY <1>3, MergeReadFacts DEF SameReq
  <2>3. OwnStep(t)
    BY <1>1, <2>1, WritesAreOwn
  <2> QED
    BY <1>1, <2>1, <2>3 DEF Writes, MasterOK, RetireOK, MergeSteps
<1>4. ASSUME NEW v \in Records, MergeRetire(t, v) PROVE OwnStep(t) /\ MasterOK(t)' /\ RetireOK(t)'
  <2>1. /\ OnlyReq(t) /\ req'[t].at = "m_plan" /\ req'[t].master = req[t].master
        /\ req[t].at = "m_retire" /\ req[t].master \in Records /\ Writes(t, {v})
    BY <1>4, MergeRetireFacts
  <2>3. OwnStep(t)
    BY <1>1, <2>1, WritesAreOwn
  <2> QED
    BY <1>1, <2>1, <2>3 DEF Writes, MasterOK, RetireOK, MergeSteps
<1>5. CASE MergePlan(t)
  <2>1. /\ OnlyReq(t) /\ req'[t].at = "m_move" /\ req'[t].master = req[t].master
        /\ req[t].at = "m_plan" /\ Writes(t, {})
    BY <1>5, MergePlanFacts
  <2>2. req[t].master \in Records
    BY <2>1, Typed DEF ReqOK, MergeSteps
  <2>3. OwnStep(t)
    BY <1>1, <2>1, WritesAreOwn
  <2> QED
    BY <1>1, <2>1, <2>2, <2>3 DEF Writes, MasterOK, RetireOK, MergeSteps
<1>6. CASE MergeMove(t)
  <2>1. /\ OnlyReq(t) /\ req'[t].at \in {"m_write", "m_retire"} /\ req'[t].master = req[t].master
        /\ req[t].at = "m_move" /\ req[t].master \in Records
        /\ Writes(t, MovedLines(t) \cup DroppedLines(t) \cup {req[t].cur})
    BY <1>6, MergeMoveFacts
  <2>3. OwnStep(t)
    BY <1>1, <2>1, WritesAreOwn
  <2> QED
    BY <1>1, <2>1, <2>3 DEF Writes, MasterOK, RetireOK, MergeSteps
<1>7. CASE MergeWrite(t)
  <2>1. /\ OnlyReq(t) /\ req'[t].at = "m_group" /\ req'[t].master = req[t].master
        /\ req[t].at = "m_write" /\ req[t].master \in Records /\ Writes(t, {req[t].master})
        /\ new'[req[t].master].life = "published"
    BY <1>7, MergeWriteFacts DEF SameReq
  <2>3. OwnStep(t)
    BY <1>1, <2>1, WritesAreOwn
  <2> QED
    BY <1>1, <2>1, <2>3 DEF Writes, MasterOK, RetireOK, MergeSteps
<1>8. CASE MergeGroup(t)
  <2>1. /\ OnlyReq(t) /\ req'[t].at = "commit" /\ req'[t].master = req[t].master
        /\ req[t].at = "m_group" /\ req[t].master \in Records
        /\ req[t].g \in Groups /\ Writes(t, {req[t].g})
    BY <1>8, MergeGroupFacts DEF SameReq
  <2>3. OwnStep(t)
    BY <1>1, <2>1, WritesAreOwn
  <2> QED
    BY <1>1, <2>1, <2>3 DEF Writes, MasterOK, RetireOK, MergeSteps
<1> QED
  BY <1>2, <1>3, <1>4, <1>5, <1>6, <1>7, <1>8

(* A statement of another transaction than a merge: it retires no record.  *)
LEMMA MergeInvOwn ==
  ASSUME TypeInv, MergeInv, NEW t \in Reqs, OnlyReq(t), NEW X, Writes(t, X),
         req[t].master = Nobody, req'[t].master = Nobody,
         \A r \in Records \cap X : new'[r].life = "merged" => See(t, r).life = "merged"
  PROVE  OwnStep(t) /\ MasterOK(t)' /\ RetireOK(t)'
<1>1. OwnStep(t) /\ MasterOK(t)'
  BY Typed, WritesAreOwn DEF MasterOK
<1>2. ASSUME NEW r \in Records PROVE ~Retires(t, r)'
  <2>1. r \in Rows /\ row' = row /\ ~Retires(t, r)
    BY RowKinds DEF Writes, MergeInv, RetireOK
  <2> QED
    BY <2>1 DEF Writes, Retires, See
<1> QED
  BY <1>1, <1>2 DEF RetireOK

LEMMA MergeInvElse ==
  ASSUME TypeInv, MergeInv, NEW t \in Reqs, ~Rollback(t),
         \/ RejectGroup(t) \/ UndoLife(t) \/ UndoLog(t) \/ UndoMove(t) \/ UndoGroup(t)
         \/ EditRead(t) \/ EditWrite(t)
         \/ \E drop \in SUBSET Lines, add \in SUBSET Unborn : EditLines(t, drop, add)
  PROVE  OwnStep(t) /\ MasterOK(t)' /\ RetireOK(t)'
<1>1. MasterOK(t) /\ \A r \in Records : r \notin Groups /\ r \notin Lines
  BY RowKinds DEF MergeInv
<1>2. CASE RejectGroup(t) \/ UndoGroup(t)
  <2>1. /\ OnlyReq(t) /\ SameReq(t) /\ req[t].at \in {"r_group", "u_group"}
        /\ req[t].g \in Groups /\ Writes(t, {req[t].g})
    BY <1>2, RejectGroupFacts, UndoGroupFacts
  <2> QED
    BY <1>1, <2>1, MergeInvOwn DEF MasterOK, SameReq, MergeSteps
<1>3. CASE UndoLife(t) \/ EditWrite(t)
  <2>1. /\ OnlyReq(t) /\ SameReq(t) /\ req[t].at \in {"u_life", "e_write"}
        /\ Writes(t, {req[t].cur}) /\ new'[req[t].cur].life = "published"
    BY <1>3, UndoLifeFacts, EditWriteFacts
  <2> QED
    BY <1>1, <2>1, MergeInvOwn DEF MasterOK, SameReq, MergeSteps
<1>4. CASE UndoLog(t) \/ EditRead(t)
  <2>1. /\ OnlyReq(t) /\ req'[t].master = req[t].master /\ req[t].at \in {"u_log", "e_read"}
        /\ Writes(t, {})
    BY <1>4, UndoLogFacts, EditReadFacts DEF SameReq
  <2> QED
    BY <1>1, <2>1, MergeInvOwn DEF MasterOK, MergeSteps
<1>5. CASE UndoMove(t)
  <2>1. /\ OnlyReq(t) /\ req'[t].master = req[t].master /\ req[t].at = "u_move"
        /\ new'[req[t].cur].life = See(t, req[t].cur).life
    BY <1>5, UndoMoveFacts DEF SameReq
  <2>2. PICK X \in SUBSET Lines : Writes(t, X \cup {req[t].cur})
    BY <1>5, UndoMoveFacts
  <2> QED
    BY <1>1, <2>1, <2>2, MergeInvOwn DEF MasterOK, MergeSteps
<1>6. ASSUME NEW drop \in SUBSET Lines, NEW add \in SUBSET Unborn, EditLines(t, drop, add)
      PROVE  OwnStep(t) /\ MasterOK(t)' /\ RetireOK(t)'
  <2>1. /\ OnlyReq(t) /\ SameReq(t) /\ req[t].at = "e_lines" /\ drop \cup add \subseteq Lines
        /\ Writes(t, drop \cup add)
    BY <1>6, EditLinesFacts DEF EditsLines
  <2> QED
    BY <1>1, <2>1, MergeInvOwn DEF MasterOK, SameReq, MergeSteps
<1> QED
  BY <1>2, <1>3, <1>4, <1>5, <1>6

(* A request that starts, or ends, holds nothing.                          *)
LEMMA MergeInvAsks ==
  ASSUME TypeInv, NEW t \in Reqs, OnlyReq(t), Writes(t, {}), req[t] = Idle,
         req'[t].master # Nobody => req'[t].at = "m_lock"
  PROVE  OwnStep(t) /\ MasterOK(t)' /\ RetireOK(t)'
<1>1. OwnStep(t)
  BY Typed, WritesAreOwn
<1>2. \A r \in Records : holder'[r] # t
  BY IdleHoldsNothing, RowKinds DEF Writes
<1> QED
  BY <1>1, <1>2 DEF MasterOK, RetireOK, Retires, MergeSteps

LEMMA MergeInvStep ==
  TypeInv /\ MergeInv /\ [Next]_vars => MergeInv'
<1> SUFFICES ASSUME TypeInv, MergeInv, [Next]_vars PROVE MergeInv'
  OBVIOUS
<1>1. CASE UNCHANGED vars
  BY <1>1 DEF MergeInv, MasterOK, RetireOK, Retires, vars
<1>2. CASE Next
  <2>1. PICK t \in Reqs : Acts(t)
    BY <1>2 DEF Next
  <2> DEFINE Kept == OwnStep(t) /\ MasterOK(t)' /\ RetireOK(t)'
  <2>2. ASSUME Rollback(t) \/ Commit(t) PROVE Kept
    <3>1. OwnStep(t) /\ req'[t] = Idle /\ \A r \in Records : holder'[r] # t
      BY <2>2, EndsAreOwn, RowKinds
    <3>2. Idle.master = Nobody
      BY DEF Idle
    <3> QED
      BY <3>1, <3>2 DEF MasterOK, RetireOK, Retires
  <2>3. ASSUME NEW m \in Records, NEW v \in Victims, MergeAsk(t, m, v) PROVE Kept
    <3>1. OwnStep(t) /\ req[t] = Idle /\ holder' = holder /\ req'[t].at = "m_lock"
      BY <2>3, MergeAskTypes, MergeAskIsOwn
    <3>2. \A r \in Records : holder'[r] # t
      BY <3>1, IdleHoldsNothing, RowKinds
    <3> QED
      BY <3>1, <3>2 DEF MasterOK, RetireOK, Retires, MergeSteps
  <2>4. ASSUME NEW g \in Groups, RejectAsk(t, g) \/ UndoAsk(t, g) PROVE Kept
    BY <2>4, RejectAskFacts, UndoAskFacts, MergeInvAsks
  <2>5. ASSUME NEW g \in Groups, NEW m \in Records, MergeAgain(t, g, m) PROVE Kept
    BY <2>5, MergeAgainFacts, MergeInvAsks
  <2>6. ASSUME NEW r \in Records, EditAsk(t, r) PROVE Kept
    BY <2>6, EditAskFacts, MergeInvAsks
  <2> HIDE DEF Kept
  <2>7. Kept
    BY <2>1, <2>2, <2>3, <2>4, <2>5, <2>6, MergeInvMerge, MergeInvElse DEF Acts, Fails, Kept
  <2> QED
    BY <2>7, MergeInvOthers DEF Kept, MergeInv
<1> QED
  BY <1>1, <1>2

LEMMA Merging == Spec => [](TypeInv /\ MergeInv)
<1>1. Init => MergeInv
  <2>1. Idle.master = Nobody
    BY DEF Idle
  <2> QED
    BY <2>1, RowKinds DEF Init, MergeInv, MasterOK, RetireOK, Retires
<1> QED
  BY <1>1, TypeInit, TypeStep, MergeInvStep, PTL DEF Spec

(* No step but a commit changes a committed row of a record or of a line.  *)
LEMMA OnlyCommits ==
  ASSUME TypeInv, NEW t \in Reqs, Acts(t), ~Commit(t)
  PROVE  into' = into /\ \A x \in Records \cup Lines : row'[x] = row[x]
<1>1. (\E m \in Records, v \in Victims : MergeAsk(t, m, v)) =>
        into' = into /\ \A x \in Records \cup Lines : row'[x] = row[x]
  <2>1. ASSUME NEW m \in Records, NEW v \in Victims, MergeAsk(t, m, v)
        PROVE  into' = into /\ \A x \in Records \cup Lines : row'[x] = row[x]
    <3>1. /\ asked + 1 \in Groups /\ UNCHANGED histVars
          /\ \A x \in Rows \ {asked + 1} : row'[x] = row[x]
      BY <2>1, MergeAskTypes
    <3> QED
      BY <3>1, RowKinds DEF histVars
  <2> QED
    BY <2>1
<1>2. \/ \E g \in Groups : RejectAsk(t, g) \/ UndoAsk(t, g)
      \/ \E g \in Groups, m \in Records : MergeAgain(t, g, m)
      \/ \E r \in Records : EditAsk(t, r)
      => row' = row /\ into' = into
  BY DEF RejectAsk, UndoAsk, MergeAgain, EditAsk, rowVars, histVars
<1>3. \/ MergeLock(t) \/ MergeRead(t) \/ \E v \in Records : MergeRetire(t, v)
      \/ MergePlan(t) \/ MergeMove(t) \/ MergeWrite(t) \/ MergeGroup(t) \/ RejectGroup(t)
      => row' = row /\ into' = into
  BY DEF MergeLock, MergeRead, MergeRetire, MergePlan, MergeMove, MergeWrite, MergeGroup,
         RejectGroup, Put, Rollback, rowVars, histVars
<1>4. \/ UndoLife(t) \/ UndoLog(t) \/ UndoMove(t) \/ UndoGroup(t)
      \/ EditRead(t) \/ EditWrite(t)
      \/ \E drop \in SUBSET Lines, add \in SUBSET Unborn : EditLines(t, drop, add)
      \/ Fails(t)
      => row' = row /\ into' = into
  BY DEF UndoLife, UndoLog, UndoMove, UndoGroup, EditRead, EditWrite, EditLines, Fails,
         Put, Rollback, rowVars, histVars
<1> QED
  BY <1>1, <1>2, <1>3, <1>4 DEF Acts

(* A commit leads what it merges away to a record that it publishes.       *)
LEMMA GoldenCommit ==
  ASSUME TypeInv, MergeInv, GoldenRecordExists, NEW t \in Reqs, Commit(t)
  PROVE  GoldenRecordExists'
<1> SUFFICES ASSUME NEW S \in SUBSET Records, S # {}
             PROVE  \E r \in S : row'[r].life = "published" \/ into'[r] \notin S
  BY DEF GoldenRecordExists
<1>1. /\ req[t].at = "commit"
      /\ \A x \in Rows : row'[x] = IF holder[x] = t THEN new[x] ELSE row[x]
      /\ \A r \in Records : into'[r] = IF Retires(t, r) THEN req[t].master ELSE into[r]
  BY CommitFacts
<1>2. \A r \in Records : r \in Rows /\ new[r].life \in {"published", "merged"}
                         /\ row[r].life \in {"published", "merged"}
  <2>1. \A r \in Records : r \in Rows /\ new[r] \in HeadRow /\ row[r] \in HeadRow
    BY RowKinds DEF TypeInv, RowsOK
  <2> QED
    BY <2>1 DEF HeadRow
<1>3. CASE \E v \in S : Retires(t, v)
  <2>1. PICK v \in S : Retires(t, v)
    BY <1>3
  <2>2. req[t].master # Nobody /\ req[t].master \in Records
    BY <2>1, Typed DEF MergeInv, RetireOK, Requests
  <2>3. row'[req[t].master].life = "published"
    BY <1>1, <1>2, <2>2 DEF MergeInv, MasterOK
  <2>4. into'[v] = req[t].master
    BY <1>1, <2>1
  <2> QED
    BY <2>1, <2>3, <2>4
<1>4. CASE \A v \in S : ~Retires(t, v)
  <2>1. PICK r \in S : row[r].life = "published" \/ into[r] \notin S
    BY DEF GoldenRecordExists
  <2>2. into'[r] = into[r]
    BY <1>1, <1>4
  <2>3. row[r].life = "published" => row'[r].life = "published"
    BY <1>1, <1>2, <1>4 DEF Retires
  <2> QED
    BY <2>1, <2>2, <2>3
<1> QED
  BY <1>3, <1>4

(* No set of duplicates merges itself away, whatever merges cross, undos   *)
(* and edits run beside them and transactions fail: the masters of a       *)
(* merged record lead to a published one (activation_service::merge locks  *)
(* and reads the master first and compares the status of every victim).    *)
THEOREM MastersLeadToGold == Spec => []GoldenRecordExists
<1>1. Init => GoldenRecordExists
  <2>1. Init => \A r \in Records : row[r].life = "published"
    BY RowKinds DEF Init
  <2> QED
    BY <2>1 DEF GoldenRecordExists
<1>2. TypeInv /\ MergeInv /\ GoldenRecordExists /\ [Next]_vars => GoldenRecordExists'
  <2> SUFFICES ASSUME TypeInv, MergeInv, GoldenRecordExists, [Next]_vars PROVE GoldenRecordExists'
    OBVIOUS
  <2>1. CASE UNCHANGED vars
    BY <2>1 DEF GoldenRecordExists, vars
  <2>2. CASE Next
    <3>1. PICK t \in Reqs : Acts(t)
      BY <2>2 DEF Next
    <3>2. CASE Commit(t)
      BY <3>2, GoldenCommit
    <3>3. CASE ~Commit(t)
      BY <3>1, <3>3, OnlyCommits DEF GoldenRecordExists
    <3> QED
      BY <3>2, <3>3
  <2> QED
    BY <2>1, <2>2
<1> QED
  BY <1>1, <1>2, Merging, PTL DEF Spec

-----------------------------------------------------------------------------
(* Layer 3: the status of merge records, when an undo is only asked for    *)
(* what the pages offer, or for a record that is unmerged already.         *)

(* A written merge record was not rejected, and a transaction that undoes  *)
(* a merge works on one that was carried out.                              *)
StatusOK ==
  /\ \A g \in Groups : holder[g] # Nobody =>
       /\ row[g].st # "rejected"
       /\ \/ new[g].st \in {"reviewed", "unmerged"}
          \/ new[g].st = "rejected" /\ row[g].st = "pending"
  /\ \A t \in Reqs : req[t].at \in UndoSteps => row[req[t].g].st \in {"reviewed", "unmerged"}

(* A step that writes no merge record.                                     *)
LEMMA StatusElse ==
  ASSUME TypeInv, StatusOK, NEW t \in Reqs, OnlyReq(t), NEW X, Writes(t, X), X \cap Groups = {},
         req'[t].at \in UndoSteps =>
           \/ req[t].at \in UndoSteps /\ req'[t].g = req[t].g
           \/ row[req'[t].g].st \in {"reviewed", "unmerged"}
  PROVE  StatusOK'
<1>1. row' = row /\ \A g \in Groups : holder'[g] = holder[g] /\ new'[g] = new[g]
  BY RowKinds DEF Writes
<1> QED
  BY <1>1 DEF StatusOK, OnlyReq

(* A statement that writes the merge record.                               *)
LEMMA StatusPut ==
  ASSUME TypeInv, StatusOK, NEW t \in Reqs, OnlyReq(t), NEW g \in Groups, Writes(t, {g}),
         req'[t].at = "commit", row[g].st # "rejected",
         \/ new'[g].st \in {"reviewed", "unmerged"}
         \/ new'[g].st = "rejected" /\ row[g].st = "pending"
  PROVE  StatusOK'
<1>1. row' = row /\ \A h \in Groups \ {g} : holder'[h] = holder[h] /\ new'[h] = new[h]
  BY RowKinds DEF Writes
<1> QED
  BY <1>1 DEF StatusOK, OnlyReq, UndoSteps

LEMMA StatusCommit ==
  ASSUME TypeInv, StatusOK, NEW t \in Reqs, Commit(t)
  PROVE  StatusOK' /\ \A g \in Groups : row[g].st = "rejected" => row'[g].st = "rejected"
<1>1. /\ OnlyReq(t) /\ req'[t] = Idle
      /\ \A x \in Rows : IF holder[x] = t
                           THEN row'[x] = new[x] /\ holder'[x] = Nobody /\ new'[x] = new[x]
                           ELSE row'[x] = row[x] /\ holder'[x] = holder[x] /\ new'[x] = new[x]
  BY CommitFacts
<1>2. \A g \in Groups : g \in Rows /\ (holder[g] = t => holder[g] # Nobody)
  BY RowKinds
<1>3. ASSUME NEW u \in Reqs, req'[u].at \in UndoSteps
      PROVE  row'[req'[u].g].st \in {"reviewed", "unmerged"}
  <2>1. u # t /\ req'[u] = req[u]
    BY <1>1, <1>3, IdleIsTyped DEF OnlyReq, UndoSteps
  <2>2. req[u].g \in Groups /\ row[req[u].g].st \in {"reviewed", "unmerged"}
    BY <1>3, <2>1, Typed DEF ReqOK, StatusOK
  <2> QED
    BY <1>1, <1>2, <2>1, <2>2 DEF StatusOK
<1> QED
  BY <1>1, <1>2, <1>3 DEF StatusOK

LEMMA StatusRollback ==
  ASSUME TypeInv, StatusOK, NEW t \in Reqs, Rollback(t)
  PROVE  StatusOK'
<1>1. /\ row' = row /\ OnlyReq(t) /\ req'[t] = Idle
      /\ \A x \in Rows : IF holder[x] = t THEN holder'[x] = Nobody /\ new'[x] = row[x]
                         ELSE holder'[x] = holder[x] /\ new'[x] = new[x]
  BY RollbackFacts
<1> QED
  BY <1>1, IdleIsTyped, RowKinds DEF StatusOK, OnlyReq, UndoSteps

LEMMA StatusMergeAsk ==
  ASSUME TypeInv, StatusOK, NEW t \in Reqs, NEW m \in Records, NEW v \in Victims, MergeAsk(t, m, v)
  PROVE  StatusOK' /\ \A g \in Groups : row[g].st = "rejected" => row'[g].st = "rejected"
<1>1. /\ OnlyReq(t) /\ holder' = holder /\ holder[asked + 1] = Nobody
      /\ \A x \in Rows \ {asked + 1} : row'[x] = row[x] /\ new'[x] = new[x]
      /\ row[asked + 1] = NoGroup /\ req'[t].at = "m_lock"
  BY MergeAskTypes
<1>2. NoGroup.st = "none"
  BY DEF NoGroup
<1>3. \A g \in Groups : g # asked + 1 => row'[g] = row[g] /\ new'[g] = new[g]
  BY <1>1, RowKinds
<1>4. \A u \in Reqs : req'[u].at \in UndoSteps => req'[u] = req[u] /\ req[u].g \in Groups
  BY <1>1, Typed DEF OnlyReq, ReqOK, UndoSteps
<1> QED
  BY <1>1, <1>2, <1>3, <1>4 DEF StatusOK

(* Every step keeps StatusOK, and no rejected merge record changes.        *)
LEMMA StatusStep ==
  ASSUME Undoable \subseteq {"reviewed", "unmerged"}, TypeInv, StatusOK, [Next]_vars
  PROVE  StatusOK' /\ \A g \in Groups : row[g].st = "rejected" => row'[g].st = "rejected"
<1> DEFINE Kept == \A g \in Groups : row[g].st = "rejected" => row'[g].st = "rejected"
<1>1. CASE UNCHANGED vars
  BY <1>1 DEF StatusOK, vars
<1>2. CASE Next
  <2>1. PICK t \in Reqs : Acts(t)
    BY <1>2 DEF Next
  <2>2. \A X : Writes(t, X) => Kept
    BY DEF Writes
  <2>3. (\A r \in Records : r \notin Groups) /\ (\A l \in Lines : l \notin Groups)
    BY RowKinds
  <2> HIDE DEF Kept
  <2>4. ASSUME NEW g \in Groups, UndoAsk(t, g) PROVE StatusOK' /\ Kept
    <3>1. OnlyReq(t) /\ Writes(t, {}) /\ req'[t].g = g /\ row[g].st \in {"reviewed", "unmerged"}
      BY <2>4, UndoAskFacts
    <3> QED
      BY <2>2, <3>1, StatusElse
  <2>5. ASSUME \/ \E g \in Groups : RejectAsk(t, g)
               \/ \E g \in Groups, r \in Records : MergeAgain(t, g, r)
               \/ \E r \in Records : EditAsk(t, r)
        PROVE  StatusOK' /\ Kept
    <3>1. OnlyReq(t) /\ Writes(t, {}) /\ req'[t].at \notin UndoSteps
      BY <2>5, RejectAskFacts, MergeAgainFacts, EditAskFacts DEF UndoSteps
    <3> QED
      BY <2>2, <3>1, StatusElse
  <2>6. ASSUME Rollback(t) PROVE StatusOK' /\ Kept
    BY <2>6, StatusRollback, RollbackFacts DEF Kept
  <2>7. ASSUME MergeLock(t) PROVE StatusOK' /\ Kept
    <3>1. OnlyReq(t) /\ Writes(t, {req[t].master}) /\ req'[t].at \notin UndoSteps /\ req[t].master \in Records
      BY <2>7, MergeLockFacts DEF UndoSteps
    <3>2. {req[t].master} \cap Groups = {}
      BY <2>3, <3>1
    <3> QED
      BY <2>2, <3>1, <3>2, StatusElse
  <2>8. ASSUME MergeRead(t) \/ MergePlan(t) \/ EditRead(t), ~Rollback(t) PROVE StatusOK' /\ Kept
    <3>1. OnlyReq(t) /\ Writes(t, {}) /\ req'[t].at \notin UndoSteps
      BY <2>8, MergeReadFacts, MergePlanFacts, EditReadFacts DEF UndoSteps
    <3> QED
      BY <2>2, <3>1, StatusElse
  <2>9. ASSUME NEW v \in Records, MergeRetire(t, v), ~Rollback(t) PROVE StatusOK' /\ Kept
    <3>1. OnlyReq(t) /\ Writes(t, {v}) /\ req'[t].at \notin UndoSteps
      BY <2>9, MergeRetireFacts DEF UndoSteps
    <3>2. {v} \cap Groups = {}
      BY <2>3
    <3> QED
      BY <2>2, <3>1, <3>2, StatusElse
  <2>10. ASSUME MergeMove(t) PROVE StatusOK' /\ Kept
    <3> DEFINE X == MovedLines(t) \cup DroppedLines(t) \cup {req[t].cur}
    <3>1. /\ OnlyReq(t) /\ Writes(t, X) /\ req'[t].at \notin UndoSteps
          /\ MovedLines(t) \subseteq Lines /\ DroppedLines(t) \subseteq Lines /\ req[t].cur \in Records
      BY <2>10, MergeMoveFacts DEF UndoSteps
    <3>2. X \cap Groups = {}
      BY <2>3, <3>1
    <3> HIDE DEF X
    <3> QED
      BY <2>2, <3>1, <3>2, StatusElse
  <2>11. ASSUME MergeWrite(t), ~Rollback(t) PROVE StatusOK' /\ Kept
    <3>1. OnlyReq(t) /\ Writes(t, {req[t].master}) /\ req'[t].at \notin UndoSteps /\ req[t].master \in Records
      BY <2>11, MergeWriteFacts DEF UndoSteps
    <3>2. {req[t].master} \cap Groups = {}
      BY <2>3, <3>1
    <3> QED
      BY <2>2, <3>1, <3>2, StatusElse
  <2>12. ASSUME MergeGroup(t), ~Rollback(t) PROVE StatusOK' /\ Kept
    BY <2>2, <2>12, MergeGroupFacts, StatusPut
  <2>13. ASSUME RejectGroup(t), ~Rollback(t) PROVE StatusOK' /\ Kept
    BY <2>2, <2>13, RejectGroupFacts, StatusPut
  <2>14. ASSUME UndoLife(t), ~Rollback(t) PROVE StatusOK' /\ Kept
    <3>1. OnlyReq(t) /\ Writes(t, {req[t].cur}) /\ req[t].at \in UndoSteps /\ req'[t].g = req[t].g
          /\ req[t].cur \in Records
      BY <2>14, UndoLifeFacts DEF UndoSteps, SameReq
    <3>2. {req[t].cur} \cap Groups = {}
      BY <2>3, <3>1
    <3> QED
      BY <2>2, <3>1, <3>2, StatusElse
  <2>15. ASSUME UndoLog(t) PROVE StatusOK' /\ Kept
    <3>1. OnlyReq(t) /\ Writes(t, {}) /\ req[t].at \in UndoSteps /\ req'[t].g = req[t].g
      BY <2>15, UndoLogFacts DEF UndoSteps
    <3> QED
      BY <2>2, <3>1, StatusElse
  <2>16. ASSUME UndoMove(t) PROVE StatusOK' /\ Kept
    <3>1. OnlyReq(t) /\ req[t].at \in UndoSteps /\ req'[t].g = req[t].g /\ req[t].cur \in Records
      BY <2>16, UndoMoveFacts DEF UndoSteps, SameReq
    <3>2. PICK X \in SUBSET Lines : Writes(t, X \cup {req[t].cur})
      BY <2>16, UndoMoveFacts
    <3>3. (X \cup {req[t].cur}) \cap Groups = {}
      BY <2>3, <3>1
    <3> QED
      BY <2>2, <3>1, <3>2, <3>3, StatusElse
  <2>17. ASSUME UndoGroup(t) PROVE StatusOK' /\ Kept
    <3>1. /\ OnlyReq(t) /\ req[t].g \in Groups /\ Writes(t, {req[t].g}) /\ req'[t].at = "commit"
          /\ new'[req[t].g].st = "unmerged" /\ req[t].at \in UndoSteps
      BY <2>17, UndoGroupFacts DEF UndoSteps
    <3>2. row[req[t].g].st # "rejected"
      BY <3>1 DEF StatusOK
    <3> QED
      BY <2>2, <3>1, <3>2, StatusPut
  <2>18. ASSUME EditWrite(t), ~Rollback(t) PROVE StatusOK' /\ Kept
    <3>1. OnlyReq(t) /\ Writes(t, {req[t].cur}) /\ req'[t].at \notin UndoSteps /\ req[t].cur \in Records
      BY <2>18, EditWriteFacts DEF UndoSteps
    <3>2. {req[t].cur} \cap Groups = {}
      BY <2>3, <3>1
    <3> QED
      BY <2>2, <3>1, <3>2, StatusElse
  <2>19. ASSUME NEW drop \in SUBSET Lines, NEW add \in SUBSET Unborn, EditLines(t, drop, add)
         PROVE  StatusOK' /\ Kept
    <3>1. OnlyReq(t) /\ Writes(t, drop \cup add) /\ req'[t].at \notin UndoSteps /\ add \subseteq Lines
      BY <2>19, EditLinesFacts DEF EditsLines, UndoSteps
    <3>2. (drop \cup add) \cap Groups = {}
      BY <2>3, <3>1
    <3> QED
      BY <2>2, <3>1, <3>2, StatusElse
  <2>20. ASSUME NEW m \in Records, NEW v \in Victims, MergeAsk(t, m, v) PROVE StatusOK' /\ Kept
    BY <2>20, StatusMergeAsk DEF Kept
  <2>21. ASSUME Commit(t) PROVE StatusOK' /\ Kept
    BY <2>21, StatusCommit DEF Kept
  <2>22. StatusOK' /\ Kept
    BY <2>1, <2>4, <2>5, <2>6, <2>7, <2>8, <2>9, <2>10, <2>11, <2>12, <2>13, <2>14, <2>15, <2>16,
       <2>17, <2>18, <2>19, <2>20, <2>21 DEF Acts, Fails
  <2> QED
    BY <2>22 DEF Kept
<1> QED
  BY <1>1, <1>2

(* A merge that was rejected is not carried out, even by a transaction     *)
(* that had begun before: merge_record writes the status with a comparison *)
(* under the row lock, and only what was carried out is undone.            *)
THEOREM RejectStands ==
  ASSUME Undoable \subseteq {"reviewed", "unmerged"}
  PROVE  Spec => RejectedIsFinal
<1>1. Init => StatusOK
  BY RowKinds, IdleIsTyped DEF Init, StatusOK, UndoSteps
<1>2. TypeInv /\ StatusOK /\ [Next]_vars => StatusOK'
  BY StatusStep
<1>3. TypeInv /\ StatusOK /\ [Next]_vars
        => [\A g \in Groups : row[g].st = "rejected" => row'[g].st = "rejected"]_vars
  BY StatusStep
<1> QED
  BY <1>1, <1>2, <1>3, Typing, PTL DEF Spec, RejectedIsFinal

-----------------------------------------------------------------------------
(* Layer 4: what becomes of lines, where merges are not undone.  (An undo  *)
(* puts lines back by id, wherever they are by then.)                      *)

Published(t, l, r) == See(t, l).life = "published" /\ See(t, l).parent = r

LEMMA PublishedOfFacts ==
  \A t \in Reqs, r \in Records, l \in Lines : l \in PublishedOf(t, r) <=> Published(t, l, r)
BY DEF PublishedOf, LinesOf, Published

(* The victim whose lines a merge is about to move, and those it is done   *)
(* with.                                                                   *)
Busy(t, v)    == req[t].at \in {"m_plan", "m_move"} /\ req[t].cur = v
Emptied(t, v) == Retires(t, v) /\ ~Busy(t, v)

(* A line that a transaction holds belongs to a record it holds, before    *)
(* and after; a merge holds only lines of victims it is done with, and     *)
(* publishes lines only under its master.                                  *)
LineOK(t) ==
  \A l \in Lines : holder[l] = t =>
    /\ row[l].life = "published" =>
         /\ holder[row[l].parent] = t
         /\ req[t].master # Nobody => Emptied(t, row[l].parent)
    /\ new[l].life = "published" =>
         /\ holder[new[l].parent] = t
         /\ IF req[t].master # Nobody THEN new[l].parent = req[t].master
            ELSE new[new[l].parent].life = "published"

LockOK(t) == req[t].at = "m_lock" => \A x \in Rows : holder[x] # t

EditOK(t) == req[t].at = "e_lines" =>
  holder[req[t].cur] = t /\ new[req[t].cur].life = "published"

BusyOK(t) == req[t].at \in {"m_plan", "m_move"} => Retires(t, req[t].cur)

(* The plan is still true when it is carried out.                          *)
PlanOK(t) ==
  req[t].at = "m_move" =>
    IF DedupKeys
      THEN /\ req[t].rep \cap req[t].ded = {}
           /\ \A l \in Lines : l \in req[t].rep \cup req[t].ded <=> Published(t, l, req[t].cur)
           /\ \A l \in req[t].ded : \E k \in Lines : Published(t, k, req[t].master) /\ Key[k] = Key[l]
      ELSE req[t].ded = {}

(* A victim that a merge is done with lists no line, and the master lists  *)
(* its keys.                                                               *)
EmptyOK(t) ==
  \A v \in Records, l \in Lines : Emptied(t, v) /\ v # req[t].master => ~Published(t, l, v)

KeyOK(t) ==
  \A l \in Lines :
    /\ row[l].life = "published" /\ Emptied(t, row[l].parent)
    /\ See(t, req[t].master).life = "published"
    => \E k \in Lines : Published(t, k, req[t].master) /\ Key[k] = Key[l]

ReqLines(t) ==
  LineOK(t) /\ LockOK(t) /\ EditOK(t) /\ BusyOK(t) /\ PlanOK(t) /\ EmptyOK(t) /\ KeyOK(t)

(* Nothing makes a merged record published again.                          *)
LifeOK == \A r \in Records : new[r].life = "published" => row[r].life = "published"

LinesInv ==
  /\ NoHiddenLine /\ LifeOK
  /\ \A t \in Reqs : ReqLines(t) /\ req[t].at \notin UndoSteps

(* What the proofs below need of the types.                                *)
LEMMA LineTypes ==
  ASSUME TypeInv
  PROVE  /\ \A r \in Records : r \in Rows /\ r \notin Lines /\ r \notin Groups
                               /\ row[r].life \in {"published", "merged"}
                               /\ new[r].life \in {"published", "merged"}
         /\ \A l \in Lines : l \in Rows /\ row[l].parent \in Records /\ new[l].parent \in Records
         /\ \A t \in Reqs, l \in Lines : See(t, l).parent \in Records
         /\ \A t \in Reqs : req[t].master \in Records \cup {Nobody}
         /\ \A t \in Reqs : req[t].rep \subseteq Lines /\ req[t].ded \subseteq Lines
<1>1. \A r \in Records : row[r] \in HeadRow /\ new[r] \in HeadRow
  BY RowKinds DEF TypeInv, RowsOK
<1>2. \A l \in Lines : row[l] \in LineRow /\ new[l] \in LineRow
  BY RowKinds DEF TypeInv, RowsOK
<1>3. \A t \in Reqs : req[t] \in Requests
  BY DEF TypeInv, ReqsOK
<1> QED
  BY <1>1, <1>2, <1>3, RowKinds DEF HeadRow, LineRow, Requests, See

(* A step that commits nothing leaves the others all they rely on.         *)
LEMMA LinesOthers ==
  ASSUME TypeInv, MergeInv, LinesInv, NEW t \in Reqs, OwnStep(t),
         \A x \in Records \cup Lines : row'[x] = row[x],
         NEW u \in Reqs \ {t}
  PROVE  ReqLines(u)'
<1>1. ReqLines(u) /\ req'[u] = req[u]
  BY DEF LinesInv, OwnStep, OnlyReq
<1>2. \A x \in Rows : /\ holder'[x] = u <=> holder[x] = u
                      /\ holder[x] = u => new'[x] = new[x] /\ row'[x] = row[x]
  BY DEF OwnStep
<1>3. \A x \in Records \cup Lines : See(u, x)' = See(u, x)
  BY <1>2, RowKinds DEF See
<1>4. \A r \in Records : Retires(u, r)' <=> Retires(u, r)
  BY <1>2, RowKinds DEF Retires
<1>5. \A r \in Records : Emptied(u, r)' <=> Emptied(u, r)
  BY <1>1, <1>4 DEF Emptied, Busy
<1>6. \A r, l : l \in Lines => (Published(u, l, r)' <=> Published(u, l, r))
  BY <1>3 DEF Published
<1>7. req[u].master \in Records \cup {Nobody}
  BY LineTypes
<1>8. LineOK(u)'
  BY <1>1, <1>2, <1>5, LineTypes DEF ReqLines, LineOK
<1>9. LockOK(u)' /\ EditOK(u)' /\ BusyOK(u)'
  <2>1. req[u].at \in {"e_lines", "m_plan", "m_move"} => req[u].cur \in Records
    BY Typed DEF ReqOK, EditSteps
  <2> QED
    BY <1>1, <1>2, <1>4, <2>1, RowKinds DEF ReqLines, LockOK, EditOK, BusyOK
<1>10. PlanOK(u)'
  BY <1>1, <1>6, LineTypes DEF ReqLines, PlanOK
<1>11. EmptyOK(u)'
  BY <1>1, <1>5, <1>6 DEF ReqLines, EmptyOK
<1>12. KeyOK(u)'
  <2> SUFFICES ASSUME NEW l \in Lines, row'[l].life = "published", Emptied(u, row[l].parent)',
                      See(u, req[u].master)'.life = "published"
               PROVE  \E k \in Lines : Published(u, k, req[u].master)' /\ Key[k] = Key[l]
    BY <1>1, RowKinds DEF KeyOK
  <2>1. row'[l] = row[l] /\ Emptied(u, row[l].parent)
    BY <1>5, LineTypes
  <2>2. req[u].master \in Records
    BY <1>7, <2>1, LineTypes DEF Emptied, MergeInv, RetireOK
  <2> QED
    BY <1>1, <1>3, <1>6, <2>1, <2>2 DEF ReqLines, KeyOK
<1> QED
  BY <1>8, <1>9, <1>10, <1>11, <1>12 DEF ReqLines

(* What another transaction commits lists no line under a record that is   *)
(* held, and takes none away.                                              *)
LEMMA LinesCommitOthers ==
  ASSUME TypeInv, MergeInv, LinesInv, NEW t \in Reqs, Commit(t), NEW u \in Reqs \ {t}
  PROVE  ReqLines(u)'
<1>1. OwnStep(t) /\ ReqLines(u) /\ req'[u] = req[u]
  BY EndsAreOwn DEF LinesInv, OwnStep, OnlyReq
<1>2. \A x \in Rows : /\ holder'[x] = u <=> holder[x] = u
                      /\ holder[x] = u => new'[x] = new[x] /\ row'[x] = row[x]
  BY <1>1 DEF OwnStep
<1>3. \A x \in Rows : row'[x] = IF holder[x] = t THEN new[x] ELSE row[x]
  BY CommitFacts
<1>4. \A r \in Records : Retires(u, r)' <=> Retires(u, r)
  BY <1>2, RowKinds DEF Retires
<1>5. \A r \in Records : Emptied(u, r)' <=> Emptied(u, r)
  BY <1>1, <1>4 DEF Emptied, Busy
<1>6. ASSUME NEW r \in Records, holder[r] = u, NEW l \in Lines
      PROVE  Published(u, l, r)' <=> Published(u, l, r)
  <2>1. CASE holder[l] = t
    <3>1. See(u, l) = row[l] /\ See(u, l)' = new[l]
      BY <1>2, <1>3, <2>1, LineTypes DEF See
    <3>2. row[l].life = "published" => row[l].parent # r
      BY <1>6, <2>1 DEF LinesInv, ReqLines, LineOK
    <3>3. new[l].life = "published" => new[l].parent # r
      BY <1>6, <2>1 DEF LinesInv, ReqLines, LineOK
    <3> QED
      BY <3>1, <3>2, <3>3 DEF Published
  <2>2. CASE holder[l] # t
    <3>1. See(u, l)' = See(u, l)
      BY <1>2, <1>3, <2>2, LineTypes DEF See
    <3> QED
      BY <3>1 DEF Published
  <2> QED
    BY <2>1, <2>2
<1>7. req[u].at \in {"e_lines", "m_plan", "m_move"} => req[u].cur \in Records
  BY Typed DEF ReqOK, EditSteps
<1>8. req[u].at \in MergeSteps => req[u].master \in Records
  BY Typed DEF ReqOK
<1>9. LineOK(u)'
  BY <1>1, <1>2, <1>5, LineTypes DEF ReqLines, LineOK
<1>10. LockOK(u)' /\ EditOK(u)' /\ BusyOK(u)'
  BY <1>1, <1>2, <1>4, <1>7, RowKinds DEF ReqLines, LockOK, EditOK, BusyOK
<1>11. PlanOK(u)'
  <2> SUFFICES ASSUME req[u].at = "m_move" PROVE PlanOK(u)'
    BY <1>1 DEF PlanOK
  <2>1. req[u].cur \in Records /\ holder[req[u].cur] = u
    BY <1>1, <1>7 DEF ReqLines, BusyOK, Retires
  <2>2. req[u].master \in Records /\ holder[req[u].master] = u
    BY <1>8, RowKinds DEF MergeSteps, MergeInv, MasterOK
  <2>3. \A l \in Lines : /\ Published(u, l, req[u].cur)' <=> Published(u, l, req[u].cur)
                         /\ Published(u, l, req[u].master)' <=> Published(u, l, req[u].master)
    BY <1>1, <1>6, <2>1, <2>2 DEF Published
  <2> QED
    BY <1>1, <2>3 DEF ReqLines, PlanOK
<1>12. EmptyOK(u)'
  <2> SUFFICES ASSUME NEW v \in Records, NEW l \in Lines, Emptied(u, v)', v # req'[u].master
               PROVE  ~Published(u, l, v)'
    BY DEF EmptyOK
  <2>1. Emptied(u, v) /\ holder[v] = u /\ v # req[u].master
    BY <1>1, <1>5 DEF Emptied, Retires
  <2> QED
    BY <1>1, <1>6, <2>1 DEF ReqLines, EmptyOK
<1>13. KeyOK(u)'
  <2> SUFFICES ASSUME NEW l \in Lines, row'[l].life = "published", Emptied(u, row[l].parent)',
                      See(u, req[u].master)'.life = "published"
               PROVE  \E k \in Lines : Published(u, k, req[u].master)' /\ Key[k] = Key[l]
    BY <1>1, RowKinds DEF KeyOK
  <2>1. row'[l].parent \in Records
    <3>1. row'[l] \in {row[l], new[l]}
      BY <1>3, LineTypes
    <3> QED
      BY <3>1, LineTypes
  <2>2. Emptied(u, row'[l].parent) /\ holder[row'[l].parent] = u
    BY <1>5, <2>1 DEF Emptied, Retires
  <2>3. row'[l] = row[l]
    <3>1. CASE holder[l] = t
      <4>1. row'[l] = new[l]
        BY <1>3, <3>1, LineTypes
      <4>2. holder[new[l].parent] = t
        BY <3>1, <4>1 DEF LinesInv, ReqLines, LineOK
      <4> QED
        BY <2>2, <4>1, <4>2
    <3>2. CASE holder[l] # t
      BY <1>3, <3>2, LineTypes
    <3> QED
      BY <3>1, <3>2
  <2>4. req[u].master \in Records
    BY <2>1, <2>2, LineTypes DEF Emptied, MergeInv, RetireOK
  <2>5. holder[req[u].master] = u
    BY <1>1, <2>1, <2>2, <2>4, RowKinds DEF MergeInv, MasterOK, ReqLines, LockOK
  <2>6. See(u, req[u].master)' = See(u, req[u].master)
    BY <1>1, <1>2, <2>4, <2>5, RowKinds DEF See
  <2>7. PICK k \in Lines : Published(u, k, req[u].master) /\ Key[k] = Key[l]
    BY <1>1, <2>2, <2>3, <2>6 DEF ReqLines, KeyOK
  <2>8. Published(u, k, req[u].master)'
    BY <1>1, <1>6, <2>4, <2>5, <2>7 DEF Published
  <2> QED
    BY <2>7, <2>8
<1> QED
  BY <1>9, <1>10, <1>11, <1>12, <1>13 DEF ReqLines

(* A statement that keeps the life of the records it writes, and writes no *)
(* line.                                                                   *)
LEMMA LinesQuiet ==
  ASSUME TypeInv, MergeInv, LinesInv, NEW t \in Reqs, OnlyReq(t), NEW X, Writes(t, X),
         X \cap Lines = {}, \A r \in Records \cap X : new'[r].life = See(t, r).life,
         req'[t].master = req[t].master,
         req[t].at \notin {"m_plan", "m_move", "m_lock"},
         req'[t].at \notin {"m_plan", "m_move", "m_lock"},
         req'[t].at = "e_lines" => req'[t].cur \in X \cap Records /\ new'[req'[t].cur].life = "published"
  PROVE  ReqLines(t)' /\ LifeOK'
<1>1. /\ row' = row
      /\ \A x \in X : holder[x] \in {t, Nobody} /\ holder'[x] = t
      /\ \A x \in Rows \ X : holder'[x] = holder[x] /\ new'[x] = new[x]
  BY DEF Writes
<1>2. ReqLines(t) /\ LifeOK
  BY DEF LinesInv
<1>3. \A l \in Lines : holder'[l] = holder[l] /\ new'[l] = new[l] /\ See(t, l)' = See(t, l)
  BY <1>1, RowKinds DEF See
<1>4. \A r \in Records : See(t, r)'.life = See(t, r).life
  BY <1>1, RowKinds DEF See
<1>5. \A r \in Records : Retires(t, r)' <=> Retires(t, r)
  BY <1>1, RowKinds DEF See, Retires
<1>6. \A r \in Records : Emptied(t, r)' <=> Emptied(t, r)
  BY <1>5 DEF Emptied, Busy
<1>7. \A l \in Lines : \A r : Published(t, l, r)' <=> Published(t, l, r)
  BY <1>3 DEF Published
<1>8. LifeOK'
  BY <1>1, <1>2, RowKinds DEF LifeOK, See
<1>9. LineOK(t)'
  <2> SUFFICES ASSUME NEW l \in Lines, holder'[l] = t
               PROVE  /\ row'[l].life = "published" =>
                           /\ holder'[row'[l].parent] = t
                           /\ req'[t].master # Nobody => Emptied(t, row[l].parent)'
                      /\ new'[l].life = "published" =>
                           /\ holder'[new'[l].parent] = t
                           /\ IF req'[t].master # Nobody THEN new'[l].parent = req'[t].master
                              ELSE new'[new'[l].parent].life = "published"
    BY DEF LineOK
  <2>1. holder[l] = t /\ row[l].parent \in Records /\ new[l].parent \in Records
    BY <1>3, LineTypes
  <2>2. \A r \in Records : holder[r] = t => holder'[r] = t
    BY <1>1, RowKinds
  <2>3. \A r \in Records : holder[r] = t /\ new[r].life = "published" => new'[r].life = "published"
    BY <1>1, RowKinds DEF See
  <2> QED
    BY <1>1, <1>2, <1>3, <1>6, <2>1, <2>2, <2>3 DEF ReqLines, LineOK
<1>10. LockOK(t)' /\ BusyOK(t)' /\ PlanOK(t)' /\ EditOK(t)'
  BY <1>1 DEF LockOK, BusyOK, PlanOK, EditOK
<1>11. EmptyOK(t)'
  BY <1>2, <1>6, <1>7 DEF ReqLines, EmptyOK
<1>12. KeyOK(t)'
  <2> SUFFICES ASSUME NEW l \in Lines, row'[l].life = "published", Emptied(t, row[l].parent)',
                      See(t, req[t].master)'.life = "published"
               PROVE  \E k \in Lines : Published(t, k, req[t].master)' /\ Key[k] = Key[l]
    BY RowKinds DEF KeyOK
  <2>1. Emptied(t, row[l].parent) /\ row[l].life = "published"
    BY <1>1, <1>6, LineTypes
  <2>2. req[t].master \in Records
    BY <2>1, LineTypes DEF Emptied, MergeInv, RetireOK
  <2>3. See(t, req[t].master).life = "published"
    BY <1>4, <2>2
  <2>4. PICK k \in Lines : Published(t, k, req[t].master) /\ Key[k] = Key[l]
    BY <1>2, <2>1, <2>3 DEF ReqLines, KeyOK
  <2> QED
    BY <1>7, <2>4 DEF Published
<1> QED
  BY <1>8, <1>9, <1>10, <1>11, <1>12 DEF ReqLines

(* A transaction that holds nothing.                                       *)
LEMMA LinesIdle ==
  ASSUME TypeInv', NEW t \in Reqs, \A x \in Rows : holder'[x] # t,
         req'[t].at \notin {"e_lines", "m_plan", "m_move"}
  PROVE  ReqLines(t)'
<1>1. \A r \in Records : ~Emptied(t, r)'
  BY RowKinds DEF Emptied, Retires
<1>2. \A l \in Lines : row'[l].parent \in Records
  <2>1. \A l \in Lines : row'[l] \in LineRow
    BY RowKinds DEF TypeInv, RowsOK, RowType
  <2> QED
    BY <2>1 DEF LineRow
<1> QED
  BY <1>1, <1>2, RowKinds DEF ReqLines, LineOK, LockOK, EditOK, BusyOK, PlanOK, EmptyOK, KeyOK

LEMMA LinesLock ==
  ASSUME TypeInv, MergeInv, LinesInv, NEW t \in Reqs, MergeLock(t)
  PROVE  ReqLines(t)' /\ LifeOK'
<1> DEFINE m == req[t].master
<1>1. /\ req[t].at = "m_lock" /\ req'[t].at = "m_read" /\ m \in Records
      /\ Writes(t, {m}) /\ new'[m] = See(t, m) /\ TypeInv' /\ req'[t].master = m
  BY MergeLockFacts DEF SameReq
<1>2. \A x \in Rows : holder[x] # t
  BY <1>1 DEF LinesInv, ReqLines, LockOK
<1>3. /\ row' = row /\ new'[m] = row[m] /\ \A x \in Rows \ {m} : new'[x] = new[x] /\ holder'[x] # t
  BY <1>1, <1>2, RowKinds DEF Writes, See
<1>4. \A r \in Records : ~Emptied(t, r)'
  BY <1>1, <1>3, RowKinds DEF Emptied, Retires
<1>5. \A l \in Lines : holder'[l] # t /\ row[l].parent \in Records
  BY <1>1, <1>3, LineTypes, RowKinds
<1>6. LifeOK'
  BY <1>1, <1>3, RowKinds DEF LinesInv, LifeOK
<1> QED
  BY <1>1, <1>3, <1>4, <1>5, <1>6
     DEF ReqLines, LineOK, LockOK, EditOK, BusyOK, PlanOK, EmptyOK, KeyOK

LEMMA LinesRetire ==
  ASSUME TypeInv, MergeInv, LinesInv, NEW t \in Reqs, NEW v \in Records, MergeRetire(t, v), ~Rollback(t)
  PROVE  ReqLines(t)' /\ LifeOK'
<1> DEFINE m == req[t].master
<1>1. /\ req[t].at = "m_retire" /\ req'[t].at = "m_plan" /\ req'[t].cur = v /\ req'[t].master = m
      /\ m \in Records /\ See(t, v).life = "published" /\ Writes(t, {v}) /\ new'[v].life = "merged"
  BY MergeRetireFacts
<1>2. /\ row' = row /\ holder'[v] = t
      /\ \A x \in Rows \ {v} : holder'[x] = holder[x] /\ new'[x] = new[x]
  BY <1>1 DEF Writes
<1>3. ReqLines(t) /\ LifeOK /\ v \in Rows /\ v \notin Lines
  BY RowKinds DEF LinesInv
<1>4. row[v].life = "published" /\ ~Retires(t, v)
  BY <1>1, <1>3 DEF See, Retires, LifeOK
<1>5. \A l \in Lines : holder'[l] = holder[l] /\ new'[l] = new[l] /\ See(t, l)' = See(t, l)
  BY <1>2, RowKinds DEF See
<1>6. \A r \in Records : Emptied(t, r)' <=> Emptied(t, r)
  BY <1>1, <1>2, <1>4, RowKinds DEF Emptied, Retires, Busy
<1>7. \A l \in Lines : \A r : Published(t, l, r)' <=> Published(t, l, r)
  BY <1>5 DEF Published
<1>8. LifeOK' /\ BusyOK(t)' /\ LockOK(t)' /\ EditOK(t)' /\ PlanOK(t)'
  BY <1>1, <1>2, <1>3, <1>4, RowKinds DEF LifeOK, BusyOK, Retires, LockOK, EditOK, PlanOK
<1>9. LineOK(t)'
  <2>1. \A r \in Records : holder[r] = t => holder'[r] = t
    BY <1>2, RowKinds
  <2>2. m # Nobody
    BY <1>1, RowKinds
  <2> QED
    BY <1>1, <1>2, <1>3, <1>5, <1>6, <2>1, <2>2, LineTypes DEF ReqLines, LineOK
<1>10. EmptyOK(t)'
  BY <1>1, <1>3, <1>6, <1>7 DEF ReqLines, EmptyOK
<1>11. KeyOK(t)'
  <2> SUFFICES ASSUME NEW l \in Lines, row'[l].life = "published", Emptied(t, row[l].parent)',
                      See(t, m)'.life = "published"
               PROVE  \E k \in Lines : Published(t, k, m)' /\ Key[k] = Key[l]
    BY <1>1 DEF KeyOK
  <2>1. Emptied(t, row[l].parent) /\ row[l].life = "published"
    BY <1>2, <1>6, LineTypes
  <2>2. m # v
    BY <1>1, <1>2 DEF See
  <2>3. See(t, m).life = "published"
    <3>1. m \in Rows \ {v}
      BY <1>1, <2>2, RowKinds
    <3>2. holder'[m] = holder[m] /\ new'[m] = new[m] /\ row'[m] = row[m]
      BY <1>2, <3>1
    <3>3. See(t, m)' = See(t, m)
      BY <1>1, <3>2 DEF See
    <3> QED
      BY <3>3
  <2>4. PICK k \in Lines : Published(t, k, m) /\ Key[k] = Key[l]
    BY <1>3, <2>1, <2>3 DEF ReqLines, KeyOK
  <2> QED
    BY <1>1, <1>7, <2>4 DEF Published
<1> QED
  BY <1>8, <1>9, <1>10, <1>11 DEF ReqLines

LEMMA LinesPlan ==
  ASSUME TypeInv, MergeInv, LinesInv, NEW t \in Reqs, MergePlan(t)
  PROVE  ReqLines(t)' /\ LifeOK'
<1> DEFINE m == req[t].master
           c == req[t].cur
<1>1. /\ req[t].at = "m_plan" /\ req'[t].at = "m_move" /\ req'[t].master = m /\ req'[t].cur = c
      /\ Writes(t, {})
      /\ req'[t].ded = IF DedupKeys THEN Repeated(t, m, c) ELSE {}
      /\ req'[t].rep = IF DedupKeys THEN PublishedOf(t, c) \ req'[t].ded ELSE LinesOf(t, c)
  BY MergePlanFacts
<1>2. row' = row /\ \A x \in Rows : holder'[x] = holder[x] /\ new'[x] = new[x]
  BY <1>1 DEF Writes
<1>3. ReqLines(t) /\ LifeOK /\ m \in Records /\ c \in Records
  BY <1>1, Typed DEF LinesInv, ReqOK, MergeSteps
<1>4. \A x \in Rows : See(t, x)' = See(t, x)
  BY <1>2 DEF See
<1>5. \A r \in Records : Emptied(t, r)' <=> Emptied(t, r)
  BY <1>1, <1>2, RowKinds DEF Emptied, Retires, Busy
<1>6. \A l \in Lines : \A r : Published(t, l, r)' <=> Published(t, l, r)
  BY <1>4, RowKinds DEF Published
<1>7. LifeOK' /\ BusyOK(t)' /\ LockOK(t)' /\ EditOK(t)'
  BY <1>1, <1>2, <1>3, RowKinds DEF ReqLines, LifeOK, BusyOK, Retires, LockOK, EditOK
<1>8. LineOK(t)'
  <2>1. \A l \in Lines : /\ row'[l] = row[l] /\ new'[l] = new[l] /\ holder'[l] = holder[l]
                         /\ row[l].parent \in Records /\ new[l].parent \in Records
    BY <1>2, LineTypes
  <2>2. \A r \in Records : holder'[r] = holder[r] /\ new'[r] = new[r]
    BY <1>2, RowKinds
  <2> QED
    BY <1>1, <1>3, <1>5, <2>1, <2>2 DEF ReqLines, LineOK
<1>9. PlanOK(t)'
  <2>1. CASE DedupKeys
    <3>1. req'[t].ded = Repeated(t, m, c) /\ req'[t].rep = PublishedOf(t, c) \ Repeated(t, m, c)
      BY <1>1, <2>1
    <3>2. Repeated(t, m, c) \subseteq PublishedOf(t, c)
      BY DEF Repeated
    <3>3. \A l \in Lines : l \in req'[t].rep \cup req'[t].ded <=> Published(t, l, c)
      BY <1>3, <3>1, <3>2, PublishedOfFacts
    <3>4. \A l \in req'[t].ded : \E k \in Lines : Published(t, k, m) /\ Key[k] = Key[l]
      <4>1. \A l \in Repeated(t, m, c) : \E k \in PublishedOf(t, m) : Key[k] = Key[l]
        BY DEF Repeated
      <4>2. PublishedOf(t, m) \subseteq Lines
        BY DEF PublishedOf, LinesOf
      <4> QED
        BY <1>3, <3>1, <4>1, <4>2, PublishedOfFacts
    <3>5. req'[t].ded \subseteq Lines
      BY <3>1 DEF Repeated, PublishedOf, LinesOf
    <3> QED
      BY <1>1, <1>6, <2>1, <3>1, <3>3, <3>4, <3>5 DEF PlanOK
  <2>2. CASE ~DedupKeys
    BY <1>1, <2>2 DEF PlanOK
  <2> QED
    BY <2>1, <2>2
<1>10. EmptyOK(t)'
  BY <1>1, <1>3, <1>5, <1>6 DEF ReqLines, EmptyOK
<1>11. KeyOK(t)'
  <2> SUFFICES ASSUME NEW l \in Lines, row'[l].life = "published", Emptied(t, row[l].parent)',
                      See(t, m)'.life = "published"
               PROVE  \E k \in Lines : Published(t, k, m)' /\ Key[k] = Key[l]
    BY <1>1 DEF KeyOK
  <2>1. Emptied(t, row[l].parent) /\ row[l].life = "published"
    BY <1>2, <1>5, LineTypes
  <2>2. See(t, m).life = "published"
    BY <1>1, <1>3, <1>4, RowKinds
  <2>3. PICK k \in Lines : Published(t, k, m) /\ Key[k] = Key[l]
    BY <1>3, <2>1, <2>2 DEF ReqLines, KeyOK
  <2> QED
    BY <1>1, <1>6, <2>3 DEF Published
<1> QED
  BY <1>7, <1>8, <1>9, <1>10, <1>11 DEF ReqLines

(* The lines move: the victim lists none any more, the master has its keys. *)
LEMMA LinesMove ==
  ASSUME TypeInv, MergeInv, LinesInv, NEW t \in Reqs, MergeMove(t)
  PROVE  ReqLines(t)' /\ LifeOK'
<1> DEFINE m == req[t].master
           c == req[t].cur
           M == MovedLines(t)
           D == DroppedLines(t)
<1>1. /\ req[t].at = "m_move" /\ req'[t].at \in {"m_write", "m_retire"} /\ req'[t].master = m
      /\ c \in Records /\ m \in Records /\ M \subseteq Lines /\ D \subseteq Lines
      /\ Writes(t, M \cup D \cup {c}) /\ new'[c].life = See(t, c).life
      /\ \A l \in M : new'[l].life = See(t, l).life /\ new'[l].parent = m
      /\ \A l \in D \ M : new'[l].life = "merged" /\ new'[l].parent = See(t, l).parent
  BY MergeMoveFacts
<1>2. ReqLines(t) /\ LifeOK /\ m # Nobody /\ holder[m] = t
  BY <1>1, RowKinds DEF LinesInv, MergeInv, MasterOK, MergeSteps
<1>3. holder[c] = t /\ new[c].life = "merged" /\ row[c].life = "published"
  BY <1>1, <1>2 DEF ReqLines, BusyOK, Retires
<1>4. M \cap D = {} /\ \A l \in Lines : Published(t, l, c) => l \in M \cup D
  <2>1. CASE DedupKeys
    <3>1. M = req[t].rep /\ D \subseteq req[t].ded /\ \A l \in req[t].ded : See(t, l).life = "published" => l \in D
      BY <2>1 DEF MovedLines, DroppedLines
    <3>2. /\ req[t].rep \cap req[t].ded = {}
          /\ \A l \in Lines : l \in req[t].rep \cup req[t].ded <=> Published(t, l, c)
      BY <1>1, <1>2, <2>1 DEF ReqLines, PlanOK
    <3> QED
      BY <3>1, <3>2 DEF Published
  <2>2. CASE ~DedupKeys
    <3>1. req[t].ded = {}
      BY <1>1, <1>2, <2>2 DEF ReqLines, PlanOK
    <3> QED
      BY <2>2, <3>1 DEF MovedLines, DroppedLines, LinesOf, Published
  <2> QED
    BY <2>1, <2>2
<1>5. \A l \in M \cup D : See(t, l).parent = c
  <2>1. CASE DedupKeys
    <3>1. \A l \in Lines : l \in req[t].rep \cup req[t].ded <=> Published(t, l, c)
      BY <1>1, <1>2, <2>1 DEF ReqLines, PlanOK
    <3> QED
      BY <1>1, <2>1, <3>1 DEF MovedLines, DroppedLines, Published
  <2>2. CASE ~DedupKeys
    <3>1. req[t].ded = {}
      BY <1>1, <1>2, <2>2 DEF ReqLines, PlanOK
    <3> QED
      BY <2>2, <3>1 DEF MovedLines, DroppedLines, LinesOf
  <2> QED
    BY <2>1, <2>2
<1>6. \A l \in D : \E k \in Lines : Published(t, k, m) /\ Key[k] = Key[l]
  <2>1. D \subseteq req[t].ded
    BY DEF DroppedLines
  <2> QED
    BY <1>1, <1>2, <2>1 DEF ReqLines, PlanOK
<1> HIDE DEF M, D
<1>7. /\ row' = row /\ \A x \in M \cup D \cup {c} : holder[x] \in {t, Nobody} /\ holder'[x] = t
      /\ \A x \in Rows \ (M \cup D \cup {c}) : holder'[x] = holder[x] /\ new'[x] = new[x]
  BY <1>1 DEF Writes
<1>8. \A r \in Records : r # c => holder'[r] = holder[r] /\ new'[r] = new[r] /\ See(t, r)' = See(t, r)
  BY <1>1, <1>7, RowKinds DEF See
<1>9. holder'[c] = t /\ new'[c].life = "merged" /\ row'[c].life = "published"
  BY <1>1, <1>3, <1>7 DEF See
<1>10. \A r \in Records : Emptied(t, r)' <=> (r = c \/ Emptied(t, r))
  BY <1>1, <1>3, <1>7, <1>8, <1>9 DEF Emptied, Retires, Busy
<1>11. \A l \in Lines : l \notin M \cup D => See(t, l)' = See(t, l) /\ holder'[l] = holder[l] /\ new'[l] = new[l]
  BY <1>1, <1>7, RowKinds DEF See
<1>12. \A l \in M \cup D : holder'[l] = t /\ See(t, l)' = new'[l]
  BY <1>7 DEF See
<1>13. \A l \in M : Published(t, l, c) => Published(t, l, m)'
  BY <1>1, <1>12 DEF Published
<1>14. \A l \in Lines : \A r : Published(t, l, r)' => r = m \/ (Published(t, l, r) /\ l \notin M \cup D)
  BY <1>1, <1>4, <1>11, <1>12 DEF Published
<1>15. \A l \in Lines, r \in Records : Published(t, l, r) /\ r # c => Published(t, l, r)'
  BY <1>5, <1>11 DEF Published
<1>16. LifeOK'
  BY <1>2, <1>7, <1>8, <1>9 DEF LifeOK
<1>17. LockOK(t)' /\ EditOK(t)' /\ BusyOK(t)' /\ PlanOK(t)'
  BY <1>1 DEF LockOK, EditOK, BusyOK, PlanOK
<1>18. LineOK(t)'
  <2> SUFFICES ASSUME NEW l \in Lines, holder'[l] = t
               PROVE  /\ row'[l].life = "published" =>
                           holder'[row'[l].parent] = t /\ Emptied(t, row[l].parent)'
                      /\ new'[l].life = "published" =>
                           holder'[new'[l].parent] = t /\ new'[l].parent = m
    BY <1>1, <1>2 DEF LineOK
  <2>1. \A r \in Records : holder[r] = t => holder'[r] = t
    BY <1>8, <1>9
  <2>2. row[l].parent \in Records /\ row'[l].parent \in Records
    BY <1>7, LineTypes
  <2>3. CASE holder[l] = t
    <3>1. row[l].life = "published" => holder[row[l].parent] = t /\ Emptied(t, row[l].parent)
      BY <1>2, <2>3 DEF ReqLines, LineOK
    <3>2. new[l].life = "published" => new[l].parent = m
      BY <1>2, <2>3 DEF ReqLines, LineOK
    <3>3. new'[l].life = "published" => new'[l].parent = m
      BY <1>1, <1>4, <1>11, <3>2
    <3> QED
      BY <1>1, <1>2, <1>7, <1>10, <2>1, <2>2, <3>1, <3>3
  <2>4. CASE holder[l] # t
    <3>1. l \in M \cup D /\ See(t, l) = row[l]
      BY <1>11, <2>4 DEF See
    <3>2. row[l].parent = c
      BY <1>5, <3>1
    <3>3. new'[l].life = "published" => new'[l].parent = m
      BY <1>1, <1>4, <3>1
    <3> QED
      BY <1>1, <1>2, <1>7, <1>9, <1>10, <2>1, <3>2, <3>3
  <2> QED
    BY <2>3, <2>4
<1>19. EmptyOK(t)'
  <2> SUFFICES ASSUME NEW v \in Records, NEW l \in Lines, Emptied(t, v)', v # m, Published(t, l, v)'
               PROVE  FALSE
    BY <1>1 DEF EmptyOK
  <2>1. Published(t, l, v) /\ l \notin M \cup D
    BY <1>14
  <2>2. v # c
    BY <1>4, <2>1
  <2> QED
    BY <1>2, <1>10, <2>1, <2>2 DEF ReqLines, EmptyOK
<1>20. KeyOK(t)'
  <2> SUFFICES ASSUME NEW l \in Lines, row'[l].life = "published", Emptied(t, row[l].parent)',
                      See(t, m)'.life = "published"
               PROVE  \E k \in Lines : Published(t, k, m)' /\ Key[k] = Key[l]
    BY <1>1 DEF KeyOK
  <2>1. row[l].life = "published" /\ row[l].parent \in Records
    BY <1>7, LineTypes
  <2>2. m # c /\ See(t, m).life = "published"
    BY <1>1, <1>8, <1>9 DEF See
  <2>3. \E k \in Lines : /\ Published(t, k, m)' \/ Published(t, k, m)
                         /\ Key[k] = Key[l]
    <3>1. CASE Emptied(t, row[l].parent)
      BY <1>2, <2>1, <2>2, <3>1 DEF ReqLines, KeyOK
    <3>2. CASE ~Emptied(t, row[l].parent)
      <4>1. row[l].parent = c
        BY <1>7, <1>10, <2>1, <3>2
      <4>2. holder[l] # t
        BY <1>2, <2>1, <3>2 DEF ReqLines, LineOK
      <4>3. Published(t, l, c)
        BY <2>1, <4>1, <4>2 DEF Published, See
      <4> QED
        BY <1>4, <1>6, <1>13, <4>3
    <3> QED
      BY <3>1, <3>2
  <2> QED
    BY <1>1, <1>15, <2>2, <2>3
<1> QED
  BY <1>16, <1>17, <1>18, <1>19, <1>20 DEF ReqLines

(* An update CR archives lines of its own record, and adds lines to it.    *)
LEMMA LinesEdit ==
  ASSUME TypeInv, MergeInv, LinesInv, NEW t \in Reqs, NEW drop \in SUBSET Lines,
         NEW add \in SUBSET Unborn, EditLines(t, drop, add)
  PROVE  ReqLines(t)' /\ LifeOK'
<1> DEFINE c == req[t].cur
<1>1. /\ req[t].at = "e_lines" /\ req'[t].at = "commit" /\ req'[t].master = req[t].master
      /\ c \in Records /\ add \subseteq Lines /\ Writes(t, drop \cup add)
      /\ \A l \in drop : See(t, l).life = "published" /\ See(t, l).parent = c
      /\ \A l \in add : See(t, l).life = "unborn"
      /\ \A l \in drop : new'[l].life = "archived"
      /\ \A l \in add \ drop : new'[l].life = "published" /\ new'[l].parent = c
  <2>1. Writes(t, drop \cup add) /\ EditsLines(t, drop, add)
    BY EditLinesFacts
  <2> QED
    BY <2>1 DEF EditsLines, SameReq
<1>2. ReqLines(t) /\ LifeOK /\ holder[c] = t /\ new[c].life = "published"
  BY <1>1 DEF LinesInv, ReqLines, EditOK
<1>3. req[t].master = Nobody
  BY <1>1 DEF MergeInv, MasterOK, MergeSteps
<1>4. /\ row' = row /\ \A x \in drop \cup add : holder'[x] = t
      /\ \A x \in Rows \ (drop \cup add) : holder'[x] = holder[x] /\ new'[x] = new[x]
  BY <1>1 DEF Writes
<1>5. \A r \in Records : holder'[r] = holder[r] /\ new'[r] = new[r]
  BY <1>1, <1>4, RowKinds
<1>6. \A r \in Records : ~Emptied(t, r)'
  BY <1>3, <1>4, <1>5 DEF Emptied, Retires, MergeInv, RetireOK
<1>7. LifeOK' /\ LockOK(t)' /\ EditOK(t)' /\ BusyOK(t)' /\ PlanOK(t)'
  BY <1>1, <1>2, <1>4, <1>5 DEF LifeOK, LockOK, EditOK, BusyOK, PlanOK
<1>8. LineOK(t)'
  <2> SUFFICES ASSUME NEW l \in Lines, holder'[l] = t
               PROVE  /\ row'[l].life = "published" => holder'[row'[l].parent] = t
                      /\ new'[l].life = "published" =>
                           holder'[new'[l].parent] = t /\ new'[new'[l].parent].life = "published"
    BY <1>1, <1>3 DEF LineOK
  <2>1. row[l].parent \in Records /\ new[l].parent \in Records /\ l \in Rows
    BY LineTypes
  <2>2. row[l].life = "published" => holder[row[l].parent] = t
    <3>1. CASE holder[l] = t
      BY <1>2, <3>1 DEF ReqLines, LineOK
    <3>2. CASE holder[l] # t
      BY <1>1, <1>2, <1>4, <2>1, <3>2 DEF See
    <3> QED
      BY <3>1, <3>2
  <2>3. new'[l].life = "published" =>
          new'[l].parent \in Records /\ holder[new'[l].parent] = t /\ new[new'[l].parent].life = "published"
    <3>1. CASE l \in drop \cup add
      BY <1>1, <1>2, <3>1
    <3>2. CASE l \notin drop \cup add
      BY <1>2, <1>3, <1>4, <2>1, <3>2 DEF ReqLines, LineOK
    <3> QED
      BY <3>1, <3>2
  <2> QED
    BY <1>4, <1>5, <2>1, <2>2, <2>3
<1>9. EmptyOK(t)' /\ KeyOK(t)'
  BY <1>4, <1>6, LineTypes DEF EmptyOK, KeyOK
<1> QED
  BY <1>7, <1>8, <1>9 DEF ReqLines

(* A request that starts.                                                  *)
LEMMA LinesAsk ==
  ASSUME TypeInv, MergeInv, LinesInv, NEW t \in Reqs, TypeInv', OnlyReq(t), Writes(t, {}),
         req[t] = Idle, req'[t].at \in {"m_lock", "r_group", "e_read"}
  PROVE  ReqLines(t)' /\ LifeOK'
<1>1. row' = row /\ \A x \in Rows : holder'[x] = holder[x] /\ new'[x] = new[x] /\ holder[x] # t
  BY IdleHoldsNothing DEF Writes
<1>2. LifeOK'
  BY <1>1, RowKinds DEF LinesInv, LifeOK
<1>3. ReqLines(t)'
  BY <1>1, LinesIdle
<1> QED
  BY <1>2, <1>3

LEMMA LinesMergeAsk ==
  ASSUME TypeInv, MergeInv, LinesInv, NEW t \in Reqs, NEW m \in Records, NEW v \in Victims,
         MergeAsk(t, m, v)
  PROVE  ReqLines(t)' /\ LifeOK'
<1>1. /\ TypeInv' /\ holder' = holder /\ req[t] = Idle /\ req'[t].at = "m_lock"
      /\ asked + 1 \in Groups /\ \A x \in Rows \ {asked + 1} : row'[x] = row[x] /\ new'[x] = new[x]
  BY MergeAskTypes
<1>2. \A x \in Rows : holder'[x] # t
  BY <1>1, IdleHoldsNothing
<1>3. LifeOK'
  BY <1>1, RowKinds DEF LinesInv, LifeOK
<1>4. ReqLines(t)'
  BY <1>1, <1>2, LinesIdle
<1> QED
  BY <1>3, <1>4

LEMMA LinesRollback ==
  ASSUME TypeInv, MergeInv, LinesInv, NEW t \in Reqs, Rollback(t)
  PROVE  ReqLines(t)' /\ LifeOK'
<1>1. /\ TypeInv' /\ req'[t] = Idle /\ row' = row /\ \A x \in Rows : holder'[x] # t
      /\ \A x \in Rows : new'[x] \in {row[x], new[x]}
  BY RollbackFacts, RollbackTypes, EndsAreOwn
<1>2. LifeOK'
  BY <1>1, RowKinds DEF LinesInv, LifeOK
<1>3. ReqLines(t)'
  BY <1>1, IdleIsTyped, LinesIdle
<1> QED
  BY <1>2, <1>3

(* A commit publishes no line under a record that it merges away.          *)
LEMMA LinesCommit ==
  ASSUME TypeInv, MergeInv, LinesInv, NEW t \in Reqs, Commit(t)
  PROVE  ReqLines(t)' /\ LifeOK' /\ NoHiddenLine'
<1> DEFINE m == req[t].master
<1>1. /\ TypeInv' /\ req[t].at = "commit" /\ req'[t] = Idle
      /\ \A x \in Rows : new'[x] = new[x] /\ row'[x] = IF holder[x] = t THEN new[x] ELSE row[x]
  BY CommitFacts
<1>2. LifeOK'
  BY <1>1, RowKinds DEF LinesInv, LifeOK
<1>3. ReqLines(t)'
  BY <1>1, IdleIsTyped, EndsAreOwn, LinesIdle
<1>4. m # Nobody => holder[m] = t /\ new[m].life = "published"
  BY <1>1 DEF MergeInv, MasterOK
<1>5. ASSUME NEW l \in Lines, row'[l].life = "published"
      PROVE  row'[row'[l].parent].life = "published"
  <2>1. CASE holder[l] = t
    <3>1. row'[l] = new[l] /\ new[l].parent \in Records /\ new[l].parent \in Rows
      BY <1>1, <2>1, LineTypes
    <3>2. holder[new[l].parent] = t /\ new[new[l].parent].life = "published"
      BY <1>4, <1>5, <2>1, <3>1 DEF LinesInv, ReqLines, LineOK
    <3> QED
      BY <1>1, <3>1, <3>2
  <2>2. CASE holder[l] # t
    <3> DEFINE p == row[l].parent
    <3>1. row'[l] = row[l] /\ p \in Records /\ p \in Rows /\ row[p].life = "published"
      BY <1>1, <1>5, <2>2, LineTypes DEF LinesInv, NoHiddenLine
    <3>2. ~Retires(t, p)
      <4> SUFFICES ASSUME Retires(t, p) PROVE FALSE
        OBVIOUS
      <4>1. Emptied(t, p) /\ p # m
        BY <1>1, <1>4, <3>1, RowKinds DEF Emptied, Busy, Retires
      <4>2. Published(t, l, p)
        BY <1>5, <2>2, <3>1 DEF Published, See
      <4> QED
        BY <3>1, <4>1, <4>2 DEF LinesInv, ReqLines, EmptyOK
    <3>3. row'[p].life = "published"
      BY <1>1, <3>1, <3>2, LineTypes DEF Retires
    <3> QED
      BY <3>1, <3>3
  <2> QED
    BY <2>1, <2>2
<1> QED
  BY <1>2, <1>3, <1>5 DEF NoHiddenLine

(* Every statement but an undo's.                                          *)
LEMMA LinesActs ==
  ASSUME TypeInv, MergeInv, LinesInv, NEW t \in Reqs, Acts(t), "undo" \notin Ops
  PROVE  OwnStep(t) /\ ReqLines(t)' /\ LifeOK' /\ req'[t].at \notin UndoSteps
<1> DEFINE Kept == OwnStep(t) /\ ReqLines(t)' /\ LifeOK' /\ req'[t].at \notin UndoSteps
<1>1. req[t].at \notin UndoSteps /\ RowsOK
  BY Typed DEF LinesInv
<1>2. /\ \A r \in Records : r \in Rows /\ r \notin Lines /\ r \notin Groups
      /\ \A g \in Groups : g \notin Lines /\ g \notin Records
  BY RowKinds
<1>3. ASSUME Rollback(t) \/ Commit(t) PROVE Kept
  BY <1>3, EndsAreOwn, IdleIsTyped, LinesRollback, LinesCommit DEF UndoSteps
<1>4. ASSUME NEW m \in Records, NEW v \in Victims, MergeAsk(t, m, v) PROVE Kept
  BY <1>4, MergeAskTypes, MergeAskIsOwn, LinesMergeAsk DEF UndoSteps
<1>5. ASSUME \/ \E g \in Groups : RejectAsk(t, g)
             \/ \E g \in Groups, m \in Records : MergeAgain(t, g, m)
             \/ \E r \in Records : EditAsk(t, r)
      PROVE  Kept
  <2>1. /\ TypeInv' /\ OnlyReq(t) /\ Writes(t, {}) /\ req[t] = Idle
        /\ req'[t].at \in {"m_lock", "r_group", "e_read"}
    BY <1>5, RejectAskFacts, MergeAgainFacts, EditAskFacts
  <2> QED
    BY <1>1, <2>1, WritesAreOwn, LinesAsk DEF UndoSteps
<1>6. ASSUME NEW g \in Groups, UndoAsk(t, g) PROVE Kept
  BY <1>6, UndoAskFacts
<1>7. ASSUME MergeLock(t) PROVE Kept
  BY <1>1, <1>7, MergeLockFacts, WritesAreOwn, LinesLock DEF UndoSteps
<1>8. ASSUME MergeRead(t) \/ EditRead(t), ~Rollback(t) PROVE Kept
  <2>1. /\ OnlyReq(t) /\ Writes(t, {}) /\ req'[t].master = req[t].master
        /\ req[t].at \in {"m_read", "e_read"} /\ req'[t].at \in {"m_retire", "e_write"}
    BY <1>8, MergeReadFacts, EditReadFacts DEF SameReq
  <2> QED
    BY <1>1, <2>1, WritesAreOwn, LinesQuiet DEF UndoSteps
<1>9. ASSUME NEW v \in Records, MergeRetire(t, v), ~Rollback(t) PROVE Kept
  <2>1. OnlyReq(t) /\ Writes(t, {v}) /\ req'[t].at = "m_plan"
    BY <1>9, MergeRetireFacts
  <2> QED
    BY <1>1, <1>9, <2>1, WritesAreOwn, LinesRetire DEF UndoSteps
<1>10. ASSUME MergePlan(t) PROVE Kept
  BY <1>1, <1>10, MergePlanFacts, WritesAreOwn, LinesPlan DEF UndoSteps
<1>11. ASSUME MergeMove(t) PROVE Kept
  <2>1. /\ OnlyReq(t) /\ req'[t].at \in {"m_write", "m_retire"}
        /\ Writes(t, MovedLines(t) \cup DroppedLines(t) \cup {req[t].cur})
    BY <1>11, MergeMoveFacts
  <2> QED
    BY <1>1, <1>11, <2>1, WritesAreOwn, LinesMove DEF UndoSteps
<1>12. ASSUME MergeWrite(t), ~Rollback(t) PROVE Kept
  <2>1. /\ OnlyReq(t) /\ Writes(t, {req[t].master}) /\ req'[t].master = req[t].master
        /\ req[t].at = "m_write" /\ req'[t].at = "m_group" /\ req[t].master \in Records
        /\ new'[req[t].master].life = See(t, req[t].master).life
    BY <1>12, MergeWriteFacts DEF SameReq
  <2>2. {req[t].master} \cap Lines = {}
    BY <1>2, <2>1
  <2> QED
    BY <1>1, <2>1, <2>2, WritesAreOwn, LinesQuiet DEF UndoSteps
<1>13. ASSUME MergeGroup(t) \/ RejectGroup(t), ~Rollback(t) PROVE Kept
  <2>1. /\ OnlyReq(t) /\ Writes(t, {req[t].g}) /\ req'[t].master = req[t].master
        /\ req[t].at \in {"m_group", "r_group"} /\ req'[t].at = "commit" /\ req[t].g \in Groups
    BY <1>13, MergeGroupFacts, RejectGroupFacts DEF SameReq
  <2>2. {req[t].g} \cap Lines = {} /\ Records \cap {req[t].g} = {}
    BY <1>2, <2>1
  <2> QED
    BY <1>1, <2>1, <2>2, WritesAreOwn, LinesQuiet DEF UndoSteps
<1>14. ASSUME EditWrite(t), ~Rollback(t) PROVE Kept
  <2>1. /\ OnlyReq(t) /\ Writes(t, {req[t].cur}) /\ req'[t].master = req[t].master
        /\ req[t].at = "e_write" /\ req'[t].at = "e_lines" /\ req[t].cur \in Records
        /\ new'[req[t].cur].life = See(t, req[t].cur).life
        /\ new'[req[t].cur].life = "published" /\ req'[t].cur = req[t].cur
    BY <1>14, EditWriteFacts DEF SameReq
  <2>2. {req[t].cur} \cap Lines = {} /\ req[t].cur \in {req[t].cur} \cap Records
    BY <1>2, <2>1
  <2> QED
    BY <1>1, <2>1, <2>2, WritesAreOwn, LinesQuiet DEF UndoSteps
<1>15. ASSUME NEW drop \in SUBSET Lines, NEW add \in SUBSET Unborn, EditLines(t, drop, add)
       PROVE  Kept
  <2>1. OnlyReq(t) /\ Writes(t, drop \cup add) /\ req'[t].at = "commit"
    BY <1>15, EditLinesFacts DEF EditsLines
  <2> QED
    BY <1>1, <1>15, <2>1, WritesAreOwn, LinesEdit DEF UndoSteps
<1>16. ~(UndoLife(t) \/ UndoLog(t) \/ UndoMove(t) \/ UndoGroup(t))
  BY <1>1 DEF UndoLife, UndoLog, UndoMove, UndoGroup, UndoSteps
<1> HIDE DEF Kept
<1>17. Kept
  BY <1>3, <1>4, <1>5, <1>6, <1>7, <1>8, <1>9, <1>10, <1>11, <1>12, <1>13, <1>14, <1>15, <1>16
     DEF Acts, Fails
<1> QED
  BY <1>17 DEF Kept

LEMMA LinesStep ==
  ASSUME "undo" \notin Ops, TypeInv, MergeInv, LinesInv, [Next]_vars
  PROVE  LinesInv'
<1>1. CASE UNCHANGED vars
  BY <1>1 DEF LinesInv, NoHiddenLine, LifeOK, ReqLines, LineOK, LockOK, EditOK, BusyOK, PlanOK,
              EmptyOK, KeyOK, Emptied, Retires, Busy, Published, See, vars
<1>2. CASE Next
  <2>1. PICK t \in Reqs : Acts(t)
    BY <1>2 DEF Next
  <2>2. OwnStep(t) /\ ReqLines(t)' /\ LifeOK' /\ req'[t].at \notin UndoSteps
    BY <2>1, LinesActs
  <2>3. NoHiddenLine'
    <3>1. CASE Commit(t)
      BY <3>1, LinesCommit
    <3>2. CASE ~Commit(t)
      <4>1. \A x \in Records \cup Lines : row'[x] = row[x]
        BY <2>1, <3>2, OnlyCommits
      <4> QED
        BY <4>1, LineTypes DEF LinesInv, NoHiddenLine
    <3> QED
      BY <3>1, <3>2
  <2>4. ASSUME NEW u \in Reqs \ {t} PROVE ReqLines(u)' /\ req'[u].at \notin UndoSteps
    <3>1. req'[u].at \notin UndoSteps
      BY <2>2 DEF LinesInv, OwnStep, OnlyReq
    <3>2. ReqLines(u)'
      BY <2>1, <2>2, OnlyCommits, LinesOthers, LinesCommitOthers
    <3> QED
      BY <3>1, <3>2
  <2> QED
    BY <2>2, <2>3, <2>4 DEF LinesInv
<1> QED
  BY <1>1, <1>2

LEMMA LinesInit == Init => LinesInv
<1> SUFFICES ASSUME Init PROVE LinesInv
  OBVIOUS
<1>1. /\ \A r \in Records : row[r].life = "published"
      /\ \A l \in Lines : row[l].parent \in Records
      /\ \A x \in Rows, t \in Reqs : holder[x] # t
      /\ new = row /\ \A t \in Reqs : req[t].at = "idle"
  BY RowKinds, IdleIsTyped, StewardshipAssumption DEF Init, StewardshipAssumption
<1>2. \A t \in Reqs, r \in Records : ~Emptied(t, r)
  BY <1>1, RowKinds DEF Emptied, Retires
<1>3. \A t \in Reqs : ReqLines(t)
  BY <1>1, <1>2, RowKinds DEF ReqLines, LineOK, LockOK, EditOK, BusyOK, PlanOK, EmptyOK, KeyOK
<1> QED
  BY <1>1, <1>3 DEF LinesInv, NoHiddenLine, LifeOK, UndoSteps

LEMMA Lining ==
  ASSUME "undo" \notin Ops
  PROVE  Spec => [](TypeInv /\ MergeInv /\ LinesInv)
<1>1. TypeInv /\ MergeInv /\ LinesInv /\ [Next]_vars => LinesInv'
  BY LinesStep
<1> QED
  BY <1>1, LinesInit, Merging, PTL DEF Spec

(* A published line hangs under a published record: a merge moves or soft- *)
(* deletes every line of its victims, and an update CR beside it, which    *)
(* waits for the head row, adds none to a victim.                          *)
THEOREM LinesStayVisible ==
  ASSUME "undo" \notin Ops
  PROVE  Spec => []NoHiddenLine
<1>1. LinesInv => NoHiddenLine
  BY DEF LinesInv
<1> QED
  BY <1>1, Lining, PTL

(* A merge loses no business key: for each line that the victim listed,    *)
(* its master lists one with the same key afterwards (plan_detail_merge).  *)
THEOREM KeysSurvive ==
  ASSUME "undo" \notin Ops
  PROVE  Spec => MergeKeepsKeys
<1> DEFINE Keeps(l) ==
             LET r == row[l].parent IN
             row[l].life = "published" /\ row[r].life = "published" /\ row'[r].life = "merged" =>
               \E k \in Lines : /\ row'[k].life = "published" /\ row'[k].parent = into'[r]
                               /\ Key[k] = Key[l]
<1>1. ASSUME TypeInv, MergeInv, LinesInv, NEW t \in Reqs, Commit(t), NEW l \in Lines
      PROVE  Keeps(l)
  <2> DEFINE r == row[l].parent
             m == req[t].master
  <2> SUFFICES ASSUME row[l].life = "published", row[r].life = "published", row'[r].life = "merged"
               PROVE  \E k \in Lines : /\ row'[k].life = "published" /\ row'[k].parent = into'[r]
                                       /\ Key[k] = Key[l]
    OBVIOUS
  <2>1. /\ req[t].at = "commit" /\ \A x \in Rows : row'[x] = See(t, x)
        /\ \A v \in Records : into'[v] = IF Retires(t, v) THEN m ELSE into[v]
    BY <1>1, CommitFacts DEF See
  <2>2. r \in Records /\ r \in Rows
    BY <1>1, LineTypes
  <2>3. Retires(t, r)
    BY <2>1, <2>2 DEF Retires, See
  <2>4. Emptied(t, r) /\ into'[r] = m
    BY <2>1, <2>2, <2>3 DEF Emptied, Busy
  <2>5. m # Nobody
    BY <1>1, <2>2, <2>3 DEF MergeInv, RetireOK
  <2>6. See(t, m).life = "published"
    BY <1>1, <2>1, <2>5 DEF MergeInv, MasterOK, See
  <2>7. PICK k \in Lines : Published(t, k, m) /\ Key[k] = Key[l]
    BY <1>1, <2>4, <2>6 DEF LinesInv, ReqLines, KeyOK
  <2>8. row'[k] = See(t, k)
    BY <2>1, RowKinds
  <2> QED
    BY <2>4, <2>7, <2>8 DEF Published
<1>2. TypeInv /\ MergeInv /\ LinesInv /\ [Next]_vars => [\A l \in Lines : Keeps(l)]_vars
  <2> SUFFICES ASSUME TypeInv, MergeInv, LinesInv, Next, NEW l \in Lines PROVE Keeps(l)
    OBVIOUS
  <2>1. PICK t \in Reqs : Acts(t)
    BY DEF Next
  <2>2. CASE Commit(t)
    BY <1>1, <2>2
  <2>3. CASE ~Commit(t)
    <3>1. row'[row[l].parent] = row[row[l].parent]
      BY <2>1, <2>3, OnlyCommits, LineTypes
    <3> QED
      BY <3>1
  <2> QED
    BY <2>2, <2>3
<1> QED
  BY <1>2, Lining, PTL DEF Spec, MergeKeepsKeys

-----------------------------------------------------------------------------
(* Layer 5: a victim goes into one master (without undo, as above).        *)

(* Every member of the merge record but the master is still to be retired, *)
(* or the transaction is about to merge it away.                           *)
TodoOK(t) ==
  req[t].master # Nobody =>
    /\ req[t].g \in Groups
    /\ \A r \in Members(req[t].g) \ {req[t].master} : r \in req[t].todo \/ Retires(t, r)
    /\ req[t].at \in {"m_write", "m_group", "commit"} => req[t].todo = {}

(* A merge record is written just before the commit; the victims of one    *)
(* that was carried out are merged.                                        *)
HoldsGroup(t, g) ==
  holder[g] = t =>
    /\ req[t].at = "commit" /\ req[t].g = g
    /\ new[g].st = "reviewed" => req[t].master # Nobody /\ new[g].master = req[t].master

DoneOK(g) == row[g].st = "reviewed" => \A r \in Members(g) \ {row[g].master} : row[r].life = "merged"

GroupInv ==
  /\ OneMergePerVictim
  /\ \A t \in Reqs : TodoOK(t) /\ \A g \in Groups : HoldsGroup(t, g)
  /\ \A g \in Groups : DoneOK(g)

(* The members of a merge record never change, and only a commit makes a   *)
(* merge record reviewed.                                                  *)
LEMMA GroupRows ==
  ASSUME TypeInv, NEW t \in Reqs, Acts(t), NEW g \in Groups
  PROVE  /\ Inserted(g) => Members(g)' = Members(g)
         /\ ~Commit(t) /\ row'[g].st = "reviewed" => row'[g] = row[g]
<1>1. CASE Commit(t)
  <2>1. row'[g] \in {row[g], new[g]} /\ new[g].members = row[g].members
    BY <1>1, CommitFacts, RowKinds, Typed DEF GroupsOK
  <2> QED
    BY <1>1, <2>1 DEF Members
<1>2. CASE \E m \in Records, v \in Victims : MergeAsk(t, m, v)
  <2>1. /\ \A x \in Rows \ {asked + 1} : row'[x] = row[x]
        /\ row[asked + 1] = NoGroup /\ row'[asked + 1].st = "pending"
    BY <1>2, MergeAskTypes
  <2>2. NoGroup.members = <<>>
    BY DEF NoGroup
  <2> QED
    BY <2>1, <2>2, RowKinds DEF Inserted, Members
<1>3. CASE ~Commit(t) /\ ~\E m \in Records, v \in Victims : MergeAsk(t, m, v)
  <2>1. \/ \E h \in Groups : RejectAsk(t, h) \/ UndoAsk(t, h)
        \/ \E h \in Groups, m \in Records : MergeAgain(t, h, m)
        \/ \E r \in Records : EditAsk(t, r)
        => row' = row
    BY DEF RejectAsk, UndoAsk, MergeAgain, EditAsk, rowVars
  <2>2. \/ MergeLock(t) \/ MergeRead(t) \/ \E v \in Records : MergeRetire(t, v)
        \/ MergePlan(t) \/ MergeMove(t) \/ MergeWrite(t) \/ MergeGroup(t) \/ RejectGroup(t)
        => row' = row
    BY DEF MergeLock, MergeRead, MergeRetire, MergePlan, MergeMove, MergeWrite, MergeGroup,
           RejectGroup, Put, Rollback, rowVars
  <2>3. \/ UndoLife(t) \/ UndoLog(t) \/ UndoMove(t) \/ UndoGroup(t)
        \/ EditRead(t) \/ EditWrite(t)
        \/ \E drop \in SUBSET Lines, add \in SUBSET Unborn : EditLines(t, drop, add)
        \/ Fails(t)
        => row' = row
    BY DEF UndoLife, UndoLog, UndoMove, UndoGroup, EditRead, EditWrite, EditLines, Fails,
           Put, Rollback, rowVars
  <2>4. row' = row
    BY <1>3, <2>1, <2>2, <2>3 DEF Acts
  <2> QED
    BY <2>4 DEF Members
<1> QED
  BY <1>1, <1>2, <1>3

(* A merge record that a request works on, or that was carried out.        *)
LEMMA GroupTypes ==
  ASSUME TypeInv
  PROVE  /\ \A g \in Groups : Members(g) \subseteq Records
         /\ \A t \in Reqs : req[t].g \in Groups => Inserted(req[t].g)
         /\ \A g \in Groups : row[g].st = "reviewed" => Inserted(g)
<1>1. ASSUME NEW g \in Groups PROVE Members(g) \subseteq Records
  <2>1. row[g] \in GroupRow
    BY RowKinds DEF TypeInv, RowsOK
  <2>2. row[g].members \in Seq(Records)
    BY <2>1 DEF GroupRow
  <2> QED
    BY <2>2 DEF Members
<1>2. \A t \in Reqs : req[t].g \in Groups => Inserted(req[t].g)
  BY RowKinds DEF TypeInv, ReqsOK, ReqOK
<1>3. NoGroup.st = "none"
  BY DEF NoGroup
<1>4. \A g \in Groups : row[g].st = "reviewed" => Inserted(g)
  BY <1>3 DEF TypeInv, GroupsOK
<1> QED
  BY <1>1, <1>2, <1>4

(* What a merge has promised to retire stays promised.                     *)
LEMMA TodoKept ==
  ASSUME TypeInv, GroupInv, NEW t \in Reqs, Acts(t), NEW u \in Reqs,
         req'[u].g = req[u].g, req'[u].master = req[u].master,
         \A r \in Records : r # req[u].master /\ (Retires(u, r) \/ r \in req[u].todo \ req'[u].todo)
                               => Retires(u, r)',
         req'[u].at \in {"m_write", "m_group", "commit"} => req'[u].todo = {}
  PROVE  TodoOK(u)'
<1> SUFFICES ASSUME req[u].master # Nobody PROVE TodoOK(u)'
  BY DEF TodoOK
<1>1. req[u].g \in Groups /\ \A r \in Members(req[u].g) \ {req[u].master} : r \in req[u].todo \/ Retires(u, r)
  BY DEF GroupInv, TodoOK
<1>2. Members(req[u].g)' = Members(req[u].g)
  <2>1. Inserted(req[u].g)
    BY <1>1, GroupTypes
  <2>2. PICK g \in Groups : g = req[u].g
    BY <1>1
  <2>3. Members(g)' = Members(g)
    BY <2>1, <2>2, GroupRows
  <2>4. row[g].members = row[req[u].g].members /\ row'[g].members = row'[req'[u].g].members
    BY <2>2
  <2> QED
    BY <2>3, <2>4 DEF Members
<1>3. Members(req[u].g) \subseteq Records
  BY <1>1, GroupTypes
<1> QED
  BY <1>1, <1>2, <1>3 DEF TodoOK

(* A statement that writes no merge record.                                *)
LEMMA HoldsNone ==
  ASSUME GroupInv, NEW t \in Reqs, NEW X, Writes(t, X), X \cap Groups = {}, req[t].at # "commit"
  PROVE  \A g \in Groups : HoldsGroup(t, g)'
<1>1. \A g \in Groups : holder'[g] = holder[g] /\ holder[g] # t
  BY RowKinds DEF Writes, GroupInv, HoldsGroup
<1> QED
  BY <1>1 DEF HoldsGroup

(* Every statement but a commit and an undo's.                             *)
LEMMA GroupActs ==
  ASSUME TypeInv, MergeInv, LinesInv, GroupInv, NEW t \in Reqs, Acts(t), ~Commit(t), "undo" \notin Ops
  PROVE  TodoOK(t)' /\ \A g \in Groups : HoldsGroup(t, g)'
<1> DEFINE Kept == TodoOK(t)' /\ \A g \in Groups : HoldsGroup(t, g)'
<1>1. req[t].at \notin UndoSteps /\ MasterOK(t) /\ TodoOK(t) /\ BusyOK(t)
  BY DEF LinesInv, MergeInv, GroupInv, ReqLines
<1>2. /\ \A r \in Records : r \in Rows /\ r \notin Lines /\ r \notin Groups
      /\ \A g \in Groups : g \in Rows /\ g \notin Lines /\ g \notin Records
      /\ Nobody \notin Records
  BY RowKinds
<1>3. ASSUME Rollback(t) PROVE Kept
  <2>1. req'[t].master = Nobody /\ \A x \in Rows : holder'[x] # t
    BY <1>3, EndsAreOwn DEF Idle
  <2> QED
    BY <1>2, <2>1 DEF TodoOK, HoldsGroup
<1>4. ASSUME NEW m \in Records, NEW v \in Victims, MergeAsk(t, m, v) PROVE Kept
  <2>1. /\ asked + 1 \in Groups /\ holder' = holder /\ req[t] = Idle /\ req'[t].at = "m_lock"
        /\ req'[t].g = asked + 1 /\ req'[t].master = m /\ req'[t].todo = {v[i] : i \in DOMAIN v}
        /\ row'[asked + 1].members = <<m>> \o v
    BY <1>4, MergeAskTypes
  <2>2. \A x \in Rows : holder'[x] # t
    BY <2>1, IdleHoldsNothing
  <2>3. \A i \in DOMAIN (<<m>> \o v) : (<<m>> \o v)[i] \in {m} \cup {v[j] : j \in DOMAIN v}
    <3>1. v \in Seq(Records)
      BY StewardshipAssumption DEF StewardshipAssumption
    <3> QED
      BY <3>1
  <2>4. TodoOK(t)'
    BY <2>1, <2>3 DEF TodoOK, Members
  <2> QED
    BY <1>2, <2>2, <2>4 DEF HoldsGroup
<1>5. ASSUME \/ \E g \in Groups : RejectAsk(t, g)
             \/ \E r \in Records : EditAsk(t, r)
      PROVE  Kept
  <2>1. Writes(t, {}) /\ req[t] = Idle /\ req'[t].master = Nobody
    BY <1>5, RejectAskFacts, EditAskFacts
  <2> QED
    BY <2>1, IdleIsTyped, HoldsNone DEF TodoOK
<1>6. ASSUME NEW g \in Groups, NEW m \in Records, MergeAgain(t, g, m) PROVE Kept
  <2>1. /\ Writes(t, {}) /\ req[t] = Idle /\ req'[t].at = "m_lock" /\ req'[t].g = g
        /\ req'[t].master = m /\ req'[t].todo = Members(g) \ {m}
    BY <1>6, MergeAgainFacts
  <2>2. TodoOK(t)'
    BY <2>1 DEF TodoOK, Members, Writes
  <2> QED
    BY <2>1, <2>2, IdleIsTyped, HoldsNone
<1>7. ASSUME NEW g \in Groups, UndoAsk(t, g) PROVE Kept
  BY <1>7, UndoAskFacts
<1>8. ASSUME MergeLock(t) PROVE Kept
  <2>1. /\ req[t].at = "m_lock" /\ req'[t].at = "m_read" /\ req[t].master \in Records
        /\ Writes(t, {req[t].master}) /\ req'[t].master = req[t].master
        /\ req'[t].g = req[t].g /\ req'[t].todo = req[t].todo
    BY <1>8, MergeLockFacts DEF SameReq
  <2>2. {req[t].master} \cap Groups = {}
    BY <1>2, <2>1
  <2>3. \A r \in Records : r # req[t].master /\ Retires(t, r) => Retires(t, r)'
    BY <1>2, <2>1 DEF Writes, Retires
  <2> QED
    BY <2>1, <2>2, <2>3, TodoKept, HoldsNone
<1>9. ASSUME MergeRead(t), ~Rollback(t) PROVE Kept
  <2>1. /\ req[t].at = "m_read" /\ req'[t].at = "m_retire" /\ Writes(t, {})
        /\ req'[t].master = req[t].master /\ req'[t].g = req[t].g /\ req'[t].todo = req[t].todo
    BY <1>9, MergeReadFacts DEF SameReq
  <2>2. \A r \in Records : Retires(t, r) => Retires(t, r)'
    BY <1>2, <2>1 DEF Writes, Retires
  <2> QED
    BY <2>1, <2>2, TodoKept, HoldsNone
<1>10. ASSUME NEW v \in Records, MergeRetire(t, v), ~Rollback(t) PROVE Kept
  <2>1. /\ req[t].at = "m_retire" /\ req'[t].at = "m_plan" /\ Writes(t, {v}) /\ new'[v].life = "merged"
        /\ req'[t].master = req[t].master /\ req'[t].g = req[t].g /\ req'[t].todo = req[t].todo
    BY <1>10, MergeRetireFacts
  <2>2. {v} \cap Groups = {}
    BY <1>2
  <2>3. \A r \in Records : Retires(t, r) => Retires(t, r)'
    BY <1>2, <2>1 DEF Writes, Retires
  <2> QED
    BY <2>1, <2>2, <2>3, TodoKept, HoldsNone
<1>11. ASSUME MergePlan(t) PROVE Kept
  <2>1. /\ req[t].at = "m_plan" /\ req'[t].at = "m_move" /\ Writes(t, {})
        /\ req'[t].master = req[t].master /\ req'[t].g = req[t].g /\ req'[t].todo = req[t].todo
    BY <1>11, MergePlanFacts
  <2>2. \A r \in Records : Retires(t, r) => Retires(t, r)'
    BY <1>2, <2>1 DEF Writes, Retires
  <2> QED
    BY <2>1, <2>2, TodoKept, HoldsNone
<1>12. ASSUME MergeMove(t) PROVE Kept
  <2> DEFINE c == req[t].cur
             X == MovedLines(t) \cup DroppedLines(t) \cup {c}
  <2>1. /\ req[t].at = "m_move" /\ c \in Records /\ Writes(t, X)
        /\ req'[t].at = IF req[t].todo = {c} THEN "m_write" ELSE "m_retire"
        /\ MovedLines(t) \subseteq Lines /\ DroppedLines(t) \subseteq Lines
        /\ req'[t].master = req[t].master /\ req'[t].g = req[t].g
        /\ req'[t].todo = req[t].todo \ {c} /\ new'[c].life = See(t, c).life
    BY <1>12, MergeMoveFacts
  <2>2. X \cap Groups = {} /\ X \cap Records = {c}
    BY <1>2, <2>1
  <2>3. Retires(t, c)
    BY <1>1, <2>1 DEF BusyOK
  <2> HIDE DEF X
  <2>4. \A r \in Records : Retires(t, r) => Retires(t, r)'
    BY <1>2, <2>1, <2>2, <2>3 DEF Writes, Retires, See
  <2>5. req'[t].at \in {"m_write", "m_group", "commit"} => req'[t].todo = {}
    BY <2>1
  <2>6. TodoOK(t)'
    BY <2>1, <2>3, <2>4, <2>5, TodoKept
  <2> QED
    BY <2>1, <2>2, <2>6, HoldsNone
<1>13. ASSUME MergeWrite(t), ~Rollback(t) PROVE Kept
  <2>1. /\ req[t].at = "m_write" /\ req'[t].at = "m_group" /\ req[t].master \in Records
        /\ Writes(t, {req[t].master}) /\ req'[t].master = req[t].master
        /\ req'[t].g = req[t].g /\ req'[t].todo = req[t].todo
    BY <1>13, MergeWriteFacts DEF SameReq
  <2>2. {req[t].master} \cap Groups = {}
    BY <1>2, <2>1
  <2>3. \A r \in Records : r # req[t].master /\ Retires(t, r) => Retires(t, r)'
    BY <1>2, <2>1 DEF Writes, Retires
  <2>4. req'[t].todo = {}
    BY <1>1, <1>2, <2>1 DEF TodoOK
  <2> QED
    BY <2>1, <2>2, <2>3, <2>4, TodoKept, HoldsNone
<1>14. ASSUME MergeGroup(t) \/ RejectGroup(t), ~Rollback(t) PROVE Kept
  <2>1. /\ req[t].g \in Groups /\ Writes(t, {req[t].g}) /\ req'[t].at = "commit"
        /\ req'[t].master = req[t].master /\ req'[t].g = req[t].g /\ req'[t].todo = req[t].todo
        /\ req[t].at \in {"m_group", "r_group"}
        /\ \/ req[t].at = "m_group" /\ req[t].master \in Records
               /\ new'[req[t].g].master = req[t].master
           \/ req[t].at = "r_group" /\ new'[req[t].g].st = "rejected"
    BY <1>14, MergeGroupFacts, RejectGroupFacts DEF SameReq
  <2>2. \A g \in Groups : HoldsGroup(t, g)'
    <3>1. \A g \in Groups \ {req[t].g} : holder'[g] # t
      BY <1>2, <2>1 DEF Writes, GroupInv, HoldsGroup
    <3> QED
      BY <1>2, <2>1, <3>1 DEF HoldsGroup
  <2>3. \A r \in Records : Retires(t, r) => Retires(t, r)'
    BY <1>2, <2>1 DEF Writes, Retires
  <2>4. CASE req[t].at = "m_group"
    <3>1. req'[t].todo = {}
      BY <1>1, <1>2, <2>1, <2>4 DEF TodoOK
    <3> QED
      BY <2>1, <2>2, <2>3, <3>1, TodoKept
  <2>5. CASE req[t].at = "r_group"
    BY <1>1, <2>1, <2>2, <2>5 DEF MasterOK, MergeSteps, TodoOK
  <2> QED
    BY <2>1, <2>4, <2>5
<1>15. ASSUME EditRead(t) \/ EditWrite(t) \/ \E drop \in SUBSET Lines, add \in SUBSET Unborn : EditLines(t, drop, add),
              ~Rollback(t)
       PROVE  Kept
  <2>1. /\ req[t].at \in {"e_read", "e_write", "e_lines"} /\ req'[t].master = req[t].master
        /\ \E X : Writes(t, X) /\ X \cap Groups = {}
    <3>1. CASE EditRead(t)
      BY <3>1, EditReadFacts DEF SameReq
    <3>2. CASE EditWrite(t)
      <4>1. /\ req[t].cur \in Records /\ Writes(t, {req[t].cur}) /\ req[t].at = "e_write"
            /\ req'[t].master = req[t].master
        BY <1>15, <3>2, EditWriteFacts DEF SameReq
      <4>2. {req[t].cur} \cap Groups = {}
        BY <1>2, <4>1
      <4> QED
        BY <4>1, <4>2
    <3>3. ASSUME NEW drop \in SUBSET Lines, NEW add \in SUBSET Unborn, EditLines(t, drop, add)
          PROVE  /\ req[t].at = "e_lines" /\ req'[t].master = req[t].master
                 /\ \E X : Writes(t, X) /\ X \cap Groups = {}
      <4>1. Writes(t, drop \cup add) /\ EditsLines(t, drop, add)
        BY <3>3, EditLinesFacts
      <4>2. (drop \cup add) \cap Groups = {}
        BY <1>2, <4>1 DEF EditsLines
      <4> QED
        BY <4>1, <4>2 DEF EditsLines, SameReq
    <3> QED
      BY <1>15, <3>1, <3>2, <3>3
  <2>2. req'[t].master = Nobody
    BY <1>1, <2>1 DEF MasterOK, MergeSteps
  <2> QED
    BY <2>1, <2>2, HoldsNone DEF TodoOK
<1>16. ~(UndoLife(t) \/ UndoLog(t) \/ UndoMove(t) \/ UndoGroup(t))
  BY <1>1 DEF UndoLife, UndoLog, UndoMove, UndoGroup, UndoSteps
<1> HIDE DEF Kept
<1>17. Kept
  BY <1>3, <1>4, <1>5, <1>6, <1>7, <1>8, <1>9, <1>10, <1>11, <1>12, <1>13, <1>14, <1>15, <1>16
     DEF Acts, Fails
<1> QED
  BY <1>17 DEF Kept

(* A commit: what it makes reviewed names victims that it retires, which   *)
(* no other merge has.                                                     *)
LEMMA GroupCommit ==
  ASSUME TypeInv, MergeInv, LinesInv, GroupInv, NEW t \in Reqs, Commit(t)
  PROVE  OneMergePerVictim' /\ \A g \in Groups : DoneOK(g)'
<1>1. /\ req[t].at = "commit"
      /\ \A x \in Rows : row'[x] = IF holder[x] = t THEN new[x] ELSE row[x]
  BY CommitFacts
<1>2. /\ \A r \in Records : r \in Rows /\ (row[r].life = "merged" => new[r].life = "merged")
      /\ \A g \in Groups : g \in Rows
  BY LineTypes, RowKinds DEF LinesInv, LifeOK
<1>3. ASSUME NEW g \in Groups, row'[g].st = "reviewed"
      PROVE  Members(g)' = Members(g) /\ Members(g) \subseteq Records
  <2>1. Acts(t)
    BY DEF Acts
  <2>2. row[g].st = "reviewed" \/ req[t].g = g
    BY <1>1, <1>2, <1>3 DEF GroupInv, HoldsGroup
  <2>3. Inserted(g)
    BY <2>2, GroupTypes
  <2> QED
    BY <2>1, <2>3, GroupRows, GroupTypes
<1>4. ASSUME NEW g \in Groups, holder[g] = t, row'[g].st = "reviewed", NEW r \in Members(g) \ {row'[g].master}
      PROVE  Retires(t, r) /\ r \in Records
  <2>1. row'[g] = new[g] /\ req[t].g = g /\ req[t].master # Nobody /\ row'[g].master = req[t].master
    BY <1>1, <1>2, <1>4 DEF GroupInv, HoldsGroup
  <2>2. req[t].todo = {} /\ \A v \in Members(g) \ {req[t].master} : v \in req[t].todo \/ Retires(t, v)
    BY <1>1, <2>1 DEF GroupInv, TodoOK
  <2> QED
    BY <1>3, <1>4, <2>1, <2>2
<1>5. ASSUME NEW g \in Groups, holder[g] # t, row'[g].st = "reviewed"
      PROVE  /\ row'[g] = row[g]
             /\ \A r \in Members(g) \ {row'[g].master} : row[r].life = "merged" /\ r \in Records
  BY <1>1, <1>2, <1>3, <1>5 DEF GroupInv, DoneOK
<1>6. ASSUME NEW g \in Groups, row'[g].st = "reviewed", NEW r \in Members(g) \ {row'[g].master}
      PROVE  row'[r].life = "merged"
  <2>1. CASE holder[g] = t
    BY <1>1, <1>2, <1>4, <1>6, <2>1 DEF Retires
  <2>2. CASE holder[g] # t
    BY <1>1, <1>2, <1>5, <1>6, <2>2
  <2> QED
    BY <2>1, <2>2
<1>7. ASSUME NEW g \in Groups, NEW h \in Groups, g # h, row'[g].st = "reviewed", row'[h].st = "reviewed",
             NEW r \in (Members(g) \ {row'[g].master}) \cap (Members(h) \ {row'[h].master})
      PROVE  FALSE
  <2>1. holder[g] = t /\ holder[h] = t => g = h
    BY DEF GroupInv, HoldsGroup
  <2>2. CASE holder[g] = t /\ holder[h] # t
    BY <1>4, <1>5, <1>7, <2>2 DEF Retires
  <2>3. CASE holder[g] # t /\ holder[h] = t
    BY <1>4, <1>5, <1>7, <2>3 DEF Retires
  <2>4. CASE holder[g] # t /\ holder[h] # t
    BY <1>5, <1>7, <2>4 DEF GroupInv, OneMergePerVictim
  <2> QED
    BY <1>7, <2>1, <2>2, <2>3, <2>4
<1>8. OneMergePerVictim'
  BY <1>3, <1>7 DEF OneMergePerVictim
<1>9. \A g \in Groups : DoneOK(g)'
  BY <1>3, <1>6 DEF DoneOK
<1> QED
  BY <1>8, <1>9

LEMMA GroupStep ==
  ASSUME "undo" \notin Ops, TypeInv, MergeInv, LinesInv, GroupInv, [Next]_vars
  PROVE  GroupInv'
<1>1. CASE UNCHANGED vars
  <2>1. row' = row /\ new' = new /\ holder' = holder /\ req' = req
    BY <1>1 DEF vars
  <2>2. OneMergePerVictim'
    BY <2>1 DEF GroupInv, OneMergePerVictim, Members
  <2>3. ASSUME NEW t \in Reqs PROVE TodoOK(t)' /\ \A g \in Groups : HoldsGroup(t, g)'
    <3>1. TodoOK(t)'
      BY <2>1 DEF GroupInv, TodoOK, Members, Retires
    <3>2. \A g \in Groups : HoldsGroup(t, g)'
      BY <2>1 DEF GroupInv, HoldsGroup
    <3> QED
      BY <3>1, <3>2
  <2>4. \A g \in Groups : DoneOK(g)'
    BY <2>1 DEF GroupInv, DoneOK, Members
  <2> QED
    BY <2>2, <2>3, <2>4 DEF GroupInv
<1>2. CASE Next
  <2>1. PICK t \in Reqs : Acts(t)
    BY <1>2 DEF Next
  <2>2. OwnStep(t)
    BY <2>1, LinesActs
  <2>3. TodoOK(t)' /\ \A g \in Groups : HoldsGroup(t, g)'
    <3>1. CASE Commit(t)
      <4>1. req'[t].master = Nobody /\ \A x \in Rows : holder'[x] # t
        BY <3>1, EndsAreOwn DEF Idle
      <4> QED
        BY <4>1, RowKinds DEF TodoOK, HoldsGroup
    <3> QED
      BY <2>1, <3>1, GroupActs
  <2>4. ASSUME NEW u \in Reqs \ {t} PROVE TodoOK(u)' /\ \A g \in Groups : HoldsGroup(u, g)'
    <3>1. req'[u] = req[u] /\ TodoOK(u)
      BY <2>2 DEF OwnStep, OnlyReq, GroupInv
    <3>2. \A x \in Rows : /\ holder'[x] = u <=> holder[x] = u
                          /\ holder[x] = u => new'[x] = new[x] /\ row'[x] = row[x]
      BY <2>2 DEF OwnStep
    <3>3. \A r \in Records : Retires(u, r) => Retires(u, r)'
      BY <3>2, RowKinds DEF Retires
    <3>4. TodoOK(u)'
      <4>1. req[u].master # Nobody /\ req[u].at \in {"m_write", "m_group", "commit"} => req[u].todo = {}
        BY <3>1 DEF TodoOK
      <4>2. CASE req[u].master = Nobody
        BY <3>1, <4>2 DEF TodoOK
      <4>3. CASE req[u].master # Nobody
        BY <2>1, <3>1, <3>3, <4>1, <4>3, TodoKept
      <4> QED
        BY <4>2, <4>3
    <3>5. \A g \in Groups : HoldsGroup(u, g)'
      BY <3>1, <3>2, RowKinds DEF GroupInv, HoldsGroup
    <3> QED
      BY <3>4, <3>5
  <2>5. OneMergePerVictim' /\ \A g \in Groups : DoneOK(g)'
    <3>1. CASE Commit(t)
      BY <3>1, GroupCommit
    <3>2. CASE ~Commit(t)
      <4>1. \A g \in Groups : row'[g].st = "reviewed" => row'[g] = row[g]
        BY <2>1, <3>2, GroupRows
      <4>2. \A g \in Groups : row'[g].st = "reviewed" => Members(g)' = Members(g) /\ Members(g) \subseteq Records
        BY <4>1, GroupTypes DEF Members
      <4>3. \A r \in Records : row'[r] = row[r]
        BY <2>1, <3>2, OnlyCommits
      <4>4. OneMergePerVictim'
        BY <4>1, <4>2 DEF GroupInv, OneMergePerVictim
      <4>5. \A g \in Groups : DoneOK(g)'
        BY <4>1, <4>2, <4>3 DEF GroupInv, DoneOK
      <4> QED
        BY <4>4, <4>5
    <3> QED
      BY <3>1, <3>2
  <2> QED
    BY <2>3, <2>4, <2>5 DEF GroupInv
<1> QED
  BY <1>1, <1>2

(* A record is merged away by one merge at a time: of two merges that name *)
(* the same victim, the second finds it merged when it compares the status *)
(* (set_lifecycle), because the first holds the row until it has committed. *)
THEOREM VictimsAreNotShared ==
  ASSUME "undo" \notin Ops
  PROVE  Spec => []OneMergePerVictim
<1>1. Init => GroupInv
  <2> SUFFICES ASSUME Init PROVE GroupInv
    OBVIOUS
  <2>1. \A g \in Groups : row[g].st = "none"
    BY RowKinds DEF Init, NoGroup
  <2>2. \A t \in Reqs : req[t].master = Nobody /\ \A g \in Groups : holder[g] # t
    BY RowKinds DEF Init, Idle
  <2> QED
    BY <2>1, <2>2 DEF GroupInv, OneMergePerVictim, TodoOK, HoldsGroup, DoneOK
<1>2. TypeInv /\ MergeInv /\ LinesInv /\ GroupInv /\ [Next]_vars => GroupInv'
  BY GroupStep
<1>3. GroupInv => OneMergePerVictim
  BY DEF GroupInv
<1> QED
  BY <1>1, <1>2, <1>3, Lining, PTL DEF Spec

=============================================================================
