------------------------------ MODULE FeedProofs ------------------------------
(***************************************************************************)
(* Theorems about the published records, their events, and the consumers   *)
(* that follow them, for any number of records, change requests, merges,   *)
(* consumers and restarts, and whatever rows and forms hold.               *)
(***************************************************************************)
EXTENDS Feed, SequenceTheorems, Induction

-----------------------------------------------------------------------------
(* The event log as a sequence.                                            *)

IsLog(l) == \E S : l \in Seq(S)

(* What an append does to a sequence of whatever.                          *)
LEMMA LogAppend ==
  ASSUME NEW l, IsLog(l), NEW e
  PROVE  /\ IsLog(Append(l, e))
         /\ Len(l) \in Nat
         /\ Len(Append(l, e)) = Len(l) + 1
         /\ \A i \in 1 .. Len(l) : Append(l, e)[i] = l[i]
         /\ Append(l, e)[Len(l) + 1] = e
<1>1. PICK S : l \in Seq(S)
  BY DEF IsLog
<1>2. l \in Seq(S \cup {e})
  <2>1. l \in [1 .. Len(l) -> S] /\ Len(l) \in Nat
    BY <1>1, LenProperties
  <2> QED
    BY <2>1
<1>3. e \in S \cup {e}
  OBVIOUS
<1> QED
  BY <1>2, <1>3, AppendProperties, LenProperties DEF IsLog

-----------------------------------------------------------------------------
(* Shapes.  What rows and forms hold is left open.                         *)

IsRecord(v)   == v = [life |-> v.life, ver |-> v.ver, time |-> v.time, row |-> v.row]
IsRequest(v)  == v = [st |-> v.st, target |-> v.target, ver |-> v.ver,
                      payload |-> v.payload, deltas |-> v.deltas]

(* The records that a merge and an undo leave.                             *)
LEMMA MergedInto ==
  ASSUME NEW v, IsRecord(v), NEW row
  PROVE  [v EXCEPT !.row = row, !.ver = @ + 1]
           = [life |-> v.life, ver |-> v.ver + 1, time |-> v.time, row |-> row]
<1> DEFINE u == [v EXCEPT !.row = row, !.ver = @ + 1]
<1>1. v \in [life : {v.life}, ver : {v.ver}, time : {v.time}, row : {v.row}]
  BY DEF IsRecord
<1>2. u \in [life : {v.life}, ver : {v.ver + 1}, time : {v.time}, row : {row}]
  BY <1>1
<1> HIDE DEF u
<1>3. u = [life |-> v.life, ver |-> v.ver + 1, time |-> v.time, row |-> row]
  BY <1>2
<1> QED
  BY <1>3 DEF u

LEMMA Relived ==
  ASSUME NEW v, IsRecord(v), NEW life, NEW time
  PROVE  [v EXCEPT !.life = life, !.ver = @ + 1, !.time = time]
           = [life |-> life, ver |-> v.ver + 1, time |-> time, row |-> v.row]
<1> DEFINE u == [v EXCEPT !.life = life, !.ver = @ + 1, !.time = time]
<1>1. v \in [life : {v.life}, ver : {v.ver}, time : {v.time}, row : {v.row}]
  BY DEF IsRecord
<1>2. u \in [life : {life}, ver : {v.ver + 1}, time : {time}, row : {v.row}]
  BY <1>1
<1> HIDE DEF u
<1>3. u = [life |-> life, ver |-> v.ver + 1, time |-> time, row |-> v.row]
  BY <1>2
<1> QED
  BY <1>3 DEF u

(* Records, requests and the log have their shapes, requests and merges    *)
(* are about records, versions are numbers.                                *)
ShapeOK ==
  /\ rec = [r \in Records |-> rec[r]]
  /\ \A r \in Records : IsRecord(rec[r]) /\ rec[r].ver \in Nat
  /\ cr = [c \in Crs |-> cr[c]]
  /\ \A c \in Crs : IsRequest(cr[c]) /\ cr[c].target \in Records \cup {0}
  /\ \A c \in Crs : cr[c].st = "activating" => cr[c].target \in Records
  /\ merge # NoMerge => merge.master \in Records
  /\ told \in [Records -> BOOLEAN]
  /\ IsLog(log)

(* No event is ahead of its record.                                        *)
EventsBehind ==
  \A i \in 1 .. Newest :
    /\ log[i].rec \in Records
    /\ log[i].ver \in Nat /\ log[i].ver <= rec[log[i].rec].ver
    /\ rec[log[i].rec].life # "absent"

DataOK == ShapeOK /\ EventsBehind /\ EventsTellTheRecord

(* Records is a set of positive numbers.                                   *)
LEMMA NoRecordZero == 0 \notin Records
BY MasterDataAssumption DEF MasterDataAssumption

(* The first state is in order.                                            *)
LEMMA DataInit == Init => DataOK
<1> SUFFICES ASSUME Init PROVE DataOK
  OBVIOUS
<1>1. Len(log) = 0 /\ IsLog(log)
  <2>1. log = << >> /\ << >> \in Seq({}) /\ Len(<< >>) = 0
    BY DEF Init
  <2> QED
    BY <2>1 DEF IsLog
<1>2. ShapeOK
  <2>1. \A r \in Records : IsRecord(rec[r]) /\ rec[r].ver \in Nat
    BY DEF Init, IsRecord
  <2>2. \A c \in Crs : IsRequest(cr[c]) /\ cr[c].target = 0 /\ cr[c].st = "none"
    BY DEF Init, NoCr, IsRequest
  <2> QED
    BY <1>1, <2>1, <2>2 DEF Init, ShapeOK
<1>3. EventsBehind /\ EventsTellTheRecord
  BY <1>1 DEF EventsBehind, EventsTellTheRecord, Newest
<1> QED
  BY <1>2, <1>3 DEF DataOK

(* A step that changes neither records, log nor told, keeps the events in  *)
(* order.                                                                  *)
LEMMA EventsStay ==
  ASSUME DataOK, UNCHANGED <<rec, log, told>>
  PROVE  EventsBehind' /\ EventsTellTheRecord'
BY DEF DataOK, EventsBehind, EventsTellTheRecord, Newest

(* A step that appends the event e: it changes the records that the event  *)
(* is about, raises the versions of those that were there, and the event   *)
(* tells one of them, while it merges the others away.                     *)
Of(e) == {e.rec} \cup e.gone

Tells(e) ==
  /\ Of(e) \subseteq Records
  /\ e.type \in {"created", "updated", "merged"}
  /\ log' = Append(log, e)
  /\ \A r \in Records \ Of(e) : rec'[r] = rec[r] /\ told'[r] = told[r]
  /\ \A r \in Of(e) :
       /\ rec'[r].life = IF r = e.rec THEN "published" ELSE "merged"
       /\ rec[r].life = "absent" \/ rec'[r].ver > rec[r].ver
  /\ e.ver = rec'[e.rec].ver /\ e.row = rec'[e.rec].row

(* Such a step keeps the events in order.                                  *)
LEMMA EventsAppended ==
  ASSUME DataOK, ShapeOK', NEW e, Tells(e)
  PROVE  EventsBehind' /\ EventsTellTheRecord'
<1> DEFINE R == Of(e)
<1>0. /\ R \subseteq Records /\ e.rec \in R /\ e.rec \in Records
      /\ log' = Append(log, e)
      /\ \A r \in Records \ R : rec'[r] = rec[r] /\ told'[r] = told[r]
      /\ \A r \in R : rec'[r].life # "absent"
      /\ \A r \in R : rec[r].life = "absent" \/ rec'[r].ver > rec[r].ver
      /\ \A r \in R \ {e.rec} : rec'[r].life = "merged"
      /\ e.ver = rec'[e.rec].ver /\ e.row = rec'[e.rec].row
  BY DEF Tells, Of
<1> HIDE DEF R
<1>1. /\ Newest \in Nat /\ Newest' = Newest + 1
      /\ \A i \in 1 .. Newest : log'[i] = log[i]
      /\ log'[Newest + 1] = e
  BY <1>0, LogAppend DEF DataOK, ShapeOK, Newest
<1>2. \A i \in 1 .. Newest' : i \in 1 .. Newest \/ i = Newest + 1
  BY <1>1
<1>3. \A r \in Records : rec[r].ver \in Nat /\ rec'[r].ver \in Nat
  BY DEF DataOK, ShapeOK
<1>4. ASSUME NEW i \in 1 .. Newest
      PROVE  /\ log[i].rec \in Records /\ log[i].ver \in Nat
             /\ log[i].ver <= rec'[log[i].rec].ver
             /\ rec'[log[i].rec].life # "absent"
             /\ log[i].rec \in R => log[i].ver < rec'[log[i].rec].ver
  <2>1. /\ log[i].rec \in Records /\ log[i].ver \in Nat
        /\ log[i].ver <= rec[log[i].rec].ver /\ rec[log[i].rec].life # "absent"
    BY DEF DataOK, EventsBehind
  <2> QED
    BY <1>0, <1>3, <2>1
<1>5. EventsBehind'
  BY <1>0, <1>1, <1>2, <1>3, <1>4 DEF EventsBehind
<1>6. ASSUME NEW i \in 1 .. Newest', NEW j \in 1 .. Newest', i < j, log'[i].rec = log'[j].rec
      PROVE  log'[i].ver < log'[j].ver
  <2>1. i \in 1 .. Newest
    BY <1>1, <1>6
  <2>2. CASE j \in 1 .. Newest
    BY <1>1, <1>6, <2>1, <2>2 DEF DataOK, EventsTellTheRecord
  <2>3. CASE j = Newest + 1
    <3>1. log[i].rec \in R /\ log[i].rec = e.rec /\ log'[i] = log[i] /\ log'[j] = e
      BY <1>0, <1>1, <1>6, <2>1, <2>3
    <3>2. log[i].ver < rec'[log[i].rec].ver
      BY <1>4, <2>1, <3>1
    <3> QED
      BY <1>0, <3>1, <3>2
  <2> QED
    BY <1>2, <2>2, <2>3
<1>7. ASSUME NEW i \in 1 .. Newest',
             told'[log'[i].rec], rec'[log'[i].rec].life = "published",
             \A j \in i + 1 .. Newest' : log'[j].rec # log'[i].rec
      PROVE  log'[i].ver = rec'[log'[i].rec].ver /\ log'[i].row = rec'[log'[i].rec].row
  <2>1. CASE i = Newest + 1
    BY <1>0, <1>1, <2>1
  <2>2. CASE i \in 1 .. Newest
    <3>n. i \in Nat /\ i >= 1 /\ i <= Newest
      BY <1>1, <2>2
    <3>i. log'[i] = log[i]
      BY <1>1, <2>2
    <3>e. Newest + 1 \in i + 1 .. Newest'
      BY <1>1, <3>n
    <3>j. ASSUME NEW j \in i + 1 .. Newest
          PROVE  j \in i + 1 .. Newest' /\ log'[j] = log[j]
      <4>1. j \in 1 .. Newest /\ j \in i + 1 .. Newest'
        BY <1>1, <3>n
      <4> QED
        BY <1>1, <4>1
    <3>1. log[i].rec # e.rec
      <4>1. log'[Newest + 1].rec # log'[i].rec
        BY <1>7, <3>e
      <4> QED
        BY <1>1, <3>i, <4>1
    <3>2. log[i].rec \in Records \ R
      BY <1>0, <1>4, <1>7, <2>2, <3>i, <3>1
    <3>3. \A j \in i + 1 .. Newest : log[j].rec # log[i].rec
      BY <1>7, <3>i, <3>j
    <3>4. rec'[log[i].rec] = rec[log[i].rec] /\ told'[log[i].rec] = told[log[i].rec]
      BY <1>0, <3>2
    <3>5. log[i].ver = rec[log[i].rec].ver /\ log[i].row = rec[log[i].rec].row
      BY <1>7, <2>2, <3>i, <3>3, <3>4 DEF DataOK, EventsTellTheRecord
    <3> QED
      BY <3>i, <3>4, <3>5
  <2> QED
    BY <1>2, <2>1, <2>2
<1> QED
  BY <1>5, <1>6, <1>7 DEF EventsTellTheRecord

-----------------------------------------------------------------------------
(* What the steps that write leave.                                        *)

(* A request that changes its status keeps what it carries.                *)
LEMMA StatusMoves ==
  ASSUME ShapeOK, NEW c \in Crs, NEW st, cr' = [cr EXCEPT ![c].st = st]
  PROVE  /\ cr'[c] = [st |-> st, target |-> cr[c].target, ver |-> cr[c].ver,
                      payload |-> cr[c].payload, deltas |-> cr[c].deltas]
         /\ \A d \in Crs \ {c} : cr'[d] = cr[d]
BY DEF ShapeOK, IsRequest

LEMMA Created ==
  ASSUME ShapeOK, NEW c \in Crs, ActivateCreate(c)
  PROVE  \E r \in Records : LET row == Written(Blank, PlanCreate(cr[c])) IN
         /\ rec[r].life = "absent"
         /\ rec'[r] = [life |-> "published", ver |-> 1, time |-> clock + 1, row |-> row]
         /\ \A q \in Records \ {r} : rec'[q] = rec[q]
         /\ log' = Append(log, Event("created", r, 1, row, {}))
         /\ UNCHANGED <<merge, told>>
<1> DEFINE r == NewId
           row == Written(Blank, PlanCreate(cr[c]))
           new == [life |-> "published", ver |-> 1, time |-> clock + 1, row |-> row]
<1>1. r \in Records /\ rec[r].life = "absent"
  BY DEF ActivateCreate, NewId
<1>2. /\ rec' = [rec EXCEPT ![r] = new]
      /\ log' = Append(log, Event("created", r, 1, row, {}))
      /\ UNCHANGED <<merge, told>>
  BY DEF ActivateCreate
<1> HIDE DEF r, row, new
<1>3. rec'[r] = new /\ \A q \in Records \ {r} : rec'[q] = rec[q]
  BY <1>1, <1>2 DEF ShapeOK
<1> QED
  BY <1>1, <1>2, <1>3 DEF row, new

LEMMA Updated ==
  ASSUME ShapeOK, NEW c \in Crs, ActivateUpdate(c), Updatable(cr[c].target, cr[c].ver)
  PROVE  LET r == cr[c].target
             row == Written(rec[r].row, PlanUpdate(cr[c])) IN
         /\ r \in Records /\ merge.master # r
         /\ rec[r].life = "published" /\ rec[r].ver = cr[c].ver
         /\ rec'[r] = [life |-> rec[r].life, ver |-> rec[r].ver + 1, time |-> rec[r].time, row |-> row]
         /\ \A q \in Records \ {r} : rec'[q] = rec[q] /\ told'[q] = told[q]
         /\ log' = Append(log, Event("updated", r, rec[r].ver + 1, row, {}))
         /\ cr' = [cr EXCEPT ![c].st = "activated"]
         /\ UNCHANGED <<merge, clock>>
<1> DEFINE r == cr[c].target
           row == Written(rec[r].row, PlanUpdate(cr[c]))
           ver == cr[c].ver + 1
<1>1. r \in Records /\ IsRecord(rec[r]) /\ rec[r].ver \in Nat
  BY DEF ActivateUpdate, ShapeOK
<1>2. /\ rec' = [rec EXCEPT ![r].row = row, ![r].ver = ver]
      /\ log' = Append(log, Event("updated", r, ver, row, {}))
      /\ told' = [told EXCEPT ![r] = TRUE]
      /\ cr' = [cr EXCEPT ![c].st = "activated"]
      /\ UNCHANGED <<merge, clock>> /\ merge.master # r
  BY DEF ActivateUpdate, Locked
<1>3. rec[r].life = "published" /\ rec[r].ver = cr[c].ver /\ ver = rec[r].ver + 1
  BY DEF Updatable
<1> HIDE DEF row, ver
<1>4. rec'[r] = [life |-> rec[r].life, ver |-> ver, time |-> rec[r].time, row |-> row]
  BY <1>1, <1>2 DEF ShapeOK, IsRecord
<1>5. \A q \in Records \ {r} : rec'[q] = rec[q] /\ told'[q] = told[q]
  BY <1>1, <1>2 DEF ShapeOK
<1> HIDE DEF r
<1>6. rec'[r] = [life |-> rec[r].life, ver |-> rec[r].ver + 1, time |-> rec[r].time, row |-> row]
  BY <1>3, <1>4
<1>7. log' = Append(log, Event("updated", r, rec[r].ver + 1, row, {}))
  BY <1>2, <1>3
<1> QED
  BY <1>1, <1>2, <1>3, <1>5, <1>6, <1>7 DEF r, row

LEMMA Merged ==
  ASSUME ShapeOK, NEW o, MergeWrite(o)
  PROVE  /\ merge # NoMerge /\ merge' = NoMerge /\ clock' = clock + 1
         /\ merge.master \in Records /\ merge.victims \subseteq Published
         /\ rec[merge.master].life = "published" /\ rec[merge.master].ver = merge.ver
         /\ \E order \in SetToSeqs(merge.victims) :
              LET m == merge.master
                  row == Written(Survivors(merge.seen, m, order), o) IN
              /\ rec'[m] = [life |-> rec[m].life, ver |-> rec[m].ver + 1, time |-> rec[m].time, row |-> row]
              /\ log' = Append(log, Event("merged", m, rec[m].ver + 1, row, merge.victims))
         /\ \A r \in merge.victims \ {merge.master} :
              rec'[r] = [life |-> "merged", ver |-> rec[r].ver + 1, time |-> clock + 1, row |-> rec[r].row]
         /\ \A r \in Records \ (merge.victims \cup {merge.master}) : rec'[r] = rec[r] /\ told'[r] = told[r]
         /\ UNCHANGED cr
<1> DEFINE m == merge.master
<1>1. PICK order \in SetToSeqs(merge.victims) :
        LET row == Written(Survivors(merge.seen, m, order), o) IN
        /\ rec' = [r \in Records |->
                     IF r = m THEN [rec[m] EXCEPT !.row = row, !.ver = @ + 1]
                     ELSE IF r \in merge.victims
                       THEN [rec[r] EXCEPT !.life = "merged", !.ver = @ + 1, !.time = clock + 1]
                     ELSE rec[r]]
        /\ log' = Append(log, Event("merged", m, merge.ver + 1, row, merge.victims))
  BY DEF MergeWrite
<1> DEFINE row == Written(Survivors(merge.seen, m, order), o)
<1>2. /\ merge # NoMerge /\ merge' = NoMerge /\ clock' = clock + 1 /\ UNCHANGED cr
      /\ merge.victims \subseteq Published /\ rec[m].life = "published" /\ rec[m].ver = merge.ver
      /\ told' = [r \in Records |-> told[r] \/ r = m \/ r \in merge.victims]
  BY DEF MergeWrite, Updatable
<1>3. m \in Records /\ merge.victims \subseteq Records /\ told \in [Records -> BOOLEAN]
      /\ \A r \in Records : IsRecord(rec[r])
  BY <1>2 DEF ShapeOK, Published
<1> HIDE DEF row
<1>4. rec' = [r \in Records |->
                IF r = m THEN [rec[m] EXCEPT !.row = row, !.ver = @ + 1]
                ELSE IF r \in merge.victims
                  THEN [rec[r] EXCEPT !.life = "merged", !.ver = @ + 1, !.time = clock + 1]
                ELSE rec[r]]
      /\ log' = Append(log, Event("merged", m, rec[m].ver + 1, row, merge.victims))
  BY <1>1, <1>2 DEF row
<1> HIDE DEF m
<1>5. rec'[m] = [life |-> rec[m].life, ver |-> rec[m].ver + 1, time |-> rec[m].time, row |-> row]
  <2>1. rec'[m] = [rec[m] EXCEPT !.row = row, !.ver = @ + 1]
    BY <1>3, <1>4
  <2>2. [rec[m] EXCEPT !.row = row, !.ver = @ + 1]
          = [life |-> rec[m].life, ver |-> rec[m].ver + 1, time |-> rec[m].time, row |-> row]
    BY <1>3, MergedInto
  <2> QED
    BY <2>1, <2>2
<1>6. ASSUME NEW r \in merge.victims \ {m}
      PROVE  rec'[r] = [life |-> "merged", ver |-> rec[r].ver + 1, time |-> clock + 1, row |-> rec[r].row]
  <2>1. rec'[r] = [rec[r] EXCEPT !.life = "merged", !.ver = @ + 1, !.time = clock + 1]
    BY <1>3, <1>4, <1>6
  <2>2. [rec[r] EXCEPT !.life = "merged", !.ver = @ + 1, !.time = clock + 1]
          = [life |-> "merged", ver |-> rec[r].ver + 1, time |-> clock + 1, row |-> rec[r].row]
    BY <1>3, Relived
  <2> QED
    BY <2>1, <2>2
<1>7. \A r \in Records \ (merge.victims \cup {m}) : rec'[r] = rec[r] /\ told'[r] = told[r]
  BY <1>2, <1>3, <1>4
<1> QED
  BY <1>2, <1>3, <1>4, <1>5, <1>6, <1>7 DEF m, row

LEMMA Undone ==
  ASSUME ShapeOK, NEW v \in Records, Undo(v)
  PROVE  /\ rec[v].life = "merged"
         /\ rec'[v] = [life |-> "published", ver |-> rec[v].ver + 1, time |-> clock + 1, row |-> rec[v].row]
         /\ \A r \in Records \ {v} : rec'[r] = rec[r] /\ told'[r] = told[r]
         /\ ~told'[v] /\ clock' = clock + 1
         /\ UNCHANGED <<cr, merge, log>>
<1>1. /\ rec[v].life = "merged" /\ clock' = clock + 1
      /\ rec' = [rec EXCEPT ![v].life = "published", ![v].ver = @ + 1, ![v].time = clock + 1]
      /\ told' = [told EXCEPT ![v] = FALSE]
      /\ UNCHANGED <<cr, merge, log>>
  BY DEF Undo
<1>2. rec'[v] = [rec[v] EXCEPT !.life = "published", !.ver = @ + 1, !.time = clock + 1]
  BY <1>1 DEF ShapeOK
<1>3. [rec[v] EXCEPT !.life = "published", !.ver = @ + 1, !.time = clock + 1]
        = [life |-> "published", ver |-> rec[v].ver + 1, time |-> clock + 1, row |-> rec[v].row]
  BY Relived DEF ShapeOK
<1>4. (\A r \in Records \ {v} : rec'[r] = rec[r] /\ told'[r] = told[r]) /\ ~told'[v]
  BY <1>1 DEF ShapeOK
<1> QED
  BY <1>1, <1>2, <1>3, <1>4

-----------------------------------------------------------------------------
(* The steps that write an event.                                          *)

LEMMA CreateTells ==
  ASSUME ShapeOK, NEW c \in Crs, ActivateCreate(c)
  PROVE  \E e : Tells(e) /\ e.gone = {}
<1> DEFINE row == Written(Blank, PlanCreate(cr[c]))
<1>1. PICK r \in Records :
        /\ rec[r].life = "absent"
        /\ rec'[r] = [life |-> "published", ver |-> 1, time |-> clock + 1, row |-> row]
        /\ \A q \in Records \ {r} : rec'[q] = rec[q]
        /\ log' = Append(log, Event("created", r, 1, row, {}))
        /\ UNCHANGED <<merge, told>>
  BY Created
<1> DEFINE e == Event("created", r, 1, row, {})
<1> HIDE DEF row
<1>2. /\ Of(e) = {r} /\ e.rec = r /\ e.type = "created" /\ e.ver = 1 /\ e.row = row
      /\ e.gone = {}
  BY DEF Event, Of
<1>3. log' = Append(log, e)
  BY <1>1
<1> HIDE DEF e
<1>4. Tells(e)
  BY <1>1, <1>2, <1>3 DEF Tells
<1> QED
  BY <1>2, <1>4

LEMMA UpdateTells ==
  ASSUME ShapeOK, NEW c \in Crs, ActivateUpdate(c), Updatable(cr[c].target, cr[c].ver)
  PROVE  \E e : Tells(e) /\ e.gone = {}
<1> DEFINE r == cr[c].target
           row == Written(rec[r].row, PlanUpdate(cr[c]))
           e == Event("updated", r, rec[r].ver + 1, row, {})
<1>1. /\ r \in Records /\ rec[r].life = "published"
      /\ rec'[r] = [life |-> rec[r].life, ver |-> rec[r].ver + 1, time |-> rec[r].time, row |-> row]
      /\ \A q \in Records \ {r} : rec'[q] = rec[q] /\ told'[q] = told[q]
      /\ log' = Append(log, e)
  BY Updated
<1> HIDE DEF row, r
<1>2. /\ Of(e) = {r} /\ e.rec = r /\ e.type = "updated" /\ e.ver = rec[r].ver + 1 /\ e.row = row
      /\ e.gone = {}
  BY DEF Event, Of
<1> HIDE DEF e
<1>3. rec[r].ver \in Nat
  BY <1>1 DEF ShapeOK
<1>4. Tells(e)
  BY <1>1, <1>2, <1>3 DEF Tells
<1> QED
  BY <1>2, <1>4

LEMMA MergeTells ==
  ASSUME ShapeOK, NEW o, MergeWrite(o)
  PROVE  \E e : Tells(e) /\ e.rec = merge.master /\ e.gone = merge.victims
<1> DEFINE m == merge.master
           V == merge.victims
<1>1. /\ m \in Records /\ V \subseteq Records /\ rec[m].life = "published"
      /\ \A r \in V \ {m} :
           rec'[r] = [life |-> "merged", ver |-> rec[r].ver + 1, time |-> clock + 1, row |-> rec[r].row]
      /\ \A r \in Records \ (V \cup {m}) : rec'[r] = rec[r] /\ told'[r] = told[r]
  BY Merged DEF Published
<1>2. PICK row :
        /\ rec'[m] = [life |-> rec[m].life, ver |-> rec[m].ver + 1, time |-> rec[m].time, row |-> row]
        /\ log' = Append(log, Event("merged", m, rec[m].ver + 1, row, V))
  BY Merged
<1> DEFINE e == Event("merged", m, rec[m].ver + 1, row, V)
<1> HIDE DEF m, V
<1>3. e.rec = m /\ e.gone = V /\ Of(e) = {m} \cup V /\ e.type = "merged"
      /\ e.ver = rec[m].ver + 1 /\ e.row = row
  BY DEF Event, Of
<1>4. log' = Append(log, e)
  BY <1>2
<1> HIDE DEF e
<1>5. \A r \in Records : rec[r].ver \in Nat
  BY DEF ShapeOK
<1>6. ASSUME NEW r \in Of(e)
      PROVE  /\ rec'[r].life = IF r = e.rec THEN "published" ELSE "merged"
             /\ rec'[r].ver > rec[r].ver
  <2>1. CASE r = m
    BY <1>1, <1>2, <1>3, <1>5, <2>1
  <2>2. CASE r \in V \ {m}
    <3>1. rec'[r] = [life |-> "merged", ver |-> rec[r].ver + 1, time |-> clock + 1, row |-> rec[r].row]
      BY <1>1, <2>2
    <3>2. rec'[r].life = "merged" /\ rec'[r].ver = rec[r].ver + 1 /\ rec[r].ver \in Nat
      BY <1>1, <1>5, <2>2, <3>1
    <3> QED
      BY <1>3, <2>2, <3>2
  <2> QED
    BY <1>3, <2>1, <2>2
<1>7. Tells(e)
  <2>1. e.ver = rec'[e.rec].ver /\ e.row = rec'[e.rec].row
    BY <1>2, <1>3
  <2>2. \A r \in Records \ Of(e) : rec'[r] = rec[r] /\ told'[r] = told[r]
    BY <1>1, <1>3
  <2> QED
    BY <1>1, <1>3, <1>4, <1>6, <2>1, <2>2 DEF Tells
<1> QED
  BY <1>3, <1>7 DEF m, V

(* A step that changes records, requests and the log keeps their shapes.   *)
LEMMA RecordsKeepShape ==
  ASSUME ShapeOK, NEW R, \A r \in Records \ R : rec'[r] = rec[r],
         \A r \in R \cap Records : \E life, time, row :
           rec'[r] = [life |-> life, ver |-> rec[r].ver + 1, time |-> time, row |-> row]
  PROVE  \A r \in Records : IsRecord(rec'[r]) /\ rec'[r].ver \in Nat
<1> SUFFICES ASSUME NEW r \in Records PROVE IsRecord(rec'[r]) /\ rec'[r].ver \in Nat
  OBVIOUS
<1>1. IsRecord(rec[r]) /\ rec[r].ver \in Nat
  BY DEF ShapeOK
<1>2. CASE r \in R
  <2>1. PICK life, time, row :
          rec'[r] = [life |-> life, ver |-> rec[r].ver + 1, time |-> time, row |-> row]
    BY <1>2
  <2>2. IsRecord(rec'[r]) /\ rec'[r].ver = rec[r].ver + 1
    BY <2>1 DEF IsRecord
  <2> QED
    BY <1>1, <2>2
<1>3. CASE r \notin R
  BY <1>1, <1>3
<1> QED
  BY <1>2, <1>3

LEMMA LogKeepsShape ==
  ASSUME ShapeOK, NEW e, Tells(e)
  PROVE  IsLog(log')
BY LogAppend DEF Tells, ShapeOK

(* A request that changes its status stays a request.                      *)
LEMMA RequestMoves ==
  ASSUME ShapeOK, NEW c \in Crs, NEW st, cr' = [cr EXCEPT ![c].st = st],
         st # "activating"
  PROVE  /\ cr' = [d \in Crs |-> cr'[d]]
         /\ \A d \in Crs : IsRequest(cr'[d]) /\ cr'[d].target \in Records \cup {0}
         /\ \A d \in Crs : cr'[d].st = "activating" => cr'[d].target \in Records
<1>1. cr'[c] = [st |-> st, target |-> cr[c].target, ver |-> cr[c].ver,
                payload |-> cr[c].payload, deltas |-> cr[c].deltas]
  BY DEF ShapeOK, IsRequest
<1>2. \A d \in Crs \ {c} : cr'[d] = cr[d]
  BY DEF ShapeOK
<1>3. cr' = [d \in Crs |-> cr'[d]]
  BY DEF ShapeOK
<1>4. IsRequest(cr'[c]) /\ cr'[c].target = cr[c].target /\ cr'[c].st = st
  BY <1>1 DEF IsRequest
<1> QED
  BY <1>2, <1>3, <1>4 DEF ShapeOK

(* A new record has a new id, and its event is its first.                  *)
LEMMA CreateStep ==
  ASSUME DataOK, NEW c \in Crs, ActivateCreate(c)
  PROVE  DataOK'
<1>0. ShapeOK
  BY DEF DataOK
<1>1. PICK e : Tells(e)
  BY <1>0, CreateTells
<1>2. PICK r, row :
        /\ r \in Records
        /\ rec'[r] = [life |-> "published", ver |-> 1, time |-> clock + 1, row |-> row]
        /\ \A q \in Records \ {r} : rec'[q] = rec[q]
        /\ UNCHANGED <<merge, told>>
  BY <1>0, Created
<1>3. cr' = [cr EXCEPT ![c].st = "activated"] /\ rec' = [q \in Records |-> rec'[q]]
  BY <1>0 DEF ActivateCreate, ShapeOK
<1>4. \A q \in Records : IsRecord(rec'[q]) /\ rec'[q].ver \in Nat
  <2>1. IsRecord(rec'[r]) /\ rec'[r].ver = 1
    BY <1>2 DEF IsRecord
  <2> QED
    BY <1>0, <1>2, <2>1 DEF ShapeOK
<1>5. ShapeOK'
  BY <1>0, <1>1, <1>2, <1>3, <1>4, RequestMoves, LogKeepsShape DEF ShapeOK
<1> QED
  BY <1>1, <1>5, EventsAppended DEF DataOK

(* An update raises the version that it found.                             *)
LEMMA UpdateStep ==
  ASSUME DataOK, NEW c \in Crs, ActivateUpdate(c)
  PROVE  DataOK'
<1> DEFINE r == cr[c].target
<1>0. ShapeOK
  BY DEF DataOK
<1>1. CASE Updatable(r, cr[c].ver)
  <2>1. PICK e : Tells(e)
    BY <1>0, <1>1, UpdateTells
  <2>2. PICK row :
          /\ r \in Records
          /\ rec'[r] = [life |-> rec[r].life, ver |-> rec[r].ver + 1, time |-> rec[r].time, row |-> row]
          /\ \A q \in Records \ {r} : rec'[q] = rec[q]
          /\ cr' = [cr EXCEPT ![c].st = "activated"] /\ UNCHANGED merge
    BY <1>0, <1>1, Updated
  <2>3. rec' = [q \in Records |-> rec'[q]] /\ told' \in [Records -> BOOLEAN]
    BY <1>0, <1>1 DEF ActivateUpdate, ShapeOK
  <2> HIDE DEF r
  <2>4. \A q \in Records : IsRecord(rec'[q]) /\ rec'[q].ver \in Nat
    <3>1. \A q \in {r} \cap Records : \E life, time, line :
            rec'[q] = [life |-> life, ver |-> rec[q].ver + 1, time |-> time, row |-> line]
      BY <2>2
    <3> QED
      BY <1>0, <2>2, <3>1, RecordsKeepShape
  <2>5. ShapeOK'
    BY <1>0, <2>1, <2>2, <2>3, <2>4, RequestMoves, LogKeepsShape DEF ShapeOK
  <2> QED
    BY <2>1, <2>5, EventsAppended DEF DataOK
<1>2. CASE ~Updatable(r, cr[c].ver)
  <2>1. cr' = [cr EXCEPT ![c].st = "approved"] /\ UNCHANGED <<rec, log, told, merge>>
    BY <1>2 DEF ActivateUpdate
  <2>2. ShapeOK'
    BY <1>0, <2>1, RequestMoves DEF ShapeOK
  <2> QED
    BY <2>1, <2>2, EventsStay DEF DataOK
<1> QED
  BY <1>1, <1>2

(* A merge raises its master's version, and merges its victims away.       *)
LEMMA MergeStep ==
  ASSUME DataOK, NEW o, MergeWrite(o)
  PROVE  DataOK'
<1> DEFINE m == merge.master
           V == merge.victims
<1>0. ShapeOK
  BY DEF DataOK
<1>1. PICK e : Tells(e)
  BY <1>0, MergeTells
<1>2. /\ m \in Records /\ merge' = NoMerge /\ UNCHANGED cr
      /\ \A r \in V \ {m} :
           rec'[r] = [life |-> "merged", ver |-> rec[r].ver + 1, time |-> clock + 1, row |-> rec[r].row]
      /\ \A r \in Records \ (V \cup {m}) : rec'[r] = rec[r]
  BY <1>0, Merged
<1>3. PICK row : rec'[m] = [life |-> rec[m].life, ver |-> rec[m].ver + 1, time |-> rec[m].time, row |-> row]
  BY <1>0, Merged
<1>4. rec' = [r \in Records |-> rec'[r]] /\ told' \in [Records -> BOOLEAN]
  BY <1>0 DEF MergeWrite, ShapeOK
<1> HIDE DEF m, V
<1>5. \A r \in Records : IsRecord(rec'[r]) /\ rec'[r].ver \in Nat
  <2>1. \A r \in (V \cup {m}) \cap Records : \E life, time, line :
          rec'[r] = [life |-> life, ver |-> rec[r].ver + 1, time |-> time, row |-> line]
    <3>1. ASSUME NEW r \in V \ {m}
          PROVE  \E life, time, line :
            rec'[r] = [life |-> life, ver |-> rec[r].ver + 1, time |-> time, row |-> line]
      <4>1. rec'[r] = [life |-> "merged", ver |-> rec[r].ver + 1, time |-> clock + 1, row |-> rec[r].row]
        BY <1>2
      <4> QED
        BY <4>1
    <3>2. \E life, time, line :
            rec'[m] = [life |-> life, ver |-> rec[m].ver + 1, time |-> time, row |-> line]
      BY <1>3
    <3> QED
      BY <3>1, <3>2
  <2> QED
    BY <1>0, <1>2, <2>1, RecordsKeepShape
<1>6. ShapeOK'
  BY <1>0, <1>1, <1>2, <1>4, <1>5, LogKeepsShape DEF ShapeOK
<1> QED
  BY <1>1, <1>6, EventsAppended DEF DataOK

(* An undo changes a record of which it writes no event.                   *)
LEMMA UndoStep ==
  ASSUME DataOK, NEW v \in Records, Undo(v)
  PROVE  DataOK'
<1>2. /\ \A r \in Records : IsRecord(rec[r]) /\ rec[r].ver \in Nat
      /\ rec = [r \in Records |-> rec[r]] /\ told \in [Records -> BOOLEAN]
  BY DEF DataOK, ShapeOK
<1>1. /\ rec'[v] = [life |-> "published", ver |-> rec[v].ver + 1, time |-> clock + 1, row |-> rec[v].row]
      /\ \A r \in Records \ {v} : rec'[r] = rec[r] /\ told'[r] = told[r]
      /\ ~told'[v]
      /\ UNCHANGED <<cr, merge, log>>
  BY Undone DEF DataOK
<1>4. \A r \in Records \ {v} : rec'[r] = rec[r] /\ told'[r] = told[r]
  BY <1>1
<1>5. rec' = [r \in Records |-> rec'[r]] /\ told' \in [Records -> BOOLEAN] /\ ~told'[v]
  BY <1>1, <1>2 DEF Undo
<1>6. IsRecord(rec'[v]) /\ rec'[v].ver = rec[v].ver + 1 /\ rec'[v].life = "published"
  BY <1>1 DEF IsRecord
<1>7. ShapeOK'
  BY <1>1, <1>2, <1>4, <1>5, <1>6 DEF DataOK, ShapeOK
<1>8. EventsBehind'
  <2> SUFFICES ASSUME NEW i \in 1 .. Newest'
               PROVE  /\ log'[i].rec \in Records
                      /\ log'[i].ver \in Nat /\ log'[i].ver <= rec'[log'[i].rec].ver
                      /\ rec'[log'[i].rec].life # "absent"
    BY DEF EventsBehind
  <2>1. /\ log'[i] = log[i] /\ log[i].rec \in Records /\ log[i].ver \in Nat
        /\ log[i].ver <= rec[log[i].rec].ver /\ rec[log[i].rec].life # "absent"
    BY <1>1 DEF DataOK, EventsBehind, Newest
  <2>2. CASE log[i].rec = v
    BY <1>2, <1>6, <2>1, <2>2
  <2>3. CASE log[i].rec # v
    BY <1>4, <2>1, <2>3
  <2> QED
    BY <2>2, <2>3
<1>9. EventsTellTheRecord'
  <2>1. \A i \in 1 .. Newest : log[i].rec \in Records
    BY DEF DataOK, EventsBehind
  <2>2. ASSUME NEW i \in 1 .. Newest, told'[log[i].rec]
        PROVE  told[log[i].rec] /\ rec'[log[i].rec] = rec[log[i].rec]
    BY <1>4, <1>5, <2>1, <2>2
  <2>3. log' = log /\ Newest' = Newest
    BY <1>1 DEF Newest
  <2>4. \A i, j \in 1 .. Newest' : i < j /\ log'[i].rec = log'[j].rec => log'[i].ver < log'[j].ver
    BY <2>3 DEF DataOK, EventsTellTheRecord
  <2>5. ASSUME NEW i \in 1 .. Newest',
               told'[log'[i].rec], rec'[log'[i].rec].life = "published",
               \A j \in i + 1 .. Newest' : log'[j].rec # log'[i].rec
        PROVE  log'[i].ver = rec'[log'[i].rec].ver /\ log'[i].row = rec'[log'[i].rec].row
    <3>1. told[log[i].rec] /\ rec'[log[i].rec] = rec[log[i].rec]
      BY <2>2, <2>3, <2>5
    <3>2. log[i].ver = rec[log[i].rec].ver /\ log[i].row = rec[log[i].rec].row
      BY <2>3, <2>5, <3>1 DEF DataOK, EventsTellTheRecord
    <3> QED
      BY <2>3, <3>1, <3>2
  <2> QED
    BY <2>4, <2>5 DEF EventsTellTheRecord
<1> QED
  BY <1>7, <1>8, <1>9 DEF DataOK

(* The other steps of MasterData leave records, log and told alone.        *)
LEMMA QuietStep ==
  ASSUME DataOK,
         \/ \E c \in Crs : Fill(c) \/ ActivateRead(c)
         \/ \E m \in Records, victims \in Victims : MergeRead(m, victims)
         \/ MergeFails
  PROVE  DataOK'
<1>1. UNCHANGED <<rec, log, told>>
  BY DEF Fill, ActivateRead, MergeRead, MergeFails
<1>2. ASSUME NEW c \in Crs, Fill(c)
      PROVE  ShapeOK'
  <2>1. PICK v :
          /\ cr' = [cr EXCEPT ![c] = v]
          /\ IsRequest(v) /\ v.st = "approved" /\ v.target \in Records \cup {0}
    <3>1. CASE \E f \in NewForms :
                 cr' = [cr EXCEPT ![c] = [NoCr EXCEPT !.st = "approved", !.payload = f]]
      <4>1. PICK f \in NewForms :
              cr' = [cr EXCEPT ![c] = [NoCr EXCEPT !.st = "approved", !.payload = f]]
        BY <3>1
      <4> DEFINE v == [NoCr EXCEPT !.st = "approved", !.payload = f]
      <4>2. v \in [st : {"approved"}, target : {0}, ver : {0}, payload : {f}, deltas : {<<>>}]
        BY DEF NoCr
      <4> HIDE DEF v
      <4>3. IsRequest(v) /\ v.st = "approved" /\ v.target = 0
        BY <4>2 DEF IsRequest
      <4>4. cr' = [cr EXCEPT ![c] = v]
        BY <4>1 DEF v
      <4> QED
        BY <4>3, <4>4
    <3>2. CASE \E r \in Published, d \in Changes :
                 cr' = [cr EXCEPT ![c] =
                   [NoCr EXCEPT !.st = "approved", !.target = r, !.deltas = d,
                                !.payload = [s \in Sources |->
                                               IF s \in DOMAIN d THEN d[s] ELSE FormOf(r)[s]]]]
      <4>1. PICK r \in Published, d \in Changes :
                 cr' = [cr EXCEPT ![c] =
                   [NoCr EXCEPT !.st = "approved", !.target = r, !.deltas = d,
                                !.payload = [s \in Sources |->
                                               IF s \in DOMAIN d THEN d[s] ELSE FormOf(r)[s]]]]
        BY <3>2
      <4> DEFINE f == [s \in Sources |-> IF s \in DOMAIN d THEN d[s] ELSE FormOf(r)[s]]
                 v == [NoCr EXCEPT !.st = "approved", !.target = r, !.deltas = d, !.payload = f]
      <4>4. cr' = [cr EXCEPT ![c] = v]
        BY <4>1
      <4> HIDE DEF f
      <4>2. v \in [st : {"approved"}, target : {r}, ver : {0}, payload : {f}, deltas : {d}]
        BY DEF NoCr
      <4> HIDE DEF v
      <4>3. IsRequest(v) /\ v.st = "approved" /\ v.target = r /\ r \in Records
        BY <4>2 DEF IsRequest, Published
      <4> QED
        BY <4>3, <4>4
    <3> QED
      BY <1>2, <3>1, <3>2 DEF Fill
  <2>2. /\ cr' = [d \in Crs |-> cr'[d]]
        /\ \A d \in Crs \ {c} : cr'[d] = cr[d]
        /\ cr'[c] = v
    BY <2>1 DEF DataOK, ShapeOK
  <2>3. UNCHANGED <<rec, merge, log, told>>
    BY <1>2 DEF Fill
  <2> QED
    BY <2>1, <2>2, <2>3 DEF DataOK, ShapeOK
<1>3. ASSUME NEW c \in Crs, ActivateRead(c)
      PROVE  ShapeOK'
  <2> DEFINE ver == rec[cr[c].target].ver
             t == cr[c].target
  <2>1. /\ cr' = [cr EXCEPT ![c].st = "activating", ![c].ver = ver]
        /\ t # 0 /\ UNCHANGED <<rec, merge, log, told>>
    BY <1>3 DEF ActivateRead
  <2>2. t \in Records
    BY <1>3, <2>1 DEF DataOK, ShapeOK
  <2> HIDE DEF ver
  <2>3. cr'[c] = [cr[c] EXCEPT !.st = "activating", !.ver = ver]
    BY <1>3, <2>1 DEF DataOK, ShapeOK
  <2>4. cr'[c] \in [st : {"activating"}, target : {t}, ver : {ver},
                    payload : {cr[c].payload}, deltas : {cr[c].deltas}]
    BY <1>3, <2>3 DEF DataOK, ShapeOK, IsRequest
  <2>5. IsRequest(cr'[c]) /\ cr'[c].st = "activating" /\ cr'[c].target = t
    BY <2>4 DEF IsRequest
  <2>6. cr' = [d \in Crs |-> cr'[d]] /\ \A d \in Crs \ {c} : cr'[d] = cr[d]
    BY <2>1 DEF DataOK, ShapeOK
  <2> QED
    BY <2>1, <2>2, <2>5, <2>6 DEF DataOK, ShapeOK
<1>4. ASSUME NEW m \in Records, NEW victims \in Victims, MergeRead(m, victims)
      PROVE  ShapeOK'
  <2>1. merge'.master = m /\ UNCHANGED <<rec, cr, log, told>>
    BY <1>4 DEF MergeRead
  <2> QED
    BY <1>4, <2>1 DEF DataOK, ShapeOK
<1>5. ASSUME MergeFails
      PROVE  ShapeOK'
  BY <1>5 DEF MergeFails, DataOK, ShapeOK
<1> QED
  BY <1>1, <1>2, <1>3, <1>4, <1>5, EventsStay DEF DataOK

(* Every step keeps the data in order: those of the consumers only read    *)
(* them.                                                                   *)
LEMMA DataStep == DataOK /\ [FeedNext]_allVars => DataOK'
<1> SUFFICES ASSUME DataOK, [FeedNext]_allVars PROVE DataOK'
  OBVIOUS
<1>1. CASE Next
  <2>1. ASSUME NEW c \in Crs, ActivateCreate(c) PROVE DataOK'
    BY <2>1, CreateStep
  <2>2. ASSUME NEW c \in Crs, ActivateUpdate(c) PROVE DataOK'
    BY <2>2, UpdateStep
  <2>3. ASSUME NEW o \in Overrides, MergeWrite(o) PROVE DataOK'
    BY <2>3, MergeStep
  <2>4. ASSUME NEW v \in Records, Undo(v) PROVE DataOK'
    BY <2>4, UndoStep
  <2> QED
    BY <1>1, <2>1, <2>2, <2>3, <2>4, QuietStep DEF Next
<1>2. CASE UNCHANGED vars
  <2>1. ShapeOK'
    BY <1>2 DEF DataOK, ShapeOK, vars
  <2> QED
    BY <1>2, <2>1, EventsStay DEF DataOK, vars
<1>3. Follow => UNCHANGED vars
  BY DEF Follow, SnapshotList, SnapshotSeq, PullEvents, Ack, Restart, AckUpdate, AckInsert
<1> QED
  BY <1>1, <1>2, <1>3 DEF FeedNext, allVars

(* The events of a record carry rising versions, and the newest of them    *)
(* the record as it is, whatever is activated and merged at the same time. *)
THEOREM EventsAreTrue == FeedSpec => []EventsTellTheRecord
<1>1. FeedInit => DataOK
  BY DataInit DEF FeedInit
<1>2. DataOK => EventsTellTheRecord
  BY DEF DataOK
<1> QED
  BY <1>1, <1>2, DataStep, PTL DEF FeedSpec

-----------------------------------------------------------------------------
(* What is written to a row.                                               *)

(* A column that is carried has the value of one of its sources.           *)
LEMMA Carried ==
  ASSUME NEW given, NEW f \in DOMAIN Carry(given)
  PROVE  /\ f \in Columns
         /\ \E pair \in ToSet(Pairs) :
              pair[2] = f /\ pair[1] \in DOMAIN given /\ Carry(given)[f] = given[pair[1]]
<1> DEFINE To(c) == {i \in DOMAIN Pairs : Pairs[i][1] \in DOMAIN given /\ Pairs[i][2] = c}
           LastTo(c) == CHOOSE i \in To(c) : \A j \in To(c) : j <= i
<1>1. Carry(given) = [c \in {d \in Columns : To(d) # {}} |-> given[Pairs[LastTo(c)][1]]]
  BY DEF Carry
<1>2. \E n \in Nat : DOMAIN Pairs = 1 .. n
  BY MasterDataAssumption DEF MasterDataAssumption, Pairs
<1>3. f \in Columns /\ To(f) # {} /\ Carry(given)[f] = given[Pairs[LastTo(f)][1]]
  <2> HIDE DEF To, LastTo
  <2> QED
    BY <1>1
<1>4. LastTo(f) \in To(f)
  <2>1. PICK n \in Nat : To(f) \in SUBSET (0 .. n)
    BY <1>2
  <2>2. \E i \in To(f) : \A j \in To(f) : i >= j
    <3> HIDE DEF To
    <3> QED
      BY <1>3, <2>1, GreatestElement
  <2>3. \E i \in To(f) : \A j \in To(f) : j <= i
    BY <2>1, <2>2
  <2> HIDE DEF To
  <2> QED
    BY <2>3
<1>5. Pairs[LastTo(f)] \in ToSet(Pairs)
  BY <1>4 DEF ToSet
<1>6. Pairs[LastTo(f)][1] \in DOMAIN given /\ Pairs[LastTo(f)][2] = f
  BY <1>4
<1> QED
  BY <1>3, <1>5, <1>6

(* What a form and its changes hold.                                       *)
GivenOK(given) == \A s \in DOMAIN given : given[s] \in Texts \cup {Null, <<>>}

(* What an update writes, the user changed to.                             *)
LEMMA UpdateIsPlanned ==
  ASSUME NEW c, NEW f \in DOMAIN PlanUpdate(c)
  PROVE  /\ f \in Columns
         /\ \E pair \in ToSet(Pairs) :
              pair[2] = f /\ pair[1] \in DOMAIN c.deltas /\ PlanUpdate(c)[f] = c.deltas[pair[1]]
         /\ GivenOK(c.deltas) => PlanUpdate(c)[f] \in Texts \cup {Null}
<1> DEFINE S == {s \in DOMAIN c.deltas : c.deltas[s] # <<>>}
<1>1. /\ f \in Columns
      /\ \E pair \in ToSet(Pairs) : /\ pair[2] = f /\ pair[1] \in DOMAIN Only(c.deltas, S)
                                    /\ PlanUpdate(c)[f] = Only(c.deltas, S)[pair[1]]
  BY Carried DEF PlanUpdate
<1> QED
  BY <1>1 DEF Only, GivenOK

(* What a creation writes, the form is filled with.                        *)
LEMMA CreateIsPlanned ==
  ASSUME NEW c, NEW f \in DOMAIN PlanCreate(c), GivenOK(c.payload)
  PROVE  PlanCreate(c)[f] \in Texts
<1> DEFINE S == {s \in DOMAIN c.payload : Filled(c.payload[s])}
<1>1. \E pair \in ToSet(Pairs) : /\ pair[2] = f /\ pair[1] \in DOMAIN Only(c.payload, S)
                                 /\ PlanCreate(c)[f] = Only(c.payload, S)[pair[1]]
  BY Carried DEF PlanCreate
<1> QED
  BY <1>1 DEF Only, GivenOK, Filled

LEMMA WrittenRow ==
  ASSUME NEW row \in Row, NEW plan, \A f \in DOMAIN plan : plan[f] \in Texts \cup {Null}
  PROVE  Written(row, plan) \in Row
BY DEF Row, Written

-----------------------------------------------------------------------------
(* Survivorship.                                                           *)

(* What a column of the master may become, given some of the victims.      *)
SurvivesAs(seen, m, S, f, v) ==
  \/ v = seen[m].row[f]
  \/ /\ f \in DOMAIN Rules
     /\ \E q \in S :
          /\ v = seen[q].row[f]
          /\ IF Rules[f] = "latest" THEN seen[q].time > seen[m].time ELSE ~Filled(seen[m].row[f])

(* A column survives as the master's, or as what its rule takes from one   *)
(* of the victims, in whatever order they come.                            *)
LEMMA SurvivorsFollowRules ==
  ASSUME NEW seen, NEW m, NEW order, NEW n \in Nat, DOMAIN order = 1 .. n,
         seen[m].row \in Row, \A i \in 1 .. n : seen[order[i]].row \in Row
  PROVE  /\ Survivors(seen, m, order) \in Row
         /\ \A f \in Columns :
              SurvivesAs(seen, m, {order[i] : i \in 1 .. n}, f, Survivors(seen, m, order)[f])
<1> DEFINE S == 1 .. n
           first == seen[m].row
           Step(row, v) ==
             [c \in Columns |->
                IF c \in DOMAIN Rules
                  THEN Pick(Rules[c], row[c], seen[v].row[c], seen[m].time, seen[v].time)
                  ELSE row[c]]
           body(h) == [s \in SUBSET S |-> IF s = {} THEN first ELSE Step(h[s \ {Max(s)}], order[Max(s)])]
           iter == CHOOSE h : h = body(h)
<1>1. Survivors(seen, m, order) = iter[S]
  BY Zenon DEF Survivors, FoldLeft, MapThenFoldSet
<1>2. \A s \in SUBSET S : s # {} => Max(s) \in s
  BY MaxOfFirst
<1>3. ASSUME NEW row \in Row, NEW i \in S
      PROVE  Step(row, order[i]) \in Row
  BY <1>3 DEF Row, Pick
<1>4. \E h : h = body(h)
  <2> DEFINE g == [d \in Row \X S |-> Step(d[1], order[d[2]])]
  <2>1. g \in [Row \X S -> Row]
    <3> HIDE DEF S, Step
    <3> QED
      BY <1>3
  <2>2. PICK h : IsFold(h, n, Row, first, g)
    <3> HIDE DEF g
    <3> QED
      BY <2>1, Folding
  <2>3. h \in [SUBSET S -> Row] /\ \A s \in SUBSET S :
          h[s] = IF s = {} THEN first ELSE g[<<h[s \ {Max(s)}], Max(s)>>]
    <3> HIDE DEF g
    <3> QED
      BY <2>2 DEF IsFold
  <2>4. \A s \in SUBSET S : h[s] = IF s = {} THEN first ELSE Step(h[s \ {Max(s)}], order[Max(s)])
    <3> HIDE DEF S, first, Step
    <3> QED
      BY <1>2, <2>3
  <2>5. h = body(h)
    <3> HIDE DEF S, first, g, Step
    <3> QED
      BY <2>3, <2>4
  <2> QED
    BY <2>5
<1>5. iter = body(iter)
  <2> HIDE DEF body
  <2> QED
    BY <1>4
<1> HIDE DEF iter
<1>6. iter[{}] = first /\ \A s \in SUBSET S : s # {} => iter[s] = Step(iter[s \ {Max(s)}], order[Max(s)])
  <2> HIDE DEF S, first, Step
  <2> QED
    BY <1>5
<1> HIDE DEF body
<1> DEFINE Good(k) == /\ iter[1 .. k] \in Row
                      /\ \A f \in Columns : SurvivesAs(seen, m, {order[i] : i \in 1 .. n}, f, iter[1 .. k][f])
           T == {k \in Nat : k <= n => Good(k)}
<1>7. 0 \in T
  <2>1. iter[1 .. 0] = first
    BY <1>6
  <2> QED
    BY <2>1 DEF SurvivesAs
<1>8. ASSUME NEW k \in Nat, k + 1 <= n, Good(k)
      PROVE  Good(k + 1)
  <2>1. k + 1 \in 1 .. n /\ (k + 1) - 1 = k
    BY <1>8
  <2> DEFINE row == iter[1 .. k]
             v == order[k + 1]
  <2>2. iter[1 .. (k + 1)] = Step(row, v)
    <3>1. /\ 1 .. (k + 1) \in SUBSET S /\ 1 .. (k + 1) # {} /\ Max(1 .. (k + 1)) = k + 1
          /\ (1 .. (k + 1)) \ {k + 1} = 1 .. k
      BY <2>1, FirstPlaces
    <3> HIDE DEF S, Step, Good
    <3> QED
      BY <1>6, <3>1
  <2>3. Step(row, v) \in Row
    BY <1>3, <1>8, <2>1
  <2>4. ASSUME NEW f \in Columns
        PROVE  SurvivesAs(seen, m, {order[i] : i \in 1 .. n}, f, Step(row, v)[f])
    <3>1. SurvivesAs(seen, m, {order[i] : i \in 1 .. n}, f, row[f])
      BY <1>8
    <3>2. Step(row, v)[f] = IF f \in DOMAIN Rules
                              THEN Pick(Rules[f], row[f], seen[v].row[f], seen[m].time, seen[v].time)
                              ELSE row[f]
      OBVIOUS
    <3>3. v \in {order[i] : i \in 1 .. n}
      BY <2>1
    <3> HIDE DEF Step, row, v, Good
    <3>4. CASE Step(row, v)[f] = row[f]
      BY <3>1, <3>4
    <3>5. CASE /\ f \in DOMAIN Rules /\ Rules[f] = "latest" /\ seen[v].time > seen[m].time
               /\ Step(row, v)[f] = seen[v].row[f]
      BY <3>3, <3>5 DEF SurvivesAs
    <3>6. CASE /\ f \in DOMAIN Rules /\ Rules[f] # "latest" /\ ~Filled(row[f])
               /\ Step(row, v)[f] = seen[v].row[f]
      <4>1. CASE row[f] = seen[m].row[f]
        BY <3>3, <3>6, <4>1 DEF SurvivesAs
      <4>2. CASE row[f] # seen[m].row[f]
        <5>1. ~Filled(seen[m].row[f])
          BY <3>1, <3>6, <4>2 DEF SurvivesAs
        <5> QED
          BY <3>3, <3>6, <5>1 DEF SurvivesAs
      <4> QED
        BY <4>1, <4>2
    <3> QED
      BY <3>2, <3>4, <3>5, <3>6 DEF Pick
  <2> HIDE DEF Step
  <2> QED
    BY <2>2, <2>3, <2>4
<1>9. T = Nat
  <2>1. ASSUME NEW k \in T PROVE k + 1 \in T
    <3> HIDE DEF Good
    <3>1. k + 1 <= n => k <= n
      OBVIOUS
    <3> QED
      BY <1>8, <3>1
  <2> HIDE DEF T
  <2> QED
    BY <1>7, <2>1, NumberInduction, Zenon DEF T
<1>10. Good(n)
  <2> HIDE DEF Good
  <2> QED
    BY <1>9
<1> QED
  BY <1>1, <1>10

-----------------------------------------------------------------------------
(* What rows, forms, merges and events hold.                               *)

RowsOK ==
  /\ clock \in Nat
  /\ \A r \in Records : rec[r].life \in Lives /\ rec[r].time \in 0 .. clock /\ rec[r].row \in Row

FormsOK ==
  \A c \in Crs :
    /\ cr[c].st \in {"none", "approved", "activating", "activated"}
    /\ cr[c].target # 0 => rec[cr[c].target].life # "absent"
    /\ GivenOK(cr[c].deltas)
    /\ cr[c].target = 0 => GivenOK(cr[c].payload)

(* A merge keeps its master as it read it.                                 *)
MergeOK ==
  merge # NoMerge =>
    LET m == merge.master IN
    /\ merge.victims \in SUBSET Records /\ IsFiniteSet(merge.victims) /\ m \notin merge.victims
    /\ rec[m].life = "published" /\ rec[m].ver = merge.ver /\ merge.seen[m] = rec[m]
    /\ \A v \in merge.victims : merge.seen[v].row \in Row

LogOK == \A i \in 1 .. Newest : log[i].row \in Row

ValuesOK == RowsOK /\ FormsOK /\ MergeOK /\ LogOK

(* The first state holds what it should.                                   *)
LEMMA ValuesInit == Init => ValuesOK
<1> SUFFICES ASSUME Init PROVE ValuesOK
  OBVIOUS
<1>1. RowsOK
  <2>1. clock \in Nat
    BY FS_CardinalityType, MasterDataAssumption DEF Init, MasterDataAssumption
  <2>2. \A r \in Imported : r \in 0 .. clock /\ FirstRow[r] \in Row
    BY <2>1, MasterDataAssumption DEF Init, MasterDataAssumption
  <2>3. Blank \in Row
    BY DEF Blank, Row
  <2> QED
    BY <2>1, <2>2, <2>3 DEF Init, RowsOK, Lives
<1>2. FormsOK
  BY DEF Init, FormsOK, NoCr, GivenOK
<1>3. MergeOK
  BY DEF Init, MergeOK
<1>4. LogOK
  BY DEF Init, LogOK, Newest
<1> QED
  BY <1>1, <1>2, <1>3, <1>4 DEF ValuesOK

(* An event that carries a row.                                            *)
LEMMA LogGrows ==
  ASSUME IsLog(log), LogOK, NEW e, log' = Append(log, e), e.row \in Row
  PROVE  LogOK'
<1>1. /\ Newest \in Nat /\ Newest' = Newest + 1
      /\ \A i \in 1 .. Newest : log'[i] = log[i]
      /\ log'[Newest + 1] = e
  BY LogAppend DEF Newest
<1>2. \A i \in 1 .. Newest' : i \in 1 .. Newest \/ i = Newest + 1
  BY <1>1
<1> QED
  BY <1>1, <1>2 DEF LogOK

(* Records that are there stay.                                            *)
LEMMA FormsStay ==
  ASSUME ShapeOK, FormsOK, \A r \in Records : rec[r].life # "absent" => rec'[r].life # "absent",
         \A c \in Crs : /\ cr'[c].st \in {"none", "approved", "activating", "activated"}
                        /\ cr'[c].target = cr[c].target
                        /\ cr'[c].payload = cr[c].payload /\ cr'[c].deltas = cr[c].deltas
  PROVE  FormsOK'
BY DEF ShapeOK, FormsOK

LEMMA CreateValues ==
  ASSUME DataOK, ValuesOK, NEW c \in Crs, ActivateCreate(c)
  PROVE  ValuesOK'
<1> DEFINE row == Written(Blank, PlanCreate(cr[c]))
<1>0. ShapeOK /\ RowsOK /\ FormsOK /\ MergeOK /\ LogOK
  BY DEF DataOK, ValuesOK
<1>1. PICK r \in Records :
        /\ rec[r].life = "absent"
        /\ rec'[r] = [life |-> "published", ver |-> 1, time |-> clock + 1, row |-> row]
        /\ \A q \in Records \ {r} : rec'[q] = rec[q]
        /\ log' = Append(log, Event("created", r, 1, row, {}))
        /\ UNCHANGED <<merge, told>>
  BY <1>0, Created
<1>2. row \in Row
  <2>1. GivenOK(cr[c].payload)
    BY <1>0 DEF ActivateCreate, FormsOK
  <2>2. \A f \in DOMAIN PlanCreate(cr[c]) : PlanCreate(cr[c])[f] \in Texts
    BY <2>1, CreateIsPlanned
  <2>3. Blank \in Row
    BY DEF Blank, Row
  <2> QED
    BY <2>2, <2>3, WrittenRow
<1> HIDE DEF row
<1>3. RowsOK'
  <2>1. clock' = clock + 1
    BY DEF ActivateCreate
  <2> QED
    BY <1>0, <1>1, <1>2, <2>1 DEF RowsOK, Lives
<1>4. FormsOK'
  <2>1. cr' = [cr EXCEPT ![c].st = "activated"]
    BY DEF ActivateCreate
  <2>2. \A d \in Crs : /\ cr'[d].st \in {cr[d].st, "activated"}
                       /\ cr'[d].target = cr[d].target
                       /\ cr'[d].payload = cr[d].payload /\ cr'[d].deltas = cr[d].deltas
    BY <1>0, <2>1, StatusMoves
  <2>3. \A d \in Crs : cr'[d].st \in {"none", "approved", "activating", "activated"}
    BY <1>0, <2>2 DEF FormsOK
  <2>4. \A q \in Records : rec[q].life # "absent" => rec'[q].life # "absent"
    BY <1>1
  <2> QED
    BY <1>0, <2>2, <2>3, <2>4, FormsStay
<1>5. MergeOK'
  <2>1. merge # NoMerge => merge.master \in Records /\ rec[merge.master].life = "published"
    BY <1>0 DEF MergeOK, ShapeOK
  <2>2. merge # NoMerge => rec'[merge.master] = rec[merge.master]
    BY <1>1, <2>1
  <2> QED
    BY <1>0, <1>1, <2>2 DEF MergeOK
<1>6. LogOK'
  BY <1>0, <1>1, <1>2, LogGrows DEF ShapeOK, Event
<1> QED
  BY <1>3, <1>4, <1>5, <1>6 DEF ValuesOK

LEMMA UpdateValues ==
  ASSUME DataOK, ValuesOK, NEW c \in Crs, ActivateUpdate(c)
  PROVE  ValuesOK'
<1> DEFINE r == cr[c].target
           row == Written(rec[r].row, PlanUpdate(cr[c]))
<1>0. ShapeOK /\ RowsOK /\ FormsOK /\ MergeOK /\ LogOK
  BY DEF DataOK, ValuesOK
<1>1. CASE ~Updatable(r, cr[c].ver)
  <2>1. cr' = [cr EXCEPT ![c].st = "approved"] /\ UNCHANGED <<rec, log, merge, clock>>
    BY <1>1 DEF ActivateUpdate
  <2>2. \A d \in Crs : /\ cr'[d].st \in {cr[d].st, "approved"}
                       /\ cr'[d].target = cr[d].target
                       /\ cr'[d].payload = cr[d].payload /\ cr'[d].deltas = cr[d].deltas
    BY <1>0, <2>1, StatusMoves
  <2>3. \A d \in Crs : cr'[d].st \in {"none", "approved", "activating", "activated"}
    BY <1>0, <2>2 DEF FormsOK
  <2>4. FormsOK'
    BY <1>0, <2>1, <2>2, <2>3, FormsStay
  <2> QED
    BY <1>0, <2>1, <2>4 DEF ValuesOK, RowsOK, MergeOK, LogOK, Newest
<1>2. CASE Updatable(r, cr[c].ver)
  <2>1. /\ r \in Records /\ merge.master # r
        /\ rec[r].life = "published" /\ rec[r].ver = cr[c].ver
        /\ rec'[r] = [life |-> rec[r].life, ver |-> rec[r].ver + 1, time |-> rec[r].time, row |-> row]
        /\ \A q \in Records \ {r} : rec'[q] = rec[q] /\ told'[q] = told[q]
        /\ log' = Append(log, Event("updated", r, rec[r].ver + 1, row, {}))
        /\ cr' = [cr EXCEPT ![c].st = "activated"]
        /\ UNCHANGED <<merge, clock>>
    BY <1>0, <1>2, Updated
  <2>2. row \in Row
    <3>1. GivenOK(cr[c].deltas)
      BY <1>0 DEF FormsOK
    <3>2. \A f \in DOMAIN PlanUpdate(cr[c]) : PlanUpdate(cr[c])[f] \in Texts \cup {Null}
      BY <3>1, UpdateIsPlanned
    <3>3. rec[r].row \in Row
      BY <1>0, <2>1 DEF RowsOK
    <3> QED
      BY <3>2, <3>3, WrittenRow
  <2> HIDE DEF row, r
  <2>3. RowsOK'
    BY <1>0, <2>1, <2>2 DEF RowsOK
  <2>4. FormsOK'
    <3>1. \A d \in Crs : /\ cr'[d].st \in {cr[d].st, "activated"}
                         /\ cr'[d].target = cr[d].target
                         /\ cr'[d].payload = cr[d].payload /\ cr'[d].deltas = cr[d].deltas
      BY <1>0, <2>1, StatusMoves
    <3>2. \A d \in Crs : cr'[d].st \in {"none", "approved", "activating", "activated"}
      BY <1>0, <3>1 DEF FormsOK
    <3>3. \A q \in Records : rec[q].life # "absent" => rec'[q].life # "absent"
      BY <2>1
    <3> QED
      BY <1>0, <3>1, <3>2, <3>3, FormsStay
  <2>5. MergeOK'
    <3>1. merge # NoMerge => rec'[merge.master] = rec[merge.master]
      BY <1>0, <2>1 DEF ShapeOK
    <3> QED
      BY <1>0, <2>1, <3>1 DEF MergeOK
  <2>6. LogOK'
    BY <1>0, <2>1, <2>2, LogGrows DEF ShapeOK, Event
  <2> QED
    BY <2>3, <2>4, <2>5, <2>6 DEF ValuesOK
<1> QED
  BY <1>1, <1>2

(* The row that a merge writes: columns that a steward decided, and the    *)
(* ones that survive.                                                      *)
LEMMA MergedRow ==
  ASSUME DataOK, ValuesOK, merge # NoMerge, NEW o \in Overrides, NEW order \in SetToSeqs(merge.victims)
  PROVE  LET m == merge.master
             row == Written(Survivors(merge.seen, m, order), o) IN
         /\ row \in Row
         /\ \A f \in Columns : \/ f \in DOMAIN o /\ f \in DOMAIN Rules /\ row[f] = o[f]
                               \/ SurvivesAs(merge.seen, m, merge.victims, f, row[f])
<1> DEFINE m == merge.master
           old == Survivors(merge.seen, m, order)
           row == Written(old, o)
           n == Cardinality(merge.victims)
<1>0. ShapeOK /\ RowsOK /\ MergeOK
  BY DEF DataOK, ValuesOK
<1>1. /\ merge.seen[m].row \in Row /\ n \in Nat
      /\ order \in [1 .. n -> merge.victims]
      /\ \A v \in merge.victims : merge.seen[v].row \in Row
  <2>1. IsFiniteSet(merge.victims) /\ merge.seen[m] = rec[m] /\ m \in Records
        /\ \A v \in merge.victims : merge.seen[v].row \in Row
    BY <1>0 DEF MergeOK, ShapeOK
  <2> QED
    BY <1>0, <2>1, FS_CardinalityType DEF RowsOK, SetToSeqs
<1> HIDE DEF m, n
<1>2. /\ old \in Row
      /\ \A f \in Columns : SurvivesAs(merge.seen, m, {order[i] : i \in 1 .. n}, f, old[f])
  <2>1. DOMAIN order = 1 .. n /\ \A i \in 1 .. n : merge.seen[order[i]].row \in Row
    BY <1>1
  <2> QED
    BY <1>1, <2>1, SurvivorsFollowRules
<1>3. \A f \in Columns : SurvivesAs(merge.seen, m, merge.victims, f, old[f])
  <2>1. {order[i] : i \in 1 .. n} \subseteq merge.victims
    BY <1>1
  <2> HIDE DEF old
  <2> QED
    BY <1>2, <2>1 DEF SurvivesAs
<1>4. DOMAIN o \subseteq DOMAIN Rules /\ \A f \in DOMAIN o : o[f] \in Texts \cup {Null}
  BY MasterDataAssumption DEF MasterDataAssumption
<1> HIDE DEF old
<1>5. row \in Row
  BY <1>2, <1>4, WrittenRow
<1>6. \A f \in Columns : \/ f \in DOMAIN o /\ f \in DOMAIN Rules /\ row[f] = o[f]
                         \/ SurvivesAs(merge.seen, m, merge.victims, f, row[f])
  BY <1>3, <1>4 DEF Written
<1> QED
  BY <1>5, <1>6 DEF old, m

LEMMA MergeValues ==
  ASSUME DataOK, ValuesOK, NEW o \in Overrides, MergeWrite(o)
  PROVE  ValuesOK'
<1> DEFINE m == merge.master
<1>0. ShapeOK /\ RowsOK /\ FormsOK /\ MergeOK /\ LogOK
  BY DEF DataOK, ValuesOK
<1>1. /\ merge # NoMerge /\ merge' = NoMerge /\ clock' = clock + 1
      /\ m \in Records /\ merge.victims \subseteq Records
      /\ rec[m].life = "published" /\ UNCHANGED cr
      /\ \A r \in merge.victims \ {m} :
           rec'[r] = [life |-> "merged", ver |-> rec[r].ver + 1, time |-> clock + 1, row |-> rec[r].row]
      /\ \A r \in Records \ (merge.victims \cup {m}) : rec'[r] = rec[r]
  BY <1>0, Merged DEF Published
<1>2. PICK order \in SetToSeqs(merge.victims) :
        LET row == Written(Survivors(merge.seen, m, order), o) IN
        /\ rec'[m] = [life |-> rec[m].life, ver |-> rec[m].ver + 1, time |-> rec[m].time, row |-> row]
        /\ log' = Append(log, Event("merged", m, rec[m].ver + 1, row, merge.victims))
  BY <1>0, Merged
<1> DEFINE row == Written(Survivors(merge.seen, m, order), o)
<1>3. row \in Row
  BY <1>1, MergedRow
<1>4. /\ rec'[m] = [life |-> rec[m].life, ver |-> rec[m].ver + 1, time |-> rec[m].time, row |-> row]
      /\ log' = Append(log, Event("merged", m, rec[m].ver + 1, row, merge.victims))
  BY <1>2
<1> HIDE DEF row, m
<1>5. \A r \in Records : \/ r = m \/ r \in merge.victims \ {m}
                         \/ r \in Records \ (merge.victims \cup {m})
  OBVIOUS
<1>6. RowsOK'
  <2>1. clock' \in Nat /\ 0 .. clock \subseteq 0 .. clock' /\ clock + 1 \in 0 .. clock'
    BY <1>0, <1>1 DEF RowsOK
  <2>2. ASSUME NEW r \in Records
        PROVE  rec'[r].life \in Lives /\ rec'[r].time \in 0 .. clock' /\ rec'[r].row \in Row
    <3>1. rec[r].life \in Lives /\ rec[r].time \in 0 .. clock' /\ rec[r].row \in Row
      BY <1>0, <2>1 DEF RowsOK
    <3>2. CASE r = m
      BY <1>3, <1>4, <3>1, <3>2
    <3>3. CASE r \in merge.victims \ {m}
      <4>1. rec'[r] = [life |-> "merged", ver |-> rec[r].ver + 1, time |-> clock + 1, row |-> rec[r].row]
        BY <1>1, <3>3
      <4>2. rec'[r].life = "merged" /\ rec'[r].time = clock + 1 /\ rec'[r].row = rec[r].row
        BY <4>1
      <4> QED
        BY <2>1, <3>1, <4>2 DEF Lives
    <3>4. CASE r \in Records \ (merge.victims \cup {m})
      BY <1>1, <3>1, <3>4
    <3> QED
      BY <1>5, <3>2, <3>3, <3>4
  <2> QED
    BY <2>1, <2>2 DEF RowsOK
<1>7. FormsOK'
  <2>1. ASSUME NEW r \in Records, rec[r].life # "absent" PROVE rec'[r].life # "absent"
    <3>1. CASE r = m
      BY <1>1, <1>4, <3>1
    <3>2. CASE r \in merge.victims \ {m}
      <4>1. rec'[r] = [life |-> "merged", ver |-> rec[r].ver + 1, time |-> clock + 1, row |-> rec[r].row]
        BY <1>1, <3>2
      <4> QED
        BY <4>1
    <3>3. CASE r \in Records \ (merge.victims \cup {m})
      BY <1>1, <2>1, <3>3
    <3> QED
      BY <1>5, <3>1, <3>2, <3>3
  <2>2. \A c \in Crs : cr[c].st \in {"none", "approved", "activating", "activated"}
    BY <1>0 DEF FormsOK
  <2> QED
    BY <1>0, <1>1, <2>1, <2>2, FormsStay
<1>8. MergeOK'
  BY <1>1 DEF MergeOK
<1>9. LogOK'
  BY <1>0, <1>3, <1>4, LogGrows DEF ShapeOK, Event
<1> QED
  BY <1>6, <1>7, <1>8, <1>9 DEF ValuesOK

LEMMA UndoValues ==
  ASSUME DataOK, ValuesOK, NEW v \in Records, Undo(v)
  PROVE  ValuesOK'
<1>0. ShapeOK /\ RowsOK /\ FormsOK /\ MergeOK /\ LogOK
  BY DEF DataOK, ValuesOK
<1>1. /\ rec[v].life = "merged"
      /\ rec'[v] = [life |-> "published", ver |-> rec[v].ver + 1, time |-> clock + 1, row |-> rec[v].row]
      /\ \A r \in Records \ {v} : rec'[r] = rec[r]
      /\ clock' = clock + 1 /\ UNCHANGED <<cr, merge, log>>
  BY <1>0, Undone
<1>2. RowsOK'
  BY <1>0, <1>1 DEF RowsOK, Lives
<1>3. FormsOK'
  <2>1. \A r \in Records : rec[r].life # "absent" => rec'[r].life # "absent"
    BY <1>1
  <2>2. \A c \in Crs : cr[c].st \in {"none", "approved", "activating", "activated"}
    BY <1>0 DEF FormsOK
  <2> QED
    BY <1>0, <1>1, <2>1, <2>2, FormsStay
<1>4. MergeOK'
  <2>1. merge # NoMerge => merge.master \in Records /\ rec[merge.master].life = "published"
    BY <1>0 DEF MergeOK, ShapeOK
  <2>2. merge # NoMerge => rec'[merge.master] = rec[merge.master]
    BY <1>1, <2>1
  <2> QED
    BY <1>0, <1>1, <2>2 DEF MergeOK
<1>5. LogOK'
  BY <1>0, <1>1 DEF LogOK, Newest
<1> QED
  BY <1>2, <1>3, <1>4, <1>5 DEF ValuesOK

LEMMA FillValues ==
  ASSUME DataOK, ValuesOK, NEW c \in Crs, Fill(c)
  PROVE  FormsOK'
<1>0. ShapeOK /\ RowsOK /\ FormsOK
  BY DEF DataOK, ValuesOK
<1>1. \A f \in NewForms \cup Changes : GivenOK(f)
  BY MasterDataAssumption DEF MasterDataAssumption, GivenOK
<1>2. UNCHANGED rec
  BY DEF Fill
<1>3. PICK v :
        /\ cr' = [cr EXCEPT ![c] = v] /\ v.st = "approved"
        /\ v.target # 0 => v.target \in Published
        /\ GivenOK(v.deltas)
        /\ v.target = 0 => GivenOK(v.payload)
  <2>1. CASE \E f \in NewForms :
               cr' = [cr EXCEPT ![c] = [NoCr EXCEPT !.st = "approved", !.payload = f]]
    <3>1. PICK f \in NewForms :
            cr' = [cr EXCEPT ![c] = [NoCr EXCEPT !.st = "approved", !.payload = f]]
      BY <2>1
    <3> DEFINE v == [NoCr EXCEPT !.st = "approved", !.payload = f]
    <3>2. v.st = "approved" /\ v.target = 0 /\ v.payload = f /\ v.deltas = <<>>
      BY DEF NoCr
    <3>3. GivenOK(<<>>)
      BY DEF GivenOK
    <3>4. cr' = [cr EXCEPT ![c] = v]
      BY <3>1
    <3> HIDE DEF v
    <3> QED
      BY <1>1, <3>2, <3>3, <3>4
  <2>2. CASE \E r \in Published, d \in Changes :
               cr' = [cr EXCEPT ![c] =
                 [NoCr EXCEPT !.st = "approved", !.target = r, !.deltas = d,
                              !.payload = [s \in Sources |->
                                             IF s \in DOMAIN d THEN d[s] ELSE FormOf(r)[s]]]]
    <3>1. PICK r \in Published, d \in Changes :
               cr' = [cr EXCEPT ![c] =
                 [NoCr EXCEPT !.st = "approved", !.target = r, !.deltas = d,
                              !.payload = [s \in Sources |->
                                             IF s \in DOMAIN d THEN d[s] ELSE FormOf(r)[s]]]]
      BY <2>2
    <3> DEFINE form == [s \in Sources |-> IF s \in DOMAIN d THEN d[s] ELSE FormOf(r)[s]]
               v == [NoCr EXCEPT !.st = "approved", !.target = r, !.deltas = d, !.payload = form]
    <3>2. cr' = [cr EXCEPT ![c] = v]
      BY <3>1
    <3> HIDE DEF form
    <3>3. v.st = "approved" /\ v.target = r /\ v.deltas = d
      BY DEF NoCr
    <3>4. r # 0
      BY NoRecordZero DEF Published
    <3> HIDE DEF v
    <3> QED
      BY <1>1, <3>2, <3>3, <3>4
  <2> QED
    BY <2>1, <2>2 DEF Fill
<1>4. cr'[c] = v /\ \A d \in Crs \ {c} : cr'[d] = cr[d]
  BY <1>0, <1>3 DEF ShapeOK
<1> QED
  BY <1>0, <1>2, <1>3, <1>4 DEF FormsOK, Published

LEMMA QuietValues ==
  ASSUME DataOK, ValuesOK,
         \/ \E c \in Crs : Fill(c) \/ ActivateRead(c)
         \/ \E m \in Records, victims \in Victims : MergeRead(m, victims)
         \/ MergeFails
  PROVE  ValuesOK'
<1>0. ShapeOK /\ RowsOK /\ FormsOK /\ MergeOK /\ LogOK
  BY DEF DataOK, ValuesOK
<1>1. UNCHANGED <<rec, clock, log>>
  BY DEF Fill, ActivateRead, MergeRead, MergeFails
<1>2. RowsOK' /\ LogOK'
  BY <1>0, <1>1 DEF RowsOK, LogOK, Newest
<1>3. ASSUME NEW c \in Crs, ActivateRead(c) PROVE FormsOK'
  <2>1. cr' = [cr EXCEPT ![c] = [@ EXCEPT !.st = "activating", !.ver = rec[cr[c].target].ver]]
    BY <1>3 DEF ActivateRead
  <2> DEFINE v == [cr[c] EXCEPT !.st = "activating", !.ver = rec[cr[c].target].ver]
  <2>2. v.st = "activating" /\ v.target = cr[c].target /\ v.payload = cr[c].payload /\ v.deltas = cr[c].deltas
    BY <1>0 DEF ShapeOK, IsRequest
  <2>3. cr'[c] = v /\ \A d \in Crs \ {c} : cr'[d] = cr[d]
    BY <1>0, <2>1 DEF ShapeOK
  <2> HIDE DEF v
  <2>4. \A d \in Crs : /\ cr'[d].st \in {"none", "approved", "activating", "activated"}
                       /\ cr'[d].target = cr[d].target
                       /\ cr'[d].payload = cr[d].payload /\ cr'[d].deltas = cr[d].deltas
    BY <1>0, <2>2, <2>3 DEF FormsOK
  <2> QED
    BY <1>0, <1>1, <2>4, FormsStay
<1>4. ASSUME NEW m \in Records, NEW victims \in Victims, MergeRead(m, victims) PROVE MergeOK'
  <2>1. /\ m \notin victims /\ {m} \cup victims \subseteq Published
        /\ merge' = [master |-> m, victims |-> victims, ver |-> rec[m].ver,
                     seen |-> [r \in {m} \cup victims |-> rec[r]]]
    BY <1>4 DEF MergeRead
  <2>2. victims \in SUBSET Records /\ IsFiniteSet(victims)
    BY MasterDataAssumption DEF MasterDataAssumption
  <2>3. rec[m].life = "published" /\ \A v \in victims : rec[v].row \in Row
    BY <1>0, <2>1 DEF Published, RowsOK
  <2>4. /\ merge'.master = m /\ merge'.victims = victims /\ merge'.ver = rec[m].ver
        /\ merge'.seen[m] = rec[m] /\ \A v \in victims : merge'.seen[v] = rec[v]
    BY <2>1
  <2> QED
    BY <1>1, <2>1, <2>2, <2>3, <2>4 DEF MergeOK
<1>5. MergeFails => MergeOK'
  BY DEF MergeFails, MergeOK
<1>6. FormsOK'
  <2>1. CASE UNCHANGED cr
    BY <1>0, <1>1, <2>1 DEF FormsOK
  <2>2. UNCHANGED cr \/ \E c \in Crs : Fill(c) \/ ActivateRead(c)
    BY DEF MergeRead, MergeFails
  <2> QED
    BY <1>3, <2>1, <2>2, FillValues
<1>7. MergeOK'
  <2>1. CASE UNCHANGED merge
    BY <1>0, <1>1, <2>1 DEF MergeOK
  <2>2. \/ UNCHANGED merge \/ MergeFails
        \/ \E m \in Records, victims \in Victims : MergeRead(m, victims)
    BY DEF Fill, ActivateRead
  <2> QED
    BY <1>4, <1>5, <2>1, <2>2
<1> QED
  BY <1>2, <1>6, <1>7 DEF ValuesOK

LEMMA ValuesStep == DataOK /\ ValuesOK /\ [FeedNext]_allVars => ValuesOK'
<1> SUFFICES ASSUME DataOK, ValuesOK, [FeedNext]_allVars PROVE ValuesOK'
  OBVIOUS
<1>1. CASE Next
  BY <1>1, CreateValues, UpdateValues, MergeValues, UndoValues, QuietValues DEF Next
<1>2. CASE UNCHANGED vars
  BY <1>2 DEF ValuesOK, RowsOK, FormsOK, MergeOK, LogOK, Newest, vars
<1>3. Follow => UNCHANGED vars
  BY DEF Follow, SnapshotList, SnapshotSeq, PullEvents, Ack, Restart, AckUpdate, AckInsert
<1> QED
  BY <1>1, <1>2, <1>3 DEF FeedNext, allVars

(* Records, events, forms and merges as they should be.                    *)
StateOK == DataOK /\ ValuesOK

LEMMA StateInvariant == FeedSpec => []StateOK
<1>1. FeedInit => StateOK
  BY DataInit, ValuesInit DEF FeedInit, StateOK
<1>2. StateOK /\ [FeedNext]_allVars => StateOK'
  BY DataStep, ValuesStep DEF StateOK
<1> QED
  BY <1>1, <1>2, PTL DEF FeedSpec

(* What a step may change in a published record.                           *)
Approved(r, f) == rec'[r].row[f] # rec[r].row[f] => SetByUser(r, f) \/ SetByMerge(r, f)

LEMMA UpdatesAreApproved ==
  ASSUME StateOK, NEW c \in Crs, ActivateUpdate(c), NEW r \in Published, NEW f \in Columns
  PROVE  Approved(r, f)
<1> SUFFICES ASSUME rec'[r].row[f] # rec[r].row[f] PROVE SetByUser(r, f)
  BY DEF Approved
<1>0. ShapeOK /\ r \in Records
  BY DEF StateOK, DataOK, Published
<1>1. Updatable(cr[c].target, cr[c].ver)
  BY DEF ActivateUpdate
<1> DEFINE t == cr[c].target
           row == Written(rec[t].row, PlanUpdate(cr[c]))
<1>2. /\ t \in Records
      /\ rec'[t] = [life |-> rec[t].life, ver |-> rec[t].ver + 1, time |-> rec[t].time, row |-> row]
      /\ \A q \in Records \ {t} : rec'[q] = rec[q]
      /\ cr' = [cr EXCEPT ![c].st = "activated"]
  BY <1>0, <1>1, Updated
<1>3. cr[c].target = r /\ rec'[r].row = row
  BY <1>0, <1>2
<1>4. f \in DOMAIN PlanUpdate(cr[c]) /\ row[f] = PlanUpdate(cr[c])[f]
  BY <1>3 DEF Written
<1>5. \E pair \in ToSet(Pairs) :
        pair[2] = f /\ pair[1] \in DOMAIN cr[c].deltas /\ row[f] = cr[c].deltas[pair[1]]
  BY <1>4, UpdateIsPlanned
<1>6. cr[c].st = "activating" /\ cr'[c].st = "activated"
  <2>1. cr'[c] = [st |-> "activated", target |-> cr[c].target, ver |-> cr[c].ver,
                  payload |-> cr[c].payload, deltas |-> cr[c].deltas]
    <3>1. cr' = [cr EXCEPT ![c].st = "activated"]
      BY <1>2
    <3> QED
      BY <1>0, <3>1, StatusMoves
  <2> QED
    BY <2>1 DEF ActivateUpdate
<1> HIDE DEF row, t
<1> QED
  BY <1>3, <1>5, <1>6 DEF SetByUser

LEMMA MergesAreApproved ==
  ASSUME StateOK, NEW o \in Overrides, MergeWrite(o), NEW r \in Published, NEW f \in Columns
  PROVE  Approved(r, f)
<1> SUFFICES ASSUME rec'[r].row[f] # rec[r].row[f] PROVE SetByMerge(r, f)
  BY DEF Approved
<1>0. ShapeOK /\ DataOK /\ ValuesOK /\ r \in Records
  BY DEF StateOK, DataOK, Published
<1> DEFINE m == merge.master
<1>1. /\ merge # NoMerge /\ merge' = NoMerge
      /\ \A q \in merge.victims \ {m} :
           rec'[q] = [life |-> "merged", ver |-> rec[q].ver + 1, time |-> clock + 1, row |-> rec[q].row]
      /\ \A q \in Records \ (merge.victims \cup {m}) : rec'[q] = rec[q]
  BY <1>0, Merged
<1>2. PICK order \in SetToSeqs(merge.victims) :
        rec'[m] = [life |-> rec[m].life, ver |-> rec[m].ver + 1, time |-> rec[m].time,
                   row |-> Written(Survivors(merge.seen, m, order), o)]
  BY <1>0, Merged
<1> DEFINE row == Written(Survivors(merge.seen, m, order), o)
<1>3. \/ f \in DOMAIN o /\ f \in DOMAIN Rules /\ row[f] = o[f]
      \/ SurvivesAs(merge.seen, m, merge.victims, f, row[f])
  BY <1>0, <1>1, MergedRow
<1>4. merge.seen[m] = rec[m]
  BY <1>0, <1>1 DEF ValuesOK, MergeOK
<1>5. rec'[m].row = row
  BY <1>2
<1> HIDE DEF row, m
<1>6. r = m
  <2>1. CASE r \in merge.victims \ {m}
    <3>1. rec'[r] = [life |-> "merged", ver |-> rec[r].ver + 1, time |-> clock + 1, row |-> rec[r].row]
      BY <1>1, <2>1
    <3> QED
      BY <3>1
  <2>2. CASE r \in Records \ (merge.victims \cup {m})
    BY <1>1, <2>2
  <2> QED
    BY <1>0, <2>1, <2>2
<1>7. CASE f \in DOMAIN o /\ f \in DOMAIN Rules /\ row[f] = o[f]
  BY <1>1, <1>5, <1>6, <1>7 DEF SetByMerge, m
<1>8. CASE SurvivesAs(merge.seen, m, merge.victims, f, row[f])
  <2>1. row[f] # merge.seen[m].row[f]
    BY <1>4, <1>5, <1>6
  <2>2. f \in DOMAIN Rules
    BY <1>8, <2>1 DEF SurvivesAs
  <2>3. PICK v \in merge.victims :
          /\ row[f] = merge.seen[v].row[f]
          /\ IF Rules[f] = "latest" THEN merge.seen[v].time > merge.seen[m].time
                                    ELSE ~Filled(rec[m].row[f])
    BY <1>4, <1>8, <2>1 DEF SurvivesAs
  <2> QED
    BY <1>1, <1>5, <1>6, <2>2, <2>3 DEF SetByMerge, m
<1> QED
  BY <1>3, <1>7, <1>8

(* A published record changes by what its user changed or its steward      *)
(* approved, and not otherwise: an activation writes no column that was    *)
(* not changed, however old the form is that the CR carries, and a merge   *)
(* takes of its victims what the rules say.                                *)
THEOREM OnlyApprovedChanges == FeedSpec => ChangesAreApproved
<1> DEFINE A == \A r \in Published, f \in Columns :
                  rec'[r].row[f] # rec[r].row[f] => SetByUser(r, f) \/ SetByMerge(r, f)
<1>1. ASSUME StateOK, FeedNext
      PROVE  A
  <2> SUFFICES ASSUME NEW r \in Published, NEW f \in Columns PROVE Approved(r, f)
    BY DEF Approved
  <2>0. ShapeOK /\ r \in Records /\ rec[r].life = "published"
    BY <1>1 DEF StateOK, DataOK, Published
  <2>1. CASE rec'[r] = rec[r]
    BY <2>1 DEF Approved
  <2>2. ASSUME NEW c \in Crs, ActivateCreate(c) PROVE Approved(r, f)
    <3>1. PICK q \in Records : rec[q].life = "absent" /\ \A p \in Records \ {q} : rec'[p] = rec[p]
      BY <2>0, <2>2, Created
    <3> QED
      BY <2>0, <2>1, <3>1
  <2>3. ASSUME NEW c \in Crs, ActivateUpdate(c) PROVE Approved(r, f)
    BY <1>1, <2>3, UpdatesAreApproved
  <2>4. ASSUME NEW o \in Overrides, MergeWrite(o) PROVE Approved(r, f)
    BY <1>1, <2>4, MergesAreApproved
  <2>5. ASSUME NEW v \in Records, Undo(v) PROVE Approved(r, f)
    <3>1. rec[v].life = "merged" /\ \A q \in Records \ {v} : rec'[q] = rec[q]
      BY <2>0, <2>5, Undone
    <3> QED
      BY <2>0, <2>1, <3>1
  <2>6. \/ UNCHANGED rec
        \/ \E c \in Crs : ActivateCreate(c) \/ ActivateUpdate(c)
        \/ \E o \in Overrides : MergeWrite(o)
        \/ \E v \in Records : Undo(v)
    BY <1>1 DEF FeedNext, Next, Follow, Fill, ActivateRead, MergeRead, MergeFails, SnapshotList,
                SnapshotSeq, PullEvents, Ack, Restart, AckUpdate, AckInsert, vars
  <2> QED
    BY <2>1, <2>2, <2>3, <2>4, <2>5, <2>6
<1>2. StateOK /\ [FeedNext]_allVars => [A]_allVars
  BY <1>1
<1> HIDE DEF A
<1>3. FeedSpec => [][A]_allVars
  BY <1>2, StateInvariant, PTL DEF FeedSpec
<1> QED
  BY <1>3 DEF ChangesAreApproved, A

-----------------------------------------------------------------------------
(* What is acknowledged.                                                   *)

IsConsumer(v) ==
  v = [at |-> v.at, copy |-> v.copy, page |-> v.page, since |-> v.since, from |-> v.from]

(* Offsets are numbers, or NoRow; what a consumer has reached, and so what *)
(* it acknowledges, is a number.                                           *)
OffsetOK ==
  /\ IsLog(log)
  /\ con = [p \in Consumers |-> con[p]]
  /\ \A p \in Consumers : IsConsumer(con[p]) /\ con[p].since \in Nat
  /\ offset \in [Consumers -> Nat \cup {NoRow}]
  /\ \A a \in acks : a.p \in Consumers /\ a.seq \in Nat /\ a = [p |-> a.p, seq |-> a.seq, at |-> a.at]

LEMMA LogLength ==
  ASSUME IsLog(log)
  PROVE  Newest \in Nat
BY LenProperties DEF IsLog, Newest

(* An acknowledgement writes its number where there is none or a smaller   *)
(* one, and no other step touches the offsets.                             *)
LEMMA OffsetRises ==
  ASSUME OffsetOK, [FeedNext]_allVars
  PROVE  /\ offset' \in [Consumers -> Nat \cup {NoRow}]
         /\ \A p \in Consumers : offset'[p] >= offset[p]
<1>1. CASE UNCHANGED offset
  BY <1>1 DEF OffsetOK, NoRow
<1>2. ASSUME NEW a \in acks, AckUpdate(a)
      PROVE  \/ UNCHANGED offset
             \/ offset' = [offset EXCEPT ![a.p] = a.seq] /\ offset[a.p] < a.seq
  BY <1>2 DEF AckUpdate, Ackable
<1>3. ASSUME NEW a \in acks, offset' = [offset EXCEPT ![a.p] = a.seq],
             offset[a.p] < a.seq
      PROVE  /\ offset' \in [Consumers -> Nat \cup {NoRow}]
             /\ \A p \in Consumers : offset'[p] >= offset[p]
  BY <1>3 DEF OffsetOK, NoRow
<1>4. ASSUME NEW a \in acks, AckInsert(a)
      PROVE  \/ UNCHANGED offset
             \/ offset' = [offset EXCEPT ![a.p] = a.seq] /\ offset[a.p] < a.seq
  <2>1. CASE offset[a.p] = NoRow
    BY <1>4, <2>1 DEF AckInsert, OffsetOK, NoRow
  <2>2. CASE offset[a.p] # NoRow
    BY <1>4, <2>2 DEF AckInsert, OffsetOK
  <2> QED
    BY <2>1, <2>2
<1>5. \/ UNCHANGED offset
      \/ \E a \in acks : AckUpdate(a) \/ AckInsert(a)
  BY DEF FeedNext, Follow, SnapshotList, SnapshotSeq, PullEvents, Ack, Restart, allVars, feedVars
<1> QED
  BY <1>1, <1>2, <1>3, <1>4, <1>5

(* What a step leaves of a consumer.                                       *)
LEMMA ConsumerSet ==
  ASSUME OffsetOK, NEW p \in Consumers, NEW v, Set(p, v), IsConsumer(v), v.since \in Nat
  PROVE  /\ con' = [q \in Consumers |-> con'[q]]
         /\ \A q \in Consumers : IsConsumer(con'[q]) /\ con'[q].since \in Nat
<1>1. con'[p] = v /\ \A q \in Consumers \ {p} : con'[q] = con[q]
  BY DEF OffsetOK, Set
<1>2. con' = [q \in Consumers |-> con'[q]]
  BY DEF OffsetOK, Set
<1> QED
  BY <1>1, <1>2 DEF OffsetOK

LEMMA NewConsumerShape == IsConsumer(NewConsumer) /\ NewConsumer.since = 0
BY DEF IsConsumer, NewConsumer

(* Consumers read numbers of events, or what they acknowledged.            *)
LEMMA ConsumerStep ==
  ASSUME OffsetOK, NEW p \in Consumers,
         SnapshotList(p) \/ SnapshotSeq(p) \/ PullEvents(p) \/ Restart(p)
  PROVE  /\ con' = [q \in Consumers |-> con'[q]]
         /\ \A q \in Consumers : IsConsumer(con'[q]) /\ con'[q].since \in Nat
<1>1. Newest \in Nat
  BY LogLength DEF OffsetOK
<1>2. /\ con[p] \in [at : {con[p].at}, copy : {con[p].copy}, page : {con[p].page}, since : Nat,
                    from : {con[p].from}]
      /\ con[p].since \in Nat
  BY DEF OffsetOK, IsConsumer
<1>3. ASSUME NEW v, NEW A, NEW C, NEW G, NEW F, v \in [at : A, copy : C, page : G, since : Nat, from : F]
      PROVE  IsConsumer(v) /\ v.since \in Nat
  BY <1>3 DEF IsConsumer
<1>4. CASE SnapshotList(p)
  <2>1. PICK a, c, g, f : Set(p, [con[p] EXCEPT !.copy = c, !.from = f, !.page = g, !.at = a])
    BY <1>4 DEF SnapshotList
  <2> DEFINE v == [con[p] EXCEPT !.copy = c, !.from = f, !.page = g, !.at = a]
  <2>2. v \in [at : {a}, copy : {c}, page : {g}, since : Nat, from : {f}]
    BY <1>2
  <2> HIDE DEF v
  <2>3. IsConsumer(v) /\ v.since \in Nat
    BY <1>3, <2>2
  <2> QED
    BY <2>1, <2>3, ConsumerSet DEF v
<1>5. CASE SnapshotSeq(p)
  <2>0. PICK n \in {Newest, 0} : \E f : Set(p, [con[p] EXCEPT !.at = "follow", !.since = n, !.from = f])
    BY <1>5 DEF SnapshotSeq
  <2>1. PICK f : Set(p, [con[p] EXCEPT !.at = "follow", !.since = n, !.from = f])
    BY <2>0
  <2> DEFINE v == [con[p] EXCEPT !.at = "follow", !.since = n, !.from = f]
  <2>2. n \in Nat
    BY <1>1, <2>0
  <2>4. v \in [at : {"follow"}, copy : {con[p].copy}, page : {con[p].page}, since : Nat, from : {f}]
    BY <1>2, <2>2
  <2> HIDE DEF v
  <2>3. IsConsumer(v) /\ v.since \in Nat
    BY <1>3, <2>4
  <2> QED
    BY <2>1, <2>3, ConsumerSet DEF v
<1>6. CASE PullEvents(p)
  <2>0. NextSince(con[p].since) \in Nat
    BY <1>1, <1>2, FeedAssumption DEF FeedAssumption, NextSince
  <2>1. PICK c : Set(p, [con[p] EXCEPT !.copy = c, !.since = NextSince(con[p].since)])
    BY <1>6 DEF PullEvents
  <2> DEFINE n == NextSince(con[p].since)
             v == [con[p] EXCEPT !.copy = c, !.since = n]
  <2> HIDE DEF n
  <2>2. v \in [at : {con[p].at}, copy : {c}, page : {con[p].page}, since : Nat, from : {con[p].from}]
    BY <1>2, <2>0 DEF n
  <2> HIDE DEF v
  <2>3. IsConsumer(v) /\ v.since \in Nat
    BY <1>3, <2>2
  <2> QED
    BY <2>1, <2>3, ConsumerSet DEF v, n
<1>7. CASE Restart(p) /\ offset[p] = NoRow
  <2>1. Set(p, NewConsumer)
    BY <1>7 DEF Restart
  <2> QED
    BY <2>1, ConsumerSet, NewConsumerShape
<1>8. CASE Restart(p) /\ offset[p] # NoRow
  <2>1. PICK f : Set(p, [con[p] EXCEPT !.since = offset[p], !.from = f])
    BY <1>8 DEF Restart
  <2>2. offset[p] \in Nat
    BY <1>8 DEF OffsetOK
  <2> DEFINE v == [con[p] EXCEPT !.since = offset[p], !.from = f]
  <2>3. v \in [at : {con[p].at}, copy : {con[p].copy}, page : {con[p].page}, since : Nat, from : {f}]
    BY <1>2, <2>2
  <2> HIDE DEF v
  <2>4. IsConsumer(v) /\ v.since \in Nat
    BY <1>3, <2>3
  <2> QED
    BY <2>1, <2>4, ConsumerSet DEF v
<1> QED
  BY <1>4, <1>5, <1>6, <1>7, <1>8

(* Numbers stay numbers.                                                   *)
LEMMA OffsetStep == OffsetOK /\ [FeedNext]_allVars => OffsetOK'
<1> SUFFICES ASSUME OffsetOK, [FeedNext]_allVars PROVE OffsetOK'
  OBVIOUS
<1>1. offset' \in [Consumers -> Nat \cup {NoRow}]
  BY OffsetRises
<1>2. CASE Next /\ UNCHANGED feedVars
  <2>1. IsLog(log')
    <3>1. ASSUME NEW e, log' = Append(log, e)
          PROVE  IsLog(log')
      BY <3>1, LogAppend DEF OffsetOK
    <3>2. ASSUME NEW c \in Crs, Fill(c) \/ ActivateRead(c) \/ ActivateCreate(c) \/ ActivateUpdate(c)
          PROVE  log' = log \/ \E e : log' = Append(log, e)
      BY <3>2 DEF Fill, ActivateRead, ActivateCreate, ActivateUpdate
    <3>3. ASSUME NEW o \in Overrides, MergeWrite(o)
          PROVE  \E e : log' = Append(log, e)
      BY <3>3 DEF MergeWrite
    <3>4. ASSUME MergeFails \/ (\E m \in Records, victims \in Victims : MergeRead(m, victims))
                 \/ \E v \in Records : Undo(v)
          PROVE  log' = log
      BY <3>4 DEF MergeFails, MergeRead, Undo
    <3> QED
      BY <1>2, <3>1, <3>2, <3>3, <3>4 DEF OffsetOK, Next
  <2> QED
    BY <1>2, <2>1 DEF OffsetOK, feedVars
<1>3. CASE UNCHANGED allVars
  BY <1>3 DEF OffsetOK, allVars, vars, feedVars
<1>4. ASSUME NEW p \in Consumers,
             SnapshotList(p) \/ SnapshotSeq(p) \/ PullEvents(p) \/ Restart(p)
      PROVE  OffsetOK'
  <2>1. UNCHANGED <<log, acks>>
    BY <1>4 DEF SnapshotList, SnapshotSeq, PullEvents, Restart, vars
  <2> QED
    BY <1>1, <1>4, <2>1, ConsumerStep DEF OffsetOK
<1>5. ASSUME NEW p \in Consumers, Ack(p)
      PROVE  OffsetOK'
  <2>1. /\ acks' = acks \cup {[p |-> p, seq |-> con[p].since, at |-> "update"]}
        /\ UNCHANGED <<log, con>>
    BY <1>5 DEF Ack, vars
  <2>2. con[p].since \in Nat
    BY <1>5 DEF OffsetOK
  <2> QED
    BY <1>1, <1>5, <2>1, <2>2 DEF OffsetOK
<1>6. ASSUME NEW a \in acks, AckUpdate(a) \/ AckInsert(a)
      PROVE  OffsetOK'
  <2> DEFINE v == [a EXCEPT !.at = "insert"]
  <2>1. acks' \subseteq acks \cup {v}
    BY <1>6 DEF AckUpdate, AckInsert
  <2>2. v \in [p : {a.p}, seq : {a.seq}, at : {"insert"}] /\ a.p \in Consumers /\ a.seq \in Nat
    BY <1>6 DEF OffsetOK
  <2> HIDE DEF v
  <2>3. v.p \in Consumers /\ v.seq \in Nat /\ v = [p |-> v.p, seq |-> v.seq, at |-> v.at]
    BY <2>2
  <2>4. UNCHANGED <<log, con>>
    BY <1>6 DEF AckUpdate, AckInsert, vars
  <2> QED
    BY <1>1, <2>1, <2>3, <2>4 DEF OffsetOK
<1> QED
  BY <1>2, <1>3, <1>4, <1>5, <1>6 DEF FeedNext, Follow

(* However acknowledgements overtake each other, the acknowledged number   *)
(* never falls.                                                            *)
THEOREM OffsetsOnlyRise == FeedSpec => OffsetNeverFalls
<1>1. FeedInit => OffsetOK
  <2>1. FeedInit => IsLog(log)
    BY DataInit DEF FeedInit, DataOK, ShapeOK
  <2> QED
    BY <2>1, NewConsumerShape DEF FeedInit, OffsetOK
<1>2. OffsetOK /\ [FeedNext]_allVars => [\A p \in Consumers : offset'[p] >= offset[p]]_allVars
  BY OffsetRises
<1> QED
  BY <1>1, <1>2, OffsetStep, PTL DEF FeedSpec, OffsetNeverFalls

-----------------------------------------------------------------------------
(* What consumers hold.                                                    *)

Copies == UNION {[D -> [ver : Nat, row : Row]] : D \in SUBSET Records}

EventOK(e) == e.rec \in Records /\ e.ver \in Nat /\ e.row \in Row

LEMMA CopyOf ==
  ASSUME NEW copy \in Copies
  PROVE  /\ DOMAIN copy \in SUBSET Records /\ copy = [r \in DOMAIN copy |-> copy[r]]
         /\ \A r \in DOMAIN copy : copy[r] \in [ver : Nat, row : Row]
BY DEF Copies

LEMMA IsCopy ==
  ASSUME NEW D \in SUBSET Records, NEW copy, copy \in [D -> [ver : Nat, row : Row]]
  PROVE  copy \in Copies
BY DEF Copies

(* What an event leaves of a copy.                                         *)
LEMMA Applied ==
  ASSUME NEW copy \in Copies, NEW e, EventOK(e)
  PROVE  LET kept == DOMAIN copy \ e.gone
             stays == e.rec \in kept /\ copy[e.rec].ver >= e.ver IN
         /\ Apply(copy, e) \in Copies
         /\ DOMAIN Apply(copy, e) = kept \cup {e.rec}
         /\ \A r \in kept : r # e.rec \/ stays => Apply(copy, e)[r] = copy[r]
         /\ ~stays => Apply(copy, e)[e.rec] = [ver |-> e.ver, row |-> e.row]
<1> DEFINE kept == [r \in DOMAIN copy \ e.gone |-> copy[r]]
           new == [ver |-> e.ver, row |-> e.row]
           out == [r \in DOMAIN kept \cup {e.rec} |-> IF r = e.rec THEN new ELSE kept[r]]
<1>1. /\ DOMAIN copy \in SUBSET Records
      /\ \A r \in DOMAIN copy : copy[r] \in [ver : Nat, row : Row]
  BY CopyOf
<1>2. DOMAIN kept = DOMAIN copy \ e.gone /\ \A r \in DOMAIN kept : kept[r] = copy[r]
  OBVIOUS
<1>3. Apply(copy, e) = IF e.rec \in DOMAIN kept /\ kept[e.rec].ver >= e.ver THEN kept ELSE out
  BY DEF Apply
<1>4. new \in [ver : Nat, row : Row]
  BY DEF EventOK
<1>5. kept \in Copies
  <2>1. DOMAIN kept \in SUBSET Records /\ kept \in [DOMAIN kept -> [ver : Nat, row : Row]]
    BY <1>1
  <2> HIDE DEF kept
  <2> QED
    BY <2>1, IsCopy
<1>6. out \in Copies
  <2>1. DOMAIN kept \cup {e.rec} \in SUBSET Records
    BY <1>1 DEF EventOK
  <2>2. out \in [DOMAIN kept \cup {e.rec} -> [ver : Nat, row : Row]]
    <3> HIDE DEF new
    <3> QED
      BY <1>1, <1>4
  <2> HIDE DEF out, kept
  <2> QED
    BY <2>1, <2>2, IsCopy
<1>7. /\ DOMAIN out = DOMAIN kept \cup {e.rec} /\ out[e.rec] = new
      /\ \A r \in DOMAIN kept : r # e.rec => out[r] = kept[r]
  OBVIOUS
<1> HIDE DEF out, kept
<1>8. CASE e.rec \in DOMAIN kept /\ kept[e.rec].ver >= e.ver
  BY <1>2, <1>3, <1>5, <1>8
<1>9. CASE ~(e.rec \in DOMAIN kept /\ kept[e.rec].ver >= e.ver)
  BY <1>2, <1>3, <1>6, <1>7, <1>9
<1> QED
  BY <1>8, <1>9

(* Copies from event to event.                                             *)
IsRun(F, copy, q, n) ==
  /\ F \in [0 .. n -> Copies]
  /\ F[0] = copy
  /\ \A i \in 1 .. n : F[i] = Apply(F[i - 1], q[i])

LEMMA PulledOneByOne ==
  ASSUME NEW copy \in Copies, NEW q, NEW n \in Nat, DOMAIN q = 1 .. n, \A i \in 1 .. n : EventOK(q[i])
  PROVE  \E F : IsRun(F, copy, q, n) /\ FoldLeft(Apply, copy, q) = F[n]
<1> DEFINE S == 1 .. n
           body(h) == [s \in SUBSET S |-> IF s = {} THEN copy ELSE Apply(h[s \ {Max(s)}], q[Max(s)])]
           iter == CHOOSE h : h = body(h)
<1>1. FoldLeft(Apply, copy, q) = iter[S]
  BY Zenon DEF FoldLeft, MapThenFoldSet
<1>2. \A s \in SUBSET S : s # {} => Max(s) \in s
  BY MaxOfFirst
<1>3. \A v \in Copies, i \in S : Apply(v, q[i]) \in Copies
  BY Applied
<1>4. PICK h : h \in [SUBSET S -> Copies] /\ h = body(h)
  <2> DEFINE g == [d \in Copies \X S |-> Apply(d[1], q[d[2]])]
  <2>1. g \in [Copies \X S -> Copies]
    <3> HIDE DEF S
    <3> QED
      BY <1>3
  <2>2. PICK h : IsFold(h, n, Copies, copy, g)
    <3> HIDE DEF g
    <3> QED
      BY <2>1, Folding
  <2>3. h \in [SUBSET S -> Copies] /\ \A s \in SUBSET S :
          h[s] = IF s = {} THEN copy ELSE g[<<h[s \ {Max(s)}], Max(s)>>]
    <3> HIDE DEF g
    <3> QED
      BY <2>2 DEF IsFold
  <2>4. \A s \in SUBSET S : h[s] = IF s = {} THEN copy ELSE Apply(h[s \ {Max(s)}], q[Max(s)])
    <3> HIDE DEF S
    <3> QED
      BY <1>2, <2>3
  <2>5. h = body(h)
    <3> HIDE DEF S, g
    <3> QED
      BY <2>3, <2>4
  <2> QED
    BY <2>3, <2>5
<1>5. iter = body(iter)
  <2> HIDE DEF body
  <2> QED
    BY <1>4
<1> HIDE DEF iter
<1>6. iter[{}] = copy /\ \A s \in SUBSET S : s # {} => iter[s] = Apply(iter[s \ {Max(s)}], q[Max(s)])
  <2> HIDE DEF S
  <2> QED
    BY <1>5
<1> HIDE DEF body
<1> DEFINE F == [i \in 0 .. n |-> iter[1 .. i]]
<1>7. ASSUME NEW i \in 1 .. n
      PROVE  iter[1 .. i] = Apply(iter[1 .. (i - 1)], q[i])
  <2>1. 1 .. i \in SUBSET S /\ 1 .. i # {} /\ Max(1 .. i) = i /\ (1 .. i) \ {i} = 1 .. (i - 1)
    BY FirstPlaces
  <2> HIDE DEF S
  <2> QED
    BY <1>6, <2>1
<1>8. iter[1 .. 0] = copy
  <2>1. 1 .. 0 = {}
    OBVIOUS
  <2> QED
    BY <1>6, <2>1
<1> DEFINE T == {i \in Nat : i <= n => iter[1 .. i] \in Copies}
<1>9. T = Nat
  <2>1. 0 \in T
    BY <1>8
  <2>2. ASSUME NEW i \in T PROVE i + 1 \in T
    <3> SUFFICES ASSUME i + 1 <= n PROVE iter[1 .. (i + 1)] \in Copies
      OBVIOUS
    <3>1. i \in Nat /\ i + 1 \in 1 .. n /\ (i + 1) - 1 = i /\ iter[1 .. i] \in Copies
      OBVIOUS
    <3>2. iter[1 .. (i + 1)] = Apply(iter[1 .. i], q[i + 1])
      BY <1>7, <3>1
    <3> QED
      BY <1>3, <3>1, <3>2
  <2> HIDE DEF T
  <2> QED
    BY <2>1, <2>2, NumberInduction, Zenon DEF T
<1>10. F \in [0 .. n -> Copies] /\ F[0] = copy /\ F[n] = iter[S]
       /\ \A i \in 1 .. n : F[i] = iter[1 .. i] /\ F[i - 1] = iter[1 .. (i - 1)]
  BY <1>8, <1>9
<1>11. \A i \in 1 .. n : F[i] = Apply(F[i - 1], q[i])
  BY <1>7, <1>10
<1> HIDE DEF F
<1> QED
  BY <1>1, <1>10, <1>11 DEF IsRun

-----------------------------------------------------------------------------
(* What the steps of a consumer leave of it.                               *)

OthersStay(p) == \A q \in Consumers \ {p} : con'[q] = con[q]

LEMMA ConsumerIs ==
  ASSUME OffsetOK, NEW p \in Consumers, NEW v, Set(p, v)
  PROVE  con'[p] = v /\ OthersStay(p)
BY DEF OffsetOK, Set, OthersStay

LEMMA ListSets ==
  ASSUME OffsetOK, NEW p \in Consumers, SnapshotList(p)
  PROVE  LET rows == Page(con[p].page)
             full == Cardinality(rows) = PageSize IN
         /\ con[p].at = "list" /\ con'[p].since = con[p].since
         /\ con'[p].copy = Loaded(con[p].copy, rows)
         /\ con'[p].from = IF con[p].page = 1 THEN Newest ELSE con[p].from
         /\ con'[p].page = IF full THEN con[p].page + 1 ELSE 1
         /\ con'[p].at = IF full THEN "list" ELSE "seq"
         /\ OthersStay(p) /\ UNCHANGED <<vars, offset, acks, crashes>>
<1> DEFINE rows == Page(con[p].page)
           full == Cardinality(rows) = PageSize
           copy == Loaded(con[p].copy, rows)
           from == IF con[p].page = 1 THEN Newest ELSE con[p].from
           page == IF full THEN con[p].page + 1 ELSE 1
           at == IF full THEN "list" ELSE "seq"
           v == [con[p] EXCEPT !.copy = copy, !.from = from, !.page = page, !.at = at]
<1>1. con[p].at = "list" /\ Set(p, v) /\ UNCHANGED <<vars, offset, acks, crashes>>
  BY DEF SnapshotList
<1>2. IsConsumer(con[p])
  BY DEF OffsetOK
<1> HIDE DEF copy, from, page, at
<1>3. v.copy = copy /\ v.from = from /\ v.page = page /\ v.at = at /\ v.since = con[p].since
  BY <1>2 DEF IsConsumer
<1> HIDE DEF v
<1>4. con'[p] = v /\ OthersStay(p)
  BY <1>1, ConsumerIs
<1> QED
  BY <1>1, <1>3, <1>4 DEF copy, from, page, at

LEMMA SeqSets ==
  ASSUME OffsetOK, NEW p \in Consumers, SnapshotSeq(p)
  PROVE  /\ con[p].at = "seq" /\ con'[p].at = "follow" /\ con'[p].since \in {Newest, 0}
         /\ con'[p].from = IF con[p].from = Newest THEN Everything ELSE con'[p].since
         /\ con'[p].copy = con[p].copy /\ con'[p].page = con[p].page
         /\ OthersStay(p) /\ UNCHANGED <<vars, offset, acks, crashes>>
<1>1. PICK n \in {Newest, 0} :
        Set(p, [con[p] EXCEPT !.at = "follow", !.since = n,
                              !.from = IF @ = Newest THEN Everything ELSE n])
  BY DEF SnapshotSeq
<1> DEFINE from == IF con[p].from = Newest THEN Everything ELSE n
           v == [con[p] EXCEPT !.at = "follow", !.since = n, !.from = from]
<1>2. con[p].at = "seq" /\ UNCHANGED <<vars, offset, acks, crashes>>
  BY DEF SnapshotSeq
<1>3. IsConsumer(con[p])
  BY DEF OffsetOK
<1>4. Set(p, v)
  BY <1>1
<1> HIDE DEF from
<1>5. /\ v.copy = con[p].copy /\ v.page = con[p].page /\ v.at = "follow" /\ v.since = n
      /\ v.from = from
  BY <1>3 DEF IsConsumer
<1> HIDE DEF v
<1>6. con'[p] = v /\ OthersStay(p)
  BY <1>4, ConsumerIs
<1> QED
  BY <1>2, <1>5, <1>6 DEF from

LEMMA PullSets ==
  ASSUME OffsetOK, NEW p \in Consumers, PullEvents(p)
  PROVE  LET since == con[p].since IN
         /\ con[p].at = "follow" /\ since < Newest
         /\ con'[p].copy = FoldLeft(Apply, con[p].copy, Batch(since))
         /\ con'[p].since = NextSince(since)
         /\ con'[p].at = con[p].at /\ con'[p].page = con[p].page /\ con'[p].from = con[p].from
         /\ OthersStay(p) /\ UNCHANGED <<vars, offset, acks, crashes>>
<1> DEFINE since == con[p].since
           copy == FoldLeft(Apply, con[p].copy, Batch(since))
           next == NextSince(since)
           v == [con[p] EXCEPT !.copy = copy, !.since = next]
<1>1. con[p].at = "follow" /\ since < Newest /\ Set(p, v) /\ UNCHANGED <<vars, offset, acks, crashes>>
  BY DEF PullEvents
<1>2. IsConsumer(con[p])
  BY DEF OffsetOK
<1> HIDE DEF copy, next
<1>3. /\ v.copy = copy /\ v.page = con[p].page /\ v.at = con[p].at /\ v.since = next
      /\ v.from = con[p].from
  BY <1>2 DEF IsConsumer
<1> HIDE DEF v
<1>4. con'[p] = v /\ OthersStay(p)
  BY <1>1, ConsumerIs
<1> QED
  BY <1>1, <1>3, <1>4 DEF copy, next

LEMMA RestartSets ==
  ASSUME OffsetOK, NEW p \in Consumers, Restart(p)
  PROVE  /\ con[p].at = "follow"
         /\ offset[p] = NoRow => con'[p] = NewConsumer
         /\ offset[p] # NoRow =>
              /\ con'[p].at = "follow" /\ con'[p].page = con[p].page
              /\ con'[p].copy = con[p].copy /\ con'[p].since = offset[p]
              /\ con'[p].from = IF offset[p] > con[p].since THEN offset[p] ELSE con[p].from
         /\ OthersStay(p) /\ crashes' = crashes + 1 /\ UNCHANGED <<vars, offset, acks>>
<1> DEFINE from == IF offset[p] > con[p].since THEN offset[p] ELSE con[p].from
           v == [con[p] EXCEPT !.since = offset[p], !.from = from]
<1>1. /\ con[p].at = "follow" /\ crashes' = crashes + 1 /\ UNCHANGED <<vars, offset, acks>>
      /\ offset[p] = NoRow => Set(p, NewConsumer)
      /\ offset[p] # NoRow => Set(p, v)
  BY DEF Restart
<1>2. IsConsumer(con[p])
  BY DEF OffsetOK
<1> HIDE DEF from
<1>3. /\ v.copy = con[p].copy /\ v.page = con[p].page /\ v.at = con[p].at /\ v.since = offset[p]
      /\ v.from = from
  BY <1>2 DEF IsConsumer
<1> HIDE DEF v
<1>4. /\ offset[p] = NoRow => con'[p] = NewConsumer /\ OthersStay(p)
      /\ offset[p] # NoRow => con'[p] = v /\ OthersStay(p)
  BY <1>1, ConsumerIs
<1> QED
  BY <1>1, <1>3, <1>4 DEF from

(* A page of events.                                                       *)
LEMMA BatchIs ==
  ASSUME IsLog(log), NEW since \in Nat, since < Newest
  PROVE  LET n == NextSince(since) - since IN
         /\ Newest \in Nat /\ n \in Nat /\ n >= 1 /\ since + n = NextSince(since)
         /\ since + n <= Newest
         /\ DOMAIN Batch(since) = 1 .. n
         /\ \A i \in 1 .. n : Batch(since)[i] = log[since + i] /\ since + i \in 1 .. Newest
<1>1. Newest \in Nat /\ EventLimit \in Nat \ {0}
  BY LogLength, FeedAssumption DEF FeedAssumption
<1>2. /\ NextSince(since) \in Nat /\ NextSince(since) > since /\ NextSince(since) <= Newest
  BY <1>1 DEF NextSince
<1> DEFINE b == NextSince(since)
<1> HIDE DEF b
<1>3. b \in Nat /\ b > since /\ b <= Newest
  BY <1>2 DEF b
<1>4. PICK X : log \in Seq(X)
  BY DEF IsLog
<1>5. /\ DOMAIN SubSeq(log, since + 1, b) = 1 .. (b - since)
      /\ \A i \in 1 .. (b - since) : SubSeq(log, since + 1, b)[i] = log[since + i]
  <2>1. \A i \in 1 .. (b - since) : since + 1 + i - 1 = since + i
    BY <1>3
  <2> QED
    BY <1>3, <1>4, <2>1 DEF Newest
<1>6. DOMAIN Batch(since) = 1 .. (b - since) /\ \A i \in 1 .. (b - since) : Batch(since)[i] = log[since + i]
  BY <1>5 DEF Batch, b
<1>7. \A i \in 1 .. (b - since) : since + i \in 1 .. Newest
  BY <1>1, <1>3
<1>8. b - since \in Nat /\ b - since >= 1 /\ since + (b - since) = b
  BY <1>3
<1> QED
  BY <1>1, <1>3, <1>6, <1>7, <1>8 DEF b

-----------------------------------------------------------------------------
(* Types.                                                                  *)

ConsOK ==
  /\ \A p \in Consumers : /\ con[p].at \in {"list", "seq", "follow"} /\ con[p].copy \in Copies
                          /\ con[p].since <= Newest /\ offset[p] <= Newest
  /\ \A a \in acks : a.seq <= Newest

LEMMA CopyOK ==
  ASSUME StateOK, NEW r \in Records
  PROVE  Copy(r) \in [ver : Nat, row : Row]
BY DEF StateOK, DataOK, ShapeOK, ValuesOK, RowsOK, Copy

LEMMA LoadedOK ==
  ASSUME StateOK, NEW copy \in Copies, NEW S \in SUBSET Records
  PROVE  Loaded(copy, S) \in Copies
<1> DEFINE new == Loaded(copy, S)
<1>1. DOMAIN copy \cup S \in SUBSET Records /\ \A r \in DOMAIN copy : copy[r] \in [ver : Nat, row : Row]
  BY CopyOf
<1>2. new \in [DOMAIN copy \cup S -> [ver : Nat, row : Row]]
  BY <1>1, CopyOK DEF Loaded
<1> HIDE DEF new
<1>3. new \in Copies
  BY <1>1, <1>2, IsCopy
<1> QED
  BY <1>3 DEF new

LEMMA EventsOK ==
  ASSUME StateOK, NEW i \in 1 .. Newest
  PROVE  EventOK(log[i])
BY DEF StateOK, DataOK, EventsBehind, ValuesOK, LogOK, EventOK

(* What a pull leaves of a copy, event by event.                           *)
LEMMA Pulled ==
  ASSUME StateOK, NEW copy \in Copies, NEW since \in Nat, since < Newest
  PROVE  LET n == NextSince(since) - since IN
         \E F : IsRun(F, copy, Batch(since), n) /\ FoldLeft(Apply, copy, Batch(since)) = F[n]
<1> DEFINE n == NextSince(since) - since
           q == Batch(since)
<1>1. /\ n \in Nat /\ DOMAIN q = 1 .. n
      /\ \A i \in 1 .. n : q[i] = log[since + i] /\ since + i \in 1 .. Newest
  BY BatchIs DEF StateOK, DataOK, ShapeOK
<1>2. \A i \in 1 .. n : EventOK(q[i])
  BY <1>1, EventsOK
<1> HIDE DEF n, q
<1>3. \E F : IsRun(F, copy, q, n) /\ FoldLeft(Apply, copy, q) = F[n]
  BY <1>1, <1>2, PulledOneByOne
<1> QED
  BY <1>3 DEF n, q

LEMMA ConsStay ==
  ASSUME ConsOK, OffsetOK, StateOK, UNCHANGED feedVars, [Next]_vars
  PROVE  ConsOK'
<1>1. Newest \in Nat /\ Newest' \in Nat /\ Newest' >= Newest
  <2>1. IsLog(log) /\ Newest \in Nat
    BY LogLength DEF StateOK, DataOK, ShapeOK
  <2>2. ASSUME NEW e, log' = Append(log, e) PROVE Newest' = Newest + 1
    BY <2>1, <2>2, LogAppend DEF Newest
  <2>3. log' = log \/ \E e : log' = Append(log, e)
    BY DEF Next, Fill, ActivateRead, ActivateCreate, ActivateUpdate, MergeRead, MergeWrite, MergeFails,
           Undo, vars
  <2>4. CASE log' = log
    BY <2>1, <2>4 DEF Newest
  <2> QED
    BY <2>1, <2>2, <2>3, <2>4
<1>2. \A p \in Consumers : con[p].since \in Nat /\ offset[p] \in Nat \cup {NoRow}
  BY DEF OffsetOK
<1>3. \A a \in acks : a.seq \in Nat
  BY DEF OffsetOK
<1> QED
  BY <1>1, <1>2, <1>3 DEF ConsOK, feedVars, NoRow

LEMMA ConsMoves ==
  ASSUME ConsOK, OffsetOK, StateOK, NEW p \in Consumers,
         SnapshotList(p) \/ SnapshotSeq(p) \/ PullEvents(p) \/ Restart(p)
  PROVE  ConsOK'
<1>1. /\ Newest \in Nat /\ Newest' = Newest /\ UNCHANGED <<offset, acks>>
  BY LogLength DEF OffsetOK, SnapshotList, SnapshotSeq, PullEvents, Restart, vars, Newest
<1>2. OthersStay(p)
  BY ListSets, SeqSets, PullSets, RestartSets
<1>3. con[p].copy \in Copies /\ con[p].since \in Nat /\ con[p].since <= Newest /\ offset[p] <= Newest
  BY DEF ConsOK, OffsetOK
<1>4. SUFFICES /\ con'[p].at \in {"list", "seq", "follow"} /\ con'[p].copy \in Copies
               /\ con'[p].since <= Newest
  BY <1>1, <1>2 DEF ConsOK, OthersStay
<1>5. CASE SnapshotList(p)
  <2>1. Page(con[p].page) \in SUBSET Records
    BY DEF Page, Published
  <2> QED
    BY <1>3, <1>5, <2>1, ListSets, LoadedOK
<1>6. CASE SnapshotSeq(p)
  BY <1>1, <1>3, <1>6, SeqSets
<1>7. CASE PullEvents(p)
  <2> DEFINE since == con[p].since
             n == NextSince(since) - since
  <2>1. since < Newest /\ con'[p].copy = FoldLeft(Apply, con[p].copy, Batch(since))
        /\ con'[p].since = NextSince(since) /\ con'[p].at = "follow"
    BY <1>7, PullSets
  <2>2. n \in Nat /\ NextSince(since) <= Newest
    BY <1>3, <2>1, BatchIs DEF StateOK, DataOK, ShapeOK
  <2>3. PICK F : IsRun(F, con[p].copy, Batch(since), n) /\ con'[p].copy = F[n]
    BY <1>3, <2>1, Pulled
  <2> HIDE DEF n
  <2>4. con'[p].copy \in Copies
    BY <2>2, <2>3 DEF IsRun
  <2> QED
    BY <2>1, <2>2, <2>4
<1>8. CASE Restart(p)
  <2>1. NewConsumer.copy \in Copies /\ NewConsumer.since = 0 /\ NewConsumer.at \in {"list", "seq", "follow"}
    <3>1. <<>> \in [{} -> [ver : Nat, row : Row]]
      OBVIOUS
    <3>2. <<>> \in Copies
      BY <3>1, IsCopy
    <3> QED
      BY <3>2 DEF NewConsumer
  <2>2. CASE offset[p] = NoRow
    BY <1>1, <1>8, <2>1, <2>2, RestartSets
  <2>3. CASE offset[p] # NoRow
    BY <1>3, <1>8, <2>3, RestartSets
  <2> QED
    BY <2>2, <2>3
<1> QED
  BY <1>5, <1>6, <1>7, <1>8

LEMMA ConsStep == StateOK /\ OffsetOK /\ ConsOK /\ [FeedNext]_allVars => ConsOK'
<1> SUFFICES ASSUME StateOK, OffsetOK, ConsOK, [FeedNext]_allVars PROVE ConsOK'
  OBVIOUS
<1>1. CASE Next /\ UNCHANGED feedVars
  BY <1>1, ConsStay
<1>2. CASE UNCHANGED allVars
  BY <1>2, ConsStay DEF allVars
<1>3. ASSUME NEW p \in Consumers, Ack(p) PROVE ConsOK'
  <2>1. acks' = acks \cup {[p |-> p, seq |-> con[p].since, at |-> "update"]} /\ UNCHANGED <<con, offset, log>>
    BY <1>3 DEF Ack, vars
  <2>2. con[p].since <= Newest
    BY <1>3 DEF ConsOK
  <2> QED
    BY <2>1, <2>2 DEF ConsOK, Newest
<1>4. ASSUME NEW a \in acks, AckUpdate(a) \/ AckInsert(a) PROVE ConsOK'
  <2>1. /\ acks' \subseteq acks \cup {[a EXCEPT !.at = "insert"]}
        /\ offset' = offset \/ offset' = [offset EXCEPT ![a.p] = a.seq]
        /\ UNCHANGED <<con, log>>
    BY <1>4 DEF AckUpdate, AckInsert, OffsetOK, vars
  <2>2. [a EXCEPT !.at = "insert"].seq = a.seq
    BY DEF OffsetOK
  <2>3. \A b \in acks' : b.seq <= Newest
    BY <1>4, <2>1, <2>2 DEF ConsOK
  <2>4. \A p \in Consumers : offset'[p] <= Newest
    BY <1>4, <2>1 DEF ConsOK, OffsetOK
  <2> QED
    BY <2>1, <2>3, <2>4 DEF ConsOK, Newest
<1>5. ASSUME NEW p \in Consumers,
             SnapshotList(p) \/ SnapshotSeq(p) \/ PullEvents(p) \/ Restart(p)
      PROVE  ConsOK'
  BY <1>5, ConsMoves
<1> QED
  BY <1>1, <1>2, <1>3, <1>4, <1>5 DEF FeedNext, Follow

FeedInv == StateOK /\ OffsetOK /\ ConsOK

LEMMA FeedInvariant == FeedSpec => []FeedInv
<1>1. FeedInit => FeedInv
  <2> SUFFICES ASSUME FeedInit PROVE FeedInv
    OBVIOUS
  <2>1. StateOK
    BY DataInit, ValuesInit DEF FeedInit, StateOK
  <2>2. IsLog(log) /\ Newest = 0
    BY <2>1 DEF FeedInit, Init, Newest, StateOK, DataOK, ShapeOK
  <2>3. <<>> \in Copies
    <3>1. <<>> \in [{} -> [ver : Nat, row : Row]]
      OBVIOUS
    <3> QED
      BY <3>1, IsCopy
  <2>4. OffsetOK
    BY <2>2, NewConsumerShape DEF FeedInit, OffsetOK
  <2>5. ConsOK
    BY <2>2, <2>3 DEF FeedInit, ConsOK, NewConsumer, NoRow
  <2> QED
    BY <2>1, <2>4, <2>5 DEF FeedInv
<1>2. FeedInv /\ [FeedNext]_allVars => FeedInv'
  BY DataStep, ValuesStep, OffsetStep, ConsStep DEF FeedInv, StateOK
<1> QED
  BY <1>1, <1>2, PTL DEF FeedSpec

(* Rows, forms, events and copies hold what they should; the master of a   *)
(* merge is published and has the version that the merge has read.         *)
THEOREM FeedIsTyped == FeedSpec => []TypeOK
<1>1. ASSUME FeedInv PROVE TypeOK
  <2>0. DataOK /\ ShapeOK /\ RowsOK /\ FormsOK /\ MergeOK /\ LogOK /\ ConsOK
    BY <1>1 DEF FeedInv, StateOK, DataOK, ValuesOK
  <2>1. rec \in [Records -> [life : Lives, ver : Nat, time : 0 .. clock, row : Row]]
    <3>1. \A r \in Records : rec[r] \in [life : Lives, ver : Nat, time : 0 .. clock, row : Row]
      BY <2>0 DEF ShapeOK, RowsOK, IsRecord
    <3> QED
      BY <2>0, <3>1 DEF ShapeOK
  <2>2. \A c \in Crs : /\ cr[c].st \in {"none", "approved", "activating", "activated"}
                       /\ cr[c].target \in Records \cup {0}
                       /\ cr[c].target # 0 => rec[cr[c].target].life # "absent"
    BY <2>0 DEF ShapeOK, FormsOK
  <2>3. merge # NoMerge => rec[merge.master].life = "published" /\ rec[merge.master].ver = merge.ver
    BY <2>0 DEF MergeOK
  <2>4. \A i \in 1 .. Newest : log[i].row \in Row /\ rec[log[i].rec].life # "absent"
    BY <2>0 DEF DataOK, EventsBehind, LogOK
  <2>5. \A p \in Consumers :
          /\ con[p].at \in {"list", "seq", "follow"}
          /\ DOMAIN con[p].copy \subseteq Records
          /\ \A r \in DOMAIN con[p].copy : con[p].copy[r] \in [ver : Nat, row : Row]
          /\ offset[p] <= Newest /\ con[p].since <= Newest
    BY <2>0, CopyOf DEF ConsOK
  <2> QED
    BY <2>1, <2>2, <2>3, <2>4, <2>5 DEF TypeOK
<1> QED
  BY <1>1, FeedInvariant, PTL

-----------------------------------------------------------------------------
(* What the log says last of each record.                                  *)

(* i is the last event about r.                                            *)
LastAbout(i, r) ==
  /\ i \in 1 .. Newest /\ r \in Of(log[i])
  /\ \A j \in i + 1 .. Newest : r \notin Of(log[j])

(* Events are about records; the last event about a record of which the    *)
(* last change was told says what became of it.                            *)
NewsOK ==
  /\ \A i \in 1 .. Newest :
       /\ Of(log[i]) \subseteq Records /\ log[i].rec \notin log[i].gone
       /\ log[i].type \in {"created", "updated", "merged"}
  /\ \A i \in 1 .. Newest, r \in Records :
       told[r] /\ LastAbout(i, r) =>
         IF log[i].rec = r
           THEN rec[r].life = "published" /\ rec[r].ver = log[i].ver /\ rec[r].row = log[i].row
           ELSE rec[r].life = "merged"

LEMMA LastExists ==
  ASSUME IsLog(log), NEW r, NEW i \in 1 .. Newest, r \in Of(log[i])
  PROVE  \E k : LastAbout(k, r)
<1> DEFINE T == {j \in 1 .. Newest : r \in Of(log[j])}
<1>1. Newest \in Nat
  BY LogLength
<1>2. T \in SUBSET (0 .. Newest) /\ T # {}
  BY <1>1
<1>3. PICK k \in T : \A j \in T : k >= j
  <2> HIDE DEF T
  <2> QED
    BY <1>1, <1>2, GreatestElement
<1>4. ASSUME NEW j \in k + 1 .. Newest PROVE r \notin Of(log[j])
  <2>1. j \in 1 .. Newest /\ ~(k >= j)
    BY <1>1, <1>3
  <2> QED
    BY <1>3, <2>1
<1>5. LastAbout(k, r)
  BY <1>3, <1>4 DEF LastAbout
<1> QED
  BY <1>5

LEMMA NewsTold ==
  ASSUME StateOK, NewsOK, NEW e, Tells(e), e.rec \notin e.gone
  PROVE  NewsOK'
<1>0. IsLog(log)
  BY DEF StateOK, DataOK, ShapeOK
<1>1. /\ Of(e) \subseteq Records /\ e.type \in {"created", "updated", "merged"}
      /\ log' = Append(log, e)
      /\ \A r \in Records \ Of(e) : rec'[r] = rec[r] /\ told'[r] = told[r]
      /\ \A r \in Of(e) : rec'[r].life = IF r = e.rec THEN "published" ELSE "merged"
      /\ e.ver = rec'[e.rec].ver /\ e.row = rec'[e.rec].row
  BY DEF Tells
<1>2. /\ Newest \in Nat /\ Newest' = Newest + 1
      /\ \A i \in 1 .. Newest : log'[i] = log[i]
      /\ log'[Newest + 1] = e
  BY <1>0, <1>1, LogAppend DEF Newest
<1>3. \A i \in 1 .. Newest' : i \in 1 .. Newest \/ i = Newest + 1
  BY <1>2
<1>4. \A i \in 1 .. Newest' :
        /\ Of(log'[i]) \subseteq Records /\ log'[i].rec \notin log'[i].gone
        /\ log'[i].type \in {"created", "updated", "merged"}
  <2> TAKE i \in 1 .. Newest'
  <2>1. CASE i \in 1 .. Newest
    BY <1>2, <2>1 DEF NewsOK
  <2>2. CASE i = Newest + 1
    BY <1>1, <1>2, <2>2
  <2> QED
    BY <1>3, <2>1, <2>2
<1>5. ASSUME NEW i \in 1 .. Newest', NEW r \in Records, told'[r], LastAbout(i, r)'
      PROVE  IF log'[i].rec = r
               THEN rec'[r].life = "published" /\ rec'[r].ver = log'[i].ver /\ rec'[r].row = log'[i].row
               ELSE rec'[r].life = "merged"
  <2>0. r \in Of(log'[i]) /\ \A j \in i + 1 .. Newest' : r \notin Of(log'[j])
    BY <1>5 DEF LastAbout
  <2>1. CASE i = Newest + 1
    <3>1. log'[i] = e /\ r \in Of(e)
      BY <1>2, <2>0, <2>1
    <3>2. rec'[r].life = IF r = e.rec THEN "published" ELSE "merged"
      BY <1>1, <3>1
    <3>3. r = e.rec => rec'[r].ver = e.ver /\ rec'[r].row = e.row
      BY <1>1
    <3> QED
      BY <3>1, <3>2, <3>3
  <2>2. CASE i \in 1 .. Newest
    <3>1. Newest + 1 \in i + 1 .. Newest' /\ \A j \in i + 1 .. Newest : j \in i + 1 .. Newest' /\ j \in 1 .. Newest
      BY <1>2, <2>2
    <3>2. r \notin Of(e)
      BY <1>2, <2>0, <3>1
    <3>3. LastAbout(i, r)
      <4>1. r \in Of(log[i])
        BY <1>2, <2>0, <2>2
      <4>2. \A j \in i + 1 .. Newest : r \notin Of(log[j])
        BY <1>2, <2>0, <3>1
      <4> QED
        BY <2>2, <4>1, <4>2 DEF LastAbout
    <3>4. rec'[r] = rec[r] /\ told[r] /\ log'[i] = log[i]
      BY <1>1, <1>2, <1>5, <2>2, <3>2
    <3> QED
      BY <2>2, <3>3, <3>4 DEF NewsOK
  <2> QED
    BY <1>3, <2>1, <2>2
<1> QED
  BY <1>4, <1>5 DEF NewsOK

(* Every step tells an event, or hides a change, or changes no record.     *)
LEMMA StepKinds ==
  ASSUME StateOK, [FeedNext]_allVars
  PROVE  \/ \E e : Tells(e) /\ e.rec \notin e.gone
         \/ \E v \in Records : Undo(v)
         \/ UNCHANGED <<rec, log, told>>
<1>0. ShapeOK
  BY DEF StateOK, DataOK
<1>1. ASSUME NEW c \in Crs, ActivateCreate(c) PROVE \E e : Tells(e) /\ e.rec \notin e.gone
  BY <1>0, <1>1, CreateTells
<1>2. ASSUME NEW c \in Crs, ActivateUpdate(c)
      PROVE  (\E e : Tells(e) /\ e.rec \notin e.gone) \/ UNCHANGED <<rec, log, told>>
  <2>1. CASE Updatable(cr[c].target, cr[c].ver)
    BY <1>0, <1>2, <2>1, UpdateTells
  <2>2. CASE ~Updatable(cr[c].target, cr[c].ver)
    BY <1>2, <2>2 DEF ActivateUpdate
  <2> QED
    BY <2>1, <2>2
<1>3. ASSUME NEW o \in Overrides, MergeWrite(o) PROVE \E e : Tells(e) /\ e.rec \notin e.gone
  <2>1. merge.master \notin merge.victims
    BY <1>3 DEF StateOK, ValuesOK, MergeOK, MergeWrite
  <2> QED
    BY <1>0, <1>3, <2>1, MergeTells
<1>4. \/ UNCHANGED <<rec, log, told>>
      \/ \E c \in Crs : ActivateCreate(c) \/ ActivateUpdate(c)
      \/ \E o \in Overrides : MergeWrite(o)
      \/ \E v \in Records : Undo(v)
  BY DEF FeedNext, Next, Follow, Fill, ActivateRead, MergeRead, MergeFails, SnapshotList,
         SnapshotSeq, PullEvents, Ack, Restart, AckUpdate, AckInsert, vars, allVars
<1> QED
  BY <1>1, <1>2, <1>3, <1>4

LEMMA NewsStep == StateOK /\ NewsOK /\ [FeedNext]_allVars => NewsOK'
<1> SUFFICES ASSUME StateOK, NewsOK, [FeedNext]_allVars PROVE NewsOK'
  OBVIOUS
<1>1. CASE UNCHANGED <<rec, log, told>>
  BY <1>1 DEF NewsOK, LastAbout, Newest
<1>2. ASSUME NEW v \in Records, Undo(v) PROVE NewsOK'
  <2>1. /\ \A r \in Records \ {v} : rec'[r] = rec[r] /\ told'[r] = told[r]
        /\ ~told'[v] /\ UNCHANGED log
    BY <1>2, Undone DEF StateOK, DataOK
  <2>2. log' = log /\ Newest' = Newest /\ \A i, r : LastAbout(i, r)' <=> LastAbout(i, r)
    BY <2>1 DEF LastAbout, Newest
  <2>3. \A r \in Records : told'[r] => rec'[r] = rec[r] /\ told[r]
    BY <2>1
  <2> QED
    BY <2>2, <2>3 DEF NewsOK
<1> QED
  BY <1>1, <1>2, StepKinds, NewsTold

LEMMA NewsInvariant == FeedSpec => [](FeedInv /\ NewsOK)
<1>1. FeedInit => NewsOK
  <2> SUFFICES ASSUME FeedInit PROVE NewsOK
    OBVIOUS
  <2>1. Newest = 0
    BY DEF FeedInit, Init, Newest
  <2> QED
    BY <2>1 DEF NewsOK
<1>2. FeedInv /\ NewsOK /\ [FeedNext]_allVars => NewsOK'
  BY NewsStep DEF FeedInv
<1> QED
  BY <1>1, <1>2, FeedInvariant, PTL DEF FeedSpec

-----------------------------------------------------------------------------
(* The field map.                                                          *)

(* Each column is renamed once, to a name of its own that is no column's.  *)
PlainMap(map) ==
  /\ \E n \in Nat : DOMAIN map.rename = 1 .. n
  /\ \A i \in DOMAIN map.rename : map.rename[i][1] \in Columns /\ map.rename[i][2] \notin Columns
  /\ \A i, j \in DOMAIN map.rename :
       i # j => map.rename[i][1] # map.rename[j][1] /\ map.rename[i][2] # map.rename[j][2]

(* The name of a column after the first k pairs.                           *)
NameAfter(pairs, k, c) ==
  IF \E i \in 1 .. k : pairs[i][1] = c THEN pairs[CHOOSE i \in 1 .. k : pairs[i][1] = c][2] ELSE c

(* out has the columns of row by their new names.                          *)
IsRenamed(out, row, pairs, k) ==
  /\ out = [c \in DOMAIN out |-> out[c]]
  /\ DOMAIN out = {NameAfter(pairs, k, c) : c \in DOMAIN row}
  /\ \A c \in DOMAIN row : out[NameAfter(pairs, k, c)] = row[c]

RenameOne(out, pair) ==
  IF pair[1] \notin DOMAIN out THEN out
  ELSE [c \in (DOMAIN out \ {pair[1]}) \cup {pair[2]} |->
          IF c = pair[2] THEN out[pair[1]] ELSE out[c]]

(* One more pair.                                                          *)
LEMMA RenamedOnce ==
  ASSUME NEW map, PlainMap(map), NEW row, DOMAIN row \subseteq Columns,
         NEW k \in Nat, k + 1 \in DOMAIN map.rename, NEW out, IsRenamed(out, row, map.rename, k)
  PROVE  IsRenamed(RenameOne(out, map.rename[k + 1]), row, map.rename, k + 1)
<1> DEFINE pairs == map.rename
           a == pairs[k + 1][1]
           b == pairs[k + 1][2]
           New(c) == NameAfter(pairs, k, c)
           Then(c) == NameAfter(pairs, k + 1, c)
<1>1. PICK n \in Nat : DOMAIN pairs = 1 .. n
  BY DEF PlainMap
<1>2. /\ \A i \in 1 .. n : pairs[i][1] \in Columns /\ pairs[i][2] \notin Columns
      /\ \A i, j \in 1 .. n : i # j => pairs[i][1] # pairs[j][1] /\ pairs[i][2] # pairs[j][2]
      /\ k + 1 \in 1 .. n
  BY <1>1 DEF PlainMap
<1> HIDE DEF pairs
<1>3. a \in Columns /\ b \notin Columns
  BY <1>2
<1>4. \A i \in 1 .. k : i \in 1 .. n /\ pairs[i][1] # a /\ pairs[i][2] # b
  BY <1>2
<1>5. \A i \in 1 .. (k + 1) : i \in 1 .. k \/ i = k + 1
  OBVIOUS
<1>6. \A c : \/ \E i \in 1 .. k : pairs[i][1] = c /\ New(c) = pairs[i][2]
             \/ (\A i \in 1 .. k : pairs[i][1] # c) /\ New(c) = c
  BY DEF NameAfter
<1>7. \A c : c # a => Then(c) = New(c)
  <2> SUFFICES ASSUME NEW c, c # a PROVE Then(c) = New(c)
    OBVIOUS
  <2>1. (\E i \in 1 .. (k + 1) : pairs[i][1] = c) <=> \E i \in 1 .. k : pairs[i][1] = c
    BY <1>5
  <2>2. ASSUME \E i \in 1 .. k : pairs[i][1] = c
        PROVE  (CHOOSE i \in 1 .. (k + 1) : pairs[i][1] = c) = CHOOSE i \in 1 .. k : pairs[i][1] = c
    <3>1. \A i : (i \in 1 .. (k + 1) /\ pairs[i][1] = c) <=> (i \in 1 .. k /\ pairs[i][1] = c)
      BY <1>5
    <3>2. PICK i \in 1 .. k : pairs[i][1] = c
      BY <2>2
    <3>3. \A j : j \in 1 .. (k + 1) /\ pairs[j][1] = c => j = i
      BY <1>2, <1>4, <3>1, <3>2
    <3>4. (CHOOSE j \in 1 .. (k + 1) : pairs[j][1] = c) = i
      BY <3>1, <3>2, <3>3
    <3>5. (CHOOSE j \in 1 .. k : pairs[j][1] = c) = i
      BY <3>1, <3>2, <3>3
    <3> QED
      BY <3>4, <3>5
  <2> QED
    BY <2>1, <2>2 DEF NameAfter
<1>8. New(a) = a /\ Then(a) = b
  <2>1. New(a) = a
    BY <1>4, <1>6
  <2>2. k + 1 \in 1 .. (k + 1) /\ \A i \in 1 .. (k + 1) : pairs[i][1] = a <=> i = k + 1
    BY <1>4, <1>5
  <2>3. (CHOOSE i \in 1 .. (k + 1) : pairs[i][1] = a) = k + 1
    <3> HIDE DEF a
    <3> QED
      BY <2>2
  <2>4. \E i \in 1 .. (k + 1) : pairs[i][1] = a
    BY <2>2
  <2>5. Then(a) = pairs[k + 1][2]
    <3> HIDE DEF a, b
    <3> QED
      BY <2>3, <2>4 DEF NameAfter
  <2>6. Then(a) = b
    BY <2>5
  <2> QED
    BY <2>1, <2>6
<1>9. \A c \in Columns : (New(c) = a => c = a) /\ New(c) # b
  BY <1>2, <1>3, <1>4, <1>6
<1>10. /\ out = [c \in DOMAIN out |-> out[c]]
       /\ DOMAIN out = {New(c) : c \in DOMAIN row}
       /\ \A c \in DOMAIN row : out[New(c)] = row[c]
  BY DEF IsRenamed, pairs
<1> DEFINE next == RenameOne(out, pairs[k + 1])
<1> HIDE DEF New, Then, a, b
<1>11. CASE a \notin DOMAIN out
  <2>1. a \notin DOMAIN row
    BY <1>8, <1>10, <1>11
  <2>2. next = out
    BY <1>11 DEF RenameOne, a
  <2>3. \A c \in DOMAIN row : Then(c) = New(c)
    BY <1>7, <2>1
  <2>4. IsRenamed(next, row, pairs, k + 1)
    BY <1>10, <2>2, <2>3 DEF IsRenamed, Then
  <2> QED
    BY <2>4 DEF pairs
<1>12. CASE a \in DOMAIN out
  <2>1. a \in DOMAIN row
    <3>1. PICK c \in DOMAIN row : New(c) = a
      BY <1>10, <1>12
    <3> QED
      BY <1>9, <3>1
  <2>2. next = [c \in (DOMAIN out \ {a}) \cup {b} |-> IF c = b THEN out[a] ELSE out[c]]
    BY <1>12 DEF RenameOne, a, b
  <2>3. DOMAIN next = (DOMAIN out \ {a}) \cup {b} /\ next = [c \in DOMAIN next |-> next[c]]
        /\ next[b] = out[a] /\ \A c \in DOMAIN out \ {a} : c # b => next[c] = out[c]
    <3> HIDE DEF next
    <3> QED
      BY <2>2
  <2> HIDE DEF next
  <2>4. DOMAIN next = {Then(c) : c \in DOMAIN row}
    <3>1. \A c \in DOMAIN row : Then(c) \in DOMAIN next
      <4> TAKE c \in DOMAIN row
      <4>1. CASE c = a
        BY <1>8, <2>3, <4>1
      <4>2. CASE c # a
        BY <1>7, <1>9, <1>10, <2>3, <4>2
      <4> QED
        BY <4>1, <4>2
    <3>2. ASSUME NEW x \in DOMAIN next PROVE \E c \in DOMAIN row : Then(c) = x
      <4>1. CASE x = b
        BY <1>8, <2>1, <4>1
      <4>2. CASE x # b
        <5>1. x \in DOMAIN out /\ x # a
          BY <2>3, <4>2
        <5>2. PICK c \in DOMAIN row : New(c) = x
          BY <1>10, <5>1
        <5> QED
          BY <1>7, <1>8, <5>1, <5>2
      <4> QED
        BY <4>1, <4>2
    <3> QED
      BY <3>1, <3>2
  <2>5. ASSUME NEW c \in DOMAIN row PROVE next[Then(c)] = row[c]
    <3>1. CASE c = a
      BY <1>8, <1>10, <2>3, <3>1
    <3>2. CASE c # a
      <4>1. New(c) \in DOMAIN out \ {a} /\ New(c) # b
        BY <1>9, <1>10, <3>2
      <4> QED
        BY <1>7, <1>10, <2>3, <3>2, <4>1
    <3> QED
      BY <3>1, <3>2
  <2>6. IsRenamed(next, row, pairs, k + 1)
    BY <2>3, <2>4, <2>5 DEF IsRenamed, Then
  <2> QED
    BY <2>6 DEF pairs, next
<1> QED
  BY <1>11, <1>12

(* Rows of some of the names in X.                                         *)
Parts(X) == UNION {[D -> Texts \cup {Null}] : D \in SUBSET X}

LEMMA PartOf ==
  ASSUME NEW X, NEW row
  PROVE  row \in Parts(X) <=>
           /\ row = [c \in DOMAIN row |-> row[c]] /\ DOMAIN row \subseteq X
           /\ \A c \in DOMAIN row : row[c] \in Texts \cup {Null}
<1>1. ASSUME row \in Parts(X)
      PROVE  /\ row = [c \in DOMAIN row |-> row[c]] /\ DOMAIN row \subseteq X
             /\ \A c \in DOMAIN row : row[c] \in Texts \cup {Null}
  BY <1>1 DEF Parts
<1>2. ASSUME row = [c \in DOMAIN row |-> row[c]], DOMAIN row \subseteq X,
             \A c \in DOMAIN row : row[c] \in Texts \cup {Null}
      PROVE  row \in Parts(X)
  <2>1. row \in [DOMAIN row -> Texts \cup {Null}]
    BY <1>2
  <2> QED
    BY <1>2, <2>1 DEF Parts
<1> QED
  BY <1>1, <1>2

LEMMA RenameStays ==
  ASSUME NEW X, NEW row \in Parts(X), NEW pair, pair[2] \in X
  PROVE  RenameOne(row, pair) \in Parts(X)
<1> DEFINE a == pair[1]
           b == pair[2]
           out == RenameOne(row, pair)
<1>1. /\ row = [c \in DOMAIN row |-> row[c]] /\ DOMAIN row \subseteq X
      /\ \A c \in DOMAIN row : row[c] \in Texts \cup {Null}
  BY PartOf
<1>2. CASE a \notin DOMAIN row
  BY <1>2 DEF RenameOne
<1>3. CASE a \in DOMAIN row
  <2>1. out = [c \in (DOMAIN row \ {a}) \cup {b} |-> IF c = b THEN row[a] ELSE row[c]]
    BY <1>3 DEF RenameOne
  <2> HIDE DEF out
  <2>2. DOMAIN out = (DOMAIN row \ {a}) \cup {b} /\ out = [c \in DOMAIN out |-> out[c]]
    BY <2>1
  <2>3. \A c \in DOMAIN out : out[c] \in Texts \cup {Null}
    BY <1>1, <1>3, <2>1
  <2>4. out \in Parts(X)
    BY <1>1, <2>2, <2>3, PartOf
  <2> QED
    BY <2>4 DEF out
<1> QED
  BY <1>2, <1>3

(* Rename renames pair by pair.                                            *)
LEMMA RenamedAll ==
  ASSUME NEW map, PlainMap(map), NEW row \in Parts(Columns), NEW n \in Nat, DOMAIN map.rename = 1 .. n
  PROVE  IsRenamed(Rename(row, map.rename), row, map.rename, n)
<1> DEFINE pairs == map.rename
           S == 1 .. n
           X == Columns \cup {pairs[i][2] : i \in S}
           U == Parts(X)
           body(h) == [s \in SUBSET S |-> IF s = {} THEN row ELSE RenameOne(h[s \ {Max(s)}], pairs[Max(s)])]
           iter == CHOOSE h : h = body(h)
<1>1. Rename(row, pairs) = iter[S]
  BY Zenon DEF Rename, RenameOne, FoldLeft, MapThenFoldSet
<1>2. \A s \in SUBSET S : s # {} => Max(s) \in s
  BY MaxOfFirst
<1>3. \A v \in U, i \in S : RenameOne(v, pairs[i]) \in U
  <2> SUFFICES ASSUME NEW v \in U, NEW i \in S PROVE RenameOne(v, pairs[i]) \in U
    OBVIOUS
  <2>1. pairs[i][2] \in X
    OBVIOUS
  <2> HIDE DEF X
  <2> QED
    BY <2>1, RenameStays
<1>4. row \in U
  <2>1. Columns \subseteq X
    OBVIOUS
  <2> HIDE DEF X
  <2> QED
    BY <2>1, PartOf
<1> HIDE DEF U, X
<1>5. PICK h : h \in [SUBSET S -> U] /\ h = body(h)
  <2> DEFINE g == [d \in U \X S |-> RenameOne(d[1], pairs[d[2]])]
  <2>1. g \in [U \X S -> U]
    <3> HIDE DEF S
    <3> QED
      BY <1>3
  <2>2. PICK h : IsFold(h, n, U, row, g)
    <3> HIDE DEF g
    <3> QED
      BY <1>4, <2>1, Folding
  <2>3. h \in [SUBSET S -> U] /\ \A s \in SUBSET S :
          h[s] = IF s = {} THEN row ELSE g[<<h[s \ {Max(s)}], Max(s)>>]
    <3> HIDE DEF g
    <3> QED
      BY <2>2 DEF IsFold
  <2>4. \A s \in SUBSET S : h[s] = IF s = {} THEN row ELSE RenameOne(h[s \ {Max(s)}], pairs[Max(s)])
    <3> HIDE DEF S
    <3> QED
      BY <1>2, <2>3
  <2>5. h = body(h)
    <3> HIDE DEF S, g
    <3> QED
      BY <2>3, <2>4
  <2> QED
    BY <2>3, <2>5
<1>6. iter = body(iter)
  <2> HIDE DEF body
  <2> QED
    BY <1>5
<1> HIDE DEF iter
<1>7. iter[{}] = row /\ \A s \in SUBSET S : s # {} => iter[s] = RenameOne(iter[s \ {Max(s)}], pairs[Max(s)])
  <2> HIDE DEF S
  <2> QED
    BY <1>6
<1> HIDE DEF body
<1>8. ASSUME NEW i \in 1 .. n
      PROVE  iter[1 .. i] = RenameOne(iter[1 .. (i - 1)], pairs[i])
  <2>1. 1 .. i \in SUBSET S /\ 1 .. i # {} /\ Max(1 .. i) = i /\ (1 .. i) \ {i} = 1 .. (i - 1)
    BY FirstPlaces
  <2> HIDE DEF S
  <2> QED
    BY <1>7, <2>1
<1> DEFINE T == {i \in Nat : i <= n => IsRenamed(iter[1 .. i], row, pairs, i)}
<1>9. 0 \in T
  <2>1. 1 .. 0 = {}
    OBVIOUS
  <2>2. iter[1 .. 0] = row
    BY <1>7, <2>1
  <2>3. \A c : NameAfter(pairs, 0, c) = c
    BY <2>1 DEF NameAfter
  <2>4. row = [c \in DOMAIN row |-> row[c]]
    BY PartOf
  <2>5. DOMAIN row = {NameAfter(pairs, 0, c) : c \in DOMAIN row}
    BY <2>3
  <2>6. IsRenamed(row, row, pairs, 0)
    BY <2>3, <2>4, <2>5, Zenon DEF IsRenamed
  <2> QED
    BY <2>2, <2>6
<1>10. ASSUME NEW i \in T PROVE i + 1 \in T
  <2> SUFFICES ASSUME i + 1 <= n PROVE IsRenamed(iter[1 .. (i + 1)], row, pairs, i + 1)
    OBVIOUS
  <2>1. i \in Nat /\ i + 1 \in 1 .. n /\ (i + 1) - 1 = i /\ IsRenamed(iter[1 .. i], row, pairs, i)
    OBVIOUS
  <2>2. iter[1 .. (i + 1)] = RenameOne(iter[1 .. i], pairs[i + 1])
    BY <1>8, <2>1
  <2>3. DOMAIN row \subseteq Columns /\ i + 1 \in DOMAIN pairs
    BY <2>1, PartOf
  <2> HIDE DEF T
  <2>4. IsRenamed(RenameOne(iter[1 .. i], pairs[i + 1]), row, pairs, i + 1)
    BY <2>1, <2>3, RenamedOnce
  <2> QED
    BY <2>2, <2>4
<1>11. T = Nat
  <2> HIDE DEF T
  <2> QED
    BY <1>9, <1>10, NumberInduction, Zenon DEF T
<1>12. IsRenamed(iter[S], row, pairs, n)
  BY <1>11
<1> QED
  BY <1>1, <1>12

(* Under a plain map, every column has its own new name.                   *)
LEMMA NamesDiffer ==
  ASSUME NEW map, PlainMap(map), NEW n \in Nat, DOMAIN map.rename = 1 .. n
  PROVE  \A c, d \in Columns : NameAfter(map.rename, n, c) = NameAfter(map.rename, n, d) => c = d
<1> DEFINE pairs == map.rename
           New(c) == NameAfter(pairs, n, c)
<1>1. /\ \A i \in 1 .. n : pairs[i][1] \in Columns /\ pairs[i][2] \notin Columns
      /\ \A i, j \in 1 .. n : i # j => pairs[i][1] # pairs[j][1] /\ pairs[i][2] # pairs[j][2]
  BY DEF PlainMap
<1> HIDE DEF pairs
<1>2. \A c : \/ \E i \in 1 .. n : pairs[i][1] = c /\ New(c) = pairs[i][2]
             \/ (\A i \in 1 .. n : pairs[i][1] # c) /\ New(c) = c
  BY DEF NameAfter
<1> HIDE DEF New
<1>3. \A c, d \in Columns : New(c) = New(d) => c = d
  BY <1>1, <1>2
<1> QED
  BY <1>3 DEF New, pairs

(* What a field map makes of a row is what the row should look like.       *)
LEMMA MapShows ==
  ASSUME NEW map, PlainMap(map), NEW row \in Row
  PROVE  ApplyFieldMap(row, map) = Shown(row, map)
<1> DEFINE pairs == map.rename
           given == Include(row, map.include)
           out == Rename(given, pairs)
           new == [c \in DOMAIN given |->
                     IF \E i \in DOMAIN pairs : pairs[i][1] = c
                       THEN (CHOOSE pair \in ToSet(pairs) : pair[1] = c)[2] ELSE c]
           Source(m) == CHOOSE c \in DOMAIN new : new[c] = m
<1>1. PICK n \in Nat : DOMAIN pairs = 1 .. n
  BY DEF PlainMap
<1>2. DOMAIN given \subseteq Columns /\ given \in Parts(Columns) /\ \A c \in DOMAIN given : given[c] = row[c]
  <2>1. row = [c \in DOMAIN row |-> row[c]] /\ DOMAIN row = Columns /\ \A c \in Columns : row[c] \in Texts \cup {Null}
    BY DEF Row
  <2>2. /\ DOMAIN given \subseteq Columns /\ given = [c \in DOMAIN given |-> given[c]]
        /\ \A c \in DOMAIN given : given[c] = row[c]
    BY <2>1 DEF Include
  <2> HIDE DEF given
  <2> QED
    BY <2>1, <2>2, PartOf
<1>3. IsRenamed(out, given, pairs, n)
  <2> HIDE DEF given
  <2> QED
    BY <1>1, <1>2, RenamedAll
<1> HIDE DEF given
<1>4. \A c \in DOMAIN given : new[c] = NameAfter(pairs, n, c)
  <2> TAKE c \in DOMAIN given
  <2>1. CASE \E i \in 1 .. n : pairs[i][1] = c
    <3>1. PICK i \in 1 .. n : pairs[i][1] = c
      BY <2>1
    <3>2. \A j \in 1 .. n : pairs[j][1] = c => j = i
      BY <1>1, <3>1 DEF PlainMap
    <3>3. (CHOOSE j \in 1 .. n : pairs[j][1] = c) = i
      BY <3>1, <3>2
    <3>4. pairs[i] \in ToSet(pairs) /\ \A pair \in ToSet(pairs) : pair[1] = c => pair = pairs[i]
      BY <1>1, <3>1, <3>2 DEF ToSet
    <3>5. (CHOOSE pair \in ToSet(pairs) : pair[1] = c) = pairs[i]
      <4> HIDE DEF pairs
      <4> QED
        BY <3>1, <3>4
    <3>6. new[c] = pairs[i][2]
      BY <1>1, <2>1, <3>5
    <3>7. NameAfter(pairs, n, c) = pairs[i][2]
      <4> HIDE DEF pairs, new
      <4> QED
        BY <2>1, <3>3 DEF NameAfter
    <3> QED
      BY <3>6, <3>7
  <2>2. CASE ~\E i \in 1 .. n : pairs[i][1] = c
    BY <1>1, <2>2 DEF NameAfter
  <2> QED
    BY <2>1, <2>2
<1>5. DOMAIN new = DOMAIN given
  OBVIOUS
<1>6. Shown(row, map) = [m \in {new[c] : c \in DOMAIN new} |->
                           IF m \in map.mask THEN Masked ELSE row[Source(m)]]
  BY Zenon DEF Shown, given
<1> HIDE DEF new, out
<1>7. \A c, d \in DOMAIN given : new[c] = new[d] => c = d
  BY <1>1, <1>2, <1>4, NamesDiffer
<1>8. \A c \in DOMAIN given : Source(new[c]) = c
  BY <1>5, <1>7
<1>9. /\ DOMAIN out = {new[c] : c \in DOMAIN new}
      /\ \A c \in DOMAIN given : out[new[c]] = row[c]
  BY <1>2, <1>3, <1>4, <1>5 DEF IsRenamed
<1>10. \A m \in DOMAIN out : out[m] = row[Source(m)]
  BY <1>5, <1>8, <1>9
<1>11. ApplyFieldMap(row, map) = [m \in DOMAIN out |-> IF m \in map.mask THEN Masked ELSE out[m]]
  BY DEF ApplyFieldMap, Mask, given, out
<1> HIDE DEF Source
<1> QED
  BY <1>6, <1>9, <1>10, <1>11

-----------------------------------------------------------------------------
(* What subscribers are sent.                                              *)

(* The subscription wants all kinds of events.                             *)
WantsAll(s) == s.types = {} \/ "*" \in s.types \/ {"created", "updated", "merged"} \subseteq s.types

(* A subscriber that wants all kinds of events, with a plain field map, is *)
(* up to date after every step: what it was last sent about a record is    *)
(* what its map shows of the record as it is, or that the record is gone.  *)
THEOREM SubscribersKnow ==
  ASSUME \A s \in Subs : WantsAll(s) /\ PlainMap(s.map)
  PROVE  FeedSpec => []SubscribersAreCurrent
<1>1. ASSUME FeedInv, NewsOK, NEW s \in Subs, NEW r \in Records, told[r], NEW i \in 1 .. Newest, log[i].rec = r
      PROVE  LET sent == Sent(s, r)  e == log[Max(sent)] IN
             /\ r \in Published /\ EvalFilter(s.filter, rec[r].row) =>
                  /\ sent # {} /\ e.rec = r /\ e.ver = rec[r].ver
                  /\ ApplyFieldMap(e.row, s.map) = Shown(rec[r].row, s.map)
             /\ rec[r].life = "merged" /\ s.filter = <<>> => sent # {} /\ r \in e.gone
  <2>1. IsLog(log) /\ RowsOK
    BY <1>1 DEF FeedInv, StateOK, DataOK, ShapeOK, ValuesOK
  <2>2. r \in Of(log[i])
    BY <1>1 DEF Of
  <2>3. PICK k : LastAbout(k, r)
    BY <2>1, <2>2, LastExists
  <2>4. /\ k \in 1 .. Newest /\ k \in Nat /\ Newest \in Nat /\ r \in Of(log[k])
        /\ log[k].type \in {"created", "updated", "merged"}
    BY <1>1, <2>1, <2>3, LogLength DEF LastAbout, NewsOK
  <2>5. \A j \in Sent(s, r) : j \in Nat /\ j <= k
    <3>1. \A j \in Sent(s, r) : j \in 1 .. Newest /\ r \in Of(log[j])
      BY DEF Sent, About, Of
    <3> QED
      BY <2>3, <2>4, <3>1 DEF LastAbout
  <2>6. ASSUME EvalFilter(s.filter, log[k].row)
        PROVE  Sent(s, r) # {} /\ Max(Sent(s, r)) = k
    <3>1. EventMatchesSub(log[k], s)
      BY <2>4, <2>6 DEF EventMatchesSub, WantsAll
    <3>2. k \in Sent(s, r)
      BY <2>4, <3>1 DEF Sent, About, Of
    <3>3. \A m \in Sent(s, r) : (\A j \in Sent(s, r) : m >= j) => m = k
      BY <2>4, <2>5, <3>2
    <3>4. \A j \in Sent(s, r) : k >= j
      BY <2>4, <2>5
    <3> QED
      BY <3>2, <3>3, <3>4 DEF Max
  <2>7. IF log[k].rec = r
          THEN rec[r].life = "published" /\ rec[r].ver = log[k].ver /\ rec[r].row = log[k].row
          ELSE rec[r].life = "merged"
    BY <1>1, <2>3, <2>4 DEF NewsOK
  <2>8. ASSUME r \in Published, EvalFilter(s.filter, rec[r].row)
        PROVE  /\ Sent(s, r) # {} /\ log[Max(Sent(s, r))].rec = r /\ log[Max(Sent(s, r))].ver = rec[r].ver
               /\ ApplyFieldMap(log[Max(Sent(s, r))].row, s.map) = Shown(rec[r].row, s.map)
    <3>1. log[k].rec = r /\ rec[r].ver = log[k].ver /\ rec[r].row = log[k].row
      BY <2>7, <2>8 DEF Published
    <3>2. Sent(s, r) # {} /\ Max(Sent(s, r)) = k
      BY <2>6, <2>8, <3>1
    <3>3. ApplyFieldMap(rec[r].row, s.map) = Shown(rec[r].row, s.map)
      BY <2>1, MapShows DEF RowsOK
    <3> QED
      BY <3>1, <3>2, <3>3
  <2>9. ASSUME rec[r].life = "merged", s.filter = <<>>
        PROVE  Sent(s, r) # {} /\ r \in log[Max(Sent(s, r))].gone
    <3>1. r \in log[k].gone
      BY <2>4, <2>7, <2>9 DEF Of
    <3>2. EvalFilter(s.filter, log[k].row)
      BY <2>9 DEF EvalFilter
    <3> QED
      BY <2>6, <3>1, <3>2
  <2> QED
    BY <2>8, <2>9
<1>2. FeedInv /\ NewsOK => SubscribersAreCurrent
  BY <1>1 DEF SubscribersAreCurrent
<1> QED
  BY <1>2, NewsInvariant, PTL

-----------------------------------------------------------------------------
(* What copies and events have of a record.                                *)

(* v was the record at some time: it is not ahead of the record, and it    *)
(* has the record's row if it has its version.                             *)
Faithful(v, r) ==
  /\ rec[r].life # "absent"
  /\ v.ver <= rec[r].ver
  /\ v.ver = rec[r].ver => v.row = rec[r].row

FaithOK ==
  /\ \A i \in 1 .. Newest : Faithful(log[i], log[i].rec)
  /\ \A p \in Consumers : \A r \in DOMAIN con[p].copy : Faithful(con[p].copy[r], r)

(* A change of a record raises its version, if it is not its creation.     *)
LEMMA RecordsMove ==
  ASSUME StateOK, [FeedNext]_allVars, NEW r \in Records, rec[r].life # "absent"
  PROVE  rec'[r] = rec[r] \/ (rec'[r].life # "absent" /\ rec'[r].ver > rec[r].ver)
<1>1. ASSUME NEW e, Tells(e)
      PROVE  rec'[r] = rec[r] \/ (rec'[r].life # "absent" /\ rec'[r].ver > rec[r].ver)
  <2>1. CASE r \in Of(e)
    <3>1. rec'[r].life \in {"published", "merged"}
      BY <1>1, <2>1 DEF Tells
    <3>2. rec'[r].ver > rec[r].ver
      BY <1>1, <2>1 DEF Tells
    <3> QED
      BY <3>1, <3>2
  <2>2. CASE r \notin Of(e)
    BY <1>1, <2>2 DEF Tells
  <2> QED
    BY <2>1, <2>2
<1>2. ASSUME NEW v \in Records, Undo(v)
      PROVE  rec'[r] = rec[r] \/ (rec'[r].life # "absent" /\ rec'[r].ver > rec[r].ver)
  <2>0. ShapeOK /\ rec[v].ver \in Nat
    BY DEF StateOK, DataOK, ShapeOK
  <2>1. /\ rec'[v] = [life |-> "published", ver |-> rec[v].ver + 1, time |-> clock + 1, row |-> rec[v].row]
        /\ \A q \in Records \ {v} : rec'[q] = rec[q]
    BY <1>2, <2>0, Undone
  <2>2. rec'[v].life = "published" /\ rec'[v].ver > rec[v].ver
    BY <2>0, <2>1
  <2> QED
    BY <2>1, <2>2
<1> QED
  BY <1>1, <1>2, StepKinds

LEMMA FaithStays ==
  ASSUME StateOK, [FeedNext]_allVars, NEW r \in Records, NEW v, v.ver \in Nat, Faithful(v, r)
  PROVE  Faithful(v, r)'
<1>1. rec[r].life # "absent" /\ rec[r].ver \in Nat /\ v.ver <= rec[r].ver
  BY DEF Faithful, StateOK, DataOK, ShapeOK
<1>2. CASE rec'[r] = rec[r]
  BY <1>2 DEF Faithful
<1>3. CASE rec'[r].life # "absent" /\ rec'[r].ver > rec[r].ver
  <2>1. rec'[r].ver \in Nat
    BY DataStep DEF StateOK, DataOK, ShapeOK
  <2> QED
    BY <1>1, <1>3, <2>1 DEF Faithful
<1> QED
  BY <1>1, <1>2, <1>3, RecordsMove

LEMMA FaithTold ==
  ASSUME FeedInv, FaithOK, [FeedNext]_allVars
  PROVE  \A i \in 1 .. Newest' : Faithful(log[i], log[i].rec)'
<1>0. StateOK /\ IsLog(log) /\ Newest \in Nat
  BY LogLength DEF FeedInv, StateOK, DataOK, ShapeOK
<1>1. \A i \in 1 .. Newest : log[i].rec \in Records /\ log[i].ver \in Nat
  BY <1>0 DEF StateOK, DataOK, EventsBehind
<1>2. CASE log' = log
  <2> SUFFICES ASSUME NEW i \in 1 .. Newest PROVE Faithful(log[i], log[i].rec)'
    BY <1>2 DEF Newest
  <2>1. Faithful(log[i], log[i].rec)
    BY DEF FaithOK
  <2>2. log'[i] = log[i]
    BY <1>2
  <2> QED
    BY <1>0, <1>1, <2>1, <2>2, FaithStays DEF Faithful
<1>3. ASSUME NEW e, Tells(e) PROVE \A i \in 1 .. Newest' : Faithful(log[i], log[i].rec)'
  <2>1. /\ Newest' = Newest + 1 /\ log'[Newest + 1] = e
        /\ \A i \in 1 .. Newest : log'[i] = log[i]
    BY <1>0, <1>3, LogAppend DEF Newest, Tells
  <2> SUFFICES ASSUME NEW i \in 1 .. Newest' PROVE Faithful(log[i], log[i].rec)'
    OBVIOUS
  <2>2. CASE i \in 1 .. Newest
    <3>1. Faithful(log[i], log[i].rec)
      BY <2>2 DEF FaithOK
    <3> QED
      BY <1>0, <1>1, <2>1, <2>2, <3>1, FaithStays DEF Faithful
  <2>3. CASE i = Newest + 1
    <3>1. e.rec \in Records /\ rec'[e.rec].life = "published" /\ e.ver = rec'[e.rec].ver /\ e.row = rec'[e.rec].row
      BY <1>3 DEF Tells, Of
    <3>2. rec'[e.rec].ver \in Nat
      BY <1>0, <3>1, DataStep DEF StateOK, DataOK, ShapeOK
    <3>3. log'[i] = e
      BY <2>1, <2>3
    <3> QED
      BY <3>1, <3>2, <3>3 DEF Faithful
  <2> QED
    BY <1>0, <2>1, <2>2, <2>3
<1>4. ASSUME NEW v \in Records, Undo(v) PROVE log' = log
  BY <1>4 DEF Undo
<1> QED
  BY <1>0, <1>2, <1>3, <1>4, StepKinds

(* What an event leaves of one record in a copy.                           *)
LEMMA AppliedTo ==
  ASSUME NEW copy \in Copies, NEW e, EventOK(e), NEW r
  PROVE  /\ r \in DOMAIN Apply(copy, e) =>
              \/ r \in DOMAIN copy /\ Apply(copy, e)[r] = copy[r]
              \/ r = e.rec /\ Apply(copy, e)[r] = [ver |-> e.ver, row |-> e.row]
         /\ e.rec \in DOMAIN Apply(copy, e)
<1> DEFINE out == Apply(copy, e)
           kept == DOMAIN copy \ e.gone
           stays == e.rec \in kept /\ copy[e.rec].ver >= e.ver
<1>1. /\ DOMAIN out = kept \cup {e.rec}
      /\ \A x \in kept : x # e.rec \/ stays => out[x] = copy[x]
      /\ ~stays => out[e.rec] = [ver |-> e.ver, row |-> e.row]
  BY Applied
<1> HIDE DEF out, stays
<1>2. ASSUME r \in DOMAIN out
      PROVE  \/ r \in DOMAIN copy /\ out[r] = copy[r]
             \/ r = e.rec /\ out[r] = [ver |-> e.ver, row |-> e.row]
  <2>1. CASE r = e.rec /\ ~stays
    BY <1>1, <2>1
  <2>2. CASE r = e.rec /\ stays
    <3>1. r \in kept
      BY <2>2 DEF stays
    <3> QED
      BY <1>1, <2>2, <3>1
  <2>3. CASE r # e.rec
    BY <1>1, <1>2, <2>3
  <2> QED
    BY <2>1, <2>2, <2>3
<1>3. e.rec \in DOMAIN out
  BY <1>1
<1> QED
  BY <1>2, <1>3 DEF out

(* ... takes the records away that are gone ...                            *)
LEMMA AppliedAway ==
  ASSUME NEW copy \in Copies, NEW e, EventOK(e), NEW r, r \in e.gone, r # e.rec
  PROVE  r \notin DOMAIN Apply(copy, e)
<1> DEFINE out == Apply(copy, e)
           kept == DOMAIN copy \ e.gone
           stays == e.rec \in kept /\ copy[e.rec].ver >= e.ver
<1>1. /\ DOMAIN out = kept \cup {e.rec}
      /\ \A x \in kept : x # e.rec \/ stays => out[x] = copy[x]
      /\ ~stays => out[e.rec] = [ver |-> e.ver, row |-> e.row]
  BY Applied
<1> HIDE DEF out
<1>2. r \notin DOMAIN out
  BY <1>1
<1> QED
  BY <1>2 DEF out

(* ... never takes a version back ...                                      *)
LEMMA AppliedRises ==
  ASSUME NEW copy \in Copies, NEW e, EventOK(e)
  PROVE  Apply(copy, e)[e.rec].ver >= e.ver
<1> DEFINE out == Apply(copy, e)
           kept == DOMAIN copy \ e.gone
           stays == e.rec \in kept /\ copy[e.rec].ver >= e.ver
<1>1. /\ DOMAIN out = kept \cup {e.rec}
      /\ \A x \in kept : x # e.rec \/ stays => out[x] = copy[x]
      /\ ~stays => out[e.rec] = [ver |-> e.ver, row |-> e.row]
  BY Applied
<1> SUFFICES out[e.rec].ver >= e.ver
  OBVIOUS
<1> HIDE DEF out
<1>2. CASE stays
  BY <1>1, <1>2
<1>3. CASE ~stays
  <2> HIDE DEF stays
  <2>1. out[e.rec].ver = e.ver /\ e.ver \in Nat
    BY <1>1, <1>3 DEF EventOK
  <2> QED
    BY <2>1
<1> QED
  BY <1>2, <1>3

(* ... and leaves what it is not about.                                    *)
LEMMA AppliedElse ==
  ASSUME NEW copy \in Copies, NEW e, EventOK(e), NEW r, r \notin Of(e)
  PROVE  /\ r \in DOMAIN Apply(copy, e) <=> r \in DOMAIN copy
         /\ r \in DOMAIN copy => Apply(copy, e)[r] = copy[r]
<1> DEFINE out == Apply(copy, e)
           kept == DOMAIN copy \ e.gone
           stays == e.rec \in kept /\ copy[e.rec].ver >= e.ver
<1>1. /\ DOMAIN out = kept \cup {e.rec}
      /\ \A x \in kept : x # e.rec \/ stays => out[x] = copy[x]
      /\ ~stays => out[e.rec] = [ver |-> e.ver, row |-> e.row]
  BY Applied
<1> HIDE DEF out, stays
<1>2. (r \in DOMAIN out <=> r \in DOMAIN copy) /\ (r \in DOMAIN copy => out[r] = copy[r])
  BY <1>1 DEF Of
<1> QED
  BY <1>2 DEF out

(* Copies along a run come from the copy and from the events of the run.   *)
ComesFrom(copy, q, n, out) ==
  \A r \in DOMAIN out :
    \/ r \in DOMAIN copy /\ out[r] = copy[r]
    \/ \E j \in 1 .. n : q[j].rec = r /\ out[r] = [ver |-> q[j].ver, row |-> q[j].row]

LEMMA RunComesFrom ==
  ASSUME NEW copy, NEW q, NEW n \in Nat, NEW F, IsRun(F, copy, q, n), \A i \in 1 .. n : EventOK(q[i])
  PROVE  ComesFrom(copy, q, n, F[n])
<1> DEFINE From(i, r) == \/ r \in DOMAIN copy /\ F[i][r] = copy[r]
                         \/ \E j \in 1 .. i : q[j].rec = r /\ F[i][r] = [ver |-> q[j].ver, row |-> q[j].row]
           T == {i \in Nat : i <= n => \A r \in DOMAIN F[i] : From(i, r)}
<1>1. 0 \in T
  BY DEF IsRun
<1>2. ASSUME NEW i \in T PROVE i + 1 \in T
  <2> SUFFICES ASSUME i + 1 <= n, NEW r \in DOMAIN F[i + 1] PROVE From(i + 1, r)
    OBVIOUS
  <2>1. i \in 0 .. n /\ i + 1 \in 1 .. n /\ (i + 1) - 1 = i /\ \A x \in DOMAIN F[i] : From(i, x)
    OBVIOUS
  <2> DEFINE e == q[i + 1]
  <2>2. F[i] \in Copies /\ EventOK(e) /\ F[i + 1] = Apply(F[i], e)
    BY <2>1 DEF IsRun
  <2>3. \/ r \in DOMAIN F[i] /\ F[i + 1][r] = F[i][r]
        \/ r = e.rec /\ F[i + 1][r] = [ver |-> e.ver, row |-> e.row]
    <3> HIDE DEF e, T
    <3>1. r \in DOMAIN Apply(F[i], e)
      BY <2>2
    <3> QED
      BY <2>2, <3>1, AppliedTo
  <2>4. CASE r \in DOMAIN F[i] /\ F[i + 1][r] = F[i][r]
    BY <2>1, <2>4
  <2>5. CASE r = e.rec /\ F[i + 1][r] = [ver |-> e.ver, row |-> e.row]
    BY <2>1, <2>5
  <2> QED
    BY <2>3, <2>4, <2>5
<1>3. T = Nat
  <2> HIDE DEF T
  <2> QED
    BY <1>1, <1>2, NumberInduction, Zenon DEF T
<1>4. \A r \in DOMAIN F[n] : From(n, r)
  <2> HIDE DEF From
  <2>1. n \in T /\ n <= n
    BY <1>3
  <2> QED
    BY <2>1
<1> QED
  BY <1>4 DEF ComesFrom

SameFor(r, new, old) == (r \in DOMAIN new <=> r \in DOMAIN old) /\ (r \in DOMAIN new => new[r] = old[r])

(* A record that the events after the i-th are not about stays as it is.   *)
LEMMA RunSkips ==
  ASSUME NEW copy, NEW q, NEW n \in Nat, NEW F, IsRun(F, copy, q, n), \A i \in 1 .. n : EventOK(q[i]),
         NEW i \in 0 .. n, NEW r, \A j \in i + 1 .. n : r \notin Of(q[j])
  PROVE  SameFor(r, F[n], F[i])
<1> USE DEF SameFor
<1> DEFINE Same(k) == SameFor(r, F[k], F[i])
           T == {k \in Nat : i + k <= n => Same(i + k)}
<1>1. 0 \in T
  <2>1. i + 0 = i
    OBVIOUS
  <2> QED
    BY <2>1
<1>2. ASSUME NEW k \in T PROVE k + 1 \in T
  <2> SUFFICES ASSUME i + (k + 1) <= n PROVE Same(i + (k + 1))
    OBVIOUS
  <2> DEFINE m == i + (k + 1)
             e == q[m]
  <2>1. m \in i + 1 .. n /\ m \in 1 .. n /\ m - 1 = i + k /\ m - 1 \in 0 .. n /\ Same(m - 1)
    OBVIOUS
  <2>2. F[m - 1] \in Copies /\ EventOK(e) /\ F[m] = Apply(F[m - 1], e) /\ r \notin Of(e)
    BY <2>1 DEF IsRun
  <2> HIDE DEF T, m, Same
  <2>3. /\ r \in DOMAIN F[m] <=> r \in DOMAIN F[m - 1]
        /\ r \in DOMAIN F[m] => F[m][r] = F[m - 1][r]
    <3> DEFINE before == F[m - 1]
    <3>0. before \in Copies /\ EventOK(e) /\ F[m] = Apply(before, e) /\ r \notin Of(e)
      BY <2>2
    <3> HIDE DEF e, before
    <3>1. /\ r \in DOMAIN Apply(before, e) <=> r \in DOMAIN before
          /\ r \in DOMAIN before => Apply(before, e)[r] = before[r]
      BY <3>0, AppliedElse
    <3>2. /\ r \in DOMAIN F[m] <=> r \in DOMAIN before
          /\ r \in DOMAIN F[m] => F[m][r] = before[r]
      BY <3>0, <3>1
    <3> QED
      BY <3>2 DEF before
  <2>4. Same(m)
    BY <2>1, <2>3 DEF Same
  <2> QED
    BY <2>4 DEF m
<1>3. T = Nat
  <2> HIDE DEF T
  <2> QED
    BY <1>1, <1>2, NumberInduction, Zenon DEF T
<1>4. n - i \in Nat /\ i + (n - i) = n
  OBVIOUS
<1>5. Same(n)
  <2>1. n - i \in T
    BY <1>3, <1>4
  <2> QED
    BY <1>4, <2>1
<1> QED
  BY <1>5

(* A pull takes over the events that it is sent; they are of the log.      *)
LEMMA PulledRun ==
  ASSUME FeedInv, NEW p \in Consumers, PullEvents(p)
  PROVE  LET since == con[p].since
             n == NextSince(since) - since IN
         /\ n \in Nat /\ since \in Nat /\ since + n = NextSince(since) /\ since + n <= Newest
         /\ con[p].copy \in Copies
         /\ \A i \in 1 .. n : /\ Batch(since)[i] = log[since + i] /\ since + i \in 1 .. Newest
                              /\ EventOK(Batch(since)[i])
         /\ \E F : IsRun(F, con[p].copy, Batch(since), n) /\ con'[p].copy = F[n]
<1> DEFINE since == con[p].since
           n == NextSince(since) - since
           q == Batch(since)
<1>1. /\ StateOK /\ OffsetOK /\ ConsOK /\ IsLog(log)
      /\ since \in Nat /\ con[p].copy \in Copies
  BY DEF FeedInv, OffsetOK, ConsOK
<1>2. since < Newest /\ con'[p].copy = FoldLeft(Apply, con[p].copy, q)
  BY <1>1, PullSets
<1> HIDE DEF since
<1>3. /\ n \in Nat /\ since + n = NextSince(since) /\ since + n <= Newest
      /\ \A i \in 1 .. n : q[i] = log[since + i] /\ since + i \in 1 .. Newest
  BY <1>1, <1>2, BatchIs
<1>4. \E F : IsRun(F, con[p].copy, q, n) /\ FoldLeft(Apply, con[p].copy, q) = F[n]
  BY <1>1, <1>2, Pulled
<1>5. \A i \in 1 .. n : EventOK(q[i])
  BY <1>1, <1>3, EventsOK
<1> HIDE DEF n, q
<1>6. \E F : IsRun(F, con[p].copy, q, n) /\ con'[p].copy = F[n]
  BY <1>2, <1>4
<1> QED
  BY <1>1, <1>3, <1>5, <1>6 DEF since, n, q

LEMMA FaithMoves ==
  ASSUME FeedInv, FaithOK, NEW p \in Consumers,
         SnapshotList(p) \/ SnapshotSeq(p) \/ PullEvents(p) \/ Restart(p)
  PROVE  \A r \in DOMAIN con'[p].copy : Faithful(con'[p].copy[r], r)
<1>0. StateOK /\ OffsetOK /\ ConsOK
  BY DEF FeedInv
<1>1. \A r \in DOMAIN con[p].copy : Faithful(con[p].copy[r], r)
  BY DEF FaithOK
<1>2. CASE SnapshotList(p)
  <2>1. con'[p].copy = Loaded(con[p].copy, Page(con[p].page))
    BY <1>0, <1>2, ListSets
  <2>2. ASSUME NEW r \in Page(con[p].page) PROVE Faithful(Copy(r), r)
    BY <1>0 DEF Page, Published, Copy, Faithful, StateOK, DataOK, ShapeOK
  <2>3. /\ DOMAIN con'[p].copy = DOMAIN con[p].copy \cup Page(con[p].page)
        /\ \A r \in DOMAIN con'[p].copy :
             con'[p].copy[r] = IF r \in Page(con[p].page) THEN Copy(r) ELSE con[p].copy[r]
    BY <2>1 DEF Loaded
  <2> TAKE r \in DOMAIN con'[p].copy
  <2>4. CASE r \in Page(con[p].page)
    BY <2>2, <2>3, <2>4
  <2>5. CASE r \notin Page(con[p].page)
    BY <1>1, <2>3, <2>5
  <2> QED
    BY <2>4, <2>5
<1>3. CASE SnapshotSeq(p)
  BY <1>0, <1>1, <1>3, SeqSets
<1>4. CASE PullEvents(p)
  <2> DEFINE since == con[p].since
             n == NextSince(since) - since
             q == Batch(since)
  <2>1. /\ n \in Nat
        /\ \A i \in 1 .. n : q[i] = log[since + i] /\ since + i \in 1 .. Newest /\ EventOK(q[i])
        /\ \E F : IsRun(F, con[p].copy, q, n) /\ con'[p].copy = F[n]
    BY <1>4, PulledRun
  <2> HIDE DEF since, n, q
  <2>2. PICK F : IsRun(F, con[p].copy, q, n) /\ con'[p].copy = F[n]
    BY <2>1
  <2> TAKE r \in DOMAIN con'[p].copy
  <2>3. \/ r \in DOMAIN con[p].copy /\ con'[p].copy[r] = con[p].copy[r]
        \/ \E j \in 1 .. n : q[j].rec = r /\ con'[p].copy[r] = [ver |-> q[j].ver, row |-> q[j].row]
    <3>1. ComesFrom(con[p].copy, q, n, F[n])
      BY <2>1, <2>2, RunComesFrom
    <3>2. ComesFrom(con[p].copy, q, n, con'[p].copy)
      BY <2>2, <3>1
    <3> QED
      BY <3>2, Zenon DEF ComesFrom
  <2>4. ASSUME NEW j \in 1 .. n, q[j].rec = r, con'[p].copy[r] = [ver |-> q[j].ver, row |-> q[j].row]
        PROVE  Faithful(con'[p].copy[r], r)
    <3>1. Faithful(q[j], r)
      BY <2>1, <2>4 DEF FaithOK
    <3> QED
      BY <2>4, <3>1 DEF Faithful
  <2> QED
    BY <1>1, <2>3, <2>4
<1>5. CASE Restart(p)
  <2>1. DOMAIN NewConsumer.copy = {}
    BY DEF NewConsumer
  <2> QED
    BY <1>0, <1>1, <1>5, <2>1, RestartSets
<1> QED
  BY <1>2, <1>3, <1>4, <1>5

(* A step of a consumer, an acknowledgement, or a step of the data.        *)
LEMMA FeedSteps ==
  ASSUME [FeedNext]_allVars
  PROVE  \/ \E p \in Consumers : SnapshotList(p) \/ SnapshotSeq(p) \/ PullEvents(p) \/ Restart(p)
         \/ UNCHANGED <<con, vars>>
         \/ [Next]_vars /\ UNCHANGED feedVars
<1>1. ASSUME NEW p \in Consumers, Ack(p) PROVE UNCHANGED <<con, vars>>
  BY <1>1 DEF Ack
<1>2. ASSUME NEW a \in acks, AckUpdate(a) \/ AckInsert(a) PROVE UNCHANGED <<con, vars>>
  BY <1>2 DEF AckUpdate, AckInsert
<1> QED
  BY <1>1, <1>2 DEF FeedNext, Follow, allVars, feedVars

LEMMA FaithStep == FeedInv /\ FaithOK /\ [FeedNext]_allVars => FaithOK'
<1> SUFFICES ASSUME FeedInv, FaithOK, [FeedNext]_allVars PROVE FaithOK'
  OBVIOUS
<1>0. StateOK /\ OffsetOK /\ ConsOK
  BY DEF FeedInv
<1>1. \A i \in 1 .. Newest' : Faithful(log[i], log[i].rec)'
  BY FaithTold
<1>2. ASSUME NEW p \in Consumers, con'[p] = con[p], NEW r \in DOMAIN con'[p].copy
      PROVE  Faithful(con[p].copy[r], r)'
  <2>1. con[p].copy \in Copies /\ Faithful(con[p].copy[r], r)
    BY <1>0, <1>2 DEF ConsOK, FaithOK
  <2>2. r \in Records /\ con[p].copy[r].ver \in Nat
    BY <1>2, <2>1, CopyOf
  <2> DEFINE v == con[p].copy[r]
  <2>3. v' = v
    BY <1>2
  <2>4. Faithful(v, r) /\ v.ver \in Nat
    BY <2>1, <2>2
  <2>5. rec'[r].life # "absent" /\ v.ver <= rec'[r].ver /\ (v.ver = rec'[r].ver => v.row = rec'[r].row)
    <3> HIDE DEF v
    <3>1. rec[r].ver \in Nat /\ rec'[r].ver \in Nat /\ rec[r].life # "absent"
      BY <1>0, <2>2, <2>4, DataStep DEF StateOK, DataOK, ShapeOK, Faithful
    <3>2. rec'[r] = rec[r] \/ (rec'[r].life # "absent" /\ rec'[r].ver > rec[r].ver)
      BY <1>0, <2>2, <3>1, RecordsMove
    <3> QED
      BY <2>4, <3>1, <3>2 DEF Faithful
  <2> HIDE DEF v
  <2>6. Faithful(v, r)'
    BY <2>3, <2>5 DEF Faithful
  <2> QED
    BY <2>6 DEF v
<1>3. ASSUME NEW p \in Consumers, SnapshotList(p) \/ SnapshotSeq(p) \/ PullEvents(p) \/ Restart(p)
      PROVE  \A q \in Consumers : \A r \in DOMAIN con'[q].copy : Faithful(con[q].copy[r], r)'
  <2>1. UNCHANGED vars /\ OthersStay(p)
    BY <1>0, <1>3, ListSets, SeqSets, PullSets, RestartSets
  <2>2. \A r \in DOMAIN con'[p].copy : Faithful(con'[p].copy[r], r)
    BY <1>3, FaithMoves
  <2>3. \A r \in DOMAIN con'[p].copy : Faithful(con[p].copy[r], r)'
    BY <2>1, <2>2 DEF Faithful, vars
  <2>4. ASSUME NEW q \in Consumers, q # p, NEW r \in DOMAIN con'[q].copy PROVE Faithful(con[q].copy[r], r)'
    <3>1. con'[q] = con[q]
      BY <2>1, <2>4 DEF OthersStay
    <3> QED
      BY <1>2, <2>4, <3>1
  <2> QED
    BY <2>3, <2>4
<1>4. CASE UNCHANGED con
  <2>1. \A q \in Consumers : \A r \in DOMAIN con'[q].copy : Faithful(con[q].copy[r], r)'
    BY <1>2, <1>4
  <2> QED
    BY <1>1, <2>1 DEF FaithOK
<1>5. (\E p \in Consumers : SnapshotList(p) \/ SnapshotSeq(p) \/ PullEvents(p) \/ Restart(p)) \/ UNCHANGED con
  BY FeedSteps DEF feedVars
<1> QED
  BY <1>1, <1>3, <1>4, <1>5 DEF FaithOK

NewsInv == FeedInv /\ NewsOK /\ FaithOK

LEMMA FaithInvariant == FeedSpec => []NewsInv
<1>1. FeedInit => FaithOK
  <2> SUFFICES ASSUME FeedInit PROVE FaithOK
    OBVIOUS
  <2>1. Newest = 0
    BY DEF FeedInit, Init, Newest
  <2>2. \A p \in Consumers : DOMAIN con[p].copy = {}
    BY DEF FeedInit, NewConsumer
  <2> QED
    BY <2>1, <2>2 DEF FaithOK
<1>2. (FeedInv /\ NewsOK) /\ FaithOK /\ [FeedNext]_allVars => FaithOK'
  BY FaithStep
<1>3. FeedSpec => [](FeedInv /\ NewsOK)
  BY NewsInvariant
<1> QED
  BY <1>1, <1>2, <1>3, PTL DEF FeedSpec, NewsInv

-----------------------------------------------------------------------------
(* The pages of a snapshot.                                                *)

Rank(r) == Cardinality({q \in Published : Before(q, r)})

(* The published records of a rank below k.                                *)
Foremost(k) == {r \in Published : Rank(r) < k}

TimesOK == \A r \in Records : r \in Nat /\ rec[r].time \in Int

LEMMA TimesAre ==
  ASSUME StateOK
  PROVE  TimesOK
BY MasterDataAssumption DEF MasterDataAssumption, StateOK, ValuesOK, RowsOK, TimesOK

(* The order of the records is total.                                      *)
LEMMA InOrder ==
  ASSUME TimesOK
  PROVE  /\ \A r \in Published : ~Before(r, r)
         /\ \A q, r \in Published : q = r \/ Before(q, r) \/ Before(r, q)
         /\ \A q, r, x \in Published : Before(q, r) /\ Before(r, x) => Before(q, x)
BY DEF TimesOK, Published, Before

(* Ranks are numbers, and rise with the order.                             *)
LEMMA RanksRise ==
  ASSUME TimesOK, IsFiniteSet(Published)
  PROVE  /\ \A r \in Published : Rank(r) \in Nat
         /\ \A q, r \in Published : Before(q, r) => Rank(q) < Rank(r)
<1> DEFINE Ahead(r) == {q \in Published : Before(q, r)}
<1>1. ASSUME NEW r \in Published PROVE IsFiniteSet(Ahead(r)) /\ Cardinality(Ahead(r)) \in Nat
  <2>1. Ahead(r) \in SUBSET Published
    OBVIOUS
  <2> QED
    BY <2>1, FS_Subset, FS_CardinalityType
<1>2. ASSUME NEW q \in Published, NEW r \in Published, Before(q, r)
      PROVE  Rank(q) < Rank(r)
  <2>1. Ahead(q) \in SUBSET Ahead(r) /\ q \in Ahead(r) /\ q \notin Ahead(q)
    BY <1>2, InOrder
  <2>2. IsFiniteSet(Ahead(r)) /\ Cardinality(Ahead(r)) \in Nat /\ Cardinality(Ahead(q)) \in Nat
    BY <1>1
  <2> HIDE DEF Ahead
  <2>3. /\ Cardinality(Ahead(q)) <= Cardinality(Ahead(r))
        /\ Cardinality(Ahead(q)) # Cardinality(Ahead(r))
    BY <2>1, <2>2, FS_Subset
  <2>4. Cardinality(Ahead(q)) < Cardinality(Ahead(r))
    BY <2>2, <2>3
  <2> QED
    BY <2>4 DEF Rank, Ahead
<1> QED
  BY <1>1, <1>2 DEF Rank

(* The front of k records has k records, if there is a record behind it.   *)
LEMMA FrontIsFull ==
  ASSUME TimesOK, IsFiniteSet(Published), NEW k \in Nat, NEW r \in Published, Rank(r) >= k
  PROVE  IsFiniteSet(Foremost(k)) /\ Cardinality(Foremost(k)) = k
<1> DEFINE Ahead(x) == {q \in Published : Before(q, x)}
<1>1. /\ \A x \in Published : Rank(x) \in Nat
      /\ \A q, x \in Published : Before(q, x) => Rank(q) < Rank(x)
  BY RanksRise
<1>2. Foremost(k) \in SUBSET Published /\ IsFiniteSet(Foremost(k)) /\ Cardinality(Foremost(k)) \in Nat
  <2>1. Foremost(k) \in SUBSET Published
    BY DEF Foremost
  <2> QED
    BY <2>1, FS_Subset, FS_CardinalityType
<1>3. \A x \in Published : IsFiniteSet(Ahead(x)) /\ Cardinality(Ahead(x)) = Rank(x)
  <2> SUFFICES ASSUME NEW x \in Published PROVE IsFiniteSet(Ahead(x)) /\ Cardinality(Ahead(x)) = Rank(x)
    OBVIOUS
  <2>1. Ahead(x) \in SUBSET Published
    OBVIOUS
  <2> QED
    BY <2>1, FS_Subset DEF Rank
<1>4. Cardinality(Foremost(k)) >= k
  <2> DEFINE T == {Rank(x) : x \in {y \in Published : Rank(y) >= k}}
  <2>1. T \in SUBSET Nat /\ Rank(r) \in T
    BY <1>1
  <2>2. PICK m \in T : \A y \in T : m <= y
    <3> HIDE DEF T
    <3> QED
      BY <2>1, LeastElement
  <2>3. PICK x \in Published : Rank(x) = m /\ m >= k
    BY <2>2
  <2>4. \A y \in Published : Rank(y) >= k => m <= Rank(y)
    BY <2>2
  <2>5. Ahead(x) \in SUBSET Foremost(k)
    <3> SUFFICES ASSUME NEW q \in Published, Before(q, x) PROVE Rank(q) < k
      BY DEF Foremost
    <3>1. Rank(q) < Rank(x) /\ Rank(q) \in Nat /\ Rank(x) \in Nat
      BY <1>1
    <3> QED
      BY <2>3, <2>4, <3>1
  <2> HIDE DEF Ahead, T
  <2>6. Cardinality(Ahead(x)) <= Cardinality(Foremost(k))
    BY <1>2, <2>5, FS_Subset
  <2>7. Cardinality(Ahead(x)) = m /\ m \in Nat
    BY <1>1, <1>3, <2>3
  <2> QED
    BY <1>2, <2>3, <2>6, <2>7
<1>5. Cardinality(Foremost(k)) <= k
  <2>1. CASE Foremost(k) = {}
    BY <2>1, FS_EmptySet
  <2>2. CASE Foremost(k) # {}
    <3> DEFINE T == {Rank(x) : x \in Foremost(k)}
    <3>1. T \in SUBSET (0 .. k) /\ T # {}
      BY <1>1, <2>2 DEF Foremost
    <3>2. PICK m \in T : \A y \in T : m >= y
      <4> HIDE DEF T
      <4> QED
        BY <3>1, GreatestElement
    <3>3. PICK x \in Foremost(k) : Rank(x) = m
      BY <3>2
    <3>4. /\ x \in Published /\ Rank(x) \in Nat /\ Rank(x) < k
          /\ \A y \in Foremost(k) : y \in Published /\ Rank(y) \in Nat /\ Rank(x) >= Rank(y)
      BY <1>1, <3>2, <3>3 DEF Foremost
    <3> HIDE DEF T
    <3>5. ASSUME NEW y \in Foremost(k), y # x PROVE Before(y, x)
      <4>1. Before(x, y) => Rank(x) < Rank(y)
        BY <1>1, <3>4
      <4>2. ~(Rank(x) < Rank(y))
        BY <3>4
      <4> QED
        BY <3>4, <3>5, <4>1, <4>2, InOrder
    <3>6. Foremost(k) \in SUBSET (Ahead(x) \cup {x})
      BY <3>4, <3>5
    <3>7. ~(x \in Ahead(x))
      BY <3>4, InOrder
    <3>8. IsFiniteSet(Ahead(x)) /\ Cardinality(Ahead(x)) = Rank(x)
      BY <1>3, <3>4
    <3> HIDE DEF Ahead
    <3>9. IsFiniteSet(Ahead(x) \cup {x}) /\ Cardinality(Ahead(x) \cup {x}) = Rank(x) + 1
      BY <3>7, <3>8, FS_AddElement
    <3>10. Cardinality(Foremost(k)) <= Rank(x) + 1
      BY <3>6, <3>9, FS_Subset
    <3> QED
      BY <1>2, <3>4, <3>10
  <2> QED
    BY <2>1, <2>2
<1> QED
  BY <1>2, <1>4, <1>5

(* Where a page begins, and where it ends.                                 *)
LEMMA PageEnds ==
  ASSUME NEW n \in Nat \ {0}
  PROVE  /\ (n - 1) * PageSize \in Nat /\ n * PageSize \in Nat
         /\ n * PageSize = (n - 1) * PageSize + PageSize
         /\ (1 - 1) * PageSize = 0
BY FeedAssumption DEF FeedAssumption

LEMMA PageIs ==
  ASSUME NEW n
  PROVE  Page(n) = {r \in Published : (n - 1) * PageSize <= Rank(r) /\ Rank(r) < n * PageSize}
BY DEF Page, Rank

(* A page that is not full is the last one.                                *)
LEMMA LastPage ==
  ASSUME TimesOK, IsFiniteSet(Published), NEW n \in Nat \ {0}, Cardinality(Page(n)) # PageSize
  PROVE  \A r \in Published : Rank(r) < n * PageSize
<1> DEFINE a == (n - 1) * PageSize
           b == n * PageSize
<1>1. a \in Nat /\ b \in Nat /\ b = a + PageSize /\ PageSize \in Nat
  BY PageEnds, FeedAssumption DEF FeedAssumption
<1>2. Page(n) = {r \in Published : a <= Rank(r) /\ Rank(r) < b}
  BY PageIs
<1> HIDE DEF a, b
<1>3. \A r \in Published : Rank(r) \in Nat
  BY RanksRise
<1> SUFFICES ASSUME NEW r \in Published, ~(Rank(r) < b) PROVE FALSE
  BY DEF b
<1>4. Rank(r) >= b /\ Rank(r) >= a
  BY <1>1, <1>3
<1>5. /\ IsFiniteSet(Foremost(a)) /\ Cardinality(Foremost(a)) = a
      /\ IsFiniteSet(Foremost(b)) /\ Cardinality(Foremost(b)) = b
  BY <1>1, <1>4, FrontIsFull
<1>6. Foremost(b) = Foremost(a) \cup Page(n) /\ Foremost(a) \cap Page(n) = {}
  BY <1>1, <1>2, <1>3 DEF Foremost
<1>7. IsFiniteSet(Page(n)) /\ Cardinality(Page(n)) \in Nat
  <2>1. Page(n) \in SUBSET Published
    BY <1>2
  <2> QED
    BY <2>1, FS_Subset, FS_CardinalityType
<1>8. Cardinality(Foremost(b)) = Cardinality(Foremost(a)) + Cardinality(Page(n)) - Cardinality(Foremost(a) \cap Page(n))
  BY <1>5, <1>6, <1>7, FS_Union
<1>9. Cardinality(Foremost(a) \cap Page(n)) = 0
  BY <1>6, FS_EmptySet
<1> QED
  BY <1>1, <1>5, <1>7, <1>8, <1>9

-----------------------------------------------------------------------------
(* Consumers that follow.                                                  *)

(* The last change of r was told, and not after the number since.          *)
Quiet(since, r) ==
  /\ told[r]
  /\ \A j \in since + 1 .. Newest : r \notin Of(log[j])

(* A consumer has the records from its snapshot, or has been told since.   *)
Heard(c, r) == c.from = Everything \/ \E i \in c.from + 1 .. c.since : r \in Of(log[i])

PlaceOK(p) ==
  /\ con[p].page \in Nat \ {0} /\ con[p].from \in Nat \cup {Everything}
  /\ con[p].at = "list" /\ con[p].page = 1 => DOMAIN con[p].copy = {}
  /\ con[p].at # "follow" => con[p].from <= Newest

(* As long as no event has been written since the first page was read, the *)
(* copy has the records of the pages before the next one.                  *)
PagesOK(p) ==
  con[p].at = "list" /\ con[p].page > 1 /\ con[p].from = Newest =>
    \A r \in Records : told[r] =>
      /\ r \in DOMAIN con[p].copy => r \in Published /\ con[p].copy[r] = Copy(r)
      /\ r \in Published /\ Rank(r) < (con[p].page - 1) * PageSize => r \in DOMAIN con[p].copy

(* ... and then all of them.                                               *)
SnapshotOK(p) ==
  con[p].at = "seq" /\ con[p].from = Newest =>
    \A r \in Records : told[r] => Current(con[p].copy, r)

(* A consumer that follows knows what was told up to the number that it    *)
(* has reached.                                                            *)
KnowsOK(p) ==
  con[p].at = "follow" =>
    \A r \in Records : Quiet(con[p].since, r) /\ Heard(con[p], r) => Current(con[p].copy, r)

FollowOK ==
  /\ IsFiniteSet(Published)
  /\ \A p \in Consumers : PlaceOK(p) /\ PagesOK(p) /\ SnapshotOK(p) /\ KnowsOK(p)

(* A page of the snapshot.                                                 *)
LEMMA ListKnows ==
  ASSUME NewsInv, FollowOK, NEW p \in Consumers, SnapshotList(p)
  PROVE  /\ con'[p].at \in {"list", "seq"}
         /\ con'[p].page \in Nat \ {0} /\ (con'[p].at = "list" => con'[p].page # 1)
         /\ con'[p].from \in Nat \cup {Everything} /\ con'[p].from <= Newest
         /\ con'[p].from = Newest =>
              \A r \in Records : told[r] =>
                /\ r \in DOMAIN con'[p].copy => r \in Published /\ con'[p].copy[r] = Copy(r)
                /\ r \in Published /\ (con'[p].at = "seq" \/ Rank(r) < (con'[p].page - 1) * PageSize)
                   => r \in DOMAIN con'[p].copy
<1> DEFINE k == con[p].page
           rows == Page(k)
           full == Cardinality(rows) = PageSize
<1>0. StateOK /\ OffsetOK /\ TimesOK /\ IsFiniteSet(Published) /\ Newest \in Nat
  BY TimesAre, LogLength DEF NewsInv, FeedInv, OffsetOK, FollowOK
<1>1. /\ con[p].at = "list" /\ con'[p].copy = Loaded(con[p].copy, rows)
      /\ con'[p].from = IF k = 1 THEN Newest ELSE con[p].from
      /\ con'[p].page = IF full THEN k + 1 ELSE 1
      /\ con'[p].at = IF full THEN "list" ELSE "seq"
  BY <1>0, ListSets
<1>2. /\ k \in Nat \ {0} /\ con[p].from \in Nat \cup {Everything} /\ con[p].from <= Newest
      /\ k = 1 => DOMAIN con[p].copy = {}
      /\ PagesOK(p)
  BY <1>1 DEF FollowOK, PlaceOK
<1>3. rows = {r \in Published : (k - 1) * PageSize <= Rank(r) /\ Rank(r) < k * PageSize}
  BY PageIs
<1>4. /\ DOMAIN con'[p].copy = DOMAIN con[p].copy \cup rows
      /\ \A r \in DOMAIN con'[p].copy : con'[p].copy[r] = IF r \in rows THEN Copy(r) ELSE con[p].copy[r]
  BY <1>1 DEF Loaded
<1>5. ~full => \A r \in Published : Rank(r) < k * PageSize
  BY <1>0, <1>2, LastPage
<1>6. /\ (k - 1) * PageSize \in Nat /\ k * PageSize \in Nat
      /\ (1 - 1) * PageSize = 0
  BY <1>2, PageEnds
<1>7. \A r \in Published : Rank(r) \in Nat
  BY <1>0, RanksRise
<1>8. ASSUME con'[p].from = Newest, NEW r \in Records, told[r]
      PROVE  /\ r \in DOMAIN con[p].copy => r \in Published /\ con[p].copy[r] = Copy(r)
             /\ r \in Published /\ Rank(r) < (k - 1) * PageSize => r \in DOMAIN con[p].copy
  <2>1. CASE k = 1
    BY <1>2, <1>6, <1>7, <2>1
  <2>2. CASE k # 1
    <3>1. k > 1 /\ con[p].from = Newest
      BY <1>1, <1>2, <1>8, <2>2
    <3> QED
      BY <1>1, <1>2, <1>8, <3>1 DEF PagesOK
  <2> QED
    BY <2>1, <2>2
<1>9. ASSUME con'[p].from = Newest, NEW r \in Records, told[r]
      PROVE  /\ r \in DOMAIN con'[p].copy => r \in Published /\ con'[p].copy[r] = Copy(r)
             /\ r \in Published /\ Rank(r) < k * PageSize => r \in DOMAIN con'[p].copy
  <2>1. r \in rows => r \in Published
    BY <1>3
  <2>2. r \in Published /\ Rank(r) < k * PageSize => Rank(r) < (k - 1) * PageSize \/ r \in rows
    BY <1>3, <1>6, <1>7
  <2> QED
    BY <1>4, <1>8, <1>9, <2>1, <2>2
<1> HIDE DEF rows, full
<1>10. /\ con'[p].at \in {"list", "seq"} /\ con'[p].page \in Nat \ {0}
       /\ con'[p].at = "list" => full /\ con'[p].page = k + 1 /\ con'[p].page # 1
       /\ con'[p].at = "seq" => ~full
       /\ con'[p].from \in Nat \cup {Everything} /\ con'[p].from <= Newest
  BY <1>0, <1>1, <1>2
<1>11. con'[p].from = Newest =>
         \A r \in Records : told[r] =>
           /\ r \in DOMAIN con'[p].copy => r \in Published /\ con'[p].copy[r] = Copy(r)
           /\ r \in Published /\ (con'[p].at = "seq" \/ Rank(r) < (con'[p].page - 1) * PageSize)
              => r \in DOMAIN con'[p].copy
  <2> SUFFICES ASSUME con'[p].from = Newest, NEW r \in Records, told[r], r \in Published,
                      con'[p].at = "seq" \/ Rank(r) < (con'[p].page - 1) * PageSize
               PROVE  Rank(r) < k * PageSize
    BY <1>9
  <2>1. CASE con'[p].at = "seq"
    BY <1>5, <1>10, <2>1
  <2>2. CASE con'[p].at # "seq"
    <3>1. con'[p].page = k + 1
      BY <1>10, <2>2
    <3>2. con'[p].page - 1 = k
      BY <1>2, <3>1
    <3>3. (con'[p].page - 1) * PageSize = k * PageSize
      BY <3>2
    <3> QED
      BY <2>2, <3>3
  <2> QED
    BY <2>1, <2>2
<1> QED
  BY <1>10, <1>11

(* The events that are pulled.                                             *)
LEMMA PullKnows ==
  ASSUME NewsInv, FollowOK, NEW p \in Consumers, PullEvents(p),
         NEW r \in Records, Quiet(con'[p].since, r), Heard(con'[p], r)
  PROVE  Current(con'[p].copy, r)
<1> DEFINE since == con[p].since
           copy == con[p].copy
           out == con'[p].copy
           n == NextSince(since) - since
           q == Batch(since)
           from == con[p].from
<1>0. /\ FeedInv /\ StateOK /\ OffsetOK /\ NewsOK /\ FaithOK
      /\ con[p].at = "follow" /\ con'[p].since = NextSince(since)
      /\ con'[p].from = con[p].from
  BY PullSets DEF NewsInv, FeedInv
<1>1. /\ n \in Nat /\ since \in Nat /\ since + n = NextSince(since) /\ since + n <= Newest
      /\ copy \in Copies
      /\ \A i \in 1 .. n : q[i] = log[since + i] /\ since + i \in 1 .. Newest /\ EventOK(q[i])
      /\ \E F : IsRun(F, copy, q, n) /\ out = F[n]
  BY <1>0, PulledRun
<1>2. Newest \in Nat /\ told[r] /\ \A j \in since + n + 1 .. Newest : r \notin Of(log[j])
  <2>1. Newest \in Nat
    BY <1>0, LogLength DEF OffsetOK
  <2> HIDE DEF since, n
  <2> QED
    BY <1>0, <1>1, <2>1 DEF Quiet
<1>3. FaithOK /\ \A x \in DOMAIN out : Faithful(out[x], x)
  BY <1>0, FaithMoves
<1>4. copy \in Copies /\ (Quiet(since, r) /\ Heard(con[p], r) => Current(copy, r))
  BY <1>0, <1>1 DEF FollowOK, KnowsOK
<1>9. from \in Nat \cup {Everything} /\ (from = Everything \/ \E i \in from + 1 .. since + n : r \in Of(log[i]))
  BY <1>0, <1>1 DEF Heard, FollowOK, PlaceOK
<1>10. Heard(con[p], r) <=> from = Everything \/ \E i \in from + 1 .. since : r \in Of(log[i])
  BY DEF Heard
<1> SUFFICES Current(out, r)
  OBVIOUS
<1> HIDE DEF since, copy, out, n, q, from
<1>5. PICK F : IsRun(F, copy, q, n) /\ out = F[n]
  BY <1>1
<1>6. F \in [0 .. n -> Copies] /\ F[0] = copy
  BY <1>5 DEF IsRun
<1>7. CASE \A i \in 1 .. n : r \notin Of(q[i])
  <2>1. \A j \in since + 1 .. Newest : r \notin Of(log[j])
    <3> SUFFICES ASSUME NEW j \in since + 1 .. Newest PROVE r \notin Of(log[j])
      OBVIOUS
    <3>1. CASE j <= since + n
      <4>1. j - since \in 1 .. n /\ since + (j - since) = j
        BY <1>1, <1>2, <3>1
      <4> QED
        BY <1>1, <1>7, <4>1
    <3>2. CASE ~(j <= since + n)
      <4>1. j \in since + n + 1 .. Newest
        BY <1>1, <1>2, <3>2
      <4> QED
        BY <1>2, <4>1
    <3> QED
      BY <3>1, <3>2
  <2>0. Heard(con[p], r)
    <3> SUFFICES ASSUME from # Everything PROVE \E i \in from + 1 .. since : r \in Of(log[i])
      BY <1>10
    <3>1. PICK i \in from + 1 .. since + n : r \in Of(log[i])
      BY <1>9
    <3>2. from \in Nat /\ i \in Nat /\ i <= Newest
      BY <1>1, <1>2, <1>9, <3>1
    <3>3. ~(i \in since + 1 .. Newest)
      BY <2>1, <3>1
    <3>4. i \in from + 1 .. since
      BY <1>1, <1>2, <3>1, <3>2, <3>3
    <3> QED
      BY <3>1, <3>4
  <2>2. Current(copy, r)
    BY <1>2, <1>4, <2>0, <2>1 DEF Quiet
  <2> DEFINE first == 0
  <2>3. first \in 0 .. n /\ \A j \in first + 1 .. n : r \notin Of(q[j])
    BY <1>1, <1>7
  <2>4. n \in Nat /\ IsRun(F, copy, q, n) /\ \A i \in 1 .. n : EventOK(q[i])
    BY <1>1, <1>5
  <2>5. F[first] = copy
    BY <1>6
  <2> HIDE DEF first
  <2>6. SameFor(r, F[n], F[first])
    BY <2>3, <2>4, RunSkips
  <2> QED
    BY <1>5, <2>2, <2>5, <2>6 DEF Current, SameFor
<1>8. CASE \E i \in 1 .. n : r \in Of(q[i])
  <2> DEFINE T == {i \in 1 .. n : r \in Of(q[i])}
  <2>1. PICK m \in T : \A i \in T : m >= i
    <3>1. T \in SUBSET (0 .. n) /\ T # {}
      BY <1>8
    <3> HIDE DEF T
    <3> QED
      BY <1>1, <3>1, GreatestElement
  <2>2. /\ m \in 1 .. n /\ m \in 0 .. n /\ m - 1 \in 0 .. n /\ r \in Of(q[m])
        /\ \A j \in m + 1 .. n : r \notin Of(q[j])
    <3>1. \A j \in m + 1 .. n : j \in 1 .. n /\ ~(m >= j)
      BY <1>1, <2>1
    <3> QED
      BY <1>1, <2>1, <3>1
  <2> HIDE DEF T
  <2> DEFINE e == log[since + m]
  <2>3. q[m] = e /\ since + m \in 1 .. Newest /\ EventOK(e)
    BY <1>1, <2>2
  <2>4. LastAbout(since + m, r)
    <3>1. ASSUME NEW j \in since + m + 1 .. Newest PROVE r \notin Of(log[j])
      <4>1. CASE j <= since + n
        <5>1. j - since \in m + 1 .. n /\ j - since \in 1 .. n /\ since + (j - since) = j
          BY <1>1, <1>2, <2>2, <4>1
        <5> QED
          BY <1>1, <2>2, <5>1
      <4>2. CASE ~(j <= since + n)
        <5>1. j \in since + n + 1 .. Newest
          BY <1>1, <1>2, <2>2, <4>2
        <5> QED
          BY <1>2, <5>1
      <4> QED
        BY <4>1, <4>2
    <3> QED
      BY <2>2, <2>3, <3>1 DEF LastAbout
  <2>5. IF e.rec = r
          THEN rec[r].life = "published" /\ rec[r].ver = e.ver /\ rec[r].row = e.row
          ELSE rec[r].life = "merged"
    BY <1>0, <1>2, <2>3, <2>4 DEF NewsOK
  <2>6. (r \in DOMAIN out <=> r \in DOMAIN F[m]) /\ (r \in DOMAIN out => out[r] = F[m][r])
    <3>1. n \in Nat /\ IsRun(F, copy, q, n) /\ \A i \in 1 .. n : EventOK(q[i])
      BY <1>1, <1>5
    <3>2. SameFor(r, F[n], F[m])
      BY <2>2, <3>1, RunSkips
    <3> QED
      BY <1>5, <3>2 DEF SameFor
  <2> DEFINE before == F[m - 1]
  <2>7. before \in Copies /\ F[m] = Apply(before, e)
    BY <1>5, <2>2, <2>3 DEF IsRun
  <2> HIDE DEF e, before
  <2>8. CASE e.rec # r
    <3>1. r \in e.gone
      BY <2>2, <2>3, <2>8 DEF Of
    <3>2. r \notin DOMAIN Apply(before, e)
      BY <2>3, <2>7, <2>8, <3>1, AppliedAway
    <3> QED
      BY <2>5, <2>6, <2>7, <2>8, <3>2 DEF Current
  <2>9. CASE e.rec = r
    <3>1. r \in DOMAIN out
      <4>1. e.rec \in DOMAIN Apply(before, e)
        BY <2>3, <2>7, AppliedTo
      <4> QED
        BY <2>6, <2>7, <2>9, <4>1
    <3>2. F[m] \in Copies /\ r \in DOMAIN F[m] /\ out[r] = F[m][r]
      BY <1>6, <2>2, <2>6, <3>1
    <3>3. out[r] \in [ver : Nat, row : Row]
      BY <3>2, CopyOf
    <3>4. out[r].ver >= e.ver
      <4>1. Apply(before, e)[e.rec].ver >= e.ver
        BY <2>3, <2>7, AppliedRises
      <4> QED
        BY <2>7, <2>9, <3>2, <4>1
    <3>5. out[r].ver <= rec[r].ver /\ (out[r].ver = rec[r].ver => out[r].row = rec[r].row)
      BY <1>3, <3>1 DEF Faithful
    <3>6. out[r].ver \in Nat /\ e.ver \in Nat /\ rec[r].ver = e.ver /\ rec[r].life = "published"
      BY <2>3, <2>5, <2>9, <3>3 DEF EventOK
    <3>7. out[r].ver = rec[r].ver /\ out[r].row = rec[r].row
      BY <3>4, <3>5, <3>6
    <3>8. out[r] = Copy(r)
      BY <3>3, <3>7 DEF Copy
    <3> QED
      BY <3>1, <3>6, <3>8 DEF Current
  <2> QED
    BY <2>8, <2>9
<1> QED
  BY <1>7, <1>8

(* Steps of the data.  An undo puts its record in front of the pages.      *)
LEMMA PublishedStays ==
  ASSUME StateOK, IsFiniteSet(Published), [FeedNext]_allVars
  PROVE  IsFiniteSet(Published')
<1>1. ASSUME NEW r \in Records, Published' \subseteq Published \cup {r} PROVE IsFiniteSet(Published')
  <2>1. IsFiniteSet(Published \cup {r})
    BY FS_AddElement
  <2> QED
    BY <1>1, <2>1, FS_Subset
<1>2. ASSUME NEW e, Tells(e) PROVE IsFiniteSet(Published')
  <2>1. /\ e.rec \in Records
        /\ \A r \in Records \ Of(e) : rec'[r] = rec[r]
        /\ \A r \in Of(e) : rec'[r].life = IF r = e.rec THEN "published" ELSE "merged"
    BY <1>2 DEF Tells, Of
  <2>2. Published' \subseteq Published \cup {e.rec}
    BY <2>1 DEF Published
  <2> QED
    BY <1>1, <2>1, <2>2
<1>3. ASSUME NEW v \in Records, Undo(v) PROVE IsFiniteSet(Published')
  <2>1. \A r \in Records \ {v} : rec'[r] = rec[r]
    BY <1>3, Undone DEF StateOK, DataOK
  <2>2. Published' \subseteq Published \cup {v}
    BY <2>1 DEF Published
  <2> QED
    BY <1>1, <2>2
<1>4. CASE UNCHANGED <<rec, log, told>>
  BY <1>4 DEF Published
<1> QED
  BY <1>2, <1>3, <1>4, StepKinds

LEMMA UndoKnows ==
  ASSUME NewsInv, FollowOK, NEW v \in Records, Undo(v), UNCHANGED con, [FeedNext]_allVars
  PROVE  FollowOK'
<1>0. StateOK
  BY DEF NewsInv, FeedInv
<1>1. /\ \A r \in Records \ {v} : rec'[r] = rec[r] /\ told'[r] = told[r]
      /\ ~told'[v] /\ UNCHANGED log /\ rec'[v].life = "published" /\ rec[v].life = "merged"
  <2>1. ShapeOK
    BY <1>0 DEF StateOK, DataOK
  <2>2. /\ rec'[v] = [life |-> "published", ver |-> rec[v].ver + 1, time |-> clock + 1, row |-> rec[v].row]
        /\ \A r \in Records \ {v} : rec'[r] = rec[r] /\ told'[r] = told[r]
        /\ ~told'[v] /\ UNCHANGED log /\ rec[v].life = "merged"
    BY <2>1, Undone
  <2> QED
    BY <2>2
<1>2. Newest' = Newest
  BY <1>1 DEF Newest
<1>3. IsFiniteSet(Published) /\ IsFiniteSet(Published')
  BY <1>0, PublishedStays DEF FollowOK
<1>4. Published' = Published \cup {v}
  BY <1>1 DEF Published
<1>5. ASSUME NEW r \in Published', r # v
      PROVE  r \in Published /\ Rank(r)' \in Nat /\ Rank(r) \in Nat /\ Rank(r) <= Rank(r)'
  <2> DEFINE Ahead == {q \in Published : Before(q, r)}
             After == {q \in Published' : Before(q, r)'}
  <2>1. r \in Published
    BY <1>4, <1>5
  <2>2. \A q \in Published : Before(q, r)' <=> Before(q, r)
    BY <1>1, <1>5, <2>1 DEF Before, Published
  <2>3. Ahead \in SUBSET After
    BY <1>4, <2>2
  <2>4. IsFiniteSet(After) /\ IsFiniteSet(Ahead)
    <3>1. After \in SUBSET (Published') /\ Ahead \in SUBSET Published
      OBVIOUS
    <3> QED
      BY <1>3, <3>1, FS_Subset
  <2>5. Cardinality(Ahead) <= Cardinality(After) /\ Cardinality(Ahead) \in Nat /\ Cardinality(After) \in Nat
    <3> HIDE DEF Ahead, After
    <3> QED
      BY <2>3, <2>4, FS_Subset, FS_CardinalityType
  <2> QED
    BY <2>1, <2>5 DEF Rank
<1>6. ASSUME NEW r \in Records, told'[r]
      PROVE  /\ r # v /\ told[r] /\ rec'[r] = rec[r] /\ Copy(r)' = Copy(r)
             /\ r \in Published' <=> r \in Published
  BY <1>1, <1>4, <1>6 DEF Copy
<1>7. ASSUME NEW p \in Consumers PROVE PlaceOK(p)'
  BY <1>2 DEF FollowOK, PlaceOK
<1>8. ASSUME NEW p \in Consumers PROVE PagesOK(p)'
  <2> SUFFICES ASSUME con[p].at = "list", con[p].page > 1, con[p].from = Newest, NEW r \in Records, told'[r]
               PROVE  /\ r \in DOMAIN con[p].copy => r \in Published' /\ con[p].copy[r] = Copy(r)'
                      /\ r \in Published' /\ Rank(r)' < (con[p].page - 1) * PageSize
                         => r \in DOMAIN con[p].copy
    BY <1>2 DEF PagesOK
  <2>1. /\ r \in DOMAIN con[p].copy => r \in Published /\ con[p].copy[r] = Copy(r)
        /\ r \in Published /\ Rank(r) < (con[p].page - 1) * PageSize => r \in DOMAIN con[p].copy
    BY <1>6 DEF FollowOK, PagesOK
  <2>2. (con[p].page - 1) * PageSize \in Nat
    BY PageEnds DEF FollowOK, PlaceOK
  <2>3. r \in Published' /\ Rank(r)' < (con[p].page - 1) * PageSize
        => r \in Published /\ Rank(r) < (con[p].page - 1) * PageSize
    <3> DEFINE m == (con[p].page - 1) * PageSize
    <3> HIDE DEF m
    <3>1. m \in Nat
      BY <2>2 DEF m
    <3>2. r \in Published' /\ Rank(r)' < m => r \in Published /\ Rank(r) < m
      BY <1>5, <1>6, <3>1
    <3> QED
      BY <3>2 DEF m
  <2> QED
    BY <1>6, <2>1, <2>3
<1>9. ASSUME NEW p \in Consumers PROVE SnapshotOK(p)'
  BY <1>2, <1>6 DEF FollowOK, SnapshotOK, Current
<1>10. ASSUME NEW p \in Consumers PROVE KnowsOK(p)'
  <2> SUFFICES ASSUME con[p].at = "follow", NEW r \in Records, Quiet(con[p].since, r)', Heard(con[p], r)'
               PROVE  Current(con[p].copy, r)'
    BY DEF KnowsOK
  <2>1. told'[r] /\ Quiet(con[p].since, r) /\ Heard(con[p], r)
    BY <1>1, <1>2, <1>6 DEF Quiet, Heard
  <2>2. Current(con[p].copy, r)
    BY <2>1 DEF FollowOK, KnowsOK
  <2> QED
    BY <1>6, <2>1, <2>2 DEF Current
<1> QED
  BY <1>3, <1>7, <1>8, <1>9, <1>10 DEF FollowOK

(* An event ends what a consumer that still loads its snapshot knows.      *)
LEMMA TellKnows ==
  ASSUME NewsInv, FollowOK, NEW e, Tells(e), UNCHANGED con, [FeedNext]_allVars
  PROVE  FollowOK'
<1>0. /\ StateOK /\ IsLog(log) /\ Newest \in Nat
      /\ \A p \in Consumers : con[p].since \in Nat /\ con[p].since <= Newest
  BY LogLength DEF NewsInv, FeedInv, OffsetOK, ConsOK
<1>1. /\ Newest' = Newest + 1 /\ log'[Newest + 1] = e
      /\ \A i \in 1 .. Newest : log'[i] = log[i]
      /\ \A r \in Records \ Of(e) : rec'[r] = rec[r] /\ told'[r] = told[r]
  BY <1>0, LogAppend DEF Newest, Tells
<1>2. IsFiniteSet(Published')
  BY <1>0, PublishedStays DEF FollowOK
<1>3. ASSUME NEW p \in Consumers PROVE PlaceOK(p)'
  <2>1. PlaceOK(p)
    BY DEF FollowOK
  <2> QED
    BY <1>0, <1>1, <2>1 DEF PlaceOK, Everything
<1>4. ASSUME NEW p \in Consumers PROVE PagesOK(p)' /\ SnapshotOK(p)'
  <2>1. con[p].at # "follow" => con[p].from # Newest'
    BY <1>0, <1>1 DEF FollowOK, PlaceOK, Everything
  <2> QED
    BY <2>1 DEF PagesOK, SnapshotOK
<1>5. ASSUME NEW p \in Consumers PROVE KnowsOK(p)'
  <2> SUFFICES ASSUME con[p].at = "follow", NEW r \in Records, Quiet(con[p].since, r)', Heard(con[p], r)'
               PROVE  Current(con[p].copy, r)'
    BY DEF KnowsOK
  <2>1. told'[r] /\ \A j \in con[p].since + 1 .. Newest' : r \notin Of(log'[j])
    BY DEF Quiet
  <2>2. /\ Newest + 1 \in con[p].since + 1 .. Newest'
        /\ \A j \in con[p].since + 1 .. Newest : j \in 1 .. Newest /\ j \in con[p].since + 1 .. Newest'
    BY <1>0, <1>1
  <2>3. r \notin Of(e)
    BY <1>1, <2>1, <2>2
  <2>4. Quiet(con[p].since, r) /\ rec'[r] = rec[r]
    <3>1. \A j \in con[p].since + 1 .. Newest : r \notin Of(log[j])
      BY <1>1, <2>1, <2>2
    <3>2. told[r] /\ rec'[r] = rec[r]
      BY <1>1, <2>1, <2>3
    <3> QED
      BY <3>1, <3>2 DEF Quiet
  <2>5. Heard(con[p], r)
    <3>1. con[p].from \in Nat \cup {Everything}
      BY DEF FollowOK, PlaceOK
    <3>2. CASE con[p].from = Everything
      BY <3>2 DEF Heard
    <3>3. CASE con[p].from \in Nat /\ con[p].from # Everything
      <4>1. PICK i \in con[p].from + 1 .. con[p].since : r \in Of(log'[i])
        BY <3>3 DEF Heard
      <4>2. i \in 1 .. Newest
        BY <1>0, <3>3, <4>1
      <4> QED
        BY <1>1, <4>1, <4>2 DEF Heard
    <3> QED
      BY <3>1, <3>2, <3>3
  <2>6. Current(con[p].copy, r)
    BY <2>4, <2>5 DEF FollowOK, KnowsOK
  <2> QED
    BY <2>4, <2>6 DEF Current, Copy
<1> QED
  BY <1>2, <1>3, <1>4, <1>5 DEF FollowOK

(* The steps of one consumer.                                              *)
LEMMA MoveKnows ==
  ASSUME NewsInv, FollowOK, NEW p \in Consumers, UNCHANGED vars, OthersStay(p),
         PlaceOK(p)', PagesOK(p)', SnapshotOK(p)', KnowsOK(p)'
  PROVE  FollowOK'
<1>1. IsFiniteSet(Published')
  BY DEF FollowOK, Published, vars
<1>2. ASSUME NEW q \in Consumers \ {p} PROVE PlaceOK(q)' /\ PagesOK(q)' /\ SnapshotOK(q)' /\ KnowsOK(q)'
  <2>1. con'[q] = con[q]
    BY DEF OthersStay
  <2>2. PlaceOK(q) /\ PagesOK(q) /\ SnapshotOK(q) /\ KnowsOK(q)
    BY DEF FollowOK
  <2>3. /\ Newest' = Newest /\ Published' = Published
        /\ \A r : Rank(r)' = Rank(r) /\ Copy(r)' = Copy(r)
    BY DEF vars, Newest, Published, Rank, Before, Copy
  <2>4. \A r \in Records : /\ Quiet(con[q].since, r)' <=> Quiet(con[q].since, r)
                           /\ Heard(con[q], r)' <=> Heard(con[q], r)
                           /\ Current(con[q].copy, r)' <=> Current(con[q].copy, r)
    BY <2>1 DEF Quiet, Heard, Current, Copy, Newest, vars
  <2>5. PlaceOK(q)'
    BY <2>1, <2>2, <2>3 DEF PlaceOK
  <2>6. PagesOK(q)'
    BY <2>1, <2>2, <2>3 DEF PagesOK, vars
  <2>7. SnapshotOK(q)'
    BY <2>1, <2>2, <2>3, <2>4 DEF SnapshotOK, vars
  <2>8. KnowsOK(q)'
    BY <2>1, <2>2, <2>4 DEF KnowsOK
  <2> QED
    BY <2>5, <2>6, <2>7, <2>8
<1> QED
  BY <1>1, <1>2 DEF FollowOK

(* What holds of a consumer's new state does so in the new state.          *)
LEMMA SameData ==
  ASSUME UNCHANGED vars, NEW p \in Consumers
  PROVE  /\ Newest' = Newest /\ Published' = Published /\ told' = told
         /\ \A r : Rank(r)' = Rank(r) /\ Copy(r)' = Copy(r)
         /\ \A r \in Records : /\ Quiet(con[p].since, r)' <=> Quiet(con'[p].since, r)
                               /\ Heard(con[p], r)' <=> Heard(con'[p], r)
                               /\ Current(con[p].copy, r)' <=> Current(con'[p].copy, r)
BY DEF Quiet, Heard, Current, Copy, Newest, Published, Rank, Before, vars

LEMMA FollowStep ==
  ASSUME NewsInv, FollowOK, [FeedNext]_allVars
  PROVE  FollowOK'
<1>0. OffsetOK /\ IsLog(log) /\ Newest \in Nat /\ \A p \in Consumers : con[p].since \in Nat /\ con[p].since <= Newest
  BY LogLength DEF NewsInv, FeedInv, OffsetOK, ConsOK
<1>1. CASE UNCHANGED con
  <2>1. CASE UNCHANGED <<rec, log, told>>
    <3>1. /\ Newest' = Newest /\ Published' = Published
          /\ \A r : Rank(r)' = Rank(r) /\ Copy(r)' = Copy(r)
      BY <2>1 DEF Newest, Published, Rank, Before, Copy
    <3>2. \A p \in Consumers, r \in Records :
            /\ Quiet(con[p].since, r)' <=> Quiet(con[p].since, r)
            /\ Heard(con[p], r)' <=> Heard(con[p], r)
            /\ Current(con[p].copy, r)' <=> Current(con[p].copy, r)
      BY <1>1, <2>1 DEF Quiet, Heard, Current, Copy, Newest
    <3>3. ASSUME NEW p \in Consumers PROVE PlaceOK(p)' /\ PagesOK(p)' /\ SnapshotOK(p)' /\ KnowsOK(p)'
      <4>1. con'[p] = con[p] /\ PlaceOK(p) /\ PagesOK(p) /\ SnapshotOK(p) /\ KnowsOK(p)
        BY <1>1 DEF FollowOK
      <4>2. PlaceOK(p)'
        BY <3>1, <4>1 DEF PlaceOK
      <4>3. PagesOK(p)'
        BY <2>1, <3>1, <4>1 DEF PagesOK
      <4>4. SnapshotOK(p)'
        BY <2>1, <3>1, <3>2, <4>1 DEF SnapshotOK
      <4>5. KnowsOK(p)'
        BY <3>2, <4>1 DEF KnowsOK
      <4> QED
        BY <4>2, <4>3, <4>4, <4>5
    <3> QED
      BY <3>1, <3>3 DEF FollowOK
  <2> QED
    BY <1>1, <2>1, StepKinds, UndoKnows, TellKnows DEF NewsInv, FeedInv
<1>2. ASSUME NEW p \in Consumers, SnapshotList(p) PROVE FollowOK'
  <2>1. OthersStay(p) /\ UNCHANGED vars
    BY <1>0, <1>2, ListSets
  <2>2. /\ con'[p].at \in {"list", "seq"}
        /\ con'[p].page \in Nat \ {0} /\ (con'[p].at = "list" => con'[p].page # 1)
        /\ con'[p].from \in Nat \cup {Everything} /\ con'[p].from <= Newest
        /\ con'[p].from = Newest =>
             \A r \in Records : told[r] =>
               /\ r \in DOMAIN con'[p].copy => r \in Published /\ con'[p].copy[r] = Copy(r)
               /\ r \in Published /\ (con'[p].at = "seq" \/ Rank(r) < (con'[p].page - 1) * PageSize)
                  => r \in DOMAIN con'[p].copy
    BY <1>2, ListKnows
  <2>3. PlaceOK(p)'
    BY <2>1, <2>2, SameData DEF PlaceOK
  <2>4. PagesOK(p)'
    BY <2>1, <2>2, SameData DEF PagesOK
  <2>5. SnapshotOK(p)'
    <3>1. ASSUME NEW r \in Records, con'[p].at = "seq", con'[p].from = Newest, told[r]
          PROVE  Current(con'[p].copy, r)
      BY <2>2, <3>1 DEF Current, Published
    <3> QED
      BY <2>1, <3>1, SameData DEF SnapshotOK
  <2>6. KnowsOK(p)'
    BY <2>2 DEF KnowsOK
  <2> QED
    BY <2>1, <2>3, <2>4, <2>5, <2>6, MoveKnows
<1>3. ASSUME NEW p \in Consumers, SnapshotSeq(p) PROVE FollowOK'
  <2>1. /\ con[p].at = "seq" /\ con'[p].at = "follow" /\ con'[p].since \in {Newest, 0}
        /\ con'[p].from = IF con[p].from = Newest THEN Everything ELSE con'[p].since
        /\ con'[p].copy = con[p].copy /\ con'[p].page = con[p].page
        /\ OthersStay(p) /\ UNCHANGED vars
    BY <1>0, <1>3, SeqSets
  <2>2. PlaceOK(p) /\ SnapshotOK(p)
    BY DEF FollowOK
  <2>3. PlaceOK(p)'
    BY <1>0, <2>1, <2>2 DEF PlaceOK
  <2>4. PagesOK(p)' /\ SnapshotOK(p)'
    BY <2>1 DEF PagesOK, SnapshotOK
  <2>5. ASSUME NEW r \in Records, Quiet(con'[p].since, r), Heard(con'[p], r)
        PROVE  Current(con'[p].copy, r)
    <3>1. CASE con[p].from = Newest
      BY <2>1, <2>2, <2>5, <3>1 DEF SnapshotOK, Quiet
    <3>2. CASE con[p].from # Newest
      <4>1. con'[p].from = con'[p].since /\ con'[p].since \in Nat
        BY <1>0, <2>1, <3>2
      <4>2. con'[p].from # Everything /\ con'[p].from + 1 .. con'[p].since = {}
        BY <4>1 DEF Everything
      <4> QED
        BY <2>5, <4>2 DEF Heard
    <3> QED
      BY <3>1, <3>2
  <2>6. KnowsOK(p)'
    BY <2>1, <2>5, SameData DEF KnowsOK
  <2> QED
    BY <2>1, <2>3, <2>4, <2>6, MoveKnows
<1>4. ASSUME NEW p \in Consumers, PullEvents(p) PROVE FollowOK'
  <2>1. /\ con'[p].at = "follow" /\ con'[p].page = con[p].page /\ con'[p].from = con[p].from
        /\ OthersStay(p) /\ UNCHANGED vars
    BY <1>0, <1>4, PullSets
  <2>2. PlaceOK(p)'
    BY <2>1 DEF FollowOK, PlaceOK
  <2>3. PagesOK(p)' /\ SnapshotOK(p)'
    BY <2>1 DEF PagesOK, SnapshotOK
  <2>4. \A r \in Records : Quiet(con'[p].since, r) /\ Heard(con'[p], r) => Current(con'[p].copy, r)
    BY <1>4, PullKnows
  <2>5. KnowsOK(p)'
    BY <2>1, <2>4, SameData DEF KnowsOK
  <2> QED
    BY <2>1, <2>2, <2>3, <2>5, MoveKnows
<1>5. ASSUME NEW p \in Consumers, Restart(p) PROVE FollowOK'
  <2>1. con[p].at = "follow" /\ OthersStay(p) /\ UNCHANGED vars
    BY <1>0, <1>5, RestartSets
  <2>2. CASE offset[p] = NoRow
    <3>1. con'[p] = NewConsumer
      BY <1>0, <1>5, <2>2, RestartSets
    <3>2. /\ con'[p].at = "list" /\ con'[p].page = 1 /\ con'[p].from = 0 /\ DOMAIN con'[p].copy = {}
      BY <3>1 DEF NewConsumer
    <3>3. PlaceOK(p)'
      BY <1>0, <2>1, <3>2, SameData DEF PlaceOK
    <3>4. PagesOK(p)' /\ SnapshotOK(p)' /\ KnowsOK(p)'
      BY <3>2 DEF PagesOK, SnapshotOK, KnowsOK
    <3> QED
      BY <2>1, <3>3, <3>4, MoveKnows
  <2>3. CASE offset[p] # NoRow
    <3>1. /\ con'[p].at = "follow" /\ con'[p].page = con[p].page
          /\ con'[p].copy = con[p].copy /\ con'[p].since = offset[p]
          /\ con'[p].from = IF offset[p] > con[p].since THEN offset[p] ELSE con[p].from
      BY <1>0, <1>5, <2>3, RestartSets
    <3>2. offset[p] \in Nat /\ con[p].since \in Nat /\ con[p].from \in Nat \cup {Everything}
      BY <1>0, <2>3 DEF OffsetOK, FollowOK, PlaceOK
    <3>3. PlaceOK(p)'
      BY <3>1, <3>2 DEF FollowOK, PlaceOK
    <3>4. PagesOK(p)' /\ SnapshotOK(p)'
      BY <3>1 DEF PagesOK, SnapshotOK
    <3>5. ASSUME NEW r \in Records, Quiet(con'[p].since, r), Heard(con'[p], r) PROVE Current(con'[p].copy, r)
      <4>1. CASE offset[p] > con[p].since
        <5>1. con'[p].from # Everything /\ con'[p].from + 1 .. con'[p].since = {}
          BY <3>1, <3>2, <4>1 DEF Everything
        <5> QED
          BY <3>5, <5>1 DEF Heard
      <4>2. CASE ~(offset[p] > con[p].since)
        <5>1. offset[p] <= con[p].since /\ con'[p].from = con[p].from
          BY <3>1, <3>2, <4>2
        <5>2. Quiet(con[p].since, r)
          BY <1>0, <3>1, <3>2, <3>5, <5>1 DEF Quiet
        <5>3. Heard(con[p], r)
          <6>1. con[p].from # Everything => con[p].from + 1 .. offset[p] \subseteq con[p].from + 1 .. con[p].since
            BY <3>2, <5>1
          <6> QED
            BY <3>1, <3>5, <5>1, <6>1 DEF Heard
        <5> QED
          BY <2>1, <3>1, <5>2, <5>3 DEF FollowOK, KnowsOK
      <4> QED
        BY <4>1, <4>2
    <3>6. KnowsOK(p)'
      BY <2>1, <3>5, SameData DEF KnowsOK
    <3> QED
      BY <2>1, <3>3, <3>4, <3>6, MoveKnows
  <2> QED
    BY <2>2, <2>3
<1> QED
  BY <1>1, <1>2, <1>3, <1>4, <1>5, FeedSteps DEF feedVars

(* A consumer that has caught up holds the records as they are: all of     *)
(* them if no event was written while it loaded its snapshot, and those of *)
(* which it was told since in any case; whatever the pages, the answers    *)
(* and the restarts are.                                                   *)
THEOREM FollowersCatchUp == FeedSpec => []FollowerCatchesUp
<1>1. FeedInit => FollowOK
  <2> SUFFICES ASSUME FeedInit PROVE FollowOK
    OBVIOUS
  <2>1. Published \subseteq Imported
    BY DEF FeedInit, Init, Published
  <2>2. IsFiniteSet(Published)
    BY <2>1, FS_Subset, MasterDataAssumption DEF MasterDataAssumption
  <2>3. Newest = 0
    BY DEF FeedInit, Init, Newest
  <2>4. \A p \in Consumers : con[p].at = "list" /\ con[p].page = 1 /\ con[p].from = 0 /\ DOMAIN con[p].copy = {}
    BY DEF FeedInit, NewConsumer
  <2> QED
    BY <2>2, <2>3, <2>4 DEF FollowOK, PlaceOK, PagesOK, SnapshotOK, KnowsOK
<1>2. NewsInv /\ FollowOK /\ [FeedNext]_allVars => FollowOK'
  BY FollowStep
<1>3. NewsInv /\ FollowOK => FollowerCatchesUp
  <2> SUFFICES ASSUME NewsInv, FollowOK, NEW p \in Consumers, con[p].at = "follow", con[p].since = Newest,
                      NEW r \in Records, told[r],
                      con[p].from = Everything \/ \E i \in con[p].from + 1 .. Newest : About(r, i)
               PROVE  Current(con[p].copy, r)
    BY DEF FollowerCatchesUp
  <2>1. Newest \in Nat
    BY LogLength DEF NewsInv, FeedInv, OffsetOK
  <2>2. Quiet(con[p].since, r) /\ Heard(con[p], r)
    BY <2>1 DEF Quiet, Heard, About, Of
  <2> QED
    BY <2>2 DEF FollowOK, KnowsOK
<1> QED
  BY <1>1, <1>2, <1>3, FaithInvariant, PTL DEF FeedSpec
=============================================================================
