------------------------------ MODULE MasterData ------------------------------
(***************************************************************************)
(* The published records of one dictionary, and the log of events that     *)
(* tells others about them.                                                *)
(*                                                                         *)
(* Records are created and updated by activated change requests (CRs), and *)
(* merged and restored by stewards.  A CR carries the form as its user     *)
(* left it (payload) and the fields that the user changed (deltas); other  *)
(* CRs and merges may commit between the filling of the form and the       *)
(* activation.  The activator and the merge write the record and its       *)
(* event, with the record's new row, in one transaction.                   *)
(*                                                                         *)
(* A transaction is a step that reads and a step that writes and commits,  *)
(* since the first statement that writes takes the record's row lock.      *)
(* Approval, the lines of a record, merge records and the statements of a  *)
(* merge are the subjects of ChangeRequest and Stewardship; that sequence  *)
(* numbers may become visible out of order is that of Dispatch.            *)
(***************************************************************************)
EXTENDS Transform, FiniteSets

CONSTANTS
  Records,     (* ids                                                      *)
  Imported,    (* the records there are at first                           *)
  FirstRow,    (* their rows                                               *)
  Columns,     (* business columns                                         *)
  Texts,       (* what they may hold, beside Null                          *)
  Mapping,     (* header_mapping: <<source, column>> pairs, by source      *)
  NameColumn,  (* subject_name_field: the column of the CR's subject_name  *)
  Crs,         (* change requests                                          *)
  NewForms,    (* forms a user may fill in for a new record                *)
  Changes,     (* changes a user may make to the form of a record          *)
  Rules,       (* survivorship rule of each column that survives           *)
  Overrides,   (* what a steward may decide by hand at a merge             *)
  Victims,     (* sets of victims that a merge may name                    *)
  MaxMerges,   (* bound: merges                                            *)
  MaxUndos     (* bound: undone merges                                     *)

Sources == {Mapping[i][1] : i \in DOMAIN Mapping} \cup {"subject_name"}
Row     == [Columns -> Texts \cup {Null}]

ASSUME MasterDataAssumption ==
  /\ Records \subseteq Nat \ {0}
  /\ IsFiniteSet(Imported) /\ Imported \subseteq Records /\ Imported = 1 .. Cardinality(Imported)
  /\ FirstRow \in [Imported -> Row]
  /\ NameColumn \in Columns
  /\ Mapping \in Seq(STRING \X Columns)
  /\ Null \notin Texts
  /\ \A f \in NewForms \cup Changes :
       DOMAIN f \subseteq Sources /\ \A s \in DOMAIN f : f[s] \in Texts \cup {Null, <<>>}
  /\ DOMAIN Rules \subseteq Columns
  /\ \A c \in DOMAIN Rules : Rules[c] \in {"master", "fullest", "latest"}
  /\ \A o \in Overrides :
       DOMAIN o \subseteq DOMAIN Rules /\ \A c \in DOMAIN o : o[c] \in Texts \cup {Null}
  /\ Victims \subseteq (SUBSET Records) \ {{}} /\ \A victims \in Victims : IsFiniteSet(victims)
  /\ MaxMerges \in Nat /\ MaxUndos \in Nat

VARIABLES
  rec,    (* the records of the dictionary's table                         *)
  clock,  (* the time, counted in changes that set update_time             *)
  cr,     (* the change requests                                           *)
  merge,  (* the merge in progress, with the rows it has read              *)
  log,    (* md_event_log: the events, their places their numbers          *)
  told,   (* history: did the last change of a record write an event?      *)
  used    (* merges and undos so far                                       *)

vars == <<rec, clock, cr, merge, log, told, used>>

-----------------------------------------------------------------------------
Lives == {"absent", "published", "merged"}

NoMerge == [master |-> 0, victims |-> {}, ver |-> 0, seen |-> <<>>]
NoCr    == [st |-> "none", target |-> 0, ver |-> 0, payload |-> <<>>, deltas |-> <<>>]
Blank   == [c \in Columns |-> Null]

Init ==
  /\ rec = [r \in Records |->
              IF r \in Imported
                THEN [life |-> "published", ver |-> 1, time |-> r, row |-> FirstRow[r]]
                ELSE [life |-> "absent", ver |-> 0, time |-> 0, row |-> Blank]]
  /\ clock = Cardinality(Imported)
  /\ cr = [c \in Crs |-> NoCr]
  /\ merge = NoMerge
  /\ log = <<>>
  /\ told = [r \in Records |-> TRUE]
  /\ used = [merges |-> 0, undos |-> 0]

Published == {r \in Records : rec[r].life = "published"}

(* write_event, with the row as the transaction sees it (select_row_json). *)
Event(type, r, ver, row, gone) ==
  [type |-> type, rec |-> r, ver |-> ver, row |-> row, gone |-> gone]

-----------------------------------------------------------------------------
(* From forms to rows.                                                     *)

Filled(v) == v \notin {Null, <<>>}

(* The columns that the given sources write; of several sources of one     *)
(* column the last one counts, and subject_name comes last.                *)
Pairs == Append(Mapping, <<"subject_name", NameColumn>>)

Carry(given) ==
  LET To(c) == {i \in DOMAIN Pairs : Pairs[i][1] \in DOMAIN given /\ Pairs[i][2] = c}
      LastTo(c) == CHOOSE i \in To(c) : \A j \in To(c) : j <= i
  IN [c \in {d \in Columns : To(d) # {}} |-> given[Pairs[LastTo(c)][1]]]

Only(form, S) == [s \in DOMAIN form \cap S |-> form[s]]

(* A new row: sources that are not filled leave a column to its default.   *)
PlanCreate(c) == Carry(Only(c.payload, {s \in DOMAIN c.payload : Filled(c.payload[s])}))

(* An update writes what was changed: an emptied text counts as unchanged, *)
(* null clears the column.                                                 *)
(* Mutant: it writes the form.                                             *)
PlanUpdateForm(c) == PlanCreate(c)
PlanUpdate(c) == Carry(Only(c.deltas, {s \in DOMAIN c.deltas : c.deltas[s] # <<>>}))

Written(row, plan) == [c \in Columns |-> IF c \in DOMAIN plan THEN plan[c] ELSE row[c]]

-----------------------------------------------------------------------------
(* Change requests.                                                        *)

(* A user fills a form: a new one, or that of a record, as it is then.     *)
FormOf(r) ==
  [s \in Sources |->
     IF s = "subject_name" THEN rec[r].row[NameColumn]
     ELSE rec[r].row[Mapping[CHOOSE i \in DOMAIN Mapping : Mapping[i][1] = s][2]]]

Fill(c) ==
  /\ cr[c] = NoCr
  /\ \/ \E f \in NewForms :
          cr' = [cr EXCEPT ![c] = [NoCr EXCEPT !.st = "approved", !.payload = f]]
     \/ \E r \in Published, d \in Changes :
          cr' = [cr EXCEPT ![c] =
                   [NoCr EXCEPT !.st = "approved", !.target = r, !.deltas = d,
                                !.payload = [s \in Sources |->
                                               IF s \in DOMAIN d THEN d[s] ELSE FormOf(r)[s]]]]
  /\ UNCHANGED <<rec, clock, merge, log, told, used>>

(* activate: of an update, the record's version is read first.             *)
ActivateRead(c) ==
  /\ cr[c].st = "approved" /\ cr[c].target # 0
  /\ cr' = [cr EXCEPT ![c].st = "activating", ![c].ver = rec[cr[c].target].ver]
  /\ UNCHANGED <<rec, clock, merge, log, told, used>>

NewId == CHOOSE r \in Records : rec[r].life = "absent"

ActivateCreate(c) ==
  LET r == NewId  row == Written(Blank, PlanCreate(cr[c])) IN
  /\ cr[c].st = "approved" /\ cr[c].target = 0
  /\ \E q \in Records : rec[q].life = "absent"
  /\ rec' = [rec EXCEPT ![r] = [life |-> "published", ver |-> 1, time |-> clock + 1, row |-> row]]
  /\ clock' = clock + 1
  /\ log' = Append(log, Event("created", r, 1, row, {}))
  /\ cr' = [cr EXCEPT ![c].st = "activated"]
  /\ UNCHANGED <<merge, told, used>>

(* update_header: a compare-and-set of a published record's version.       *)
(* Mutant: by id alone.                                                    *)
UpdatableAnyVersion(r, ver) == rec[r].life = "published"
Updatable(r, ver) == rec[r].life = "published" /\ rec[r].ver = ver

(* A merge locks its master (FOR UPDATE).                                  *)
(* Mutant: it does not.                                                    *)
LockedNever(r) == FALSE
Locked(r) == merge.master = r

(* update_time stays.                                                      *)
ActivateUpdate(c) ==
  LET r == cr[c].target
      row == Written(rec[r].row, PlanUpdate(cr[c]))
      ver == cr[c].ver + 1 IN
  /\ cr[c].st = "activating"
  /\ ~Locked(r)
  /\ \/ /\ Updatable(r, cr[c].ver)
        /\ rec' = [rec EXCEPT ![r].row = row, ![r].ver = ver]
        /\ log' = Append(log, Event("updated", r, ver, row, {}))
        /\ told' = [told EXCEPT ![r] = TRUE]
        /\ cr' = [cr EXCEPT ![c].st = "activated"]
     \/ /\ ~Updatable(r, cr[c].ver)
        /\ cr' = [cr EXCEPT ![c].st = "approved"]
        /\ UNCHANGED <<rec, log, told>>
  /\ UNCHANGED <<clock, merge, used>>

-----------------------------------------------------------------------------
(* Merges.                                                                 *)

(* pick: the value of one column, of a master and a victim.                *)
Pick(rule, m, v, mtime, vtime) ==
  IF rule = "latest" THEN IF vtime > mtime THEN v ELSE m
  ELSE IF Filled(m) \/ ~Filled(v) THEN m ELSE v

(* survive, victim by victim: the columns so far, and the time that the    *)
(* master had at first.                                                    *)
Survivors(seen, m, order) ==
  LET Step(row, v) ==
        [c \in Columns |->
           IF c \in DOMAIN Rules
             THEN Pick(Rules[c], row[c], seen[v].row[c], seen[m].time, seen[v].time)
             ELSE row[c]]
  IN FoldLeft(Step, seen[m].row, order)

(* The master is locked, the victims are not: they are read.               *)
MergeRead(m, victims) ==
  /\ merge = NoMerge /\ used.merges < MaxMerges
  /\ m \notin victims              \* such a merge fails at its master's version
  /\ LET members == {m} \cup victims IN
     /\ members \subseteq Published
     /\ merge' = [master |-> m, victims |-> victims, ver |-> rec[m].ver,
                  seen |-> [r \in members |-> rec[r]]]
  /\ used' = [used EXCEPT !.merges = @ + 1]
  /\ UNCHANGED <<rec, clock, cr, log, told>>

(* The victims come in the order in which the database returned them.      *)
MergeWrite(override) ==
  LET m == merge.master IN
  /\ merge # NoMerge
  /\ merge.victims \subseteq Published
  /\ Updatable(m, merge.ver)
  /\ \E order \in SetToSeqs(merge.victims) :
       LET row == Written(Survivors(merge.seen, m, order), override) IN
       /\ rec' = [r \in Records |->
                    IF r = m THEN [rec[m] EXCEPT !.row = row, !.ver = @ + 1]
                    ELSE IF r \in merge.victims
                      THEN [rec[r] EXCEPT !.life = "merged", !.ver = @ + 1, !.time = clock + 1]
                    ELSE rec[r]]
       /\ log' = Append(log, Event("merged", m, merge.ver + 1, row, merge.victims))
  /\ clock' = clock + 1
  /\ told' = [r \in Records |-> told[r] \/ r = m \/ r \in merge.victims]
  /\ merge' = NoMerge
  /\ UNCHANGED <<cr, used>>

(* The transaction ends without effect.                                    *)
MergeFails ==
  /\ merge # NoMerge
  /\ merge' = NoMerge
  /\ UNCHANGED <<rec, clock, cr, log, told, used>>

(* unmerge publishes the victim again; it writes no event.                 *)
Undo(v) ==
  /\ used.undos < MaxUndos
  /\ rec[v].life = "merged"
  /\ rec' = [rec EXCEPT ![v].life = "published", ![v].ver = @ + 1, ![v].time = clock + 1]
  /\ clock' = clock + 1
  /\ told' = [told EXCEPT ![v] = FALSE]
  /\ used' = [used EXCEPT !.undos = @ + 1]
  /\ UNCHANGED <<cr, merge, log>>

-----------------------------------------------------------------------------
Next ==
  \/ \E c \in Crs : Fill(c) \/ ActivateRead(c) \/ ActivateCreate(c) \/ ActivateUpdate(c)
  \/ \E m \in Records, victims \in Victims : MergeRead(m, victims)
  \/ \E o \in Overrides : MergeWrite(o)
  \/ MergeFails
  \/ \E v \in Records : Undo(v)

Spec == Init /\ [][Next]_vars
=============================================================================
