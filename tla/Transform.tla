------------------------------ MODULE Transform ------------------------------
(***************************************************************************)
(* What a subscription gets of an event: the pure functions of             *)
(* distribution/transform.rs.  A text is a sequence of characters, a row a *)
(* function from column names to texts or Null.  Deliveries, their order   *)
(* and their failures are the subject of Dispatch.                         *)
(***************************************************************************)
EXTENDS Integers, SequencesExt

CONSTANTS
  Null,    (* JSON null, also for a column that is missing                 *)
  Masked   (* the text that stands for a masked value                      *)

ASSUME TransformAssumption == Null # Masked

-----------------------------------------------------------------------------
(* The filter: conditions [field, op, value] that must all hold.           *)

Value(row, c) == IF c \in DOMAIN row THEN row[c] ELSE Null

Occurs(w, g) == \E i \in 0 .. Len(g) - Len(w) : SubSeq(g, i + 1, i + Len(w)) = w

(* A pattern is its text and whether a % comes before it.  One at its end  *)
(* makes no difference: a text without a leading % is a prefix, with one   *)
(* it may occur anywhere.                                                  *)
Like(g, pattern) ==
  /\ g # Null
  /\ IF pattern.open THEN Occurs(pattern.text, g) ELSE IsPrefix(pattern.text, g)

EvalCondition(c, row) ==
  LET g == Value(row, c.field) IN
  CASE c.op = "eq"   -> g = c.value
    [] c.op = "ne"   -> g # c.value
    [] c.op = "in"   -> g \in c.value
    [] c.op = "like" -> Like(g, c.value)
    [] OTHER         -> FALSE

EvalFilter(filter, row) == \A i \in DOMAIN filter : EvalCondition(filter[i], row)

(* An event without a snapshot is not filtered.                            *)
EventMatchesSub(event, sub) ==
  /\ sub.types = {} \/ {event.type, "*"} \cap sub.types # {}
  /\ event.row = Null \/ EvalFilter(sub.filter, event.row)

-----------------------------------------------------------------------------
(* The field map: include, then rename, then mask.                         *)

Include(row, names) ==
  IF names = {} THEN row ELSE [c \in DOMAIN row \cap names |-> row[c]]

(* Renamed one by one, in the order of the old names; a new name replaces  *)
(* a column of that name.                                                  *)
Rename(row, pairs) ==
  LET Step(out, pair) ==
        IF pair[1] \notin DOMAIN out THEN out
        ELSE [c \in (DOMAIN out \ {pair[1]}) \cup {pair[2]} |->
                IF c = pair[2] THEN out[pair[1]] ELSE out[c]]
  IN FoldLeft(Step, row, pairs)

Mask(row, names) == [c \in DOMAIN row |-> IF c \in names THEN Masked ELSE row[c]]

(* Mutant: masked before the columns have their new names.                 *)
ApplyFieldMapEarly(row, map) == Rename(Mask(Include(row, map.include), map.mask), map.rename)

ApplyFieldMap(row, map) == Mask(Rename(Include(row, map.include), map.rename), map.mask)
=============================================================================
