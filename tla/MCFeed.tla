-------------------------------- MODULE MCFeed --------------------------------
(* Two records and a third one to be created, with a name, a kind and a    *)
(* note.  A form has the fields title and kind; the name also comes from   *)
(* the CR's subject_name.  Nobody asks to change a note: only merges do.   *)
EXTENDS Feed, TLC

CONSTANTS c1, c2

x == <<1>>
y == <<1, 2>>
z == <<2, 1>>

MCColumns == {"name", "kind", "note"}
MCTexts   == {x, y, z}
MCMapping == << <<"kind", "kind">>, <<"title", "name">> >>

MCFirstRow == << [name |-> x, kind |-> Null, note |-> Null],
                 [name |-> y, kind |-> y, note |-> z] >>

MCNewForms == {[title |-> z, kind |-> <<>>, subject_name |-> Null]}

(* The kind changed; the title emptied, the kind set to null, the name     *)
(* changed.                                                                *)
MCChanges == {[kind |-> x],
              [title |-> <<>>, kind |-> Null, subject_name |-> z]}

(* The newest name, the kind that the steward chose, the note there is.    *)
MCRules     == [name |-> "latest", kind |-> "master", note |-> "fullest"]
MCOverrides == {[kind |-> x]}
MCVictims   == {{3}, {2, 3}}

(* One subscriber is sent everything; the other one what has a name with a *)
(* 2 in it and a kind that begins with x, the kind renamed and masked.     *)
MCSubs ==
  {[types |-> {}, filter |-> <<>>, map |-> [include |-> {}, rename |-> <<>>, mask |-> {}]],
   [types |-> {"*"},
    filter |-> << [field |-> "name", op |-> "like", value |-> [open |-> TRUE, text |-> <<2>>]],
                  [field |-> "kind", op |-> "like", value |-> [open |-> FALSE, text |-> x]] >>,
    map |-> [include |-> {"name", "kind"}, rename |-> << <<"kind", "class">> >>, mask |-> {"class"}]]}

CrSymmetry == Permutations({c1, c2})
=============================================================================
