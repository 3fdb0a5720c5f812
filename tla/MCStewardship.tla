---------------------------- MODULE MCStewardship ----------------------------
(* Three records: the first has two lines, the second one with the key of  *)
(* the first one's, and one line more may be added by an update.           *)
EXTENDS Stewardship, TLC

CONSTANTS r1, r2, r3, l1, l2, l3, l4

MCOwner == (l1 :> r1) @@ (l2 :> r1) @@ (l3 :> r2) @@ (l4 :> r3)
MCKey   == (l1 :> 1) @@ (l2 :> 2) @@ (l3 :> 1) @@ (l4 :> 2)

(* One victim, or two; a list may hold its own master.                     *)
Single == {<<r1>>, <<r2>>, <<r3>>}
Pairs  == Single \cup {<<r1, r2>>}

(* The requests are interchangeable.                                       *)
Symmetry == Permutations(Reqs)
=============================================================================
