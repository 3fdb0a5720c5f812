----------------------------- MODULE MCMatchScan -----------------------------
(* Three cluster keys: the search loads the first one to display it, the   *)
(* scan loads the second one because it survives, both compare the third.  *)
(* Rows a and b are duplicates by the second key, c and d by the third,    *)
(* with the least score there is; e is in the block of a and unlike it; a  *)
(* and c share the third key, and are in different blocks; a and f are     *)
(* duplicates for the search alone.                                        *)
EXTENDS MatchScan, TLC

Row(reg, code, tax, name) == [reg |-> reg, code |-> code, tax |-> tax, name |-> name]
a == Row(<<1>>, <<1>>, <<1>>, <<1, 2, 1>>)
b == Row(<<>>, <<1>>, <<1>>, <<2, 1>>)
c == Row(<<>>, <<>>, <<1>>, <<1, 2>>)
d == Row(<<>>, <<>>, <<1>>, <<1, 2, 2>>)
e == Row(<<>>, <<1>>, <<>>, <<2, 2, 2>>)
f == Row(<<1>>, <<2>>, <<1>>, <<1, 2, 1>>)

MCRows  == {a, b, c, d, e, f}
MCKeys  == <<"reg", "code", "tax">>
MCSpecs == {[field |-> "tax",  weight |-> 60, exact |-> TRUE],
            [field |-> "name", weight |-> 40, exact |-> FALSE]}

(* All texts of at most three characters of two.                           *)
MCTexts == UNION {[1 .. n -> {1, 2}] : n \in 0 .. 3}

(* Without the fields that only some requests load.                        *)
CodeKey == <<"code">>

(* Records and scanners are interchangeable: nothing orders them.          *)
MCSymmetry == Permutations(Records) \cup Permutations(Scanners)
=============================================================================
