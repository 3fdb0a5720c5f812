----------------------------- MODULE MCDispatch -----------------------------
(* Instances of Dispatch for TLC. *)
EXTENDS Dispatch, TLC

MCAllRows == Subs \X Seqs

(* The filter of subscription 1 rejects event 2: a rebuild may still queue it. *)
MCFiltered == (Subs \X Seqs) \ {<<1, 2>>}

(* Subscription 1 gets the first event only, 2 gets both.                  *)
MCFewRows == {<<1, 1>>, <<2, 1>>, <<2, 2>>}

NodeSymmetry == Permutations(Nodes)
=============================================================================
