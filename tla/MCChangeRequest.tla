-------------------------- MODULE MCChangeRequest --------------------------
(* Instances of ChangeRequest for TLC. *)
EXTENDS ChangeRequest, TLC

SlotSymmetry == Permutations(Slots)
=============================================================================
