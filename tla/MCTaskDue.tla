----------------------------- MODULE MCTaskDue ------------------------------
(* Small instances of TaskDue for TLC. *)
EXTENDS TaskDue, TLC

CONSTANTS ann, r1, r2, d1, d2

SlotSymmetry == Permutations(Requests)
=============================================================================
