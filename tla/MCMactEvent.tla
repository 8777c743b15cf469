---------------------------- MODULE MCMactEvent -----------------------------
(* Small instances of MactEvent for TLC. *)
EXTENDS MactEvent, TLC

Symmetry == Permutations(Task)
=============================================================================
