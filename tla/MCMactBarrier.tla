--------------------------- MODULE MCMactBarrier ----------------------------
(* Small instances of MactBarrier for TLC. *)
EXTENDS MactBarrier, TLC

Symmetry == Permutations(Task)
=============================================================================
