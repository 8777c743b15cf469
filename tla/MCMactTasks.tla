---------------------------- MODULE MCMactTasks -----------------------------
(* Small instances of MactTasks for TLC. *)
EXTENDS MactTasks, TLC
=============================================================================
