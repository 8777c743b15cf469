----------------------------- MODULE MCMactLock -----------------------------
(* Small instances of MactLock for TLC. *)
EXTENDS MactLock
=============================================================================
