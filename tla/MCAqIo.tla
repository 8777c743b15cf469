------------------------------- MODULE MCAqIo -------------------------------
(* Small instances of AqIo for TLC. *)
EXTENDS AqIo, TLC
=============================================================================
