---------------------------- MODULE MCTaskCommon ----------------------------
(* Task common for TLC: three blocks, two of which have sizes that are not *)
(* multiples of a doubleword.                                              *)
EXTENDS TaskCommon

ThreeBlocks == {"b1", "b2", "b3"}
MCBytes == [b1 |-> 4, b2 |-> 8, b3 |-> 17]
=============================================================================
