--------------------------- MODULE BarrierPromise ---------------------------
(***************************************************************************)
(* What the macrotasking barriers promise: of every count[b] tasks that    *)
(* arrive the last lets the others go, all in one step, and the next to    *)
(* arrive begins a new round.                                              *)
(***************************************************************************)
EXTENDS Naturals, FiniteSets

CONSTANTS Task, Barrier, Counts

VARIABLES count, waiting

Init ==
  /\ count \in [Barrier -> Counts]
  /\ waiting = [b \in Barrier |-> {}]

Complete(b) == Cardinality(waiting[b]) + 1 = count[b]

Arrive(t, b) ==
  /\ t \notin waiting[b]
  /\ ~Complete(b)
  /\ waiting' = [waiting EXCEPT ![b] = @ \cup {t}]
  /\ UNCHANGED count

Open(b) ==
  /\ Complete(b)
  /\ waiting' = [waiting EXCEPT ![b] = {}]
  /\ UNCHANGED count

Next == \E b \in Barrier : Open(b) \/ \E t \in Task : Arrive(t, b)

vars == <<count, waiting>>

Spec == Init /\ [][Next]_vars
=============================================================================
