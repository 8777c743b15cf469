---------------------------- MODULE EventPromise ----------------------------
(***************************************************************************)
(* What the macrotasking events promise: a posted event stops nobody, and  *)
(* a post releases everybody who waits, all in one step; clearing releases *)
(* nobody, and takes nobody back.                                          *)
(***************************************************************************)
CONSTANTS Task, Event

VARIABLES posted, waiting

Init ==
  /\ posted = [e \in Event |-> FALSE]
  /\ waiting = [e \in Event |-> {}]

Wait(t, e) ==
  /\ ~posted[e]
  /\ t \notin waiting[e]
  /\ waiting' = [waiting EXCEPT ![e] = @ \cup {t}]
  /\ UNCHANGED posted

Post(e) ==
  /\ posted' = [posted EXCEPT ![e] = TRUE]
  /\ waiting' = [waiting EXCEPT ![e] = {}]

Clear(e) ==
  /\ posted' = [posted EXCEPT ![e] = FALSE]
  /\ UNCHANGED waiting

Next == \E e \in Event : Post(e) \/ Clear(e) \/ \E t \in Task : Wait(t, e)

vars == <<posted, waiting>>

Spec == Init /\ [][Next]_vars
=============================================================================
