------------------------------ MODULE FifoLock ------------------------------
(***************************************************************************)
(* What the macrotasking locks promise, without descriptors, links,        *)
(* semaphores or counters: each lock has at most one owner and a queue;    *)
(* a task that asks for an owned lock goes to the end of the queue, and    *)
(* when the owner gives the lock up the first of the queue owns it in the  *)
(* same step, so that nobody can overtake.                                 *)
(***************************************************************************)
EXTENDS Sequences

CONSTANTS Task, Lock, NoTask

VARIABLES owner, queue

Init ==
  /\ owner = [l \in Lock |-> NoTask]
  /\ queue = [l \in Lock |-> <<>>]

Take(t, l) ==
  /\ owner[l] = NoTask
  /\ owner' = [owner EXCEPT ![l] = t]
  /\ UNCHANGED queue

Wait(t, l) ==
  /\ owner[l] # NoTask
  /\ queue' = [queue EXCEPT ![l] = Append(@, t)]
  /\ UNCHANGED owner

GiveUp(t, l) ==
  /\ owner[l] = t
  /\ IF queue[l] = <<>>
       THEN owner' = [owner EXCEPT ![l] = NoTask] /\ UNCHANGED queue
       ELSE /\ owner' = [owner EXCEPT ![l] = Head(queue[l])]
            /\ queue' = [queue EXCEPT ![l] = Tail(@)]

Next == \E t \in Task, l \in Lock : Take(t, l) \/ Wait(t, l) \/ GiveUp(t, l)

vars == <<owner, queue>>

Spec == Init /\ [][Next]_vars
=============================================================================
