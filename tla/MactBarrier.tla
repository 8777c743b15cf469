---------------------------- MODULE MactBarrier -----------------------------
(***************************************************************************)
(* The barriers of the macrotasking runtime (mactbar.c): BARSYNC on        *)
(* barriers that BARASGN has assigned with some count.  The last task to   *)
(* arrive wakes the whole queue under the barrier's semaphore, empties it  *)
(* and closes the barrier again.                                           *)
(***************************************************************************)
EXTENDS MactTask

CONSTANTS
  Barrier,
  Counts      \* the counts a barrier may be assigned with

ASSUME BarrierAssumption ==
  /\ NULL \notin Barrier
  /\ Counts \subseteq 0 .. UINT_MAX

VARIABLES
  mb_ocount, mb_ncount, mb_qhead, mb_qtail,
  mb_sem    \* the task inside the barrier's critical section, or NULL

barrierVars == <<mb_ocount, mb_ncount, mb_qhead, mb_qtail, mb_sem>>

BarrierTypeOK ==
  /\ mb_ocount \in [Barrier -> 0 .. UINT_MAX]
  /\ mb_ncount \in [Barrier -> 0 .. UINT_MAX]
  /\ mb_qhead \in [Barrier -> Task \cup {NULL}]
  /\ mb_qtail \in [Barrier -> Task \cup {NULL}]
  /\ mb_sem \in [Barrier -> Task \cup {NULL}]

(* Every barrier has been assigned.                                        *)
BarrierInit ==
  /\ mb_ocount \in [Barrier -> Counts]
  /\ mb_ncount = mb_ocount
  /\ mb_qhead = [b \in Barrier |-> NULL]
  /\ mb_qtail = [b \in Barrier |-> NULL]
  /\ mb_sem = [b \in Barrier |-> NULL]

-----------------------------------------------------------------------------
LastToArrive_OneEarly(b) == mb_ncount[b] \in {1, 2}

LastToArrive(b) == mb_ncount[b] = 1

(* BARSYNC of a task that is not the last: it joins the queue.             *)
barsync_(t, b) ==
  /\ MakeCall(t)
  /\ mb_sem[b] = NULL
  /\ ~LastToArrive(b)
  /\ Park(t, b, "TS_Bar_Wait", mb_qhead[b], mb_qtail[b])
  /\ mb_qhead' = [mb_qhead EXCEPT ![b] = IF @ = NULL THEN t ELSE @]
  /\ mb_qtail' = [mb_qtail EXCEPT ![b] = t]
  /\ mb_ncount' = [mb_ncount EXCEPT ![b] = Minus1(@)]
  /\ UNCHANGED <<mb_ocount, mb_sem>>

barsync_return(t) ==
  /\ mt_wait_obj[t] \in Barrier
  /\ SeesItselfRunning(t)
  /\ UNCHANGED barrierVars

(* BARSYNC of the task that opens the barrier, up to the increment of the  *)
(* runnable count.                                                         *)
barsync_open(t, b) ==
  /\ MakeCall(t)
  /\ mb_sem[b] = NULL
  /\ LastToArrive(b)
  /\ WalkEnds(mb_qhead[b])
  /\ mb_sem' = [mb_sem EXCEPT ![b] = t]
  /\ StartWaking(t, b, mb_qhead[b], Cardinality(Chain(mb_qhead[b])))
  /\ UNCHANGED <<mb_ocount, mb_ncount, mb_qhead, mb_qtail>>

(* The body of the second walk: one waiter is let go.                      *)
barsync_wake(t) ==
  /\ obj[t] \in Barrier
  /\ Wake(t, "next")
  /\ UNCHANGED <<obj, cur, release_count, barrierVars>>

(* The walk is over: the barrier is closed again, and BARSYNC returns.     *)
barsync_close(t) ==
  /\ obj[t] \in Barrier
  /\ EndOfWalk(t)
  /\ mb_qhead' = [mb_qhead EXCEPT ![obj[t]] = NULL]
  /\ mb_qtail' = [mb_qtail EXCEPT ![obj[t]] = NULL]
  /\ mb_ncount' = [mb_ncount EXCEPT ![obj[t]] = mb_ocount[obj[t]]]
  /\ mb_sem' = [mb_sem EXCEPT ![obj[t]] = NULL]
  /\ UNCHANGED mb_ocount

-----------------------------------------------------------------------------
vars == <<taskVars, barrierVars>>

Init == TaskInit /\ BarrierInit

InRuntime(t) ==
  \/ DEC_RUNNABLE_MACT_COUNT(t) /\ UNCHANGED barrierVars
  \/ CHECK_FOR_MACT_DEADLOCK(t) /\ UNCHANGED barrierVars
  \/ barsync_return(t)
  \/ INC_RUNNABLE_MACT_COUNT(t) /\ UNCHANGED barrierVars
  \/ barsync_wake(t)
  \/ FollowLink(t) /\ UNCHANGED barrierVars
  \/ barsync_close(t)

Next ==
  \E t \in Task :
    \/ \E b \in Barrier : barsync_(t, b) \/ barsync_open(t, b)
    \/ InRuntime(t)

Spec == Init /\ [][Next]_vars

(* Every thread is bound to a processor of its own and keeps running.      *)
FairSpec == Spec /\ \A t \in Task : WF_vars(InRuntime(t))

-----------------------------------------------------------------------------
TypeOK == TaskTypeOK(Barrier) /\ BarrierTypeOK

Opening(b) == mb_sem[b] # NULL

Asleep(t, b) == Waiting(t) /\ mt_wait_obj[t] = b /\ mt_state[t] = "TS_Bar_Wait"

(* Between two calls the queue holds exactly the tasks that sleep, once    *)
(* each, and mb_ncount is the number of arrivals still missing: an opening *)
(* neither strands a waiter nor counts one for the next round.             *)
QueueIntact ==
  \A b \in Barrier : ~Opening(b) =>
    /\ WalkEnds(mb_qhead[b])
    /\ Chain(mb_qhead[b]) = {t \in Task : Asleep(t, b)}
    /\ mb_ocount[b] # 0 =>
         mb_ncount[b] + Cardinality(Chain(mb_qhead[b])) = mb_ocount[b]

(* When one barrier synchronises all tasks, nobody leaves a round before   *)
(* everybody has entered it, however far the others have been delayed      *)
(* inside the previous one.                                                *)
Left(t) == calls[t] - (IF pc[t] = "user" THEN 0 ELSE 1)

InStep ==
  \A b \in Barrier : Barrier = {b} /\ mb_ocount[b] = Cardinality(Task) =>
    \A t, u \in Task : Left(t) <= calls[u]

(* Where the queue of b begins: while b is being opened, where the rest of *)
(* the opener's walk begins.                                               *)
First(b) ==
  IF ~Opening(b) THEN mb_qhead[b]
  ELSE LET u == mb_sem[b] IN IF pc[u] = "next" THEN mt_wait_link[cur[u]] ELSE cur[u]

(* No waiter is lost: whoever sleeps at a barrier is in its queue or still *)
(* ahead of the task that is walking that queue.                           *)
NobodyStranded ==
  \A t \in Task : \A b \in Barrier : Asleep(t, b) => t \in Chain(First(b))

(* Barriers as one would like them: see BarrierPromise.                    *)
SleepingAt(b) == IF Opening(b) THEN {} ELSE {t \in Task : Asleep(t, b)}

Promise == INSTANCE BarrierPromise WITH
             count <- mb_ocount,
             waiting <- [b \in Barrier |-> SleepingAt(b)]

IsBarrier == Promise!Spec

(* Once a barrier has been opened everybody who sleeps at it gets going.   *)
OpeningReleases ==
  \A t \in Task : \A b \in Barrier :
    Opening(b) /\ Asleep(t, b) ~> pc[t] = "user"
=============================================================================
