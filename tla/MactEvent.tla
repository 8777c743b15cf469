----------------------------- MODULE MactEvent ------------------------------
(***************************************************************************)
(* The events of the macrotasking runtime (mactevnt.c): EVWAIT, EVPOST and *)
(* EVCLEAR on events that have been assigned.  EVPOST wakes the whole      *)
(* queue under the event's semaphore, one descriptor after the other, and  *)
(* empties it at the end.                                                  *)
(***************************************************************************)
EXTENDS MactTask

CONSTANT Event

ASSUME EventAssumption == NULL \notin Event

VARIABLES
  me_state, me_qhead, me_qtail, me_wcount,
  me_sem    \* the task inside the event's critical section, or NULL

eventVars == <<me_state, me_qhead, me_qtail, me_wcount, me_sem>>

EventTypeOK ==
  /\ me_state \in [Event -> {"ES_Posted", "ES_Cleared"}]
  /\ me_qhead \in [Event -> Task \cup {NULL}]
  /\ me_qtail \in [Event -> Task \cup {NULL}]
  /\ me_wcount \in [Event -> 0 .. UINT_MAX]
  /\ me_sem \in [Event -> Task \cup {NULL}]

EventInit ==
  /\ me_state = [e \in Event |-> "ES_Cleared"]
  /\ me_qhead = [e \in Event |-> NULL]
  /\ me_qtail = [e \in Event |-> NULL]
  /\ me_wcount = [e \in Event |-> 0]
  /\ me_sem = [e \in Event |-> NULL]

-----------------------------------------------------------------------------
evwait_(t, e) ==
  /\ MakeCall(t)
  /\ me_sem[e] = NULL
  /\ \/ me_state[e] = "ES_Posted" /\ ReturnAtOnce /\ UNCHANGED eventVars
     \/ /\ me_state[e] = "ES_Cleared"
        /\ Park(t, e, "TS_Event_Wait", me_qhead[e], me_qtail[e])
        /\ me_qhead' = [me_qhead EXCEPT ![e] = IF @ = NULL THEN t ELSE @]
        /\ me_qtail' = [me_qtail EXCEPT ![e] = t]
        /\ me_wcount' = [me_wcount EXCEPT ![e] = Plus(@, 1)]
        /\ UNCHANGED <<me_state, me_sem>>

evwait_return(t) ==
  /\ mt_wait_obj[t] \in Event
  /\ SeesItselfRunning(t)
  /\ UNCHANGED eventVars

MarkPosted_UnlessAwaited(e) ==
  me_state' = [me_state EXCEPT ![e] = IF me_qhead[e] = NULL THEN "ES_Posted" ELSE @]

MarkPosted(e) == me_state' = [me_state EXCEPT ![e] = "ES_Posted"]

(* EVPOST up to the increment of the runnable count.  Its first walk, which *)
(* counts the waiters, does not come to an end on a queue with a cycle.     *)
evpost_(t, e) ==
  /\ MakeCall(t)
  /\ me_sem[e] = NULL
  /\ WalkEnds(me_qhead[e])
  /\ me_sem' = [me_sem EXCEPT ![e] = t]
  /\ MarkPosted(e)
  /\ StartWaking(t, e, me_qhead[e], Cardinality(Chain(me_qhead[e])))
  /\ UNCHANGED <<me_qhead, me_qtail, me_wcount>>

(* The body of EVPOST's second walk: one waiter is let go.                 *)
evpost_wake(t) ==
  /\ obj[t] \in Event
  /\ Wake(t, "next")
  /\ UNCHANGED <<obj, cur, release_count, eventVars>>

(* The walk is over: the queue is emptied, and EVPOST returns.             *)
evpost_end(t) ==
  /\ obj[t] \in Event
  /\ EndOfWalk(t)
  /\ me_qhead' = [me_qhead EXCEPT ![obj[t]] = NULL]
  /\ me_qtail' = [me_qtail EXCEPT ![obj[t]] = NULL]
  /\ me_wcount' = [me_wcount EXCEPT ![obj[t]] = 0]
  /\ me_sem' = [me_sem EXCEPT ![obj[t]] = NULL]
  /\ UNCHANGED me_state

evclear_(t, e) ==
  /\ MakeCall(t)
  /\ me_sem[e] = NULL
  /\ me_state' = [me_state EXCEPT ![e] = "ES_Cleared"]
  /\ ReturnAtOnce
  /\ UNCHANGED <<me_qhead, me_qtail, me_wcount, me_sem>>

-----------------------------------------------------------------------------
vars == <<taskVars, eventVars>>

Init == TaskInit /\ EventInit

InRuntime(t) ==
  \/ DEC_RUNNABLE_MACT_COUNT(t) /\ UNCHANGED eventVars
  \/ CHECK_FOR_MACT_DEADLOCK(t) /\ UNCHANGED eventVars
  \/ evwait_return(t)
  \/ INC_RUNNABLE_MACT_COUNT(t) /\ UNCHANGED eventVars
  \/ evpost_wake(t)
  \/ FollowLink(t) /\ UNCHANGED eventVars
  \/ evpost_end(t)

Next ==
  \E t \in Task :
    \/ \E e \in Event : evwait_(t, e) \/ evpost_(t, e) \/ evclear_(t, e)
    \/ InRuntime(t)

Spec == Init /\ [][Next]_vars

(* Every thread is bound to a processor of its own and keeps running.      *)
FairSpec == Spec /\ \A t \in Task : WF_vars(InRuntime(t))

-----------------------------------------------------------------------------
TypeOK == TaskTypeOK(Event) /\ EventTypeOK

Posting(e) == me_sem[e] # NULL

(* t sleeps on e: nobody has set it running again.                         *)
Asleep(t, e) == Waiting(t) /\ mt_wait_obj[t] = e /\ mt_state[t] = "TS_Event_Wait"

(* Between two calls the queue holds exactly the tasks that sleep, once    *)
(* each, as many as me_wcount says, and nobody sleeps on a posted event.   *)
QueueIntact ==
  \A e \in Event : ~Posting(e) =>
    /\ WalkEnds(me_qhead[e])
    /\ Chain(me_qhead[e]) = {t \in Task : Asleep(t, e)}
    /\ me_wcount[e] = Cardinality(Chain(me_qhead[e]))
    /\ me_state[e] = "ES_Posted" => me_qhead[e] = NULL

(* Events as one would like them: see EventPromise.                        *)
SleepingOn(e) == IF Posting(e) THEN {} ELSE {t \in Task : Asleep(t, e)}

Promise == INSTANCE EventPromise WITH
             posted <- [e \in Event |-> me_state[e] = "ES_Posted"],
             waiting <- [e \in Event |-> SleepingOn(e)]

IsEvent == Promise!Spec

(* Whoever sleeps on an event when it is posted gets going, even if the    *)
(* event is cleared again at once.                                         *)
PostReleases ==
  \A t \in Task : \A e \in Event :
    Posting(e) /\ Asleep(t, e) ~> pc[t] = "user"
=============================================================================
