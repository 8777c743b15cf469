------------------------------ MODULE MactLock ------------------------------
(***************************************************************************)
(* The locks of the macrotasking runtime (mactlock.c): LOCKON, LOCKOFF and *)
(* LOCKTEST on locks that have been assigned.  A lock is handed over: the  *)
(* task that unlocks it gives it to the head of the queue and leaves it    *)
(* locked.                                                                 *)
(*                                                                         *)
(* held[t] is the user's own book-keeping: the locks whose LOCKON has      *)
(* returned, or whose LOCKTEST said it took them, and that t has not       *)
(* unlocked.  Programs unlock what they hold, and do not lock it again.    *)
(***************************************************************************)
EXTENDS MactTask

CONSTANT Lock

ASSUME LockAssumption == NULL \notin Lock

VARIABLES
  ml_state, ml_qhead, ml_qtail, ml_wcount,
  ml_sem,   \* the task inside the lock's critical section, or NULL
  held

lockVars == <<ml_state, ml_qhead, ml_qtail, ml_wcount, ml_sem, held>>

LockTypeOK ==
  /\ ml_state \in [Lock -> {"LS_Locked", "LS_Unlocked"}]
  /\ ml_qhead \in [Lock -> Task \cup {NULL}]
  /\ ml_qtail \in [Lock -> Task \cup {NULL}]
  /\ ml_wcount \in [Lock -> 0 .. UINT_MAX]
  /\ ml_sem \in [Lock -> Task \cup {NULL}]
  /\ held \in [Task -> SUBSET Lock]

LockInit ==
  /\ ml_state = [l \in Lock |-> "LS_Unlocked"]
  /\ ml_qhead = [l \in Lock |-> NULL]
  /\ ml_qtail = [l \in Lock |-> NULL]
  /\ ml_wcount = [l \in Lock |-> 0]
  /\ ml_sem = [l \in Lock |-> NULL]
  /\ held = [t \in Task |-> {}]

-----------------------------------------------------------------------------
TakeLock_LeavesWord(t, l) ==
  /\ held' = [held EXCEPT ![t] = @ \cup {l}]
  /\ UNCHANGED ml_state

TakeLock(t, l) ==
  /\ ml_state' = [ml_state EXCEPT ![l] = "LS_Locked"]
  /\ held' = [held EXCEPT ![t] = @ \cup {l}]

EnqueueWaiter_AtHead(t, l) ==
  /\ mt_wait_obj' = [mt_wait_obj EXCEPT ![t] = l]
  /\ mt_wait_link' = [mt_wait_link EXCEPT ![t] = ml_qhead[l]]
  /\ mt_state' = [mt_state EXCEPT ![t] = "TS_Lock_Wait"]
  /\ pc' = [pc EXCEPT ![t] = "dec"]
  /\ UNCHANGED <<obj, cur, release_count, runnable_tasks, aborted>>
  /\ ml_qhead' = [ml_qhead EXCEPT ![l] = t]
  /\ ml_qtail' = [ml_qtail EXCEPT ![l] = IF @ = NULL THEN t ELSE @]
  /\ ml_wcount' = [ml_wcount EXCEPT ![l] = Plus(@, 1)]

EnqueueWaiter(t, l) ==
  /\ Park(t, l, "TS_Lock_Wait", ml_qhead[l], ml_qtail[l])
  /\ ml_qhead' = [ml_qhead EXCEPT ![l] = IF @ = NULL THEN t ELSE @]
  /\ ml_qtail' = [ml_qtail EXCEPT ![l] = t]
  /\ ml_wcount' = [ml_wcount EXCEPT ![l] = Plus(@, 1)]

(* The critical section is one step: nothing in it is visible outside the  *)
(* semaphore, except the task's own descriptor.                            *)
lockon_(t, l) ==
  /\ MakeCall(t)
  /\ l \notin held[t]
  /\ ml_sem[l] = NULL
  /\ \/ /\ ml_state[l] = "LS_Unlocked"
        /\ TakeLock(t, l)
        /\ ReturnAtOnce
        /\ UNCHANGED <<ml_qhead, ml_qtail, ml_wcount>>
     \/ /\ ml_state[l] = "LS_Locked"
        /\ EnqueueWaiter(t, l)
        /\ UNCHANGED <<ml_state, held>>
  /\ UNCHANGED ml_sem

(* LOCKON returns to a task that had to wait for l.                        *)
lockon_return(t) ==
  /\ mt_wait_obj[t] \in Lock
  /\ SeesItselfRunning(t)
  /\ held' = [held EXCEPT ![t] = @ \cup {mt_wait_obj[t]}]
  /\ UNCHANGED <<ml_state, ml_qhead, ml_qtail, ml_wcount, ml_sem>>

(* LOCKOFF, up to the increment of the runnable count when it has someone  *)
(* to wake.  The link is read before the waiter is let go.                 *)
lockoff_(t, l) ==
  /\ InUserCode(t)
  /\ l \in held[t]
  /\ ml_sem[l] = NULL
  /\ held' = [held EXCEPT ![t] = @ \ {l}]
  /\ \/ /\ ml_qhead[l] = NULL
        /\ ml_state' = [ml_state EXCEPT ![l] = "LS_Unlocked"]
        /\ ReturnAtOnce
        /\ UNCHANGED <<ml_qhead, ml_qtail, ml_wcount, ml_sem>>
     \/ /\ ml_qhead[l] # NULL
        /\ LET second == mt_wait_link[ml_qhead[l]] IN
             /\ ml_qhead' = [ml_qhead EXCEPT ![l] = second]
             /\ ml_qtail' = [ml_qtail EXCEPT ![l] = IF second = NULL THEN NULL ELSE @]
        /\ ml_wcount' = [ml_wcount EXCEPT ![l] = Minus1(@)]
        /\ ml_sem' = [ml_sem EXCEPT ![l] = t]
        /\ StartWaking(t, l, ml_qhead[l], 1)
        /\ UNCHANGED ml_state
  /\ UNCHANGED calls

(* The waiter is let go, and LOCKOFF returns.                              *)
lockoff_wake(t) ==
  /\ obj[t] \in Lock
  /\ Wake(t, "user")
  /\ ForgetLocals(t)
  /\ ml_sem' = [ml_sem EXCEPT ![obj[t]] = NULL]
  /\ UNCHANGED <<ml_state, ml_qhead, ml_qtail, ml_wcount, held>>

locktest_(t, l) ==
  /\ MakeCall(t)
  /\ l \notin held[t]
  /\ ml_sem[l] = NULL
  /\ IF ml_state[l] = "LS_Unlocked" THEN TakeLock(t, l)
                                    ELSE UNCHANGED <<ml_state, held>>
  /\ ReturnAtOnce
  /\ UNCHANGED <<ml_qhead, ml_qtail, ml_wcount, ml_sem>>

-----------------------------------------------------------------------------
vars == <<taskVars, lockVars>>

Init == TaskInit /\ LockInit

(* What a task does once it is inside the runtime.                         *)
InRuntime(t) ==
  \/ DEC_RUNNABLE_MACT_COUNT(t) /\ UNCHANGED lockVars
  \/ CHECK_FOR_MACT_DEADLOCK(t) /\ UNCHANGED lockVars
  \/ lockon_return(t)
  \/ INC_RUNNABLE_MACT_COUNT(t) /\ UNCHANGED lockVars
  \/ lockoff_wake(t)

Unlock(t) == \E l \in Lock : lockoff_(t, l)

Next ==
  \E t \in Task :
    \/ \E l \in Lock : lockon_(t, l) \/ locktest_(t, l)
    \/ Unlock(t)
    \/ InRuntime(t)

Spec == Init /\ [][Next]_vars

(* Every thread is bound to a processor of its own (THR_BOUND) and keeps   *)
(* running; the user's critical sections end.                              *)
Fairness == \A t \in Task : WF_vars(InRuntime(t) \/ Unlock(t))

FairSpec == Spec /\ Fairness

-----------------------------------------------------------------------------
TypeOK == TaskTypeOK(Lock) /\ LockTypeOK

(* A LOCKOFF in progress has taken t off the queue of l.                   *)
Chosen(t, l) == \E u \in Task : pc[u] \in WakePc /\ obj[u] = l /\ cur[u] = t

(* t is to have l next, and has not returned from LOCKON yet.              *)
Granted(t, l) ==
  /\ Waiting(t)
  /\ mt_wait_obj[t] = l
  /\ mt_state[t] = "TS_Running" \/ Chosen(t, l)

Owns(t, l) == l \in held[t] \/ Granted(t, l)

Queued(t, l) == Waiting(t) /\ mt_wait_obj[t] = l /\ ~Granted(t, l)

(* Never two owners: a task that a LOCKOFF has chosen counts as one from   *)
(* that moment.                                                            *)
MutualExclusion ==
  \A l \in Lock : \A t, u \in Task : Owns(t, l) /\ Owns(u, l) => t = u

(* The lock word and the queue tell the truth: an unlocked lock has no     *)
(* owner and nobody in its queue, and the queue holds exactly the tasks    *)
(* that wait and have not been chosen, once each, as many as ml_wcount     *)
(* says (TSKLIST prints it), with ml_qtail at its end.                     *)
QueueIntact ==
  \A l \in Lock :
    /\ WalkEnds(ml_qhead[l])
    /\ Chain(ml_qhead[l]) = {t \in Task : Queued(t, l)}
    /\ ml_wcount[l] = Cardinality(Chain(ml_qhead[l]))
    /\ ml_qhead[l] # NULL => ml_qtail[l] # NULL /\ mt_wait_link[ml_qtail[l]] = NULL
    /\ ml_state[l] = "LS_Locked" <=> \E t \in Task : Owns(t, l)

(* The tasks that have not taken themselves off the runnable count, and    *)
(* those that have been put back on it before they saw that they run.      *)
Counted == {t \in Task : pc[t] \notin {"check", "spin"}}

PutBack ==
  {t \in Task :
     /\ Waiting(t)
     /\ mt_state[t] = "TS_Running" \/ \E u \in Task : pc[u] = "mark" /\ cur[u] = t}

(* The runnable count is exact at every moment, though it is changed       *)
(* outside the lock's semaphore, before a wake-up and after a queueing: a  *)
(* task that is woken before it has taken itself off counts twice.         *)
RunnableCountExact ==
  runnable_tasks = Cardinality(Counted) + Cardinality(PutBack)

-----------------------------------------------------------------------------
(* The locks are FIFO locks: each call takes effect in one step, a waiter  *)
(* keeps its place, and LOCKOFF gives the lock to the longest waiter.      *)
OwnerOf(l) ==
  IF \E t \in Task : Owns(t, l) THEN CHOOSE t \in Task : Owns(t, l) ELSE NULL

QueueOf(l) == ListFrom(ml_qhead[l], mt_wait_link, NULL, Cardinality(Task))

Fifo == INSTANCE FifoLock WITH
          NoTask <- NULL,
          owner <- [l \in Lock |-> OwnerOf(l)],
          queue <- [l \in Lock |-> QueueOf(l)]

IsFifoLock == Fifo!Spec

(* Tasks that wait for each other's locks.                                 *)
Cycle == \E S \in SUBSET Task \ {{}} : \A t \in S :
           /\ pc[t] = "spin" /\ mt_state[t] = "TS_Lock_Wait"
           /\ \E u \in S : mt_wait_obj[t] \in held[u]

(* A task that waits for a lock gets it, whoever else keeps asking, unless *)
(* the program is given up, or its tasks wait for each other's locks.      *)
WaiterGetsLock ==
  \A t \in Task : \A l \in Lock :
    Queued(t, l) ~> (l \in held[t] \/ aborted \/ Cycle)
=============================================================================
