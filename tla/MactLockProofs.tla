--------------------------- MODULE MactLockProofs ---------------------------
(***************************************************************************)
(* Proofs about the macrotasking locks, for any set of tasks and locks.    *)
(***************************************************************************)
EXTENDS MactLock, ChainProofs, TLAPS

-----------------------------------------------------------------------------
(* The inductive invariant behind MutualExclusion: what a waiter, a waker, *)
(* a queue and a free lock look like.                                      *)
WaitersWait ==
  \A t \in Task : Waiting(t) =>
    mt_wait_obj[t] \in Lock /\ mt_state[t] \in {"TS_Running", "TS_Lock_Wait"}

WakersWake ==
  \A u \in Task : pc[u] \in WakePc =>
    /\ pc[u] # "next"
    /\ obj[u] \in Lock
    /\ ml_sem[obj[u]] = u
    /\ release_count[u] = 1
    /\ cur[u] # NULL
    /\ \A t \in Task : cur[u] = t =>
         /\ Waiting(t)
         /\ mt_wait_obj[t] = obj[u]
         /\ mt_state[t] = "TS_Lock_Wait"

EndsQueued ==
  \A l \in Lock :
    /\ ml_qhead[l] = NULL <=> ml_qtail[l] = NULL
    /\ \A t \in Task :
         /\ ml_qhead[l] = t => Queued(t, l)
         /\ ml_qtail[l] = t => Queued(t, l) /\ mt_wait_link[t] = NULL

LinksQueued ==
  \A l \in Lock : \A t, u \in Task :
    Queued(t, l) /\ mt_wait_link[t] = u => Queued(u, l) /\ u # ml_qhead[l]

LinksDistinct ==
  \A l \in Lock : \A t, u \in Task :
    Queued(t, l) /\ Queued(u, l) /\ mt_wait_link[t] = mt_wait_link[u]
      => t = u \/ mt_wait_link[t] = NULL

FreeHasNoOwner ==
  \A l \in Lock : \A t \in Task : ml_state[l] = "LS_Unlocked" => ~Owns(t, l)

(* Each queue is a list: tasks that differ, linked in their order, as many *)
(* as ml_wcount says.                                                      *)
QueuesAreLists ==
  \A l \in Lock :
    /\ QueueOf(l) \in Seq(Task)
    /\ IsList(QueueOf(l), ml_qhead[l], mt_wait_link, NULL)
    /\ Nodes(QueueOf(l)) = {t \in Task : Queued(t, l)}
    /\ ml_wcount[l] = Len(QueueOf(l))

LockedHasOwner ==
  \A l \in Lock : ml_state[l] = "LS_Locked" => \E t \in Task : Owns(t, l)

LockInv ==
  /\ TypeOK
  /\ WaitersWait
  /\ WakersWake
  /\ EndsQueued
  /\ LinksQueued
  /\ LinksDistinct
  /\ FreeHasNoOwner
  /\ MutualExclusion

(* And the one behind QueueIntact and IsFifoLock.                          *)
QueueInv == LockInv /\ QueuesAreLists /\ LockedHasOwner

(* The inductive invariant behind the two deadlock properties: whoever     *)
(* brings the count to zero is about to look at it.                        *)
CountInv ==
  /\ RunnableCountExact
  /\ runnable_tasks = 0 => aborted \/ \E t \in Task : pc[t] = "check"
  /\ NoFalseDeadlock

-----------------------------------------------------------------------------
(* The counter's arithmetic stays within an unsigned int.                  *)
LEMMA CountInRange ==
  ASSUME NEW n \in 0 .. UINT_MAX, NEW k \in 0 .. UINT_MAX
  PROVE  Plus(n, k) \in 0 .. UINT_MAX /\ Minus1(n) \in 0 .. UINT_MAX
BY CountAssumption DEF Plus, Minus1

LEMMA OneInRange == 1 \in 0 .. UINT_MAX /\ Cardinality(Task) \in Nat \ {0}
<1>1. Cardinality(Task) \in Nat /\ Cardinality(Task) # 0
  BY TaskAssumption, FS_CardinalityType, FS_EmptySet
<1> QED
  BY <1>1, CountAssumption

-----------------------------------------------------------------------------
LEMMA InitTypeOK == Init => TypeOK
<1> USE TaskAssumption, LockAssumption
<1>1. Cardinality(Task \ Autotask) \in 0 .. UINT_MAX
  <2>1. /\ Cardinality(Task) \in Nat
        /\ Cardinality(Task \ Autotask) \in Nat
        /\ Cardinality(Task \ Autotask) <= Cardinality(Task)
    BY FS_Subset, FS_CardinalityType
  <2> QED
    BY <2>1, CountAssumption
<1>2. ASSUME Init PROVE TaskTypeOK(Lock)
  <2>1. 0 \in 0 .. MaxCalls /\ 0 \in 0 .. UINT_MAX
    BY CountAssumption
  <2>2. mt_state \in [Task -> TaskState]
    BY <1>2 DEF Init, TaskInit, TaskState
  <2> QED
    BY <1>1, <1>2, <2>1, <2>2 DEF Init, TaskInit, TaskTypeOK, Pc
<1>3. ASSUME Init PROVE LockTypeOK
  BY <1>3, CountAssumption DEF Init, LockInit, LockTypeOK
<1> QED
  BY <1>2, <1>3 DEF TypeOK

LEMMA StepTypeOK == TypeOK /\ [Next]_vars => TypeOK'
<1> USE TaskAssumption, LockAssumption
<1> SUFFICES ASSUME TypeOK, [Next]_vars PROVE TypeOK'
  OBVIOUS
<1> USE DEF TypeOK, TaskTypeOK, LockTypeOK, Pc, TaskState
<1>1. ASSUME NEW t \in Task, NEW l \in Lock, lockon_(t, l) PROVE TypeOK'
  <2>1. Plus(ml_wcount[l], 1) \in 0 .. UINT_MAX
    BY OneInRange, CountInRange
  <2>2. LinkedAtTail(t, ml_qhead[l], ml_qtail[l]) \in [Task -> Task \cup {NULL}]
    BY DEF LinkedAtTail
  <2>3. /\ calls' = [calls EXCEPT ![t] = @ + 1]
        /\ calls[t] < MaxCalls
        /\ UNCHANGED ml_sem
    BY <1>1 DEF lockon_, MakeCall
  <2>4. calls' \in [Task -> 0 .. MaxCalls]
    BY <2>3, CountAssumption
  <2>5. CASE ml_state[l] = "LS_Unlocked"
    BY <1>1, <2>3, <2>4, <2>5 DEF lockon_, TakeLock, ReturnAtOnce
  <2>6. CASE ml_state[l] = "LS_Locked"
    <3>1. EnqueueWaiter(t, l) /\ UNCHANGED <<ml_state, held>>
      BY <1>1, <2>6 DEF lockon_
    <3>2. TaskTypeOK(Lock)'
      BY <3>1, <2>2, <2>4 DEF EnqueueWaiter, Park
    <3>3. LockTypeOK'
      BY <3>1, <2>1, <2>3 DEF EnqueueWaiter
    <3> QED
      BY <3>2, <3>3
  <2> QED
    BY <2>5, <2>6
<1>2. ASSUME NEW t \in Task, NEW l \in Lock, locktest_(t, l) PROVE TypeOK'
  <2>1. calls' \in [Task -> 0 .. MaxCalls]
    BY <1>2, CountAssumption DEF locktest_, MakeCall
  <2>2. ml_state' \in [Lock -> {"LS_Locked", "LS_Unlocked"}]
        /\ held' \in [Task -> SUBSET Lock]
    BY <1>2 DEF locktest_, TakeLock
  <2> QED
    BY <1>2, <2>1, <2>2 DEF locktest_, ReturnAtOnce
<1>3. ASSUME NEW t \in Task, NEW l \in Lock, lockoff_(t, l) PROVE TypeOK'
  <2>1. Minus1(ml_wcount[l]) \in 0 .. UINT_MAX /\ 1 \in 0 .. UINT_MAX
    BY OneInRange, CountInRange
  <2>2. held' \in [Task -> SUBSET Lock] /\ UNCHANGED calls
    BY <1>3 DEF lockoff_
  <2>3. CASE ml_qhead[l] = NULL
    BY <1>3, <2>2, <2>3 DEF lockoff_, ReturnAtOnce
  <2>4. CASE ml_qhead[l] # NULL
    <3>1. StartWaking(t, l, ml_qhead[l], 1) /\ ml_qhead[l] \in Task
      BY <1>3, <2>4 DEF lockoff_
    <3>2. TaskTypeOK(Lock)'
      BY <3>1, <2>1, <2>2 DEF StartWaking
    <3>3. LockTypeOK'
      BY <1>3, <2>1, <2>2, <2>4, SMTT(30) DEF lockoff_
    <3> QED
      BY <3>2, <3>3
  <2> QED
    BY <2>3, <2>4
<1>4. ASSUME NEW t \in Task, DEC_RUNNABLE_MACT_COUNT(t), UNCHANGED lockVars
      PROVE  TypeOK'
  <2>1. Minus1(runnable_tasks) \in 0 .. UINT_MAX
    BY OneInRange, CountInRange
  <2> QED
    BY <1>4, <2>1 DEF DEC_RUNNABLE_MACT_COUNT, lockVars
<1>5. ASSUME NEW t \in Task, CHECK_FOR_MACT_DEADLOCK(t), UNCHANGED lockVars
      PROVE  TypeOK'
  BY <1>5 DEF CHECK_FOR_MACT_DEADLOCK, lockVars
<1>6. ASSUME NEW t \in Task, lockon_return(t) PROVE TypeOK'
  BY <1>6 DEF lockon_return, SeesItselfRunning
<1>7. ASSUME NEW t \in Task, INC_RUNNABLE_MACT_COUNT(t), UNCHANGED lockVars
      PROVE  TypeOK'
  <2>1. Plus(runnable_tasks, release_count[t]) \in 0 .. UINT_MAX
    BY CountInRange
  <2> QED
    BY <1>7, <2>1 DEF INC_RUNNABLE_MACT_COUNT, lockVars
<1>8. ASSUME NEW t \in Task, lockoff_wake(t) PROVE TypeOK'
  <2>1. 0 \in 0 .. UINT_MAX
    BY CountAssumption
  <2> QED
    BY <1>8, <2>1 DEF lockoff_wake, Wake, ForgetLocals
<1>9. CASE UNCHANGED vars
  BY <1>9 DEF vars, taskVars, lockVars
<1> QED
  BY <1>1, <1>2, <1>3, <1>4, <1>5, <1>6, <1>7, <1>8, <1>9
  DEF Next, InRuntime, Unlock

(* Every variable keeps its type, the two counters the width of an         *)
(* unsigned int: no operation of mactlock.c follows a null link, and none  *)
(* writes one kind of pointer where another is expected.                   *)
THEOREM TypeCorrect == Spec => []TypeOK
<1>1. Init => TypeOK
  BY InitTypeOK
<1>2. TypeOK /\ [Next]_vars => TypeOK'
  BY StepTypeOK
<1> QED
  BY <1>1, <1>2, PTL DEF Spec
-----------------------------------------------------------------------------
(* The parts of the invariant that a step has to re-establish.             *)
Shape ==
  /\ WaitersWait /\ WakersWake
  /\ EndsQueued /\ LinksQueued /\ LinksDistinct
  /\ FreeHasNoOwner /\ MutualExclusion

(* What a step does to the owners and the queues: nothing, or a task takes *)
(* a free lock, joins a queue, frees a lock or hands it over.              *)
Stays ==
  /\ UNCHANGED <<ml_state, ml_qhead, ml_wcount, mt_wait_link>>
  /\ \A s \in Task, m \in Lock :
       (Queued(s, m)' <=> Queued(s, m)) /\ (Owns(s, m)' <=> Owns(s, m))

Takes(t, l) ==
  /\ ml_state[l] = "LS_Unlocked"
  /\ ml_state' = [ml_state EXCEPT ![l] = "LS_Locked"]
  /\ UNCHANGED <<ml_qhead, ml_wcount, mt_wait_link>>
  /\ \A s \in Task, m \in Lock :
       /\ Queued(s, m)' <=> Queued(s, m)
       /\ Owns(s, m)' <=> Owns(s, m) \/ (s = t /\ m = l)

Joins(t, l) ==
  /\ ml_state[l] = "LS_Locked"
  /\ UNCHANGED ml_state
  /\ EnqueueWaiter(t, l)
  /\ \A s \in Task, m \in Lock :
       /\ ~Queued(t, m)
       /\ Queued(s, m)' <=> Queued(s, m) \/ (s = t /\ m = l)
       /\ Owns(s, m)' <=> Owns(s, m)

Frees(t, l) ==
  /\ Owns(t, l) /\ ml_qhead[l] = NULL
  /\ ml_state' = [ml_state EXCEPT ![l] = "LS_Unlocked"]
  /\ UNCHANGED <<ml_qhead, ml_wcount, mt_wait_link>>
  /\ \A s \in Task, m \in Lock :
       /\ Queued(s, m)' <=> Queued(s, m)
       /\ Owns(s, m)' <=> Owns(s, m) /\ (s # t \/ m # l)

HandsOver(t, l, h) ==
  /\ Owns(t, l) /\ ml_qhead[l] = h
  /\ ml_qhead' = [ml_qhead EXCEPT ![l] = mt_wait_link[h]]
  /\ ml_wcount' = [ml_wcount EXCEPT ![l] = Minus1(@)]
  /\ UNCHANGED <<ml_state, mt_wait_link>>
  /\ \A s \in Task, m \in Lock :
       /\ Queued(s, m)' <=> Queued(s, m) /\ (s # h \/ m # l)
       /\ Owns(s, m)' <=> IF m = l THEN s = h ELSE Owns(s, m)

Effect ==
  \/ Stays
  \/ \E t \in Task, l \in Lock :
       Takes(t, l) \/ Joins(t, l) \/ Frees(t, l) \/ \E h \in Task : HandsOver(t, l, h)

(* A step that leaves the locks and the descriptors alone and moves a task *)
(* neither into nor out of a wait or a wake-up disturbs nothing.           *)
LEMMA QuietStep ==
  ASSUME Shape,
         UNCHANGED <<obj, cur, release_count, mt_state, mt_wait_obj, mt_wait_link, lockVars>>,
         \A t \in Task : /\ pc'[t] \in WaitPc <=> pc[t] \in WaitPc
                         /\ pc'[t] \in WakePc <=> pc[t] \in WakePc
                         /\ pc'[t] # "next" \/ pc[t] = "next"
  PROVE  Shape' /\ Stays
<1>1. \A t \in Task : Waiting(t)' <=> Waiting(t)
  BY DEF Waiting
<1>2. \A t \in Task, l \in Lock : Chosen(t, l)' <=> Chosen(t, l)
  BY DEF Chosen
<1>3. \A t \in Task, l \in Lock :
        /\ Granted(t, l)' <=> Granted(t, l)
        /\ Queued(t, l)' <=> Queued(t, l)
        /\ Owns(t, l)' <=> Owns(t, l)
  BY <1>1, <1>2 DEF Granted, Queued, Owns, lockVars
<1>4. WaitersWait'
  BY <1>1 DEF Shape, WaitersWait
<1>5. WakersWake'
  BY <1>1 DEF Shape, WakersWake, lockVars
<1>6. EndsQueued' /\ LinksQueued' /\ LinksDistinct'
  BY <1>3 DEF Shape, EndsQueued, LinksQueued, LinksDistinct, lockVars
<1>7. FreeHasNoOwner' /\ MutualExclusion'
  BY <1>3 DEF Shape, FreeHasNoOwner, MutualExclusion, lockVars
<1> QED
  BY <1>4, <1>5, <1>6, <1>7, <1>3 DEF Shape, Stays, lockVars

(* A task takes a free lock.                                               *)
LEMMA TakeStep ==
  ASSUME LockInv, NEW t \in Task, NEW l \in Lock,
         ml_state[l] = "LS_Unlocked", TakeLock(t, l), ReturnAtOnce,
         UNCHANGED <<ml_qhead, ml_qtail, ml_wcount, ml_sem>>
  PROVE  Shape' /\ Takes(t, l)
<1> USE DEF LockInv, TypeOK, TaskTypeOK, LockTypeOK
<1>1. \A s \in Task, m \in Lock :
        /\ Waiting(s)' <=> Waiting(s)
        /\ Granted(s, m)' <=> Granted(s, m)
        /\ Queued(s, m)' <=> Queued(s, m)
  BY DEF ReturnAtOnce, Waiting, Granted, Chosen, Queued
<1>2. \A s \in Task, m \in Lock :
        Owns(s, m)' <=> Owns(s, m) \/ (s = t /\ m = l)
  BY <1>1 DEF Owns, TakeLock
<1>3. WaitersWait'
  BY <1>1 DEF WaitersWait, ReturnAtOnce
<1>4. WakersWake'
  BY DEF WakersWake, Waiting, ReturnAtOnce
<1>5. EndsQueued' /\ LinksQueued' /\ LinksDistinct'
  BY <1>1 DEF EndsQueued, LinksQueued, LinksDistinct, ReturnAtOnce
<1>6. \A s \in Task : ~Owns(s, l)
  BY DEF FreeHasNoOwner
<1>7. FreeHasNoOwner'
  BY <1>2 DEF FreeHasNoOwner, TakeLock
<1>8. MutualExclusion'
  BY <1>2, <1>6 DEF MutualExclusion
<1> QED
  BY <1>3, <1>4, <1>5, <1>7, <1>8, <1>1, <1>2 DEF Shape, Takes, TakeLock, ReturnAtOnce

(* A task that finds the lock taken goes to the tail of its queue.         *)
LEMMA EnqueueStep ==
  ASSUME LockInv, NEW t \in Task, NEW l \in Lock, pc[t] = "user",
         ml_state[l] = "LS_Locked", EnqueueWaiter(t, l),
         UNCHANGED <<ml_state, held, ml_sem>>
  PROVE  Shape' /\ Joins(t, l)
<1> USE DEF LockInv, TypeOK, TaskTypeOK, LockTypeOK
<1>1. \A s \in Task : Waiting(s)' <=> Waiting(s) \/ s = t
  BY DEF EnqueueWaiter, Park, Waiting, WaitPc
<1>2. ~Waiting(t) /\ \A m \in Lock : ~Chosen(t, m)
  BY DEF Waiting, WaitPc, WakersWake, Chosen
<1>3. \A s \in Task, m \in Lock : Chosen(s, m)' <=> Chosen(s, m)
  BY DEF EnqueueWaiter, Park, Chosen, WakePc
<1>4. \A s \in Task, m \in Lock : Granted(s, m)' <=> Granted(s, m)
  BY <1>1, <1>2, <1>3 DEF EnqueueWaiter, Park, Granted
<1>5. \A s \in Task, m \in Lock :
        /\ Queued(s, m)' <=> Queued(s, m) \/ (s = t /\ m = l)
        /\ Owns(s, m)' <=> Owns(s, m)
        /\ ~Queued(t, m)
        /\ Queued(s, m) /\ Queued(s, l) => m = l
  BY <1>1, <1>2, <1>4 DEF EnqueueWaiter, Park, Queued, Owns, Granted
<1>6. WaitersWait'
  BY <1>1 DEF WaitersWait, EnqueueWaiter, Park
<1>7. WakersWake'
  BY <1>1, <1>2 DEF WakersWake, EnqueueWaiter, Park, WakePc
<1>8. FreeHasNoOwner' /\ MutualExclusion'
  BY <1>5 DEF FreeHasNoOwner, MutualExclusion
<1>9. /\ ml_qhead' = [ml_qhead EXCEPT ![l] = IF @ = NULL THEN t ELSE @]
      /\ ml_qtail' = [ml_qtail EXCEPT ![l] = t]
      /\ mt_wait_link'[t] = NULL
      /\ ml_qhead[l] # NULL => mt_wait_link'[ml_qtail[l]] = t
      /\ \A s \in Task : s # t /\ (ml_qhead[l] = NULL \/ s # ml_qtail[l])
                           => mt_wait_link'[s] = mt_wait_link[s]
  <2>1. ml_qhead[l] # NULL => ml_qtail[l] \in Task /\ ml_qtail[l] # t
    BY <1>5 DEF EndsQueued
  <2> QED
    BY <2>1 DEF EnqueueWaiter, Park, LinkedAtTail
<1>10. EndsQueued'
  BY <1>5, <1>9, TaskAssumption DEF EndsQueued
<1>11. LinksQueued'
  BY <1>5, <1>9, TaskAssumption DEF LinksQueued, EndsQueued
<1>12. LinksDistinct'
  BY <1>5, <1>9, TaskAssumption, SMTT(30) DEF LinksDistinct, LinksQueued, EndsQueued
<1> QED
  BY <1>6, <1>7, <1>8, <1>10, <1>11, <1>12, <1>5 DEF Shape, Joins

(* A waiter sees that it is running, and LOCKON returns.                   *)
LEMMA ReturnStep ==
  ASSUME LockInv, NEW t \in Task, lockon_return(t)
  PROVE  Shape' /\ Stays
<1> USE DEF LockInv, TypeOK, TaskTypeOK, LockTypeOK
<1> DEFINE l == mt_wait_obj[t]
<1>1. l \in Lock /\ Granted(t, l)
  BY DEF lockon_return, SeesItselfRunning, Granted, Waiting, WaitPc
<1>2. \A s \in Task : Waiting(s)' <=> Waiting(s) /\ s # t
  BY DEF lockon_return, SeesItselfRunning, Waiting, WaitPc
<1>3. \A s \in Task, m \in Lock : Chosen(s, m)' <=> Chosen(s, m)
  BY DEF lockon_return, SeesItselfRunning, Chosen, WakePc
<1>4. \A s \in Task, m \in Lock :
        /\ Granted(s, m)' <=> Granted(s, m) /\ s # t
        /\ Queued(s, m)' <=> Queued(s, m)
  BY <1>1, <1>2, <1>3 DEF lockon_return, SeesItselfRunning, Granted, Queued
<1>5. \A s \in Task, m \in Lock : Owns(s, m)' <=> Owns(s, m)
  BY <1>1, <1>4 DEF Owns, Granted, lockon_return, SeesItselfRunning
<1>6. WaitersWait'
  BY <1>2 DEF WaitersWait, lockon_return, SeesItselfRunning
<1>7. \A u \in Task : pc[u] \in WakePc => cur[u] # t
  BY DEF WakersWake, lockon_return, SeesItselfRunning
<1>8. WakersWake'
  BY <1>2, <1>7 DEF WakersWake, lockon_return, SeesItselfRunning, WakePc
<1>9. EndsQueued' /\ LinksQueued' /\ LinksDistinct'
  BY <1>4 DEF EndsQueued, LinksQueued, LinksDistinct, lockon_return, SeesItselfRunning
<1>10. FreeHasNoOwner' /\ MutualExclusion'
  BY <1>5 DEF FreeHasNoOwner, MutualExclusion, lockon_return
<1> QED
  BY <1>6, <1>8, <1>9, <1>10, <1>4, <1>5 DEF Shape, Stays, lockon_return, SeesItselfRunning

(* LOCKOFF finds nobody waiting and frees the lock.                        *)
LEMMA FreeStep ==
  ASSUME LockInv, NEW t \in Task, NEW l \in Lock, lockoff_(t, l),
         ml_qhead[l] = NULL
  PROVE  Shape' /\ Frees(t, l)
<1> USE DEF LockInv, TypeOK, TaskTypeOK, LockTypeOK
<1>1. /\ pc[t] = "user" /\ l \in held[t]
      /\ held' = [held EXCEPT ![t] = @ \ {l}]
      /\ ml_state' = [ml_state EXCEPT ![l] = "LS_Unlocked"]
      /\ ReturnAtOnce
      /\ UNCHANGED <<ml_qhead, ml_qtail, ml_sem>>
  BY DEF lockoff_, InUserCode
<1>2. \A s \in Task, m \in Lock :
        /\ Waiting(s)' <=> Waiting(s)
        /\ Granted(s, m)' <=> Granted(s, m)
        /\ Queued(s, m)' <=> Queued(s, m)
  BY <1>1 DEF ReturnAtOnce, Waiting, Granted, Chosen, Queued
<1>3. \A s \in Task : Owns(s, l) => s = t
  BY <1>1 DEF MutualExclusion, Owns
<1>4. ~Granted(t, l)
  BY <1>1 DEF Granted, Waiting, WaitPc
<1>5. \A s \in Task, m \in Lock :
        Owns(s, m)' <=> Owns(s, m) /\ (s # t \/ m # l)
  BY <1>1, <1>2, <1>4 DEF Owns
<1>6. WaitersWait' /\ WakersWake'
  BY <1>1, <1>2 DEF WaitersWait, WakersWake, ReturnAtOnce
<1>7. EndsQueued' /\ LinksQueued' /\ LinksDistinct'
  BY <1>1, <1>2 DEF EndsQueued, LinksQueued, LinksDistinct, ReturnAtOnce
<1>8. FreeHasNoOwner' /\ MutualExclusion'
  BY <1>1, <1>3, <1>5 DEF FreeHasNoOwner, MutualExclusion
<1> QED
  BY <1>6, <1>7, <1>8, <1>1, <1>2, <1>5 DEF Shape, Frees, Owns, lockoff_, ReturnAtOnce

(* LOCKOFF takes the first waiter off the queue and leaves the lock locked. *)
LEMMA HandOverStep ==
  ASSUME LockInv, NEW t \in Task, NEW l \in Lock, lockoff_(t, l),
         NEW h \in Task, ml_qhead[l] = h
  PROVE  Shape' /\ HandsOver(t, l, h)
<1> USE DEF LockInv, TypeOK, TaskTypeOK, LockTypeOK
<1>1. /\ pc[t] = "user" /\ l \in held[t] /\ ml_sem[l] = NULL
      /\ held' = [held EXCEPT ![t] = @ \ {l}]
      /\ ml_qhead' = [ml_qhead EXCEPT ![l] = mt_wait_link[h]]
      /\ ml_qtail' = [ml_qtail EXCEPT ![l] =
                         IF mt_wait_link[h] = NULL THEN NULL ELSE @]
      /\ ml_sem' = [ml_sem EXCEPT ![l] = t]
      /\ UNCHANGED ml_state
      /\ obj' = [obj EXCEPT ![t] = l]
      /\ cur' = [cur EXCEPT ![t] = h]
      /\ release_count' = [release_count EXCEPT ![t] = 1]
      /\ pc' = [pc EXCEPT ![t] = "inc"]
      /\ UNCHANGED <<mt_state, mt_wait_obj, mt_wait_link>>
  BY TaskAssumption DEF lockoff_, InUserCode, StartWaking
<1>2. Queued(h, l)
  BY DEF EndsQueued
<1>3. \A s \in Task : Waiting(s)' <=> Waiting(s)
  BY <1>1 DEF Waiting, WaitPc
<1>4. \A s \in Task, m \in Lock :
        Chosen(s, m)' <=> Chosen(s, m) \/ (s = h /\ m = l)
  BY <1>1 DEF Chosen, WakePc
<1>5. \A s \in Task, m \in Lock :
        /\ Granted(s, m)' <=> Granted(s, m) \/ (s = h /\ m = l)
        /\ Queued(s, m)' <=> Queued(s, m) /\ (s # h \/ m # l)
        /\ Queued(s, m) /\ Queued(s, l) => m = l
  BY <1>1, <1>2, <1>3, <1>4 DEF Granted, Queued
<1>6. ~Granted(t, l) /\ \A s \in Task : Owns(s, l) => s = t
  BY <1>1 DEF MutualExclusion, Owns, Granted, Waiting, WaitPc
<1>7. \A s \in Task, m \in Lock :
        Owns(s, m)' <=> IF m = l THEN s = h ELSE Owns(s, m)
  BY <1>1, <1>5, <1>6 DEF Owns
<1>8. WaitersWait'
  BY <1>1, <1>3 DEF WaitersWait
<1>9. Waiting(h) /\ mt_wait_obj[h] = l /\ mt_state[h] = "TS_Lock_Wait"
  BY <1>2 DEF Queued, Granted, WaitersWait
<1>10. \A u \in Task : pc[u] \in WakePc => obj[u] # l /\ u # t
  BY <1>1, TaskAssumption DEF WakersWake, WakePc
<1>11. WakersWake'
  BY <1>1, <1>3, <1>9, <1>10, TaskAssumption DEF WakersWake, WakePc
<1>12. EndsQueued'
  BY <1>1, <1>5, TaskAssumption DEF EndsQueued, LinksQueued
<1>13. LinksQueued'
  BY <1>1, <1>2, <1>5, TaskAssumption DEF LinksQueued, LinksDistinct
<1>14. LinksDistinct'
  BY <1>1, <1>5 DEF LinksDistinct
<1>15. ml_state[l] = "LS_Locked"
  BY <1>1 DEF FreeHasNoOwner, Owns
<1>16. FreeHasNoOwner' /\ MutualExclusion'
  BY <1>1, <1>7, <1>15, SMTT(30) DEF FreeHasNoOwner, MutualExclusion
<1>17. ml_wcount' = [ml_wcount EXCEPT ![l] = Minus1(@)]
  BY TaskAssumption DEF lockoff_
<1> QED
  BY <1>8, <1>11, <1>12, <1>13, <1>14, <1>16, <1>1, <1>5, <1>7, <1>17 DEF Shape, HandsOver, Owns

(* LOCKOFF lets the chosen waiter go and leaves the critical section.      *)
LEMMA WakeStep ==
  ASSUME LockInv, NEW t \in Task, lockoff_wake(t)
  PROVE  Shape' /\ Stays
<1> USE DEF LockInv, TypeOK, TaskTypeOK, LockTypeOK
<1>1. PICK h \in Task : cur[t] = h
  BY DEF lockoff_wake, Wake
<1> DEFINE l == obj[t]
<1>2. /\ pc[t] = "mark" /\ l \in Lock
      /\ pc' = [pc EXCEPT ![t] = "user"]
      /\ obj' = [obj EXCEPT ![t] = NULL]
      /\ cur' = [cur EXCEPT ![t] = NULL]
      /\ release_count' = [release_count EXCEPT ![t] = 0]
      /\ mt_state' = [mt_state EXCEPT ![h] = "TS_Running"]
      /\ ml_sem' = [ml_sem EXCEPT ![l] = NULL]
      /\ UNCHANGED <<mt_wait_obj, mt_wait_link, ml_state, ml_qhead, ml_qtail, held>>
  BY <1>1 DEF lockoff_wake, Wake, ForgetLocals
<1>3. /\ ml_sem[l] = t /\ Waiting(h) /\ mt_wait_obj[h] = l /\ Granted(h, l)
      /\ \A u \in Task : pc[u] \in WakePc /\ u # t => obj[u] # l /\ cur[u] # h
  BY <1>1, <1>2 DEF WakersWake, WakePc, Granted, Chosen
<1>4. \A s \in Task : Waiting(s)' <=> Waiting(s)
  BY <1>2 DEF Waiting, WaitPc
<1>5. \A s \in Task, m \in Lock :
        Chosen(s, m)' <=> Chosen(s, m) /\ (s # h \/ m # l)
  BY <1>1, <1>2, <1>3 DEF Chosen, WakePc
<1>6. \A s \in Task, m \in Lock :
        /\ Granted(s, m)' <=> Granted(s, m)
        /\ Queued(s, m)' <=> Queued(s, m)
        /\ Owns(s, m)' <=> Owns(s, m)
  BY <1>2, <1>3, <1>4, <1>5 DEF Granted, Queued, Owns
<1>7. WaitersWait'
  BY <1>2, <1>4 DEF WaitersWait
<1>8. WakersWake'
  BY <1>2, <1>3, <1>4 DEF WakersWake, WakePc
<1>9. EndsQueued' /\ LinksQueued' /\ LinksDistinct'
  BY <1>2, <1>6 DEF EndsQueued, LinksQueued, LinksDistinct
<1>10. FreeHasNoOwner' /\ MutualExclusion'
  BY <1>2, <1>6 DEF FreeHasNoOwner, MutualExclusion
<1>11. UNCHANGED ml_wcount
  BY DEF lockoff_wake
<1> QED
  BY <1>7, <1>8, <1>9, <1>10, <1>2, <1>6, <1>11 DEF Shape, Stays

LEMMA InitShape == Init => Shape
<1> SUFFICES ASSUME Init PROVE Shape
  OBVIOUS
<1>1. \A t \in Task : ~Waiting(t) /\ pc[t] \notin WakePc /\ held[t] = {}
  BY DEF Init, TaskInit, LockInit, Waiting, WaitPc, WakePc
<1>2. \A t \in Task, l \in Lock : ~Queued(t, l) /\ ~Owns(t, l)
  BY <1>1 DEF Queued, Owns, Granted
<1>3. \A l \in Lock : ml_qhead[l] = NULL /\ ml_qtail[l] = NULL
  BY DEF Init, LockInit
<1> QED
  BY <1>1, <1>2, <1>3, TaskAssumption
  DEF Shape, WaitersWait, WakersWake, EndsQueued, LinksQueued, LinksDistinct,
      FreeHasNoOwner, MutualExclusion

LEMMA StepEffect == LockInv /\ [Next]_vars => LockInv' /\ Effect
<1> SUFFICES ASSUME LockInv, [Next]_vars PROVE LockInv' /\ Effect
  OBVIOUS
<1>1. Shape /\ TypeOK'
  BY StepTypeOK DEF LockInv, Shape
<1>2. ASSUME NEW t \in Task, NEW l \in Lock, lockon_(t, l) PROVE Shape' /\ Effect
  BY <1>2, TakeStep, EnqueueStep DEF lockon_, MakeCall, InUserCode, Effect
<1>3. ASSUME NEW t \in Task, NEW l \in Lock, locktest_(t, l) PROVE Shape' /\ Effect
  <2>1. CASE ml_state[l] = "LS_Unlocked"
    BY <1>3, <2>1, TakeStep DEF locktest_, Effect
  <2>2. CASE ml_state[l] # "LS_Unlocked"
    BY <1>1, <1>3, <2>2, QuietStep DEF Effect, locktest_, ReturnAtOnce, lockVars
  <2> QED
    BY <2>1, <2>2
<1>4. ASSUME NEW t \in Task, NEW l \in Lock, lockoff_(t, l) PROVE Shape' /\ Effect
  <2>1. CASE ml_qhead[l] = NULL
    BY <1>4, <2>1, FreeStep DEF Effect
  <2>2. CASE ml_qhead[l] # NULL
    BY <1>4, <2>2, HandOverStep DEF Effect, LockInv, TypeOK, LockTypeOK
  <2> QED
    BY <2>1, <2>2
<1>5. ASSUME NEW t \in Task, DEC_RUNNABLE_MACT_COUNT(t), UNCHANGED lockVars
      PROVE  Shape' /\ Effect
  <2>1. pc' = [pc EXCEPT ![t] = "check"] /\ pc[t] = "dec" /\ pc \in [Task -> Pc]
    BY <1>5 DEF DEC_RUNNABLE_MACT_COUNT, LockInv, TypeOK, TaskTypeOK
  <2> QED
    BY <1>1, <1>5, <2>1, QuietStep DEF Effect, DEC_RUNNABLE_MACT_COUNT, WaitPc, WakePc
<1>6. ASSUME NEW t \in Task, CHECK_FOR_MACT_DEADLOCK(t), UNCHANGED lockVars
      PROVE  Shape' /\ Effect
  <2>1. pc' \in {pc, [pc EXCEPT ![t] = "spin"]} /\ pc[t] = "check" /\ pc \in [Task -> Pc]
    BY <1>6 DEF CHECK_FOR_MACT_DEADLOCK, LockInv, TypeOK, TaskTypeOK
  <2> QED
    BY <1>1, <1>6, <2>1, QuietStep DEF Effect, CHECK_FOR_MACT_DEADLOCK, WaitPc, WakePc
<1>7. ASSUME NEW t \in Task, INC_RUNNABLE_MACT_COUNT(t), UNCHANGED lockVars
      PROVE  Shape' /\ Effect
  <2>1. pc' = [pc EXCEPT ![t] = "mark"] /\ pc[t] = "inc" /\ pc \in [Task -> Pc]
    BY <1>7 DEF INC_RUNNABLE_MACT_COUNT, LockInv, TypeOK, TaskTypeOK
  <2> QED
    BY <1>1, <1>7, <2>1, QuietStep DEF Effect, INC_RUNNABLE_MACT_COUNT, WaitPc, WakePc
<1>8. ASSUME UNCHANGED vars PROVE Shape' /\ Effect
  <2>1. /\ pc' = pc
        /\ UNCHANGED <<obj, cur, release_count, mt_state, mt_wait_obj, mt_wait_link>>
        /\ UNCHANGED lockVars
    BY <1>8 DEF vars, taskVars
  <2> QED
    BY <1>1, <2>1, QuietStep DEF Effect
<1>9. ASSUME Next PROVE Shape' /\ Effect
  <2>1. PICK t \in Task : \/ \E l \in Lock : lockon_(t, l) \/ locktest_(t, l)
                          \/ Unlock(t)
                          \/ InRuntime(t)
    BY <1>9 DEF Next
  <2>2. CASE InRuntime(t)
    BY <1>5, <1>6, <1>7, <2>2, ReturnStep, WakeStep DEF InRuntime, Effect
  <2> QED
    BY <1>2, <1>3, <1>4, <2>1, <2>2 DEF Unlock
<1> QED
  BY <1>1, <1>8, <1>9 DEF LockInv, Shape

LEMMA StepLockInv == LockInv /\ [Next]_vars => LockInv'
BY StepEffect

(* Waiters, wakers, the ends of the queues, the links and the free locks   *)
(* are always as the critical sections of mactlock.c leave them.           *)
THEOREM LockInvariant == Spec => []LockInv
<1>1. Init => LockInv
  BY InitTypeOK, InitShape DEF LockInv, Shape
<1> QED
  BY <1>1, StepLockInv, PTL DEF Spec

(* However LOCKON, LOCKTEST and LOCKOFF interleave, and whether or not     *)
(* TSKSTART created the threads, a lock has at most one owner, from the    *)
(* moment a LOCKOFF chooses it.                                            *)
THEOREM LocksExclude == Spec => []MutualExclusion
BY LockInvariant, PTL DEF LockInv

-----------------------------------------------------------------------------
(* The queues as lists.                                                    *)
LEMMA QueueIs ==
  ASSUME NEW q \in Seq(Task), NEW h, NEW link, IsList(q, h, link, NULL)
  PROVE  ListFrom(h, link, NULL, Cardinality(Task)) = q
BY ListIsFound, TaskAssumption

(* What l's list has to be after a step, and is then its queue.            *)
IsNext(q, l) ==
  /\ q \in Seq(Task)
  /\ IsList(q, ml_qhead'[l], mt_wait_link', NULL)
  /\ Nodes(q) = {t \in Task : Queued(t, l)'}
  /\ ml_wcount'[l] = Len(q)

LEMMA NextQueue ==
  ASSUME NEW l \in Lock, NEW q, IsNext(q, l)
  PROVE  QueueOf(l)' = q
BY QueueIs DEF IsNext, QueueOf

LEMMA QueuesStay ==
  ASSUME QueueInv, UNCHANGED <<ml_qhead, ml_wcount, mt_wait_link>>,
         \A s \in Task, m \in Lock : Queued(s, m)' <=> Queued(s, m)
  PROVE  \A l \in Lock : IsNext(QueueOf(l), l)
BY DEF QueueInv, QueuesAreLists, IsNext

LEMMA QueueGrows ==
  ASSUME QueueInv, NEW t \in Task, NEW l \in Lock, Joins(t, l)
  PROVE  \A m \in Lock :
           IsNext(IF m = l THEN Append(QueueOf(l), t) ELSE QueueOf(m), m)
<1> USE DEF QueueInv, LockInv, TypeOK, TaskTypeOK, LockTypeOK, QueuesAreLists
<1> DEFINE q == QueueOf(l)
<1>1. /\ ml_qhead' = [ml_qhead EXCEPT ![l] = IF @ = NULL THEN t ELSE @]
      /\ ml_wcount' = [ml_wcount EXCEPT ![l] = Plus(@, 1)]
      /\ mt_wait_link' = LinkedAtTail(t, ml_qhead[l], ml_qtail[l])
      /\ \A s \in Task, m \in Lock :
           ~Queued(t, m) /\ (Queued(s, m)' <=> Queued(s, m) \/ (s = t /\ m = l))
  BY DEF Joins, EnqueueWaiter, Park
<1>2. \A m \in Lock : t \notin Nodes(QueueOf(m))
  BY <1>1
<1>3. q # <<>> => /\ ml_qhead[l] # NULL /\ ml_qtail[l] \in Task
                  /\ Queued(ml_qtail[l], l) /\ ml_qtail[l] = q[Len(q)]
  <2> SUFFICES ASSUME q # <<>>
               PROVE  /\ ml_qhead[l] # NULL /\ ml_qtail[l] \in Task
                      /\ Queued(ml_qtail[l], l) /\ ml_qtail[l] = q[Len(q)]
    OBVIOUS
  <2>1. ml_qhead[l] # NULL
    BY EndsOfList, TaskAssumption
  <2>2. ml_qtail[l] \in Task /\ Queued(ml_qtail[l], l) /\ mt_wait_link[ml_qtail[l]] = NULL
    BY <2>1 DEF EndsQueued
  <2>3. ml_qtail[l] \in Nodes(q)
    BY <2>2
  <2> QED
    BY <2>1, <2>2, <2>3, EndsOfList, TaskAssumption
<1>4. q = <<>> <=> ml_qhead[l] = NULL
  BY EndsOfList, TaskAssumption
<1>5. /\ mt_wait_link'[t] = NULL
      /\ q # <<>> => mt_wait_link'[q[Len(q)]] = t
      /\ \A s \in Task : s # t /\ (q = <<>> \/ s # q[Len(q)]) => mt_wait_link'[s] = mt_wait_link[s]
  <2>1. q # <<>> => ml_qtail[l] # t
    BY <1>1, <1>3
  <2> QED
    BY <1>1, <1>3, <1>4, <2>1 DEF LinkedAtTail
<1>6. IsNext(Append(q, t), l)
  <2>1. \A d \in Nodes(q) : d = q[Len(q)] \/ mt_wait_link'[d] = mt_wait_link[d]
    BY <1>2, <1>5
  <2>2. /\ Append(q, t) \in Seq(Task)
        /\ IsList(Append(q, t), ml_qhead'[l], mt_wait_link', NULL)
        /\ Nodes(Append(q, t)) = Nodes(q) \cup {t}
    <3>1. ml_qhead'[l] = IF ml_qhead[l] = NULL THEN t ELSE ml_qhead[l]
      BY <1>1
    <3> HIDE DEF q
    <3>2. /\ q \in Seq(Task) /\ IsList(q, ml_qhead[l], mt_wait_link, NULL)
          /\ t \in Task \ Nodes(q)
      BY <1>2 DEF q
    <3>3. NULL \notin Task /\ mt_wait_link'[t] = NULL
          /\ (q # <<>> => mt_wait_link'[q[Len(q)]] = t)
      BY <1>5, TaskAssumption
    <3> HIDE DEF QueueInv, LockInv, TypeOK, TaskTypeOK, LockTypeOK, QueuesAreLists
    <3>4. /\ Append(q, t) \in Seq(Task)
          /\ IsList(Append(q, t), IF ml_qhead[l] = NULL THEN t ELSE ml_qhead[l],
                    mt_wait_link', NULL)
          /\ Nodes(Append(q, t)) = Nodes(q) \cup {t}
      BY <2>1, <3>2, <3>3, ListGrowsAtTail
    <3> QED
      BY <3>1, <3>4
  <2>3. Nodes(Append(q, t)) = {s \in Task : Queued(s, l)'}
    BY <1>1, <2>2
  <2>4. ml_wcount'[l] = Len(Append(q, t))
    <3>1. Len(q) + 1 <= UINT_MAX /\ Len(q) \in Nat
      BY ListIsFound, OneInRange, TaskAssumption, CountAssumption
    <3> QED
      BY <1>1, <3>1, CountAssumption DEF Plus
  <2> QED
    BY <2>2, <2>3, <2>4 DEF IsNext
<1>7. ASSUME NEW m \in Lock, m # l PROVE IsNext(QueueOf(m), m)
  <2>1. \A d \in Nodes(QueueOf(m)) : mt_wait_link'[d] = mt_wait_link[d]
    <3> SUFFICES ASSUME NEW d \in Task, Queued(d, m)
                 PROVE  mt_wait_link'[d] = mt_wait_link[d]
      OBVIOUS
    <3>1. d # t /\ ~Queued(d, l)
      BY <1>1, <1>7 DEF Queued
    <3> QED
      BY <1>3, <1>5, <3>1
  <2>2. IsList(QueueOf(m), ml_qhead'[m], mt_wait_link', NULL)
    BY <1>1, <1>7, <2>1, ListStays
  <2> QED
    BY <1>1, <1>7, <2>2 DEF IsNext
<1> QED
  BY <1>6, <1>7

LEMMA QueueShrinks ==
  ASSUME QueueInv, NEW t \in Task, NEW l \in Lock, NEW h \in Task, HandsOver(t, l, h)
  PROVE  /\ QueueOf(l) # <<>> /\ Head(QueueOf(l)) = h
         /\ \A m \in Lock :
              IsNext(IF m = l THEN Tail(QueueOf(l)) ELSE QueueOf(m), m)
<1> USE DEF QueueInv, LockInv, TypeOK, TaskTypeOK, LockTypeOK, QueuesAreLists
<1> DEFINE q == QueueOf(l)
<1>1. /\ ml_qhead[l] = h /\ h # NULL
      /\ ml_qhead' = [ml_qhead EXCEPT ![l] = mt_wait_link[h]]
      /\ ml_wcount' = [ml_wcount EXCEPT ![l] = Minus1(@)]
      /\ mt_wait_link' = mt_wait_link
      /\ \A s \in Task, m \in Lock :
           Queued(s, m)' <=> Queued(s, m) /\ (s # h \/ m # l)
  BY TaskAssumption DEF HandsOver
<1>2. q # <<>> /\ Head(q) = h
  BY <1>1, EndsOfList, TaskAssumption
<1>3. /\ Tail(q) \in Seq(Task)
      /\ IsList(Tail(q), mt_wait_link[h], mt_wait_link, NULL)
      /\ Nodes(Tail(q)) = Nodes(q) \ {h}
  BY <1>1, <1>2, ListLosesHead, TaskAssumption
<1>4. IsNext(Tail(q), l)
  <2>1. ml_wcount'[l] = Len(Tail(q))
    BY <1>1, <1>2 DEF Minus1
  <2>2. Nodes(Tail(q)) = {s \in Task : Queued(s, l)'}
    BY <1>1, <1>3
  <2> QED
    BY <1>1, <1>3, <2>1, <2>2 DEF IsNext
<1>5. ASSUME NEW m \in Lock, m # l PROVE IsNext(QueueOf(m), m)
  BY <1>1, <1>5 DEF IsNext
<1> QED
  BY <1>2, <1>4, <1>5

LEMMA StepQueueInv == QueueInv /\ [Next]_vars => QueueInv'
<1> SUFFICES ASSUME QueueInv, [Next]_vars PROVE QueueInv'
  OBVIOUS
<1>1. LockInv /\ LockInv' /\ Effect
  BY StepEffect DEF QueueInv
<1>2. QueuesAreLists'
  <2>1. \A l \in Lock : \E q : IsNext(q, l)
    <3>1. CASE Stays
      BY <3>1, QueuesStay DEF Stays
    <3>2. ASSUME NEW t \in Task, NEW l \in Lock, Takes(t, l) \/ Frees(t, l)
          PROVE  \A m \in Lock : IsNext(QueueOf(m), m)
      BY <3>2, QueuesStay DEF Takes, Frees
    <3>3. ASSUME NEW t \in Task, NEW l \in Lock, Joins(t, l)
          PROVE  \A m \in Lock : \E q : IsNext(q, m)
      BY <3>3, QueueGrows
    <3>4. ASSUME NEW t \in Task, NEW l \in Lock, NEW h \in Task, HandsOver(t, l, h)
          PROVE  \A m \in Lock : \E q : IsNext(q, m)
      BY <3>4, QueueShrinks
    <3> QED
      BY <1>1, <3>1, <3>2, <3>3, <3>4 DEF Effect
  <2>2. ASSUME NEW l \in Lock, NEW q, IsNext(q, l)
        PROVE  /\ QueueOf(l)' \in Seq(Task)
               /\ IsList(QueueOf(l), ml_qhead[l], mt_wait_link, NULL)'
               /\ Nodes(QueueOf(l))' = {t \in Task : Queued(t, l)'}
               /\ ml_wcount'[l] = Len(QueueOf(l)')
    <3>1. QueueOf(l)' = q
      BY <2>2, NextQueue
    <3>2. Nodes(QueueOf(l))' = Nodes(q)
      BY <3>1 DEF Nodes
    <3>3. IsList(QueueOf(l), ml_qhead[l], mt_wait_link, NULL)'
      BY <2>2, <3>1 DEF IsNext, IsList
    <3> QED
      BY <2>2, <3>1, <3>2, <3>3 DEF IsNext
  <2> QED
    BY <2>1, <2>2 DEF QueuesAreLists
<1>3. LockedHasOwner'
  <2> SUFFICES ASSUME NEW m \in Lock, ml_state'[m] = "LS_Locked"
               PROVE  \E s \in Task : Owns(s, m)'
    BY DEF LockedHasOwner
  <2> USE DEF LockedHasOwner, QueueInv, LockInv, TypeOK, LockTypeOK
  <2>1. CASE Stays
    BY <2>1 DEF Stays
  <2>2. ASSUME NEW t \in Task, NEW l \in Lock, Takes(t, l)
        PROVE  \E s \in Task : Owns(s, m)'
    BY <2>2 DEF Takes
  <2>3. ASSUME NEW t \in Task, NEW l \in Lock, Joins(t, l)
        PROVE  \E s \in Task : Owns(s, m)'
    BY <2>3 DEF Joins
  <2>4. ASSUME NEW t \in Task, NEW l \in Lock, Frees(t, l)
        PROVE  \E s \in Task : Owns(s, m)'
    BY <2>4 DEF Frees
  <2>5. ASSUME NEW t \in Task, NEW l \in Lock, NEW h \in Task, HandsOver(t, l, h)
        PROVE  \E s \in Task : Owns(s, m)'
    BY <2>5 DEF HandsOver
  <2> QED
    BY <1>1, <2>1, <2>2, <2>3, <2>4, <2>5 DEF Effect
<1> QED
  BY <1>1, <1>2, <1>3 DEF QueueInv

LEMMA InitQueueInv == Init => QueueInv /\ \A l \in Lock : QueueOf(l) = <<>>
<1> SUFFICES ASSUME Init
             PROVE  QueueInv /\ \A l \in Lock : QueueOf(l) = <<>>
  OBVIOUS
<1>1. LockInv
  BY InitTypeOK, InitShape DEF LockInv, Shape
<1>2. \A l \in Lock : /\ ml_qhead[l] = NULL /\ ml_wcount[l] = 0
                      /\ ml_state[l] = "LS_Unlocked"
                      /\ \A t \in Task : ~Queued(t, l)
  BY DEF Init, TaskInit, LockInit, Queued, Waiting, WaitPc
<1>3. ASSUME NEW l \in Lock PROVE QueueOf(l) = <<>>
  <2>1. <<>> \in Seq(Task) /\ IsList(<<>>, ml_qhead[l], mt_wait_link, NULL)
    BY <1>2, EmptyList
  <2> QED
    BY <2>1, QueueIs DEF QueueOf
<1>4. QueuesAreLists
  <2>1. <<>> \in Seq(Task) /\ Len(<<>>) = 0 /\ Nodes(<<>>) = {}
        /\ IsList(<<>>, NULL, mt_wait_link, NULL)
    BY EmptyList
  <2> QED
    BY <1>2, <1>3, <2>1 DEF QueuesAreLists
<1> QED
  BY <1>1, <1>2, <1>3, <1>4 DEF QueueInv, LockedHasOwner

LEMMA QueueInvariant == Spec => []QueueInv
BY InitQueueInv, StepQueueInv, PTL DEF Spec

(* Each lock's queue holds exactly the tasks that wait for it and have not *)
(* been chosen, once each, as many as ml_wcount says; and the lock word    *)
(* tells whether the lock has an owner: whatever LOCKON and LOCKOFF of any *)
(* number of tasks do to the links of each other's descriptors.            *)
THEOREM QueuesIntact == Spec => []QueueIntact
<1>1. ASSUME QueueInv PROVE QueueIntact
  <2> USE <1>1 DEF QueueInv, QueuesAreLists, LockInv
  <2> SUFFICES ASSUME NEW l \in Lock
               PROVE  /\ WalkEnds(ml_qhead[l])
                      /\ Chain(ml_qhead[l]) = {t \in Task : Queued(t, l)}
                      /\ ml_wcount[l] = Cardinality(Chain(ml_qhead[l]))
                      /\ ml_qhead[l] # NULL =>
                           ml_qtail[l] # NULL /\ mt_wait_link[ml_qtail[l]] = NULL
                      /\ ml_state[l] = "LS_Locked" <=> \E t \in Task : Owns(t, l)
    BY DEF QueueIntact
  <2> DEFINE q == QueueOf(l)
  <2>1. /\ NULL \in Reached(ml_qhead[l])
        /\ Reached(ml_qhead[l]) \ {NULL} = Nodes(q)
        /\ Cardinality(Nodes(q)) = Len(q)
    BY ListIsFound, TaskAssumption DEF Reached
  <2>2. ml_qhead[l] # NULL => ml_qtail[l] # NULL /\ mt_wait_link[ml_qtail[l]] = NULL
    BY DEF EndsQueued, TypeOK, LockTypeOK
  <2>3. ml_state[l] = "LS_Locked" <=> \E t \in Task : Owns(t, l)
    BY DEF LockedHasOwner, FreeHasNoOwner, TypeOK, LockTypeOK
  <2> QED
    BY <2>1, <2>2, <2>3 DEF WalkEnds, Chain
<1>2. QueueInv => QueueIntact
  BY <1>1
<1> QED
  BY <1>2, QueueInvariant, PTL

-----------------------------------------------------------------------------
(* The locks implement FifoLock.                                           *)
LEMMA OwnerIs ==
  ASSUME MutualExclusion, NEW l \in Lock
  PROVE  /\ \A t \in Task : Owns(t, l) => OwnerOf(l) = t
         /\ (\A t \in Task : ~Owns(t, l)) => OwnerOf(l) = NULL
         /\ OwnerOf(l) = NULL => \A t \in Task : ~Owns(t, l)
<1>1. ASSUME NEW t \in Task, Owns(t, l) PROVE OwnerOf(l) = t
  <2>1. \A u \in Task : Owns(u, l) <=> u = t
    BY <1>1 DEF MutualExclusion
  <2> QED
    BY <1>1, <2>1 DEF OwnerOf
<1> QED
  BY <1>1, TaskAssumption DEF OwnerOf

LEMMA NextOwnerIs ==
  ASSUME MutualExclusion', NEW l \in Lock
  PROVE  /\ \A t \in Task : Owns(t, l)' => OwnerOf(l)' = t
         /\ (\A t \in Task : ~Owns(t, l)') => OwnerOf(l)' = NULL
<1>1. ASSUME NEW t \in Task, Owns(t, l)' PROVE OwnerOf(l)' = t
  <2>1. \A u \in Task : Owns(u, l)' <=> u = t
    BY <1>1 DEF MutualExclusion
  <2> QED
    BY <1>1, <2>1 DEF OwnerOf
<1> QED
  BY <1>1 DEF OwnerOf

LEMMA StepFifo ==
  QueueInv /\ QueueInv' /\ [Next]_vars
    => [Fifo!Next]_<<[l \in Lock |-> OwnerOf(l)], [l \in Lock |-> QueueOf(l)]>>
<1> SUFFICES ASSUME QueueInv, QueueInv', [Next]_vars
             PROVE  [Fifo!Next]_<<[l \in Lock |-> OwnerOf(l)], [l \in Lock |-> QueueOf(l)]>>
  OBVIOUS
<1> DEFINE owner == [l \in Lock |-> OwnerOf(l)]
           queue == [l \in Lock |-> QueueOf(l)]
<1>1. Effect
  BY StepEffect DEF QueueInv
<1>2. MutualExclusion /\ MutualExclusion'
  BY DEF QueueInv, LockInv
<1>3. ASSUME \A s \in Task, m \in Lock : Owns(s, m)' <=> Owns(s, m) PROVE owner' = owner
  <2>1. ASSUME NEW l \in Lock PROVE OwnerOf(l)' = OwnerOf(l)
    BY <1>2, <1>3, OwnerIs, NextOwnerIs
  <2> QED
    BY <2>1
<1>4. ASSUME \A m \in Lock : IsNext(QueueOf(m), m) PROVE queue' = queue
  <2>1. ASSUME NEW l \in Lock PROVE QueueOf(l)' = QueueOf(l)
    BY <1>4, NextQueue
  <2> QED
    BY <2>1
<1>5. CASE Stays
  BY <1>3, <1>4, <1>5, QueuesStay DEF Stays
<1>6. ASSUME NEW t \in Task, NEW l \in Lock, Takes(t, l)
      PROVE  Fifo!Take(t, l)
  <2>1. queue' = queue
    BY <1>4, <1>6, QueuesStay DEF Takes
  <2>2. \A s \in Task : ~Owns(s, l)
    BY <1>6 DEF Takes, QueueInv, LockInv, FreeHasNoOwner
  <2>3. \A m \in Lock : OwnerOf(m)' = IF m = l THEN t ELSE OwnerOf(m)
    BY <1>2, <1>6, OwnerIs, NextOwnerIs DEF Takes
  <2>4. owner[l] = NULL /\ owner' = [owner EXCEPT ![l] = t]
    BY <1>2, <2>2, <2>3, OwnerIs
  <2> QED
    BY <2>1, <2>4 DEF Fifo!Take
<1>7. ASSUME NEW t \in Task, NEW l \in Lock, Joins(t, l)
      PROVE  Fifo!Wait(t, l)
  <2>1. owner' = owner
    BY <1>3, <1>7 DEF Joins
  <2>2. owner[l] # NULL
    BY <1>2, <1>7, OwnerIs DEF Joins, QueueInv, LockedHasOwner
  <2>3. \A m \in Lock : QueueOf(m)' = IF m = l THEN Append(QueueOf(l), t) ELSE QueueOf(m)
    BY <1>7, QueueGrows, NextQueue
  <2>4. queue' = [queue EXCEPT ![l] = Append(@, t)]
    BY <2>3
  <2> QED
    BY <2>1, <2>2, <2>4 DEF Fifo!Wait
<1>8. ASSUME NEW t \in Task, NEW l \in Lock, Frees(t, l)
      PROVE  Fifo!GiveUp(t, l)
  <2>1. queue' = queue
    BY <1>4, <1>8, QueuesStay DEF Frees
  <2>2. queue[l] = <<>> /\ owner[l] = t
    BY <1>2, <1>8, OwnerIs, EndsOfList, TaskAssumption DEF Frees, QueueInv, QueuesAreLists
  <2>3. \A m \in Lock : OwnerOf(m)' = IF m = l THEN NULL ELSE OwnerOf(m)
    <3>1. \A s \in Task : Owns(s, l) => s = t
      BY <1>2, <1>8 DEF Frees, MutualExclusion
    <3> QED
      BY <1>2, <1>8, <3>1, OwnerIs, NextOwnerIs DEF Frees
  <2>4. owner' = [owner EXCEPT ![l] = NULL]
    BY <2>3
  <2> QED
    BY <2>1, <2>2, <2>4 DEF Fifo!GiveUp
<1>9. ASSUME NEW t \in Task, NEW l \in Lock, NEW h \in Task, HandsOver(t, l, h)
      PROVE  Fifo!GiveUp(t, l)
  <2>1. queue[l] # <<>> /\ Head(queue[l]) = h
    BY <1>9, QueueShrinks
  <2>2. \A m \in Lock : QueueOf(m)' = IF m = l THEN Tail(QueueOf(l)) ELSE QueueOf(m)
    BY <1>9, QueueShrinks, NextQueue
  <2>3. queue' = [queue EXCEPT ![l] = Tail(@)]
    BY <2>2
  <2>4. owner[l] = t
    BY <1>2, <1>9, OwnerIs DEF HandsOver
  <2>5. \A m \in Lock : OwnerOf(m)' = IF m = l THEN h ELSE OwnerOf(m)
    BY <1>2, <1>9, OwnerIs, NextOwnerIs DEF HandsOver
  <2>6. owner' = [owner EXCEPT ![l] = h]
    BY <2>5
  <2> QED
    BY <2>1, <2>3, <2>4, <2>6 DEF Fifo!GiveUp
<1> QED
  BY <1>1, <1>5, <1>6, <1>7, <1>8, <1>9 DEF Effect, Fifo!Next

(* The locks are FIFO locks: LOCKON, LOCKTEST and LOCKOFF each take effect *)
(* in one step, a waiter keeps its place, and LOCKOFF gives the lock to    *)
(* the task that has waited longest.                                       *)
THEOREM LocksAreFifo == Spec => IsFifoLock
<1>1. Init => Fifo!Init
  <2> SUFFICES ASSUME Init PROVE Fifo!Init
    OBVIOUS
  <2>1. \A l \in Lock : OwnerOf(l) = NULL
    BY DEF Init, TaskInit, LockInit, OwnerOf, Owns, Granted, Waiting, WaitPc
  <2> QED
    BY <2>1, InitQueueInv DEF Fifo!Init
<1>2. QueueInv /\ QueueInv' /\ [Next]_vars
        => [Fifo!Next]_<<[l \in Lock |-> OwnerOf(l)], [l \in Lock |-> QueueOf(l)]>>
  BY StepFifo
<1> QED
  BY <1>1, <1>2, QueueInvariant, PTL DEF Spec, IsFifoLock, Fifo!Spec, Fifo!vars

-----------------------------------------------------------------------------
(* The count of runnable tasks, when TSKSTART created every thread.        *)
LEMMA CountedFinite ==
  /\ IsFiniteSet(Counted) /\ IsFiniteSet(PutBack)
  /\ Cardinality(Counted) \in Nat /\ Cardinality(PutBack) \in Nat
  /\ Cardinality(Counted) + Cardinality(PutBack) <= UINT_MAX
<1>1. Counted \in SUBSET Task /\ PutBack \in SUBSET Task
  BY DEF Counted, PutBack
<1>2. /\ IsFiniteSet(Counted) /\ IsFiniteSet(PutBack)
      /\ Cardinality(Counted) <= Cardinality(Task)
      /\ Cardinality(PutBack) <= Cardinality(Task)
  BY <1>1, TaskAssumption, FS_Subset
<1> QED
  BY <1>2, TaskAssumption, CountAssumption, FS_CardinalityType

(* A step that moves nobody over the edge of the count.                    *)
LEMMA SameCount ==
  ASSUME CountInv, Counted' = Counted, PutBack' = PutBack,
         UNCHANGED <<runnable_tasks, aborted>>, ~aborted,
         \A t \in Task : pc[t] = "check" => pc'[t] = "check" \/ runnable_tasks # 0
  PROVE  CountInv'
<1>1. RunnableCountExact'
  BY DEF CountInv, RunnableCountExact
<1>2. (runnable_tasks = 0 => aborted \/ \E t \in Task : pc[t] = "check")'
  BY DEF CountInv
<1>3. NoFalseDeadlock'
  BY DEF NoFalseDeadlock
<1> QED
  BY <1>1, <1>2, <1>3 DEF CountInv

LEMMA StepCountInv == LockInv /\ CountInv /\ [Next]_vars => CountInv'
<1> SUFFICES ASSUME LockInv, CountInv, [Next]_vars PROVE CountInv'
  OBVIOUS
<1> USE DEF LockInv, TypeOK, TaskTypeOK, LockTypeOK
<1>1. ASSUME NEW t \in Task, NEW l \in Lock,
             lockon_(t, l) \/ locktest_(t, l) \/ lockoff_(t, l)
      PROVE  CountInv'
  <2>1. pc[t] = "user" /\ ~aborted /\ UNCHANGED <<runnable_tasks, aborted>>
    BY <1>1 DEF lockon_, locktest_, lockoff_, MakeCall, InUserCode, ReturnAtOnce,
                EnqueueWaiter, Park, StartWaking
  <2>2. CASE ReturnAtOnce
    <3>1. Counted' = Counted /\ PutBack' = PutBack
      BY <2>2 DEF ReturnAtOnce, Counted, PutBack, Waiting
    <3> QED
      BY <2>1, <2>2, <3>1, SameCount DEF ReturnAtOnce
  <2>3. CASE EnqueueWaiter(t, l)
    <3>1. /\ pc' = [pc EXCEPT ![t] = "dec"]
          /\ mt_state' = [mt_state EXCEPT ![t] = "TS_Lock_Wait"]
          /\ cur' = cur
      BY <2>3 DEF EnqueueWaiter, Park
    <3>2. Counted' = Counted
      BY <2>1, <3>1 DEF Counted
    <3>3. \A u \in Task : pc[u] = "mark" => cur[u] # t
      BY <2>1 DEF WakersWake, WakePc, Waiting, WaitPc
    <3>4. PutBack' = PutBack
      BY <2>1, <3>1, <3>3 DEF PutBack, Waiting, WaitPc
    <3>5. \A s \in Task : pc[s] = "check" => pc'[s] = "check"
      BY <2>1, <3>1
    <3> QED
      BY <2>1, <3>2, <3>4, <3>5, SameCount
  <2>4. CASE StartWaking(t, l, ml_qhead[l], 1)
    <3>1. /\ pc' = [pc EXCEPT ![t] = "inc"]
          /\ mt_state' = mt_state
          /\ cur' = [cur EXCEPT ![t] = ml_qhead[l]]
      BY <2>4 DEF StartWaking
    <3>2. Counted' = Counted /\ PutBack' = PutBack
      BY <2>1, <3>1 DEF Counted, PutBack, Waiting, WaitPc
    <3>3. \A s \in Task : pc[s] = "check" => pc'[s] = "check"
      BY <2>1, <3>1
    <3> QED
      BY <2>1, <3>2, <3>3, SameCount
  <2> QED
    BY <1>1, <2>2, <2>3, <2>4 DEF lockon_, locktest_, lockoff_
<1>2. ASSUME NEW t \in Task, DEC_RUNNABLE_MACT_COUNT(t), UNCHANGED lockVars
      PROVE  CountInv'
  <2>1. /\ pc[t] = "dec" /\ pc' = [pc EXCEPT ![t] = "check"] /\ ~aborted
        /\ runnable_tasks' = Minus1(runnable_tasks)
        /\ UNCHANGED <<mt_state, cur, aborted>>
    BY <1>2 DEF DEC_RUNNABLE_MACT_COUNT
  <2>2. Counted' = Counted \ {t} /\ t \in Counted /\ PutBack' = PutBack
    BY <2>1 DEF Counted, PutBack, Waiting, WaitPc
  <2>3. Cardinality(Counted') = Cardinality(Counted) - 1
    BY <2>2, CountedFinite, FS_RemoveElement
  <2>4. runnable_tasks # 0
    BY <2>2, CountedFinite, FS_EmptySet DEF CountInv, RunnableCountExact
  <2>5. runnable_tasks' = runnable_tasks - 1
    BY <2>1, <2>4 DEF Minus1
  <2>6. RunnableCountExact'
    BY <2>2, <2>3, <2>5, CountedFinite DEF CountInv, RunnableCountExact
  <2>7. pc'[t] = "check" /\ NoFalseDeadlock'
    BY <2>1 DEF NoFalseDeadlock
  <2> QED
    BY <2>6, <2>7 DEF CountInv
<1>3. ASSUME NEW t \in Task, CHECK_FOR_MACT_DEADLOCK(t), UNCHANGED lockVars
      PROVE  CountInv'
  <2>1. /\ pc[t] = "check" /\ ~aborted
        /\ UNCHANGED <<mt_state, cur, runnable_tasks>>
    BY <1>3 DEF CHECK_FOR_MACT_DEADLOCK
  <2>2. CASE runnable_tasks = 0
    <3>1. aborted' = TRUE /\ pc' = pc
      BY <1>3, <2>2 DEF CHECK_FOR_MACT_DEADLOCK
    <3>2. Counted' = Counted /\ PutBack' = PutBack
      BY <2>1, <3>1 DEF Counted, PutBack, Waiting
    <3>3. Counted = {} /\ PutBack = {}
      BY <2>2, CountedFinite, FS_EmptySet DEF CountInv, RunnableCountExact
    <3>4. Stuck'
      BY <2>1, <3>1, <3>3 DEF Stuck, Counted, PutBack, Waiting, WaitPc
    <3> QED
      BY <2>1, <3>1, <3>2, <3>4 DEF CountInv, RunnableCountExact, NoFalseDeadlock
  <2>3. CASE runnable_tasks # 0
    <3>1. aborted' = aborted /\ pc' = [pc EXCEPT ![t] = "spin"]
      BY <1>3, <2>3 DEF CHECK_FOR_MACT_DEADLOCK
    <3>2. Counted' = Counted /\ PutBack' = PutBack
      BY <2>1, <3>1 DEF Counted, PutBack, Waiting, WaitPc
    <3> QED
      BY <2>1, <2>3, <3>1, <3>2, SameCount
  <2> QED
    BY <2>2, <2>3
<1>4. ASSUME NEW t \in Task, lockon_return(t) PROVE CountInv'
  <2>1. /\ pc[t] = "spin" /\ pc' = [pc EXCEPT ![t] = "user"] /\ ~aborted
        /\ mt_state[t] = "TS_Running"
        /\ UNCHANGED <<mt_state, cur, runnable_tasks, aborted>>
    BY <1>4 DEF lockon_return, SeesItselfRunning
  <2>2. Counted' = Counted \cup {t} /\ t \notin Counted
    BY <2>1 DEF Counted
  <2>3. PutBack' = PutBack \ {t} /\ t \in PutBack
    BY <2>1 DEF PutBack, Waiting, WaitPc
  <2>4. /\ Cardinality(Counted') = Cardinality(Counted) + 1
        /\ Cardinality(PutBack') = Cardinality(PutBack) - 1
        /\ Cardinality(PutBack) # 0
    BY <2>2, <2>3, CountedFinite, FS_AddElement, FS_RemoveElement, FS_EmptySet
  <2>5. RunnableCountExact' /\ runnable_tasks # 0
    BY <2>1, <2>4, CountedFinite, SMTT(30) DEF CountInv, RunnableCountExact
  <2> QED
    BY <2>1, <2>5 DEF CountInv, NoFalseDeadlock
<1>5. ASSUME NEW t \in Task, INC_RUNNABLE_MACT_COUNT(t), UNCHANGED lockVars
      PROVE  CountInv'
  <2>1. /\ pc[t] = "inc" /\ pc' = [pc EXCEPT ![t] = "mark"] /\ ~aborted
        /\ runnable_tasks' = Plus(runnable_tasks, release_count[t])
        /\ UNCHANGED <<mt_state, cur, obj, aborted>>
    BY <1>5 DEF INC_RUNNABLE_MACT_COUNT
  <2>2. PICK h \in Task : /\ cur[t] = h /\ release_count[t] = 1 /\ Waiting(h)
                          /\ mt_wait_obj[h] = obj[t]
                          /\ mt_state[h] = "TS_Lock_Wait"
    BY <2>1 DEF WakersWake, WakePc
  <2>3. \A u \in Task : pc[u] = "mark" => cur[u] # h
    BY <2>1, <2>2 DEF WakersWake, WakePc
  <2>4. Counted' = Counted
    BY <2>1 DEF Counted
  <2>5. h \notin PutBack
    BY <2>2, <2>3 DEF PutBack
  <2>6. PutBack' = PutBack \cup {h}
    <3>1. \A s \in Task : Waiting(s)' <=> Waiting(s)
      BY <2>1 DEF Waiting, WaitPc
    <3> QED
      BY <2>1, <2>2, <3>1 DEF PutBack
  <2>7. Cardinality(PutBack') = Cardinality(PutBack) + 1
    BY <2>5, <2>6, CountedFinite, FS_AddElement
  <2>8. Cardinality(Counted') + Cardinality(PutBack') <= UINT_MAX
    <3>1. PutBack \cup {h} \in SUBSET Task /\ Counted \in SUBSET Task
      BY DEF PutBack, Counted
    <3>2. /\ Cardinality(PutBack \cup {h}) <= Cardinality(Task)
          /\ Cardinality(Counted) <= Cardinality(Task)
      BY <3>1, TaskAssumption, FS_Subset
    <3> QED
      BY <2>4, <2>6, <2>7, <3>2, CountedFinite, OneInRange, CountAssumption
  <2>9. runnable_tasks' = runnable_tasks + 1
    BY <2>1, <2>2, <2>4, <2>7, <2>8, CountedFinite, CountAssumption
    DEF CountInv, RunnableCountExact, Plus
  <2>10. RunnableCountExact' /\ runnable_tasks' # 0
    BY <2>4, <2>7, <2>9, CountedFinite DEF CountInv, RunnableCountExact
  <2> QED
    BY <2>1, <2>10 DEF CountInv, NoFalseDeadlock
<1>6. ASSUME NEW t \in Task, lockoff_wake(t) PROVE CountInv'
  <2>1. PICK h \in Task : cur[t] = h
    BY <1>6 DEF lockoff_wake, Wake
  <2>2. /\ pc[t] = "mark" /\ pc' = [pc EXCEPT ![t] = "user"] /\ ~aborted
        /\ mt_state' = [mt_state EXCEPT ![h] = "TS_Running"]
        /\ cur' = [cur EXCEPT ![t] = NULL]
        /\ UNCHANGED <<runnable_tasks, aborted>>
    BY <1>6, <2>1 DEF lockoff_wake, Wake, ForgetLocals
  <2>3. Waiting(h)
    BY <2>1, <2>2 DEF WakersWake, WakePc
  <2>4. Counted' = Counted
    BY <2>2 DEF Counted
  <2>5. PutBack' = PutBack
    <3>1. \A s \in Task : Waiting(s)' <=> Waiting(s)
      BY <2>2 DEF Waiting, WaitPc
    <3> QED
      BY <2>1, <2>2, <2>3, <3>1 DEF PutBack
  <2>6. \A s \in Task : pc[s] = "check" => pc'[s] = "check"
    BY <2>2
  <2> QED
    BY <2>2, <2>4, <2>5, <2>6, SameCount
<1>7. ASSUME UNCHANGED vars PROVE CountInv'
  <2>1. UNCHANGED <<pc, cur, mt_state, runnable_tasks, aborted>>
    BY <1>7 DEF vars, taskVars
  <2>2. Counted' = Counted /\ PutBack' = PutBack /\ Stuck' = Stuck
    BY <2>1 DEF Counted, PutBack, Waiting, Stuck
  <2> QED
    BY <2>1, <2>2 DEF CountInv, RunnableCountExact, NoFalseDeadlock
<1> QED
  BY <1>1, <1>2, <1>3, <1>4, <1>5, <1>6, <1>7 DEF Next, InRuntime, Unlock

(* Every thread is a macrotask: all are counted at the start.              *)
LEMMA InitCountInv == ASSUME Autotask = {} PROVE Init => CountInv
<1> SUFFICES ASSUME Init PROVE CountInv
  OBVIOUS
<1>1. /\ \A t \in Task : pc[t] = "user"
      /\ runnable_tasks = Cardinality(Task) /\ aborted = FALSE
  BY DEF Init, TaskInit
<1>2. Counted = Task /\ PutBack = {}
  BY <1>1 DEF Counted, PutBack, Waiting, WaitPc
<1>3. Cardinality(PutBack) = 0
  BY <1>2, FS_EmptySet
<1> QED
  BY <1>1, <1>2, <1>3, OneInRange DEF CountInv, RunnableCountExact, NoFalseDeadlock

LEMMA CountInvariant == ASSUME Autotask = {} PROVE Spec => [](LockInv /\ CountInv)
<1>1. Init => LockInv /\ CountInv
  BY InitTypeOK, InitShape, InitCountInv DEF LockInv, Shape
<1>2. LockInv /\ CountInv /\ [Next]_vars => (LockInv /\ CountInv)'
  BY StepLockInv, StepCountInv
<1> QED
  BY <1>1, <1>2, PTL DEF Spec

(* The count that every operation changes outside the lock's semaphore is  *)
(* exact at each moment, when TSKSTART created every thread: no order of   *)
(* increments, wake-ups and decrements loses or invents a task.            *)
THEOREM CountIsExact == ASSUME Autotask = {} PROVE Spec => []RunnableCountExact
<1>1. CountInv => RunnableCountExact
  BY DEF CountInv
<1> QED
  BY <1>1, CountInvariant, PTL

(* The runtime never gives up a program of macrotasks that could go on     *)
(* (mactcutil.c, the first look before the spin).                          *)
THEOREM NoFalseAlarm == ASSUME Autotask = {} PROVE Spec => []NoFalseDeadlock
<1>1. CountInv => NoFalseDeadlock
  BY DEF CountInv
<1> QED
  BY <1>1, CountInvariant, PTL

(* And it never lets a program of macrotasks that all sleep spin for ever  *)
(* without a report: somebody's look at the count found it at zero.        *)
THEOREM HangsReported == ASSUME Autotask = {} PROVE Spec => []HangIsReported
<1>1. ASSUME LockInv, CountInv,
             \A t \in Task : pc[t] = "spin" /\ mt_state[t] # "TS_Running"
      PROVE  aborted
  <2>1. Counted = {} /\ PutBack = {}
    BY <1>1 DEF Counted, PutBack
  <2>2. runnable_tasks = 0
    BY <1>1, <2>1, FS_EmptySet DEF CountInv, RunnableCountExact
  <2> QED
    BY <1>1, <2>2 DEF CountInv
<1>2. LockInv /\ CountInv => HangIsReported
  BY <1>1 DEF HangIsReported
<1> QED
  BY <1>2, CountInvariant, PTL
=============================================================================
