------------------------------ MODULE MactTask ------------------------------
(***************************************************************************)
(* What every operation of the macrotasking runtime shares                 *)
(* (libu/multi/posix): the task descriptors, the count of runnable tasks,  *)
(* and the two halves of every blocking call.                              *)
(*                                                                         *)
(*   - a task that has to wait appends its descriptor to a queue, then,    *)
(*     outside the queue's semaphore, takes itself off the runnable count  *)
(*     (DEC_RUNNABLE_MACT_COUNT), looks for deadlock                       *)
(*     (CHECK_FOR_MACT_DEADLOCK) and spins until somebody has set its      *)
(*     mt_state to TS_Running;                                             *)
(*   - a task that wakes others first adds them to the runnable count      *)
(*     (INC_RUNNABLE_MACT_COUNT), then sets their mt_state.                *)
(*                                                                         *)
(* A task is identified with its descriptor.  The modules of the locks,    *)
(* the events and the barriers add the objects and their semaphores.       *)
(*                                                                         *)
(* An operator named X_Y, with X the name of the operator below it, is a   *)
(* mutation of X: the model checker shows which property fails with it.    *)
(***************************************************************************)
EXTENDS Naturals, FiniteSets, Chains

CONSTANTS
  Task,        \* the threads that call the runtime
  Autotask,    \* those that TSKSTART did not create: _mact_find_self meets them late
  NULL,        \* the null pointer
  UINT_MAX,    \* the largest unsigned int
  MaxCalls     \* bound: the calls of each task (LOCKOFF is not counted)

ASSUME TaskAssumption ==
  /\ IsFiniteSet(Task) /\ Task # {}
  /\ Autotask \subseteq Task
  /\ NULL \notin Task

ASSUME CountAssumption ==
  /\ UINT_MAX \in Nat
  /\ MaxCalls \in Nat
  /\ 2 * Cardinality(Task) <= UINT_MAX

VARIABLES
  pc,             \* where each task is
  calls,          \* calls made so far, for MaxCalls
  obj,            \* the object whose semaphore a waker holds (local of its call)
  cur,            \* a waker's local "mt": the next descriptor to wake
  release_count,  \* a waker's local: how many tasks it will release
  mt_state, mt_wait_obj, mt_wait_link,   \* fields of the descriptors
  runnable_tasks, \* _mact_runnable_tasks
  aborted         \* the program has reported deadlock and called abort()

taskVars == <<pc, calls, obj, cur, release_count, mt_state, mt_wait_obj,
              mt_wait_link, runnable_tasks, aborted>>

TaskState == {"TS_Nonexistent", "TS_Ready", "TS_Running", "TS_Lock_Wait",
              "TS_Event_Wait", "TS_Bar_Wait", "TS_Task_Wait", "TS_Complete"}

(* "user": in the program's own code.  A waiter passes "dec", "check" and  *)
(* "spin"; a waker passes "inc", "mark" and (when it walks a whole queue)  *)
(* "next".                                                                 *)
Pc == {"user", "dec", "check", "spin", "inc", "mark", "next"}
WaitPc == {"dec", "check", "spin"}
WakePc == {"inc", "mark", "next"}

TaskTypeOK(Object) ==
  /\ pc \in [Task -> Pc]
  /\ calls \in [Task -> 0 .. MaxCalls]
  /\ obj \in [Task -> Object \cup {NULL}]
  /\ cur \in [Task -> Task \cup {NULL}]
  /\ release_count \in [Task -> 0 .. UINT_MAX]
  /\ mt_state \in [Task -> TaskState]
  /\ mt_wait_obj \in [Task -> Object \cup {NULL}]
  /\ mt_wait_link \in [Task -> Task \cup {NULL}]
  /\ runnable_tasks \in 0 .. UINT_MAX
  /\ aborted \in BOOLEAN

-----------------------------------------------------------------------------
(* A thread the runtime has not met has no descriptor yet, and is not in   *)
(* the count: the count starts with the macrotasks only.                   *)
TaskInit ==
  /\ pc = [t \in Task |-> "user"]
  /\ calls = [t \in Task |-> 0]
  /\ obj = [t \in Task |-> NULL]
  /\ cur = [t \in Task |-> NULL]
  /\ release_count = [t \in Task |-> 0]
  /\ mt_state = [t \in Task |-> IF t \in Autotask THEN "TS_Nonexistent"
                                                  ELSE "TS_Running"]
  /\ mt_wait_obj = [t \in Task |-> NULL]
  /\ mt_wait_link = [t \in Task |-> NULL]
  /\ runnable_tasks = Cardinality(Task \ Autotask)
  /\ aborted = FALSE

(* The user's program makes a call: finitely many, by MaxCalls.            *)
InUserCode(t) == ~aborted /\ pc[t] = "user"

MakeCall(t) ==
  /\ InUserCode(t)
  /\ calls[t] < MaxCalls
  /\ calls' = [calls EXCEPT ![t] = @ + 1]

(* Unsigned arithmetic on the counter.                                     *)
Plus(n, k) == IF n + k > UINT_MAX THEN n + k - UINT_MAX - 1 ELSE n + k
Minus1(n) == IF n = 0 THEN UINT_MAX ELSE n - 1

-----------------------------------------------------------------------------
(* The waiter's half.                                                      *)

(* Under the object's semaphore: my descriptor goes to the queue's tail.   *)
(* The writes are in the order of the code, so that a descriptor that is   *)
(* its own predecessor ends up linked to itself.                           *)
LinkedAtTail_KeepsOldLink(t, head, tail) ==
  IF head = NULL THEN mt_wait_link ELSE [mt_wait_link EXCEPT ![tail] = t]

LinkedAtTail(t, head, tail) ==
  IF head = NULL THEN [mt_wait_link EXCEPT ![t] = NULL]
                 ELSE [mt_wait_link EXCEPT ![t] = NULL, ![tail] = t]

Park(t, o, state, head, tail) ==
  /\ mt_wait_obj' = [mt_wait_obj EXCEPT ![t] = o]
  /\ mt_wait_link' = LinkedAtTail(t, head, tail)
  /\ mt_state' = [mt_state EXCEPT ![t] = state]
  /\ pc' = [pc EXCEPT ![t] = "dec"]
  /\ UNCHANGED <<obj, cur, release_count, runnable_tasks, aborted>>

(* A blocking call that need not block.                                    *)
ReturnAtOnce ==
  UNCHANGED <<pc, obj, cur, release_count, mt_state, mt_wait_obj, mt_wait_link,
              runnable_tasks, aborted>>

DEC_AfterTheCheck(t) ==
  /\ ~aborted
  /\ pc[t] = "dec"
  /\ IF runnable_tasks = 0
       THEN aborted' = TRUE /\ UNCHANGED <<pc, runnable_tasks>>
       ELSE /\ runnable_tasks' = runnable_tasks - 1
            /\ pc' = [pc EXCEPT ![t] = "spin"]
            /\ UNCHANGED aborted
  /\ UNCHANGED <<calls, obj, cur, release_count, mt_state, mt_wait_obj,
                 mt_wait_link>>

DEC_RUNNABLE_MACT_COUNT(t) ==
  /\ ~aborted
  /\ pc[t] = "dec"
  /\ runnable_tasks' = Minus1(runnable_tasks)
  /\ pc' = [pc EXCEPT ![t] = "check"]
  /\ UNCHANGED <<calls, obj, cur, release_count, mt_state, mt_wait_obj,
                 mt_wait_link, aborted>>

CHECK_FOR_MACT_DEADLOCK(t) ==
  /\ ~aborted
  /\ pc[t] = "check"
  /\ IF runnable_tasks = 0
       THEN aborted' = TRUE /\ UNCHANGED pc
       ELSE pc' = [pc EXCEPT ![t] = "spin"] /\ UNCHANGED aborted
  /\ UNCHANGED <<calls, obj, cur, release_count, mt_state, mt_wait_obj,
                 mt_wait_link, runnable_tasks>>

(* The spin loop sees my state change, and the call returns.               *)
SeesItselfRunning(t) ==
  /\ ~aborted
  /\ pc[t] = "spin"
  /\ mt_state[t] = "TS_Running"
  /\ pc' = [pc EXCEPT ![t] = "user"]
  /\ UNCHANGED <<calls, obj, cur, release_count, mt_state, mt_wait_obj,
                 mt_wait_link, runnable_tasks, aborted>>

-----------------------------------------------------------------------------
(* The waker's half, under the semaphore of obj[t].                        *)

StartWaking_SkipsIncrement(t, o, first, count) ==
  /\ obj' = [obj EXCEPT ![t] = o]
  /\ cur' = [cur EXCEPT ![t] = first]
  /\ release_count' = [release_count EXCEPT ![t] = count]
  /\ pc' = [pc EXCEPT ![t] = "mark"]
  /\ UNCHANGED <<mt_state, mt_wait_obj, mt_wait_link, runnable_tasks, aborted>>

StartWaking(t, o, first, count) ==
  /\ obj' = [obj EXCEPT ![t] = o]
  /\ cur' = [cur EXCEPT ![t] = first]
  /\ release_count' = [release_count EXCEPT ![t] = count]
  /\ pc' = [pc EXCEPT ![t] = "inc"]
  /\ UNCHANGED <<mt_state, mt_wait_obj, mt_wait_link, runnable_tasks, aborted>>

INC_CountsOneTooMany(t) ==
  /\ ~aborted
  /\ pc[t] = "inc"
  /\ runnable_tasks' = Plus(runnable_tasks, release_count[t] + 1)
  /\ pc' = [pc EXCEPT ![t] = "mark"]
  /\ UNCHANGED <<calls, obj, cur, release_count, mt_state, mt_wait_obj,
                 mt_wait_link, aborted>>

INC_RUNNABLE_MACT_COUNT(t) ==
  /\ ~aborted
  /\ pc[t] = "inc"
  /\ runnable_tasks' = Plus(runnable_tasks, release_count[t])
  /\ pc' = [pc EXCEPT ![t] = "mark"]
  /\ UNCHANGED <<calls, obj, cur, release_count, mt_state, mt_wait_obj,
                 mt_wait_link, aborted>>

Wake_Forgets(t, next) ==
  /\ ~aborted
  /\ pc[t] = "mark"
  /\ cur[t] # NULL
  /\ pc' = [pc EXCEPT ![t] = next]
  /\ UNCHANGED <<calls, mt_state, mt_wait_obj, mt_wait_link, runnable_tasks, aborted>>

(* mt->mt_state = TS_Running, and on to the next control point.            *)
Wake(t, next) ==
  /\ ~aborted
  /\ pc[t] = "mark"
  /\ cur[t] # NULL
  /\ mt_state' = [mt_state EXCEPT ![cur[t]] = "TS_Running"]
  /\ pc' = [pc EXCEPT ![t] = next]
  /\ UNCHANGED <<calls, mt_wait_obj, mt_wait_link, runnable_tasks, aborted>>

(* mt = mt->mt_wait_link: the link is read after the descriptor's task has *)
(* been let go, so that it may be the link of the task's next wait.        *)
FollowLink(t) ==
  /\ ~aborted
  /\ pc[t] = "next"
  /\ cur' = [cur EXCEPT ![t] = mt_wait_link[cur[t]]]
  /\ pc' = [pc EXCEPT ![t] = "mark"]
  /\ UNCHANGED <<calls, obj, release_count, mt_state, mt_wait_obj,
                 mt_wait_link, runnable_tasks, aborted>>

(* The waker's call returns, and its locals are gone.                      *)
ForgetLocals(t) ==
  /\ obj' = [obj EXCEPT ![t] = NULL]
  /\ cur' = [cur EXCEPT ![t] = NULL]
  /\ release_count' = [release_count EXCEPT ![t] = 0]

EndOfWalk(t) ==
  /\ ~aborted
  /\ pc[t] = "mark"
  /\ cur[t] = NULL
  /\ pc' = [pc EXCEPT ![t] = "user"]
  /\ ForgetLocals(t)
  /\ UNCHANGED <<calls, mt_state, mt_wait_obj, mt_wait_link, runnable_tasks,
                 aborted>>

(* The descriptors a walk from h meets, and whether it ever comes to an    *)
(* end.  As many steps as there are descriptors are enough.                *)
Reached(h) == Met(h, mt_wait_link, NULL, Cardinality(Task))

Chain(h) == Reached(h) \ {NULL}
WalkEnds(h) == NULL \in Reached(h)

-----------------------------------------------------------------------------
(* Notions the properties are stated in.                                   *)

(* t is inside a call that waits.                                          *)
Waiting(t) == pc[t] \in WaitPc

(* No task is left that could wake another one.                            *)
Stuck == \A t \in Task : pc[t] \in {"check", "spin"} /\ mt_state[t] # "TS_Running"

(* No false alarm: the runtime reports deadlock only when every task,      *)
(* those it has never met included, waits and nobody is left to wake one.  *)
(* mactcutil.c gives the program up on one unsynchronised look at a count  *)
(* that other tasks are changing; what protects it is the order of the     *)
(* increment, the wake-up and the decrement in every operation.            *)
NoFalseDeadlock == aborted => Stuck

(* No silent hang: when the last task goes to sleep, somebody's check sees *)
(* the count at zero.                                                      *)
HangIsReported ==
  (\A t \in Task : pc[t] = "spin" /\ mt_state[t] # "TS_Running") => aborted
=============================================================================
