---------------------------- MODULE Macrotasking -----------------------------
(***************************************************************************)
(* Programs that use locks, events and barriers together, and that create  *)
(* and release them while they run.  LOCKASGN, EVASGN and BARASGN allocate *)
(* an object and store its address in a variable of the program; every     *)
(* other call reads that variable first; LOCKREL, EVREL and BARREL look at *)
(* the object, give its memory back and clear the variable.  None of this  *)
(* is under a semaphore.                                                   *)
(*                                                                         *)
(* Here a program is one variable of each kind, which its tasks share, and *)
(* for each task the calls it makes, in order.  The calls on an object are *)
(* those of MactLock, MactEvent and MactBarrier, grain included: the last  *)
(* writes of a call and the release of the semaphore are one step.         *)
(***************************************************************************)
EXTENDS MactTask, Sequences

CONSTANTS
  Lock, Event, Barrier,  \* the memory malloc has for each
  Counts,                \* the counts a barrier may be assigned with
  Programs               \* the programs: for each task, its sequence of calls

ASSUME ObjectAssumption ==
  /\ NULL \notin Lock \cup Event \cup Barrier
  /\ Lock \cap Event = {} /\ Lock \cap Barrier = {} /\ Event \cap Barrier = {}
  /\ Counts \subseteq 0 .. UINT_MAX

ASSUME ProgramsAssumption == Programs \subseteq [Task -> Seq(STRING)]

VARIABLES
  ml_state, ml_qhead, ml_qtail, ml_wcount, ml_sem, held,
  me_state, me_qhead, me_qtail, me_wcount, me_sem,
  mb_ocount, mb_ncount, mb_qhead, mb_qtail, mb_sem,
  name,       \* the program's variables: the address of an object, or zero
  allocated,  \* the objects that malloc has handed out
  program,    \* the calls each task has still to make
  call,       \* how far each task is in a call whose effect is yet to come
  addr        \* local of that call: the address it has read from the variable

Locks == INSTANCE MactLock
Events == INSTANCE MactEvent
Barriers == INSTANCE MactBarrier

lockVars == <<ml_state, ml_qhead, ml_qtail, ml_wcount, ml_sem, held>>
eventVars == <<me_state, me_qhead, me_qtail, me_wcount, me_sem>>
barrierVars == <<mb_ocount, mb_ncount, mb_qhead, mb_qtail, mb_sem>>
objectVars == <<lockVars, eventVars, barrierVars>>
nameVars == <<name, allocated, program, call, addr>>
vars == <<taskVars, objectVars, nameVars>>

Object == Lock \cup Event \cup Barrier

(* An assignment is given the value it expects in the variable, here zero, *)
(* or ("_ANYWAY") is not; BARASGN takes none.                              *)
Assign == {"LOCKASGN", "LOCKASGN_ANYWAY", "EVASGN", "EVASGN_ANYWAY", "BARASGN"}
Release == {"LOCKREL", "EVREL", "BARREL"}
OnLock == {"LOCKON", "LOCKOFF", "LOCKTEST"}
OnEvent == {"EVWAIT", "EVPOST", "EVCLEAR"}
OnBarrier == {"BARSYNC"}
Use == OnLock \cup OnEvent \cup OnBarrier

Kind == {"lock", "event", "barrier"}
KindOf(op) ==
  CASE op \in OnLock \cup {"LOCKASGN", "LOCKASGN_ANYWAY", "LOCKREL"} -> "lock"
    [] op \in OnEvent \cup {"EVASGN", "EVASGN_ANYWAY", "EVREL"} -> "event"
    [] op \in OnBarrier \cup {"BARASGN", "BARREL"} -> "barrier"

Init ==
  /\ TaskInit /\ Locks!LockInit /\ Events!EventInit /\ Barriers!BarrierInit
  /\ name = [k \in Kind |-> NULL]
  /\ allocated = {}
  /\ program \in Programs
  /\ call = [t \in Task |-> "none"]
  /\ addr = [t \in Task |-> NULL]

-----------------------------------------------------------------------------
(* A release that finds its object in use calls abort().                   *)
Refused(t) == call[t] = "refused"
Running == ~aborted /\ \A t \in Task : ~Refused(t)

Wants(t, ops) ==
  /\ Running
  /\ pc[t] = "user"
  /\ call[t] = "none"
  /\ program[t] # <<>>
  /\ Head(program[t]) \in ops

ItsName(t) == name[KindOf(Head(program[t]))]

(* The call that t has been making has had its effect.                     *)
Done(t) ==
  /\ program' = [program EXCEPT ![t] = Tail(@)]
  /\ call' = [call EXCEPT ![t] = "none"]
  /\ addr' = [addr EXCEPT ![t] = NULL]

(* lock = *name, and its like: the first thing a call does.  Programs use  *)
(* variables that have been assigned.                                      *)
ReadName(t) ==
  /\ Wants(t, Use)
  /\ ItsName(t) # NULL
  /\ Head(program[t]) = "LOCKOFF" => held[t] # {}
  /\ call' = [call EXCEPT ![t] = Head(program[t])]
  /\ addr' = [addr EXCEPT ![t] = ItsName(t)]
  /\ UNCHANGED <<taskVars, objectVars, name, allocated, program>>

(* LOCKTEST has not got the lock: there is nothing to unlock.              *)
SkipUnlock(t) ==
  /\ Wants(t, {"LOCKOFF"})
  /\ held[t] = {}
  /\ Done(t)
  /\ UNCHANGED <<taskVars, objectVars, name, allocated>>

(* The program waits until every other task has made its calls or sleeps.  *)
AtRest(u) ==
  \/ call[u] = "none" /\ pc[u] = "user" /\ program[u] = <<>>
  \/ pc[u] = "spin" /\ mt_state[u] # "TS_Running"

Join(t) ==
  /\ Wants(t, {"join"})
  /\ \A u \in Task \ {t} : AtRest(u)
  /\ Done(t)
  /\ UNCHANGED <<taskVars, objectVars, name, allocated>>

-----------------------------------------------------------------------------
(* The look of an assignment at the variable.                              *)
AlreadyAssigned_Never(t) == FALSE

AlreadyAssigned(t) ==
  Head(program[t]) \in {"LOCKASGN", "EVASGN"} /\ ItsName(t) # NULL

LookAtName(t) ==
  /\ Wants(t, Assign)
  /\ IF AlreadyAssigned(t)
       THEN Done(t)
       ELSE call' = [call EXCEPT ![t] = "create"] /\ UNCHANGED <<program, addr>>
  /\ UNCHANGED <<taskVars, objectVars, name, allocated>>

(* The new object, whose fields nobody else can see until its address is   *)
(* stored.                                                                 *)
StoreNew(t, kind, o) ==
  /\ Running
  /\ call[t] = "create"
  /\ KindOf(Head(program[t])) = kind
  /\ o \notin allocated
  /\ allocated' = allocated \cup {o}
  /\ name' = [name EXCEPT ![kind] = o]
  /\ Done(t)
  /\ UNCHANGED taskVars

_mact_vararg_lockasgn(t, l) ==
  /\ StoreNew(t, "lock", l)
  /\ ml_state' = [ml_state EXCEPT ![l] = "LS_Unlocked"]
  /\ ml_qhead' = [ml_qhead EXCEPT ![l] = NULL]
  /\ ml_qtail' = [ml_qtail EXCEPT ![l] = NULL]
  /\ ml_wcount' = [ml_wcount EXCEPT ![l] = 0]
  /\ ml_sem' = [ml_sem EXCEPT ![l] = NULL]
  /\ UNCHANGED <<held, eventVars, barrierVars>>

_mact_vararg_evasgn(t, e) ==
  /\ StoreNew(t, "event", e)
  /\ me_state' = [me_state EXCEPT ![e] = "ES_Cleared"]
  /\ me_qhead' = [me_qhead EXCEPT ![e] = NULL]
  /\ me_qtail' = [me_qtail EXCEPT ![e] = NULL]
  /\ me_wcount' = [me_wcount EXCEPT ![e] = 0]
  /\ me_sem' = [me_sem EXCEPT ![e] = NULL]
  /\ UNCHANGED <<lockVars, barrierVars>>

barasgn_(t, b) ==
  /\ StoreNew(t, "barrier", b)
  /\ \E value \in Counts :
       /\ mb_ocount' = [mb_ocount EXCEPT ![b] = value]
       /\ mb_ncount' = [mb_ncount EXCEPT ![b] = value]
  /\ mb_qhead' = [mb_qhead EXCEPT ![b] = NULL]
  /\ mb_qtail' = [mb_qtail EXCEPT ![b] = NULL]
  /\ mb_sem' = [mb_sem EXCEPT ![b] = NULL]
  /\ UNCHANGED <<lockVars, eventVars>>

-----------------------------------------------------------------------------
(* What the releases take for an object in use: LOCKREL a lock that is     *)
(* locked, EVREL and BARREL one that "tasks are waiting on".  EVREL reads  *)
(* the state and then the queue: here nobody posts, clears or waits        *)
(* between the two reads.                                                  *)
InUse_OnlyIfAwaited(o) ==
  \/ o \in Lock /\ ml_qhead[o] # NULL
  \/ o \in Event /\ me_qhead[o] # NULL
  \/ o \in Barrier /\ mb_qhead[o] # NULL
InUse_IfCleared(o) ==
  \/ o \in Lock /\ ml_state[o] = "LS_Locked"
  \/ o \in Event /\ me_state[o] = "ES_Cleared"
  \/ o \in Barrier /\ mb_ncount[o] # mb_ocount[o]

InUse(o) ==
  \/ o \in Lock /\ ml_state[o] = "LS_Locked"
  \/ o \in Event /\ me_state[o] = "ES_Cleared" /\ me_qhead[o] # NULL
  \/ o \in Barrier /\ mb_ncount[o] # mb_ocount[o]

LookAtObject(t) ==
  /\ Wants(t, Release)
  /\ ItsName(t) # NULL
  /\ call' = [call EXCEPT ![t] = IF InUse(ItsName(t)) THEN "refused" ELSE "free"]
  /\ addr' = [addr EXCEPT ![t] = ItsName(t)]
  /\ UNCHANGED <<taskVars, objectVars, name, allocated, program>>

Cleared_Not(kind) == name

Cleared(kind) == [name EXCEPT ![kind] = NULL]

Free(t) ==
  /\ Running
  /\ call[t] = "free"
  /\ allocated' = allocated \ {ItsName(t)}
  /\ name' = Cleared(KindOf(Head(program[t])))
  /\ Done(t)
  /\ UNCHANGED <<taskVars, objectVars>>

-----------------------------------------------------------------------------
(* The call on the object whose address has been read.                     *)
UseLock(t) ==
  /\ Running
  /\ \/ call[t] = "LOCKON" /\ Locks!lockon_(t, addr[t])
     \/ call[t] = "LOCKOFF" /\ Locks!lockoff_(t, addr[t])
     \/ call[t] = "LOCKTEST" /\ Locks!locktest_(t, addr[t])
  /\ Done(t)
  /\ UNCHANGED <<eventVars, barrierVars, name, allocated>>

UseEvent(t) ==
  /\ Running
  /\ \/ call[t] = "EVWAIT" /\ Events!evwait_(t, addr[t])
     \/ call[t] = "EVPOST" /\ Events!evpost_(t, addr[t])
     \/ call[t] = "EVCLEAR" /\ Events!evclear_(t, addr[t])
  /\ Done(t)
  /\ UNCHANGED <<lockVars, barrierVars, name, allocated>>

UseBarrier(t) ==
  /\ Running
  /\ call[t] = "BARSYNC"
  /\ Barriers!barsync_(t, addr[t]) \/ Barriers!barsync_open(t, addr[t])
  /\ Done(t)
  /\ UNCHANGED <<lockVars, eventVars, name, allocated>>

(* What a task does once it is inside such a call.                         *)
InRuntime(t) ==
  /\ Running
  /\ \/ DEC_RUNNABLE_MACT_COUNT(t) /\ UNCHANGED objectVars
     \/ CHECK_FOR_MACT_DEADLOCK(t) /\ UNCHANGED objectVars
     \/ INC_RUNNABLE_MACT_COUNT(t) /\ UNCHANGED objectVars
     \/ FollowLink(t) /\ UNCHANGED objectVars
     \/ /\ Locks!lockon_return(t) \/ Locks!lockoff_wake(t)
        /\ UNCHANGED <<eventVars, barrierVars>>
     \/ /\ Events!evwait_return(t) \/ Events!evpost_wake(t) \/ Events!evpost_end(t)
        /\ UNCHANGED <<lockVars, barrierVars>>
     \/ /\ \/ Barriers!barsync_return(t)
           \/ Barriers!barsync_wake(t)
           \/ Barriers!barsync_close(t)
        /\ UNCHANGED <<lockVars, eventVars>>
  /\ UNCHANGED nameVars

Next ==
  \E t \in Task :
    \/ LookAtName(t)
    \/ \E l \in Lock : _mact_vararg_lockasgn(t, l)
    \/ \E e \in Event : _mact_vararg_evasgn(t, e)
    \/ \E b \in Barrier : barasgn_(t, b)
    \/ ReadName(t)
    \/ UseLock(t) \/ UseEvent(t) \/ UseBarrier(t)
    \/ InRuntime(t)
    \/ LookAtObject(t) \/ Free(t)
    \/ SkipUnlock(t) \/ Join(t)

Spec == Init /\ [][Next]_vars

-----------------------------------------------------------------------------
TypeOK ==
  /\ TaskTypeOK(Object)
  /\ Locks!LockTypeOK /\ Events!EventTypeOK /\ Barriers!BarrierTypeOK
  /\ allocated \subseteq Object
  /\ name \in [Kind -> allocated \cup {NULL}]
  /\ call \in [Task -> Use \cup {"none", "create", "free", "refused"}]
  /\ addr \in [Task -> Object \cup {NULL}]

(* The objects that t is inside of: whose address it has read, whose       *)
(* semaphore it holds, in whose queue it waits.                            *)
Inside(t) ==
  (IF call[t] = "none" THEN {} ELSE {addr[t]})
    \cup (IF pc[t] \in WakePc THEN {obj[t]} ELSE {})
    \cup (IF Waiting(t) THEN {mt_wait_obj[t]} ELSE {})

(* What the runtime leaves to the program, which Orderly sums up. A task   *)
(* that has been woken waits again, before its waker has read its link,    *)
(* only if it was the last to be woken, and nobody queues behind it        *)
(* meanwhile; a release that goes through, or that looks at a barrier,     *)
(* finds no other task inside a call on its object, except asleep; and an  *)
(* assignment finds nobody inside of the object that its variable has      *)
(* stood for: LOCKASGN and EVASGN, called again for an object in use,      *)
(* leave it alone.                                                         *)
Sleeps(t) == Waiting(t) /\ mt_state[t] # "TS_Running"

LinksAreRead ==
  \A u, t \in Task : pc[u] = "next" /\ cur[u] = t /\ Sleeps(t) =>
    /\ mt_wait_link[t] = NULL
    /\ \A s \in Task : Sleeps(s) => mt_wait_obj[s] # obj[u]

ReleasesAlone ==
  \A t \in Task : call[t] = "free" \/ (Refused(t) /\ addr[t] \in Barrier) =>
    \A u \in Task \ {t} : addr[t] \in Inside(u) => Sleeps(u)

AssignsAlone ==
  \A t, u \in Task : call[t] = "create" =>
    ItsName(t) = NULL \/ ItsName(t) \notin Inside(u)

Orderly == LinksAreRead /\ ReleasesAlone /\ AssignsAlone

(* Whatever a task is inside of is what a variable stands for: tasks that  *)
(* share a variable share an object, whichever of them LOCKASGN or EVASGN  *)
(* let create it, and nobody is inside memory that has been given back.    *)
SameObject ==
  \A t \in Task : Inside(t) \subseteq {name[k] : k \in Kind} \cup {NULL}

(* Somebody needs o: has the lock, or waits for it, for the event, at the  *)
(* barrier.                                                                *)
Needs(t, o) ==
  \/ o \in Lock /\ (Locks!Owns(t, o) \/ Locks!Queued(t, o))
  \/ o \in Event /\ Events!Asleep(t, o)
  \/ o \in Barrier /\ Barriers!Asleep(t, o)

(* A release refuses ("you shouldn't be releasing it") only an object that *)
(* some task needs.                                                        *)
RefusedRightly ==
  \A t \in Task : Refused(t) => \E u \in Task : Needs(u, addr[t])

(* The object whose memory is given back is one that nobody needs, though  *)
(* the release has looked at it without its semaphore, and earlier.        *)
ReleasedIdle ==
  [][\A o \in allocated \ allocated' : \A t \in Task : ~Needs(t, o)]_vars
=============================================================================
