----------------------------- MODULE MactTasks ------------------------------
(***************************************************************************)
(* Starting, finding, ending and waiting for macrotasks: mactcdl.c,        *)
(* mactstrt.c, mactwait.c and macttest.c.                                  *)
(*                                                                         *)
(* A descriptor is on the free list, or on the hash chain of its thread's  *)
(* id, or in the hands of the thread that has allocated it.  Both lists    *)
(* use the field mt_link, and both are changed under _mact_free_sem only;  *)
(* _mact_find_self walks a hash chain without it.  A critical section in   *)
(* which nothing is visible outside is one step.                           *)
(*                                                                         *)
(* The threads' start-up routine is assembly code that the repository does *)
(* not have: _mact_start_macrotask is modelled from the fields TSKSTART    *)
(* leaves to it and from what the other routines expect.                   *)
(*                                                                         *)
(* An operator named X_Y, with X the name of the operator below it, is a   *)
(* mutation of X: the model checker shows which property fails with it.    *)
(***************************************************************************)
EXTENDS Naturals, FiniteSets, Chains

CONSTANTS
  Thread, Main,   \* a thread runs one macrotask; Main is there from the start
  Foreign,        \* threads TSKSTART does not create, there from the start
  NoThread,
  INITIAL_TASKS,  \* the length of initial_tasks (10 in the code)
  MTS_TO_GET,     \* how many descriptors are allocated at a time (10)
  Collide,        \* the threads whose ids hash to one and the same chain
  Named,          \* the threads started with a user id in their TCA
  Starter, Waiter, Looker,  \* who calls TSKSTART, TSKWAIT, and LOCKON etc.
  Garbage,        \* the task states malloc may leave in fresh memory
  MaxMt,          \* bound: the number of descriptors
  MaxCalls,       \* bound: the calls of TSKWAIT and LOCKON etc. of each thread
  MaxLooks        \* bound: how many of them may be of LOCKON etc.

ASSUME ThreadAssumption ==
  /\ IsFiniteSet(Thread) /\ Main \in Thread
  /\ Foreign \subseteq Thread \ {Main}
  /\ NoThread \notin Thread

ASSUME MtAssumption ==
  /\ INITIAL_TASKS \in Nat \ {0} /\ MTS_TO_GET \in Nat \ {0}
  /\ MaxMt \in Nat /\ INITIAL_TASKS <= MaxMt
  /\ MaxCalls \in Nat /\ MaxLooks \in 0 .. MaxCalls

(* Descriptors are numbered in the order of their allocation, and 0 is the *)
(* null pointer.                                                           *)
NULL == 0
Descriptor == 1 .. MaxMt
MtOrNull == 0 .. MaxMt

VARIABLES
  pc, calls,
  arg,      \* local: the task a thread is starting or waiting for
  own,      \* the descriptor the thread was started with
  my_mt,    \* local: the descriptor a waiter found for itself
  mt,       \* local: the descriptor a routine works on
  tca,      \* the second word of the task control array of each task
  joined,   \* history: the tasks whose end TSKWAIT has told a thread of
  mishap,   \* history: a waiter's link has been written at the wrong moment
  desc,     \* the descriptors: mt_state, mt_stid, ... as fields
  total_count, free_count, free, hash, free_sem, runnable_tasks, aborted

locals == <<arg, own, my_mt, mt>>
program == <<calls, tca, joined, mishap>>
lists == <<total_count, free_count, free, hash>>
vars == <<pc, locals, program, desc, lists, free_sem, runnable_tasks, aborted>>

TaskState == {"TS_Nonexistent", "TS_Ready", "TS_Running", "TS_Task_Wait", "TS_Complete"}

ASSUME GarbageAssumption == Garbage \subseteq TaskState

Pc == {"unborn", "chosen", "born", "add", "user", "gone"}         \* a thread's life
        \cup {"find", "find_allocate", "find_add"}                \* _mact_find_self
        \cup {"allocate", "ready", "fill", "argv"}                \* TSKSTART
        \cup {"look", "join", "hung", "dec", "check", "spin"}     \* TSKWAIT
        \cup {"complete", "inc", "mark", "next", "uncount", "unlink"} \* _mact_delete

Bucket == {Collide} \cup (Thread \ Collide)
MT_HASH(t) == IF t \in Collide THEN Collide ELSE t

UtidOf(t) == IF t \in Named THEN t ELSE NoThread

InitialTask(d) ==
  [state |-> IF d = 1 THEN "TS_Running" ELSE "TS_Nonexistent",
   stid |-> IF d = 1 THEN Main ELSE NoThread,
   utid |-> NoThread, wait_link |-> NULL, waiters |-> NULL,
   link |-> IF d \in 2 .. INITIAL_TASKS - 1 THEN d + 1 ELSE NULL,
   sem |-> NoThread]

Init ==
  /\ pc = [t \in Thread |-> IF t \in Foreign \cup {Main} THEN "user" ELSE "unborn"]
  /\ calls = [t \in Thread |-> 0]
  /\ arg = [t \in Thread |-> NoThread]
  /\ own = [t \in Thread |-> IF t = Main THEN 1 ELSE NULL]
  /\ my_mt = [t \in Thread |-> NULL]
  /\ mt = [t \in Thread |-> NULL]
  /\ tca = [t \in Thread |-> NULL]
  /\ joined = [t \in Thread |-> {}]
  /\ mishap = FALSE
  /\ desc = [d \in Descriptor |-> InitialTask(d)]
  /\ total_count = INITIAL_TASKS
  /\ free_count = INITIAL_TASKS - 1
  /\ free = IF INITIAL_TASKS > 1 THEN 2 ELSE NULL
  /\ hash = [b \in Bucket |-> IF b = MT_HASH(Main) THEN 1 ELSE NULL]
  /\ free_sem = NoThread
  /\ runnable_tasks = 1
  /\ aborted = FALSE

At(t, label) == ~aborted /\ pc[t] = label
Goto(t, label) == pc' = [pc EXCEPT ![t] = label]

(* Task c's subroutine has returned.                                       *)
Ended(c) ==
  pc[c] \in {"complete", "inc", "mark", "next", "uncount", "unlink", "gone"}

(* A walk through a task's waiters stands on d, has let d's task go, and   *)
(* is still to read where d's mt_wait_link leads.                          *)
StoodOn(d) == \E u \in Thread : pc[u] = "next" /\ mt[u] = d

(* The descriptors a walk from h meets, along mt_link or mt_wait_link, and *)
(* whether it comes to an end.                                             *)
Reached(h, field) == Met(h, [d \in Descriptor |-> desc[d][field]], NULL, MaxMt)

Chain(h, field) == Reached(h, field) \ {NULL}
WalkEnds(h, field) == NULL \in Reached(h, field)

-----------------------------------------------------------------------------
(* get_more_mt_descriptors: the new descriptors are chained and become the *)
(* free list, which was empty.  The loop that initialises them stops one   *)
(* short of the last, whose state is whatever malloc found there.          *)
Initialised(last, garbage) ==
  [d \in Descriptor |->
     IF d \in total_count + 1 .. last - 1 THEN [desc[d] EXCEPT !.link = d + 1]
     ELSE IF d = last THEN [desc[d] EXCEPT !.state = garbage]
     ELSE desc[d]]

get_more_mt_descriptors ==
  LET last == total_count + MTS_TO_GET IN
    /\ last <= MaxMt
    /\ total_count' = last
    /\ \E garbage \in Garbage : desc' = Initialised(last, garbage)

(* One of the free descriptors, and of those just obtained, is taken.      *)
FreeCount_KeepsTaken == IF free = NULL THEN free_count + MTS_TO_GET ELSE free_count

FreeCount == (IF free = NULL THEN free_count + MTS_TO_GET ELSE free_count) - 1

_mact_allocate(t) ==
  /\ free_sem = NoThread
  /\ IF free = NULL THEN get_more_mt_descriptors ELSE UNCHANGED <<total_count, desc>>
  /\ LET first == IF free = NULL THEN total_count + 1 ELSE free IN
       /\ mt' = [mt EXCEPT ![t] = first]
       /\ free' = desc'[first].link
  /\ free_count' = FreeCount
  /\ UNCHANGED <<hash, free_sem>>

(* The descriptor d, whose other fields are those of new, goes to the head *)
(* of the chain of t's id.                                                 *)
_mact_add(t, d, new) ==
  /\ free_sem = NoThread
  /\ desc' = [desc EXCEPT ![d] = [new EXCEPT !.link = hash[MT_HASH(t)]]]
  /\ hash' = [hash EXCEPT ![MT_HASH(t)] = d]
  /\ UNCHANGED <<total_count, free_count, free, free_sem>>

-----------------------------------------------------------------------------
(* _mact_find_self, for LOCKON, EVWAIT and BARSYNC: the walk is not under  *)
(* the semaphore, and the chain may change under it.                       *)
_mact_find_self(t) ==
  /\ At(t, "user")
  /\ t \in Looker
  /\ calls[t] < MaxLooks
  /\ calls' = [calls EXCEPT ![t] = @ + 1]
  /\ mt' = [mt EXCEPT ![t] = hash[MT_HASH(t)]]
  /\ Goto(t, "find")
  /\ UNCHANGED <<arg, own, my_mt, tca, joined, mishap, desc, lists, free_sem,
                 runnable_tasks, aborted>>

find_self_step(t) ==
  /\ At(t, "find")
  /\ \/ mt[t] = NULL /\ Goto(t, "find_allocate") /\ UNCHANGED mt
     \/ /\ mt[t] # NULL
        /\ desc[mt[t]].stid = t
        /\ Goto(t, "user")
        /\ mt' = [mt EXCEPT ![t] = NULL]
     \/ /\ mt[t] # NULL
        /\ desc[mt[t]].stid # t
        /\ mt' = [mt EXCEPT ![t] = desc[@].link]
        /\ UNCHANGED pc
  /\ UNCHANGED <<arg, own, my_mt, program, desc, lists, free_sem,
                 runnable_tasks, aborted>>

(* "I am hitherto unknown -- create me."                                   *)
find_self_allocate(t) ==
  /\ At(t, "find_allocate")
  /\ _mact_allocate(t)
  /\ Goto(t, "find_add")
  /\ UNCHANGED <<arg, own, my_mt, program, runnable_tasks, aborted>>

find_self_add(t) ==
  /\ At(t, "find_add")
  /\ _mact_add(t, mt[t], [desc[mt[t]] EXCEPT !.stid = t, !.utid = NoThread])
  /\ mt' = [mt EXCEPT ![t] = NULL]
  /\ Goto(t, "user")
  /\ UNCHANGED <<arg, own, my_mt, program, runnable_tasks, aborted>>

-----------------------------------------------------------------------------
(* TSKSTART(c).  The new task is counted before anything else.             *)
CountNewTask_Later == UNCHANGED runnable_tasks

CountNewTask == runnable_tasks' = runnable_tasks + 1

tskstart_(t, c) ==
  /\ At(t, "user")
  /\ t \in Starter
  /\ pc[c] = "unborn"
  /\ CountNewTask
  /\ arg' = [arg EXCEPT ![t] = c]
  /\ pc' = [pc EXCEPT ![t] = "allocate", ![c] = "chosen"]
  /\ UNCHANGED <<own, my_mt, mt, program, desc, lists, free_sem, aborted>>

tskstart_allocate(t) ==
  /\ At(t, "allocate")
  /\ _mact_allocate(t)
  /\ Goto(t, "ready")
  /\ UNCHANGED <<arg, own, my_mt, program, runnable_tasks, aborted>>

(* From here on the descriptor looks alive, under its last task's user id. *)
tskstart_ready(t) ==
  /\ At(t, "ready")
  /\ desc' = [desc EXCEPT ![mt[t]].state = "TS_Ready"]
  /\ Goto(t, "fill")
  /\ UNCHANGED <<locals, program, lists, free_sem, runnable_tasks, aborted>>

(* The rest of the descriptor, but for mt_waiters; thr_create.             *)
tskstart_fill(t) ==
  /\ At(t, "fill")
  /\ desc' = [desc EXCEPT ![mt[t]] =
                [@ EXCEPT !.stid = NoThread, !.utid = UtidOf(arg[t]),
                          !.wait_link = NULL, !.sem = NoThread]]
  /\ own' = [own EXCEPT ![arg[t]] = mt[t]]
  /\ pc' = [pc EXCEPT ![t] = "argv", ![arg[t]] = "born"]
  /\ mishap' = (mishap \/ StoodOn(mt[t]))
  /\ UNCHANGED <<arg, my_mt, mt, calls, tca, joined, lists, free_sem,
                 runnable_tasks, aborted>>

(* The new thread is done with the arguments: TSKSTART stores the address  *)
(* of the descriptor in the task control array and returns.                *)
tskstart_return(t) ==
  /\ At(t, "argv")
  /\ pc[arg[t]] # "born"
  /\ tca' = [tca EXCEPT ![arg[t]] = mt[t]]
  /\ mt' = [mt EXCEPT ![t] = NULL]
  /\ arg' = [arg EXCEPT ![t] = NoThread]
  /\ Goto(t, "user")
  /\ UNCHANGED <<own, my_mt, calls, joined, mishap, desc, lists, free_sem,
                 runnable_tasks, aborted>>

(* External: the first thing a new thread does.                            *)
_mact_start_macrotask(c) ==
  /\ At(c, "born")
  /\ desc' = [desc EXCEPT ![own[c]] =
                [@ EXCEPT !.stid = c, !.waiters = NULL, !.state = "TS_Running"]]
  /\ Goto(c, "add")
  /\ UNCHANGED <<locals, program, lists, free_sem, runnable_tasks, aborted>>

start_macrotask_add(c) ==
  /\ At(c, "add")
  /\ _mact_add(c, own[c], desc[own[c]])
  /\ Goto(c, "user")
  /\ UNCHANGED <<locals, program, runnable_tasks, aborted>>

-----------------------------------------------------------------------------
(* What TSKWAIT and TSKTEST take for the end of task c.                    *)
Over_WhenNotRunning(d, c) ==
  desc[d].state # "TS_Running" \/ desc[d].utid # UtidOf(c)

Over_NotWhenComplete(d, c) ==
  desc[d].state = "TS_Nonexistent" \/ desc[d].utid # UtidOf(c)

Over(d, c) ==
  \/ desc[d].state \in {"TS_Nonexistent", "TS_Complete"}
  \/ desc[d].utid # UtidOf(c)

(* TSKWAIT returns: its caller takes c for ended.                          *)
Return(t, c) ==
  /\ Goto(t, "user")
  /\ joined' = [joined EXCEPT ![t] = @ \cup {c}]
  /\ arg' = [arg EXCEPT ![t] = NoThread]
  /\ mt' = [mt EXCEPT ![t] = NULL]
  /\ my_mt' = [my_mt EXCEPT ![t] = NULL]

(* The first look, under no semaphore.  Programs wait for other tasks, and *)
(* use a task control array only when TSKSTART has filled it.              *)
tskwait_(t, c) ==
  /\ At(t, "user")
  /\ t \in Waiter \ {c}
  /\ tca[c] # NULL
  /\ calls[t] < MaxCalls
  /\ calls' = [calls EXCEPT ![t] = @ + 1]
  /\ \/ Over(tca[c], c) /\ Return(t, c)
     \/ /\ ~Over(tca[c], c)
        /\ arg' = [arg EXCEPT ![t] = c]
        /\ mt' = [mt EXCEPT ![t] = tca[c]]
        /\ Goto(t, "look")
        /\ UNCHANGED <<my_mt, joined>>
  /\ UNCHANGED <<own, tca, mishap, desc, lists, free_sem, runnable_tasks, aborted>>

(* The second look, under _mact_free_sem, which is kept for the third.     *)
tskwait_look(t) ==
  /\ At(t, "look")
  /\ free_sem = NoThread
  /\ \/ Over(mt[t], arg[t]) /\ Return(t, arg[t]) /\ UNCHANGED free_sem
     \/ /\ ~Over(mt[t], arg[t])
        /\ free_sem' = t
        /\ Goto(t, "join")
        /\ UNCHANGED <<arg, mt, my_mt, joined>>
  /\ UNCHANGED <<own, calls, tca, mishap, desc, lists, runnable_tasks, aborted>>

(* The task's own descriptor: the first of its chain, if there is one.     *)
Self(t) ==
  LET mine == {d \in Chain(hash[MT_HASH(t)], "link") : desc[d].stid = t}
  IN IF mine = {} THEN NULL
     ELSE CHOOSE d \in mine : mine \subseteq Chain(d, "link")

Joined_LosesTheOthers(t, self) ==
  [desc EXCEPT ![mt[t]].waiters = self,
               ![self] = [@ EXCEPT !.wait_link = desc[self].waiters,
                                   !.state = "TS_Task_Wait"]]

Joined(t, self) ==
  [desc EXCEPT ![self] = [@ EXCEPT !.wait_link = desc[mt[t]].waiters,
                                   !.state = "TS_Task_Wait"],
               ![mt[t]].waiters = self]

(* The third look, under both semaphores.  A thread that has no descriptor *)
(* yet calls _mact_allocate, which waits for the semaphore its caller has. *)
tskwait_join(t) ==
  /\ At(t, "join")
  /\ desc[mt[t]].sem = NoThread
  /\ \/ /\ Over(mt[t], arg[t])
        /\ Return(t, arg[t])
        /\ free_sem' = NoThread
        /\ UNCHANGED <<desc, mishap>>
     \/ /\ ~Over(mt[t], arg[t])
        /\ Self(t) # NULL
        /\ desc' = Joined(t, Self(t))
        /\ my_mt' = [my_mt EXCEPT ![t] = Self(t)]
        /\ mishap' = (mishap \/ StoodOn(Self(t)) \/ pc[arg[t]] = "gone")
        /\ free_sem' = NoThread
        /\ Goto(t, "dec")
        /\ UNCHANGED <<arg, mt, joined>>
     \/ /\ ~Over(mt[t], arg[t])
        /\ Self(t) = NULL
        /\ desc' = [desc EXCEPT ![mt[t]].sem = t]
        /\ Goto(t, "hung")
        /\ UNCHANGED <<arg, mt, my_mt, joined, mishap, free_sem>>
  /\ UNCHANGED <<own, calls, tca, lists, runnable_tasks, aborted>>

tskwait_dec(t) ==
  /\ At(t, "dec")
  /\ runnable_tasks' = runnable_tasks - 1
  /\ Goto(t, "check")
  /\ UNCHANGED <<locals, program, desc, lists, free_sem, aborted>>

CHECK_FOR_MACT_DEADLOCK(t) ==
  /\ At(t, "check")
  /\ IF runnable_tasks = 0 THEN aborted' = TRUE /\ UNCHANGED pc
                           ELSE Goto(t, "spin") /\ UNCHANGED aborted
  /\ UNCHANGED <<locals, program, desc, lists, free_sem, runnable_tasks>>

tskwait_return(t) ==
  /\ At(t, "spin")
  /\ desc[my_mt[t]].state = "TS_Running"
  /\ Return(t, arg[t])
  /\ UNCHANGED <<own, calls, tca, mishap, desc, lists, free_sem, runnable_tasks,
                 aborted>>

-----------------------------------------------------------------------------
(* _mact_delete: the task's subroutine has returned.                       *)
_mact_delete(t) ==
  /\ At(t, "user")
  /\ t \notin Foreign \cup {Main}
  /\ desc' = [desc EXCEPT ![own[t]].state = "TS_Complete"]
  /\ Goto(t, "complete")
  /\ UNCHANGED <<locals, program, lists, free_sem, runnable_tasks, aborted>>

(* The task takes its own semaphore, for the walks through its waiters.    *)
delete_wait(t) ==
  /\ At(t, "complete")
  /\ desc[own[t]].sem = NoThread
  /\ desc' = [desc EXCEPT ![own[t]].sem = t]
  /\ mt' = [mt EXCEPT ![t] = desc[own[t]].waiters]
  /\ Goto(t, "inc")
  /\ UNCHANGED <<arg, own, my_mt, program, lists, free_sem, runnable_tasks, aborted>>

(* The first walk counts them.                                             *)
delete_inc(t) ==
  /\ At(t, "inc")
  /\ WalkEnds(mt[t], "wait_link")
  /\ runnable_tasks' = runnable_tasks + Cardinality(Chain(mt[t], "wait_link"))
  /\ Goto(t, "mark")
  /\ UNCHANGED <<locals, program, desc, lists, free_sem, aborted>>

(* The second lets them go.                                                *)
delete_wake(t) ==
  /\ At(t, "mark")
  /\ mt[t] # NULL
  /\ desc' = [desc EXCEPT ![mt[t]].state = "TS_Running"]
  /\ Goto(t, "next")
  /\ UNCHANGED <<locals, program, lists, free_sem, runnable_tasks, aborted>>

delete_next(t) ==
  /\ At(t, "next")
  /\ mt' = [mt EXCEPT ![t] = desc[@].wait_link]
  /\ Goto(t, "mark")
  /\ UNCHANGED <<arg, own, my_mt, program, desc, lists, free_sem, runnable_tasks,
                 aborted>>

delete_woken(t) ==
  /\ At(t, "mark")
  /\ mt[t] = NULL
  /\ desc' = [desc EXCEPT ![own[t]].sem = NoThread]
  /\ Goto(t, "uncount")
  /\ UNCHANGED <<locals, program, lists, free_sem, runnable_tasks, aborted>>

(* Nobody looks for deadlock after this decrement.                         *)
delete_dec(t) ==
  /\ At(t, "uncount")
  /\ runnable_tasks' = runnable_tasks - 1
  /\ Goto(t, "unlink")
  /\ UNCHANGED <<locals, program, desc, lists, free_sem, aborted>>

(* The descriptor d leaves its hash chain, b.                              *)
Unlinked_HeadOnly(b, d) == desc

Unlinked(b, d) ==
  [e \in Descriptor |->
     IF e \in Chain(hash[b], "link") /\ desc[e].link = d
       THEN [desc[e] EXCEPT !.link = desc[d].link] ELSE desc[e]]

delete_unlink(t) ==
  /\ At(t, "unlink")
  /\ free_sem = NoThread
  /\ LET d == own[t]  b == MT_HASH(t) IN
       /\ hash' = [hash EXCEPT ![b] = IF @ = d THEN desc[d].link ELSE @]
       /\ desc' = [Unlinked(b, d) EXCEPT ![d] =
                     [@ EXCEPT !.state = "TS_Nonexistent", !.stid = NoThread,
                               !.link = free]]
       /\ free' = d
       /\ free_count' = free_count + 1
  /\ own' = [own EXCEPT ![t] = NULL]
  /\ Goto(t, "gone")
  /\ UNCHANGED <<arg, my_mt, mt, program, total_count, free_sem, runnable_tasks,
                 aborted>>

-----------------------------------------------------------------------------
(* TSKLIST, which changes nothing but its own table: TSKSTAT makes it of   *)
(* Room rows and writes one for each descriptor on a hash chain.           *)
Room == total_count - free_count
Listed == Cardinality(UNION {Chain(hash[b], "link") : b \in Bucket})

-----------------------------------------------------------------------------
InRuntime(t) ==
  \/ find_self_step(t) \/ find_self_allocate(t) \/ find_self_add(t)
  \/ tskstart_allocate(t) \/ tskstart_ready(t) \/ tskstart_fill(t)
  \/ tskstart_return(t)
  \/ _mact_start_macrotask(t) \/ start_macrotask_add(t)
  \/ tskwait_look(t) \/ tskwait_join(t) \/ tskwait_dec(t)
  \/ CHECK_FOR_MACT_DEADLOCK(t) \/ tskwait_return(t)
  \/ delete_wait(t) \/ delete_inc(t) \/ delete_wake(t) \/ delete_next(t)
  \/ delete_woken(t) \/ delete_dec(t) \/ delete_unlink(t)

Next ==
  \E t \in Thread :
    \/ InRuntime(t)
    \/ _mact_find_self(t)
    \/ _mact_delete(t)
    \/ \E c \in Thread : tskstart_(t, c) \/ tskwait_(t, c)

Spec == Init /\ [][Next]_vars

(* Every macrotask is bound to a processor of its own (THR_BOUND) and keeps *)
(* running, and its subroutine returns.                                    *)
FairSpec ==
  Spec /\ \A t \in Thread \ Foreign : WF_vars(InRuntime(t) \/ _mact_delete(t))

-----------------------------------------------------------------------------
Desc ==
  [state : TaskState, stid : Thread \cup {NoThread}, utid : Thread \cup {NoThread},
   wait_link : MtOrNull, waiters : MtOrNull, link : MtOrNull,
   sem : Thread \cup {NoThread}]

Typed ==
  /\ pc \in [Thread -> Pc]
  /\ calls \in [Thread -> 0 .. MaxCalls]
  /\ arg \in [Thread -> Thread \cup {NoThread}]
  /\ own \in [Thread -> MtOrNull]
  /\ my_mt \in [Thread -> MtOrNull]
  /\ mt \in [Thread -> MtOrNull]
  /\ tca \in [Thread -> MtOrNull]
  /\ joined \in [Thread -> SUBSET Thread]
  /\ desc \in [Descriptor -> Desc]
  /\ total_count \in 1 .. MaxMt
  /\ free_count \in 0 .. MaxMt
  /\ free \in MtOrNull
  /\ hash \in [Bucket -> MtOrNull]
  /\ free_sem \in Thread \cup {NoThread}
  /\ aborted \in BOOLEAN

(* The count of runnable tasks does not run away, up or down.              *)
TypeOK ==
  /\ Typed
  /\ mishap \in BOOLEAN
  /\ ~mishap => runnable_tasks \in 0 .. 2 * Cardinality(Thread)

(* The descriptors in the hands of a thread that has allocated one, or of  *)
(* a new thread that has not added its own.                                *)
Holds(t) == pc[t] \in {"ready", "fill", "find_add", "born", "add"}
Held(t) == IF pc[t] \in {"born", "add"} THEN own[t] ELSE mt[t]
InHand == {Held(t) : t \in {u \in Thread : Holds(u)}}

(* No descriptor is lost or in two places: each is on the free list, or on *)
(* the hash chain of its thread, or in one thread's hands, and no walk     *)
(* under the semaphore goes round in circles.                              *)
ListsIntact ==
  LET Free == Chain(free, "link")
      Hashed == [b \in Bucket |-> Chain(hash[b], "link")]
  IN /\ WalkEnds(free, "link") /\ \A b \in Bucket : WalkEnds(hash[b], "link")
     /\ 1 .. total_count = Free \cup InHand \cup UNION {Hashed[b] : b \in Bucket}
     /\ Free \cap InHand = {}
     /\ \A b \in Bucket : \A d \in Hashed[b] :
          /\ d \notin Free \cup InHand
          /\ desc[d].stid # NoThread
          /\ MT_HASH(desc[d].stid) = b

(* Whenever TSKSTAT may enter its critical section, its table has a row    *)
(* for every descriptor it will meet, those of tasks that are starting or  *)
(* ending included.                                                        *)
ListFits == free_sem = NoThread => Listed <= Room

Asleep(t) ==
  pc[t] \in {"dec", "check", "spin"} /\ desc[my_mt[t]].state = "TS_Task_Wait"

(* Whoever looks at a descriptor for a task, in TSKWAIT or TSKTEST, and    *)
(* takes the task for over is right, whatever the descriptor has come to   *)
(* be used for since.                                                      *)
LooksAreRight ==
  /\ \A c \in Thread : tca[c] # NULL /\ Over(tca[c], c) => Ended(c)
  /\ \A t \in Thread :
       pc[t] \in {"look", "join"} /\ Over(mt[t], arg[t]) => Ended(arg[t])

(* TSKWAIT returns to its caller only when the task it was asked about has *)
(* ended.  The code does not keep to it (MactTasksEarly.cfg): the walk     *)
(* that lets a task go reads the task's link afterwards, and follows it    *)
(* into the waiters of the next task it waits for.                         *)
WaitMeansEnded == \A t \in Thread : \A c \in joined[t] : Ended(c)

(* TSKWAIT never returns early but by a mishap: a task's link is written   *)
(* while a walk stands on it, or a task joins the waiters of a descriptor  *)
(* that is being used again.                                               *)
EarlyOnlyByMishap == mishap \/ WaitMeansEnded

(* The tasks that u is still going to wake when it ends.                   *)
ToWake(u) ==
  IF pc[u] \in {"inc", "mark"} THEN Chain(mt[u], "wait_link")
  ELSE IF pc[u] = "next" THEN Chain(desc[mt[u]].wait_link, "wait_link")
  ELSE IF pc[u] \in {"uncount", "unlink", "gone"} THEN {}
  ELSE Chain(desc[own[u]].waiters, "wait_link")

(* Whoever sleeps in TSKWAIT is among those that some task is going to     *)
(* wake: a task that marks itself complete outside its semaphore does not  *)
(* miss a waiter that has just looked.                                     *)
NobodyForgotten ==
  ~mishap => \A t \in Thread : Asleep(t) =>
               \E u \in Thread : own[u] = mt[t] /\ my_mt[t] \in ToWake(u)

(* The runtime gives the program up only when every macrotask sleeps or is *)
(* over: a task is counted before it is created, so that a starter may go  *)
(* to sleep at once.                                                       *)
NoFalseDeadlock ==
  aborted /\ ~mishap => \A t \in Thread \ Foreign :
    \/ pc[t] \in {"unborn", "unlink", "gone"}
    \/ pc[t] \in {"check", "spin"} /\ Asleep(t)

(* Tasks that wait for each other.                                         *)
Cycle == \E S \in SUBSET Thread \ {{}} :
           \A t \in S : pc[t] = "spin" /\ Asleep(t) /\ arg[t] \in S

(* TSKWAIT returns when the task it was asked about ends, whoever walks    *)
(* its waiters and whatever becomes of the descriptors: unless the program *)
(* is given up, or its tasks wait for each other, or there is a mishap.    *)
WaitReturns ==
  \A t \in Waiter :
    pc[t] \in {"look", "spin"} ~> (pc[t] = "user" \/ aborted \/ Cycle \/ mishap)
=============================================================================
