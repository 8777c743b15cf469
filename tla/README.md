# Verification of the Open64 run-time library's concurrent parts

Open64 is a C, C++ and Fortran compiler with its run-time libraries: about ten
thousand source files. Most of it is sequential translation of programs, whose
correctness is not a question of state spaces. The parts with state that several
threads change at once are in the Fortran run-time library `osprey1.0/libu`. Their
core is the macrotasking runtime in `osprey1.0/libu/multi/posix`: it lets a Fortran
program start tasks and synchronise them with locks, events, barriers and waits for
the end of a task, and gives each its copy of task common blocks. The other part
is asynchronous queued I/O, `osprey1.0/libu/aqio`. This project models both in TLA+,
checks them with TLC, and proves with TLAPS, for any number of tasks, nearly all the safety
properties that TLC checks, the refinements included.

Paths below are relative to `src/osprey1.0/`; `posix/` is `libu/multi/posix/`, `aqio/` is `libu/aqio/`.

## 1. Inventory

### The macrotasking runtime

| Part | State it keeps | Operations | Interacts with |
|---|---|---|---|
| Descriptors and counters: `posix/mactdefs.h`, `mactdata.c`, `mactcutil.c` | one `mact_task_t` per task (state, thread id, user id, what it waits for, link to the next waiter); `_mact_runnable_tasks` | `INC_`/`DEC_RUNNABLE_MACT_COUNT`, `CHECK_FOR_MACT_DEADLOCK`, `_mact_wait_for_me_to_be_running` | every blocking call |
| Locks: `mactlock.c` | lock word, queue head and tail, number of waiters, semaphore | LOCKASGN, LOCKON, LOCKOFF, LOCKTEST, LOCKREL | descriptors |
| Events: `mactevnt.c` | posted or cleared, queue, semaphore | EVASGN, EVWAIT, EVPOST, EVCLEAR, EVTEST, EVREL | descriptors |
| Barriers: `mactbar.c` | the count it opens at, the arrivals still missing, queue, semaphore | BARASGN, BARSYNC, BARREL | descriptors |
| Tasks: `mactcdl.c`, `mactstrt.c`, `mactwait.c`, `macttest.c` | free list and hash table of descriptors, list of waiters of each task | TSKSTART, TSKWAIT, TSKTEST, the end of a task, `_mact_find_self` | locks, events and barriers call `_mact_find_self` |
| Task list: `mactlist.c`, `mactlstf.f` | none | TSKLIST | reads all descriptors |
| Task common: `macttcom.c` | the cross reference (list of blocks, each with a number), the key of the threads' tables, a private table for each thread | `_taskcom_address`, the destructor of a table | called by compiled code; the thread library keeps the tables |
| Tuning, names, properties: `macttune.c`, `mactvalu.c`, `mactprup.c`, `mactmhtb.c` | stack size | TSKTUNE, TSKVALUE | TSKSTART reads the stack size |

How they interact. There is no scheduler: every macrotask is a thread bound to a
processor (`THR_BOUND`, `mactstrt.c:230`), all of them work on shared memory, a
semaphore is a spin lock (`_mact_psem`, `_mact_vsem`, assembly code that the
repository does not contain), and a task that waits spins until somebody has set
its `mt_state` to `TS_Running`.

What is hard. Every blocking call has two halves with a gap between them: a task
queues itself under the object's semaphore, then, outside it, takes itself off the
runnable count, looks for deadlock and spins. A waker may choose it at any point
of the gap. Links are read after their owner has been let go. The count is looked
at without its semaphore. TSKWAIT looks at a descriptor that may serve another
task by then, three times with ever more semaphores held. The hash chains are
walked without a semaphore.

What makes each part correct:

- *Locks.* At most one owner, from the moment it is chosen; waiters served in
  the order of their arrival; nobody who waits is left out of the queue.
- *Events.* A post releases exactly those who wait; nobody sleeps on a posted event.
- *Barriers.* Nobody leaves a round before all have arrived; rounds do not mix.
- *Tasks.* TSKWAIT returns after the task's end, and does return; no descriptor is
  lost or used twice; TSKLIST's table is large enough.
- *Objects.* Tasks that share a variable share an object; a release frees nothing
  that somebody needs, and refuses nothing else.
- *Task common.* Copies of different threads or blocks never overlap; each is a copy of
  the block that was asked for; it never moves.
- *Deadlock detection.* Reported only when every task waits, and always then.

### Asynchronous queued I/O

One ring of requests for each file (`aqio/aqio.h`), with four pointers into it,
`aq_busy`, `aq_fird`, `aq_ptr` and `aq_nxtq`, and one spin lock for each, taken in a
fixed order. AQREAD and AQWRITE accept a request (`_aqenq`, `aqcall.c`), which goes to
the system with others in a batch (`_aqcall`: `listio`); a full ring first recalls
its oldest request. AQWAIT, AQRECALL, AQSTAT and AQCLOSE recall requests (`_aqrcl`) and
report each error once. It is called by Fortran programs only; it calls the system,
which completes transfers whenever it likes.

What is hard: most pointers are read without their lock, because "all pointers only
advance"; a batch is started between copies of two pointers while others accept and
recall; a signal makes `listio` skip the rest of its list, which is started again; a
failed request may be recalled by any of five calls. What makes it correct: requests go to
the system in order and once, no slot is reused while the system writes to it, no
error is lost or told twice, and every call returns.

### A part that could be modelled

*Flexible file I/O*, `libu/ffio`: layers over a file, called in sequence. Its cache layer has
state, but no concurrency of its own.

### The rest of the repository

The driver (`driver`), the front ends (`crayf90`, `gccfe`, `g++fe`, `kgccfe`), WHIRL and the
symbol tables (`common`), the back end (`be`), inter-procedural analysis (`ipa`,
`fake_ld`), stand-alone tools, other run-time libraries, and vendored code.
They are sequential; their correctness is that a program keeps its meaning, which
is out of a model checker's reach. `PROJECT.json` lists each with its reason.

## 2. The modules

| Module | What it is |
|---|---|
| `MactTask` | what all blocking calls share: descriptors, the count, the waiter's half (`Park`, `DEC_RUNNABLE_MACT_COUNT`, `CHECK_FOR_MACT_DEADLOCK`, `SeesItselfRunning`) and the waker's half (`StartWaking`, `INC_RUNNABLE_MACT_COUNT`, `Wake`, `FollowLink`, `EndOfWalk`) |
| `MactLock`, `MactEvent`, `MactBarrier` | extend `MactTask` with one kind of object and its calls |
| `FifoLock`, `EventPromise`, `BarrierPromise` | what a lock, an event, a barrier promises: no descriptors, links, counters or semaphores |
| `Chains` | singly linked lists: what a walk along a link field meets, and what it means that it is a list |
| `MactTasks` | starting, finding, ending and waiting for tasks, with the lists of descriptors and the size of TSKLIST's table |
| `Macrotasking` | the composition: programs that use locks, events and barriers together, and create and release them; instances of the three modules above over one set of tasks |
| `AqIo` | a file's ring of asynchronous requests, and all calls on it |
| `AqPromise` | what AqIo promises for each request |
| `TaskCommon` | `_taskcom_address` and what it calls |
| `MCMact...`, `MCMacrotasking`, `MCAqIo`, `MCTaskCommon` | instances for TLC |
| `ChainProofs` | lemmas about linked lists, for the proofs about locks, events, barriers, tasks and the composition |
| `MactLockProofs`, `MactEventProofs`, `MactBarrierProofs`, `MactTasksProofs`, `TaskCommonProofs` | theorems about `MactLock`, `MactEvent`, `MactBarrier`, `MactTasks` and `TaskCommon` |
| `MacrotaskingProofs` | theorems about the composition |
| `AqIoProofs` | theorems about `AqIo` |

An inductive invariant that no run checks is in the module of the proofs that need it.

State and actions follow the code. Variables have the names of the fields
(`mt_state`, `ml_qhead`, ...), actions those of the functions (`lockon_`,
`evpost_`, `_mact_delete`), with a suffix for the steps of one function.

*Grain.* A critical section is one step when nothing in it can be seen from
outside before its end. That holds for the queueing in LOCKON, EVWAIT and
BARSYNC, whose writes are to the object or to the caller's own descriptor. It does not
hold for wakers: a woken task runs on as soon as its state is set, while the waker
is still in the critical section. There the semaphore is a variable, and counting
the waiters, marking each, and following each link are steps of their own. The
decrement, the look for deadlock and the spin are separate too, and so is each look
of TSKWAIT and each step of the walk in `_mact_find_self`.

In `AqIo` a step is what happens between two accesses to what others may change: a
comparison of two pointers read without their lock is two steps, and a call of AQRECALL or AQSTAT
is a step before the one that takes its first lock, because other tasks may have recalled the
request by then. `NULL` is -1, which compares as a pointer below every slot: AQOPEN leaves `aq_fird`
so until the first batch was issued. In `TaskCommon` the walk
that fills a table is one step for each block, and counting the blocks another. In
`Macrotasking` a call reads the variable in one step and uses the object in
the next, an assignment looks at it in one and writes it in another, and a release looks at
the object in one and frees it in another. EVREL's look reads the event's state and its queue one
after the other (`mactevnt.c:251`) and is one step in the model: they could disagree only if
somebody posts or clears the event, or joins its queue, in between, which nobody does in the listed
programs (in `event_early` the state is posted before, and the queue is not read).

*Composition.* `MactLock`, `MactEvent` and `MactBarrier` extend `MactTask`;
`Macrotasking` extends it too and instantiates the three, so that the count of
runnable tasks, the descriptors and the waker's locals are shared and each call is
exactly the action of its own module. There is one variable of each kind and `malloc` has
two blocks for each, so that memory is used again. A program is a sequence of
calls for each task (`Programs`), because programs that release an object too early
are at fault themselves: the instances list programs that are not.

*Descriptors.* In `MactTask` a task is its descriptor. In `MactTasks` descriptors
are numbered objects on lists and tasks come and go; `NULL` is 0.

*History variables.* `held` in `MactLock` (the locks a task has got and not given
back), `joined` in `MactTasks` (the tasks whose end TSKWAIT has told) and `mishap` (below), `accepted`,
`fate`, `over`, `heard` and `since` in `AqIo` (what has become of each request, whatever
its slot holds by now; of the locals, `reqid` is the code's parameter) and `given` in `TaskCommon` (the addresses a thread was told) are
not in the code; they say what the user's program believes.

`mishap` says that one of two things has happened that the code does not guard against: a
waiter's link was written while a walk stood on it, having let the waiter go and not yet read
where the link leads (`StoodOn`; `mactcdl.c:215`, `mactstrt.c:212`), or a waiter joined the list of a
descriptor whose task has given it back and which another task with the same user id has, or is
about to have (`mactwait.c:91`; a task that has ended and still has its descriptor is no such
case). It changes no step. The properties of `MactTasks` that a mishap breaks are
stated up to the first one, so that they say that nothing else breaks them.

*External.* `_mact_start_macrotask` is assembly code missing from the repository.
It is modelled by what TSKSTART leaves to it ("will fill in the rest of the
descriptor"): thread id, list of waiters, state, then `_mact_add`. The system's
`listio` and transfers, `malloc` and the thread library's keys are modelled by how the
code uses them.

*Mutations.* An operator `X_Y` above an operator `X` is a mutation of it: a
plausible mistake. `PROJECT.json` says with which mutation each property fails.
No specification uses one.

## 3. What the runs show

| Run | Instance | Result |
|---|---|---|
| `locks` | 3 tasks, 2 locks, 2 calls each | exclusion, queue integrity, exact count, deadlock detection, refinement of `FifoLock`, waiters get their locks |
| `event` | 3 tasks, 1 event, 3 calls each | queue integrity, refinement of `EventPromise`, a post releases |
| `barrier` | 3 tasks, 1 barrier of count 0 to 3, 4 calls each | queue integrity, tasks in step, refinement of `BarrierPromise`, an opening releases |
| `tasks` | main, 2 tasks, 1 foreign thread, 2 calls each, a free list that runs out | no descriptor lost or shared, TSKLIST's table large enough, no running task taken for ended, TSKWAIT neither early nor forgetful but by a mishap, no false deadlock, TSKWAIT returns |
| `macrotasking` | 3 tasks, 12 programs, barriers of count 0 to 3 | the programs are orderly, one object for a variable, releases right, deadlock detection across kinds |
| `aqio` | 2 tasks that queue, 1 that asks and closes, a ring of 3 slots, 3 requests, a signal | order of the pointers and of the locks, refinement of `AqPromise`, errors told once, waits mean done, every call returns |
| `taskcom` | 2 threads, 3 blocks of different sizes, 3 calls each | copies apart, of the right block, in their place |
| `locks_autotask` | a macrotask and a foreign thread | false deadlock |
| `two_barriers` | 3 tasks, 2 barriers | a sleeper lost |
| `tasks_early` | main and 3 tasks, 2 calls each | TSKWAIT returns while the task runs |
| `aqio_idle` | 2 tasks that queue, 1 that waits | AQWAIT says IDLE too early |
| `event_early` | 3 tasks, 1 event | a release under a post |

Properties:

- `MutualExclusion`: from the moment LOCKOFF chooses a waiter, it and nobody else
  owns the lock, although it has not yet returned from LOCKON.
- `QueueIntact` (three versions): between critical sections the queue is exactly
  the set of sleepers, and all counters and ends agree with it.
- `RunnableCountExact`: the count is the number of tasks that have not taken
  themselves off it, plus those chosen by a waker that has already counted
  them. It can exceed the number of tasks.
- `NoFalseDeadlock`, `HangIsReported`: deadlock is reported only when all tasks
  wait, and always then. In `macrotasking` some wait for a lock, some for an event
  and some at a barrier.
- `IsFifoLock`, `IsEvent`, `IsBarrier`: refinements. The owner of a lock is whom
  it has been handed to, the queue is the linked list; a post or an opening takes
  effect in one step as seen from outside, though it walks the queue twice.
- `WaiterGetsLock`, `PostReleases`, `OpeningReleases`, `WaitReturns`: liveness.
- `InStep`: no task leaves a round of a barrier of all tasks before all have entered it.
- `ListsIntact`: every descriptor is on the free list, on the hash chain of its
  thread, or in one thread's hands.
- `LooksAreRight`: whoever looks at a descriptor, in TSKWAIT or TSKTEST, and takes the task
  for ended is right, whatever the descriptor serves by now.
- `WaitMeansEnded`: TSKWAIT has returned only for tasks that have ended. `EarlyOnlyByMishap`:
  so it is until the first mishap.
- `NobodyForgotten`: whoever sleeps in TSKWAIT is in the list of a task that will
  still walk it, until the first mishap.
- `ListFits`: at any moment TSKLIST may be called, its table has a row for each
  descriptor it will meet, tasks that start or end included.
- `SameObject`: the object a task is inside of is the one its variable stands for,
  whichever task created it and however often the variable was reassigned.
- `RefusedRightly`, `ReleasedIdle`: a release gives the program up only over an
  object that somebody owns or waits for, and frees only one that nobody does, though
  it looks without the semaphore.
- `Orderly`: what the theorems about the composition assume of programs (section 5). It is checked,
  so that they speak of these programs among others. LOCKASGN and EVASGN have a part in it: called
  again for a variable that stands for an object in use, they leave it alone.
- `PointersInOrder`: `aq_ptr` stays between `aq_busy` and `aq_nxtq`.
- `FiredUpToPtr`: `aq_fird` lags `aq_ptr` only while a task fires requests, with `lkfird`. AQOPEN
  does not set `aq_fird` (`aqopen.c:371-375`); until the end of the first batch the property takes its
  NULL for the first slot, where `aq_ptr` is. `_aqrcl` compares it as it is, NULL or not.
- `LocksInOrder`: no task waits for a lock while it has one that comes later in the order.
- `NoBlindRecall`: nobody waits for a request the system has not been given.
- `KeepsPromise`: refinement. Requests are started in order and once; nothing happens to a
  request after a call has acted on its outcome.
- `ToldOnce`: a failed request is told once by the time it has left the ring.
- `WaitMeansDone`, `IdleMeansIdle`: when AQWAIT or AQRECALL returns, or answers IDLE, what
  was accepted before is complete.
- `CloseFinishes`, `EveryCallReturns`: AQCLOSE leaves nothing behind; the four locks and
  the waits with locks held never block each other.
- `Apart`, `RightBlock`, `StaysPut`: see the inventory of task common.

A type invariant is run in `macrotasking`, which has the variables of all three kinds of objects;
all are proved for all instances.

*Bounds.* `MaxCalls` bounds the calls of each task, `MaxMt` the descriptors;
`UINT_MAX` is small so that an underflow would show. Three tasks are the least with
which a waker, a waiter and a third party that interferes exist; two locks the
least with a cycle; one free and one busy descriptor with batches of three make
both paths of `_mact_allocate` happen, and reuse of ended tasks' descriptors. In `tasks` a
thread calls TSKSTART or TSKWAIT up to twice, which lets a waiter wait again while the walk that
woke it goes on; `MaxLooks` bounds the other calls that need one's own descriptor (LOCKON
and the like). The safety properties of locks, events, barriers, tasks, task common and
asynchronous I/O are proved for every instance, the refinements included, so that there the bounds
matter for liveness only; in `macrotasking` they matter for `Orderly` alone. A ring of three slots
holds two requests: three requests fill it, wrap every pointer round and make a batch be
split at the ring's end. `MaxSignals` is one signal, which may hit any request of a
batch. The programs of `macrotasking` assign each variable up to twice, the second
time to another block of memory or the same, and contain for each kind a release that
is refused; four programs mix the kinds, and in one everybody ends up waiting for the
event or at the barrier, unless the barrier's count is one.

*Limits that are part of the result.* `event` and `barrier` have a single object
each, `tasks` makes no promise after a mishap, no two tasks of a program of `macrotasking` assign
a variable at the same time or wait again behind a walk that has just woken one of them, its
releases (except where they are to be refused) come after a `join` of the program's own,
the signal of `aqio` hits a task that asks, only one task asks, and it does not ask
about a request that has been recalled (`AskAgain = FALSE`), of a ring for two requests. These are not bounds
chosen for speed: beyond them the promises fail (next section).

*Deadlock checking* of TLC is off: the programs end.

*Fairness.* Weak fairness for each thread's steps inside the runtime: threads are
bound, and nothing in the runtime waits except on a semaphore or on its own state.
For the locks it includes LOCKOFF (critical sections end), for the tasks the
return of the task's subroutine; both are duties of the user's program, without which
waiting for ever is no fault of the runtime. For asynchronous I/O it is on each task's
steps inside a call and on the completion of each transfer the system has been given;
spin locks are not fair, and need not be where programs make finitely many calls. Foreign threads need no fairness. When
tasks wait for each other in a cycle while others run on, they wait for ever: the
liveness properties of locks and tasks except such a cycle, and a reported deadlock.

## 4. Where the code does not do what it says

With a run:

1. `two_barriers`: the task that opens a barrier sets a waiter's state to `TS_Running` and
   then reads its link (`mactbar.c:119`). The waiter may have left and queued itself
   at another barrier. The walk is then cut short, and sleepers are lost.
2. `locks_autotask`: a thread that TSKSTART did not create is never added to the
   runnable count but takes itself off it, so a live program can be given up.
3. `tasks_early`: the end of a task wakes its waiters in the same way as 1 (`mactcdl.c:215`). A task it
   has let go may wait for another task at once, behind others: the walk goes on through those, and
   their TSKWAIT returns while the task they wait for runs.
4. `aqio_idle`: AQWAIT compares `aq_busy` and `aq_nxtq` without a lock (`aqwait.c:85`).
   Between the two reads another task may recall one request and accept another, after
   which the old value of one equals the new value of the other on a ring that is not empty.
5. `event_early`: EVPOST marks the event posted before it wakes its queue, and EVREL takes a
   posted event for one that nobody waits for (`mactevnt.c:251`): a task woken
   first may free the event that EVPOST is still working on.

Seen with the same modules, in instances that are not kept as runs:

- The cause of `two_barriers` is also in EVPOST (`mactevnt.c:187`: a walk that goes
  on through another event's queue wakes its sleepers). It crosses kinds: a task woken from
  an event that goes on to a barrier takes the event's walk with it.
  LOCKOFF wakes one task, reads the link first, and is not concerned.
- A task that ends takes itself off the count and does not look for deadlock
  (`mactcdl.c:226`); if it was the last to run while others wait for each other, they
  spin, and nobody reports it.
- TSKWAIT for a task that has ended may find its descriptor serving another task with the same
  user id, and wait for that one.
- Two tasks that both call LOCKASGN with the expected value may both create a lock
  (`mactlock.c:66`), lock one each, and be in the critical section together.
- BARREL may be refused although nobody waits any more: the opener resets the count
  after it has woken everybody (`mactbar.c:181`, against the comment at `:183`).
- While a task is being started, a descriptor is neither free nor on a chain, and
  TSKLIST lays out the columns of its table for one more row than it reads them with
  (`mactlist.c:88`, `:155`, `:212`; "a coherent view", says `:51`).
- `_mact_find_self` walks a chain that may change under it, and can create a
  second descriptor for a foreign thread whose id shares a chain with a task's
  (`mactcdl.c:272`).
- TSKWAIT by a thread without a descriptor waits for a semaphore it holds itself
  (`mactwait.c:108`, the label `hung` of `MactTasks`).
- A signal to a task in AQREAD or AQWRITE (`Signalled = {q1}`): `KeepsPromise`
  fails. A request that EINTR has marked done may be recalled and reported by another task
  before `_aqcall` starts it again (`aqcall.c:146`).
- AQRECALL and AQSTAT look for a request in every slot, in use or not, and when `aq_busy` equals
  `aq_nxtq` take any slot for one of the ring (`aqwait.c:204`). On an empty ring they so move
  `aq_busy` past `aq_nxtq`: `PointersInOrder`, `NoBlindRecall` and `ToldOnce` fail. A
  program gets there that asks about a request that was recalled (`AskAgain = TRUE`), but so does
  one that does not: while AQRECALL waits for `lkbusy` (`aqwait.c:186`), the AQWAIT of a second
  task that asks may recall everything (`Asker` of two tasks), and in a ring for one request
  (`Max = 2`) so may an AQREAD. With the condition that the ring is not empty when they have
  their locks (`InTime`, section 5) added to `Next`, two tasks that ask, again and again, violate nothing.

## 5. What is proved

For every value of the constants, and under the assumptions named below: every safety property
of every passing run, the refinements included, but `Orderly`, which is an assumption itself.

### Linked lists

Most of the runtime's state is on singly linked lists: queues of locks, events and barriers,
waiters of a task, the free list and the hash chains. `Chains` says what a walk meets,
for lists that may be broken (`Walk`, `Met`, `ListFrom`: this is what the invariants
that TLC checks are written with) and what it means that a sequence is the list that starts somewhere
(`IsList`). `ChainProofs` proves that a walk along a list meets exactly its nodes and ends
(`WalkFollowsList`, `WalkMeetsList`), so that a list is found by walking (`ListIsFound`), and what each
way of changing links does to it: `ListGrowsAtTail`, `ListGrowsAtHead`,
`ListLosesHead`, `ListLosesMember`, `RestOfList`, `ListStays`. The induction along the
list is done once, in `WalkFollowsList`. The library states induction for an operator, which the
provers cannot instantiate; `NatSetInduction` states it for a set of numbers, and
follows from the order of the natural numbers being well founded.

An invariant about a queue is then that some sequence is its list, and that its nodes are
exactly the tasks in a certain state. A step changes the sequence by `Append` or `Tail`, or not at
all, and no proof but those of `ChainProofs` goes along links.

### Locks

`MactLockProofs`, about `MactLock!Spec`, for every finite set of tasks and every
set of locks:

| Theorem | Statement | Assumes |
|---|---|---|
| `TypeCorrect` | `Spec => []TypeOK` | |
| `LockInvariant` | `Spec => []LockInv` | |
| `LocksExclude` | `Spec => []MutualExclusion` | |
| `CountIsExact` | `Spec => []RunnableCountExact` | `Autotask = {}` |
| `NoFalseAlarm` | `Spec => []NoFalseDeadlock` | `Autotask = {}` |
| `HangsReported` | `Spec => []HangIsReported` | `Autotask = {}` |
| `QueuesIntact` | `Spec => []QueueIntact` | |
| `LocksAreFifo` | `Spec => IsFifoLock` | |

Assumptions on the constants: tasks are finitely many and at least one, `NULL` is
neither a task nor a lock, and twice the number of tasks fits an unsigned int (the
count may transiently include a task twice).

*Exclusion.* `MutualExclusion` is not inductive: a LOCKOFF hands the lock to
whatever its queue's head is, so the queue must hold waiters of this lock and nobody
who owns it already. `LockInv` adds to the types that waiters are in the
state they queued in (`WaitersWait`), that a waker holds one semaphore and wakes a
granted task (`WakersWake`), that the queue's ends and links are tasks queued for the
same lock, different tasks linking to different tasks
(`EndsQueued`, `LinksQueued`, `LinksDistinct`), and that a free lock has no owner
(`FreeHasNoOwner`). It speaks of links one at a time, never of the whole chain. One lemma per way of changing a lock
(`TakeStep`, `EnqueueStep`, `HandOverStep`, `FreeStep`, `WakeStep`, `ReturnStep`, and
`QuietStep` for the rest) shows that the shape is kept, `StepLockInv` puts them
together.

*Deadlock detection.* `CountInv` says that the count is exact, that when it is zero
deadlock has been reported or some task is about to look, and that a report implies
that all tasks wait with nobody left to wake one. It rests on `LockInv`: a task chosen
for wake-up is in exactly one waker's hands. The proof follows two cardinalities, of
the tasks that have not taken themselves off the count and of those put back on it,
through each step. With a thread that is never counted the statement is false, which
`locks_autotask` shows; hence the assumption.

*Queues and refinement.* `QueueInv` adds to `LockInv` that each lock's queue is a list of exactly
the tasks that are queued for it, once each, as many as `ml_wcount` says. `Effect` says what a
step does to the queues: nothing, a task takes a free lock, joins the tail, the head is
chosen, a lock becomes free. `StepEffect` shows that every step has one of these effects, and both the
invariant and the refinement follow from the effects alone: each is a step of `FifoLock` on
the lists, or none.

### Events and barriers

`MactEventProofs`, about `MactEvent!Spec`, and `MactBarrierProofs`, about `MactBarrier!Spec`, for
every finite set of tasks and, for barriers, every count from 0 to `UINT_MAX`:

| Module | Theorem | Statement | Assumes |
|---|---|---|---|
| `MactEventProofs` | `QueueStaysIntact` | `Spec => []QueueIntact` | `OneEvent` |
| | `EventKeepsPromise` | `Spec => IsEvent` | `OneEvent` |
| `MactBarrierProofs` | `QueueStaysIntact` | `Spec => []QueueIntact` | `OneBarrier` |
| | `OneBarrierStrandsNobody` | `Spec => []NobodyStranded` | `OneBarrier` |
| | `RoundsInStep` | `Spec => []InStep` | `OneBarrier` |
| | `BarrierKeepsPromise` | `Spec => IsBarrier` | `OneBarrier` |

`OneEvent` and `OneBarrier` say that all waiting is for one object. With two of them the
theorems are false, as `two_barriers` shows; the assumption marks where the code keeps its
promise.

A waker here walks its queue twice, and those it has let go run on while it does. The invariant
(`EventInv`, `BarrierInv`) describes the sleepers by one list at each moment (`Sleepers`), which starts at
the queue's head between two calls and where the walk stands during one (`First`): letting the head
go and following its link make the list its own tail. A task that was let go cannot write its link before
the waker has read it, because the only object to wait for is locked by the waker. As with locks, each step's
effect on the list (`Effect`: nobody moves, one joins or arrives, a walk begins, one is let go, a
walk ends) gives the invariant and the refinement. In the refinements a post or an opening takes
effect when it begins: whoever is still to be let go counts as released.
`RoundInv` follows the numbers of calls: when a barrier synchronises all tasks, those asleep
are one call ahead of the others, and during an opening all are level.

### Starting, waiting for and ending tasks

`MactTasksProofs`, about `MactTasks!Spec`, for any number of threads, of descriptors and of calls,
whatever ids collide or are shared, whatever a new descriptor's state was left at by `malloc`:

| Theorem | Statement | Assumes |
|---|---|---|
| `DescriptorsTyped` | `Spec => []Typed` | |
| `ListsStayIntact` | `Spec => []ListsIntact` | |
| `TableAlwaysFits` | `Spec => []ListFits` | |
| `LooksStayRight` | `Spec => []LooksAreRight` | |
| `WaitsEndRightly` | `Spec => []EarlyOnlyByMishap` | |
| `NobodyIsForgotten` | `Spec => []NobodyForgotten` | |
| `DeadlockIsReal` | `Spec => []NoFalseDeadlock` | `OnlyTasksWait` |
| `CountStaysInBounds` | `Spec => []TypeOK` | `OnlyTasksWait` |

*Descriptors.* The free list and the hash chains share the field `mt_link`. `TasksInv` says that
they are lists (`Placed`), that each descriptor handed out so far is on exactly one of them or in one
thread's hands (`InHand`, `HoldersDiffer`), and that whoever runs a macrotask is on its chain with
its own id (`Lives`). The last is needed because an ending task looks for its descriptor on the
chain without protection against missing it ("There is no protection", `mactcdl.c:181`). Most
steps change no link (`OrdinaryStep`); allocation from the list or from a new batch (`TakesFree`,
`ObtainsMore`), `_mact_add` (`PlacedAfterAdd`) and the removal of an ended task
(`PlacedAfterUnlink`) have their own lemmas. Typing is part of this
invariant, since that no step follows a bad pointer depends on it.

*Looks.* `LooksInv` says of every task control array, and of every task on its way through TSKWAIT, that its
pointer is to what was the descriptor of the task in question (`WasOf`): its own until that task has
given it back, whatever the descriptor is used for after that; and that the descriptor of a task that runs is neither free nor
complete and carries its user id. A step that writes a descriptor is shown to be calm for all
others' (`CalmStep`). The case that needs care is the reuse of a descriptor, which TSKSTART
marks ready before it writes the new user id (`mactstrt.c:208`).

*Waiting.* `WaitInv` says that, unless there was a mishap, the waiters of each task that has
not yet woken them are a list, from the head of `mt_waiters` or from where the walk stands (`FirstToWake`);
that its nodes are exactly descriptors of tasks asleep in TSKWAIT for that task; and that
whoever waits and is on no list was let go by a task that has ended (`Queued`); and that a task that
ends stays marked complete until it gives its descriptor back (`Marked`), so that nobody joins its
waiters any more: without this, dropping `TS_Complete` from what TSKWAIT takes for the end would
forget a waiter. Every step is steady, that is,
changes none of the lists (`Steady`), except joining (`JoinedQueued`) and waking (`WokenQueued`).
Without `mishap` the invariant is false, which `tasks_early` shows.

*The count.* `CountInv` says that the count of runnable tasks is the number of macrotasks that have
not taken themselves off it (`Counted`), plus the waiters put back on it by an ending task (`LetGo`);
an increment by the length of the list is right because the list's nodes are as many as those
it puts back (`WaitersCounted`, a bijection). `OnlyTasksWait` says that no thread TSKSTART
did not create calls TSKWAIT: such a thread is never counted but takes itself off, and the
statements are false, as in `locks_autotask`.

### Task common

`TaskCommonProofs`, about `TaskCommon!Spec`, for every set of threads, every set of
blocks and all sizes:

| Theorem | Statement |
|---|---|
| `TypeCorrect` | `Spec => []TypeOK` |
| `TablesMatch` | `Spec => []RightBlock` |
| `CopiesStay` | `Spec => StaysPut` |
| `CopiesApart` | `Spec => []Apart` |

The only assumption is that sizes are positive. Three inductive invariants follow each
other. `Typed` adds to the types that the block a thread was asked for is in the cross
reference under the number the thread holds, and that it has counted no more blocks than there
are. `TablesRight` adds that no block has two numbers (`Distinct`), where a thread's table is
at each point of a call (`TableOf`), and that each table, finished or half filled, follows
the cross reference entry by entry: so tables match however blocks were numbered between a
thread's counting and its filling. `StaysPut` follows from it, since a thread that
has a table never builds a second one, and an entry once allocated is kept. `Memory` says
that no two threads have a piece of memory in common (`Owned`), that the copies of one thread are
disjoint (`Inside`), and that a thread fills its piece up to the sum of the sizes of the
blocks filled so far, out of the sum it has counted (`Filling`, `Counted`). These sums are the
values of a function on the numbers of blocks (`Totals`) that says how each follows from
the one before, so that a step needs one more term and no induction.

### Asynchronous I/O

About `AqIo!Spec`, for any tasks, rings of any size of at least two slots, any number of
requests, and whatever transfers do. Four theorems hold whatever signals come and whatever
programs ask. The next six assume `WellUsed`, that no signal hits AQREAD or AQWRITE
(`Signalled \cap Queuer = {}`), and are about behaviours in which AQRECALL and AQSTAT come in
time: the ring is not empty while they wait for `lkbusy` to look for their request
(`[]InTime`). Any number of tasks may ask, and about whatever they like, as long as this holds; it
holds of programs that only use AQWAIT. Section 4 shows what fails otherwise, so that these conditions
are not an aid to the proof but part of what is true.

`InTime` is about the ring, and a program cannot see to it directly. The last three theorems
are about programs: `OneAsker` says that the calls that ask come from one task, that it does not
ask about requests that have been recalled, and that the ring is for two requests or more, as in the
run `aqio`. That is enough for `InTime`, and so for all the rest. Two tasks that ask about
requests not yet recalled are not enough (section 4).

| Module | Theorem | Statement | Assumes |
|---|---|---|---|
| `AqIoProofs` | `ControlInvariant` | `Spec => []Control` | |
| | `InOrder` | `Spec => []LocksInOrder` | |
| | `TypeCorrect` | `Spec => []TypeOK` | |
| | `FiringDone` | `Spec => []FiredUpToPtr` | |
| | `RingInOrder` | `Spec /\ []InTime => []PointersInOrder` | `WellUsed` |
| | `PromiseIsKept` | `Spec /\ []InTime => KeepsPromise` | `WellUsed` |
| | `RecallsAreSafe` | `Spec /\ []InTime => []NoBlindRecall` | `WellUsed` |
| | `CloseIsClean` | `Spec /\ []InTime => []CloseFinishes` | `WellUsed` |
| | `ErrorsToldOnce` | `Spec /\ []InTime => []ToldOnce` | `WellUsed` |
| | `WaitsAreDone` | `Spec /\ []InTime => WaitMeansDone` | `WellUsed` |
| | `OneAskerInTime` | `Spec => []InTime` | `WellUsed`, `OneAsker` |
| | `OneAskerIsSafe` | `Spec => [](PointersInOrder /\ NoBlindRecall /\ ToldOnce /\ CloseFinishes)` | `WellUsed`, `OneAsker` |
| | `OneAskerIsServed` | `Spec => KeepsPromise /\ WaitMeansDone` | `WellUsed`, `OneAsker` |

*Locks and types.* `Control` says where a task can be in which call (`Place`), which locks it
then holds, those that its call brings into `_aqcall` or `_aqrcl` included (`Held`), and that a
task in AQCLOSE is the only one in a call (`Alone`, `Closed`). A step of one task concerns itself
only (`OthersStay`), AQCLOSE excepted (`CloserStays`). The order of the locks
follows from `Control` by cases. `TypeOK` needs two facts besides: that AQSTAT
has found a slot with a request in it (`Known`), and that the task with `lknxtq` which
fills a slot came in while there was a request to accept (`Room`). For `FiredUpToPtr`,
`Copied` says what `_aqcall`'s copies are worth: under `lkptr` its `ptr` is `aq_ptr`, under
`lkfird` its batch runs from `aq_fird` to `aq_ptr`, though `aq_nxtq` moves on meanwhile;
that only one task at a time is in either part follows from `Held`. Before the first batch
`aq_fird` is NULL and `aq_ptr` the first slot.

*The ring.* All positions are distances from `aq_busy`, round the ring (`Dist`). `RingInv`
numbers the slots: a slot of the ring holds the request whose number says how far it is from
`aq_nxtq` (`Numbered`), and what has left the ring was recalled (`LeftOver`); what was not
started is not done (`NotStarted`), what the system works on was (`Started`). To that it adds what each call
knows: that there is room (`Filling`), that the rest of a batch lies between `aq_busy` and
`aq_ptr` and nobody has given it away (`Firing`), that a recall has the oldest
request, and one that was started (`Oldest`), that a wait's stop is ahead (`Stopping`), that
AQSTAT's slot is not the empty one (`Looking`). A recall moves the origin of all distances
(`AdvanceKeeps`), which is sound because the slot that leaves is complete and so nobody's to start.

*Recalls.* `GivenInv` says that a request that was started and is not complete is with the
system, or in the rest of the one issuer's batch. `_aqrcl` reads `aq_fird` first and `aq_ptr`
second: `Seeks` keeps that what is still to be started lies between the two values read, so
that finding the request elsewhere means it was started, and having had `lkfird` means the
same.

*AQCLOSE.* `CloseInv` follows `_aqcall`'s copy of `aq_nxtq`: nobody else is in a call, so all
was started, and when `aq_busy` reaches `aq_ptr` the ring is empty.

*Implementation.* `Fates` says what has become of each request of the ring from the
state of its slot, that requests are started in their order (`QueuedLast`), and that the rest of
a batch has not been acted on (`Gives`). `StepKeeps` shows that each step of `AqIo` is a
step of `AqPromise` or none: a fill accepts, a `listio` gives, a completion finishes, each of
the four recalls uses.

*What the program is told.* `Tells` says that a slot's mark agrees with the history: a request
of the ring is marked exactly if a call has acted on it (`Marks`), and was then told of if it
failed (`Heard`). A wait's stop lies at most as far behind `aq_nxtq` as requests have been accepted since the one it
waits for (`Await`), so when `aq_busy` gets there all are over, whatever was accepted and
recalled by others in between. An AQRECALL whose request was recalled while it waited for its lock
finds the request's slot, if it still has it, outside the ring, or no slot: then all up to it are over.

*One task that asks.* `AskInv` follows the ring's size: a request that was not recalled when the
call was made was in the ring (`LeftOver`), so the ring was not empty. Until the call has its
locks only AQREAD and AQWRITE recall, since whoever closes the file is alone; they do so
of a full ring (`FindsFull`: they hold `lknxtq`, so it stays full), and one request at least is
left. The step of `RingInv` needs `InTime` only in the state before (`RingNext`), so the two are
invariants together.

### Locks, events and barriers together

`MacrotaskingProofs`, about `Macrotasking!Spec`, for any finite set of tasks, any sets of objects
of each kind, and any set of programs:

| Theorem | Statement | Assumes |
|---|---|---|
| `TypeCorrect` | `Spec => []TypeOK` | |
| `NobodyIsLeftBehind` | `Spec /\ []Orderly => []SameObject` | |
| `RefusalsAreRight` | `Spec /\ []Orderly => []RefusedRightly` | |
| `ReleasesAreIdle` | `Spec /\ []Orderly => ReleasedIdle` | |
| `LocksExclude` | `Spec /\ []Orderly => []Locks!MutualExclusion` | |
| `QueuesIntact` | `Spec /\ []Orderly => [](Locks!QueueIntact /\ Events!QueueIntact /\ Barriers!QueueIntact)` | |
| `NoFalseAlarm` | `Spec /\ []Orderly => []NoFalseDeadlock` | `Autotask = {}` |
| `HangsReported` | `Spec /\ []Orderly => []HangIsReported` | `Autotask = {}` |

*What is assumed of programs.* The properties are false of programs in general, for the reasons
in section 4. `Orderly` says what a program must not do, in terms of what its tasks are about
and not of what the objects look like:

- `LinksAreRead`: a task that a post or an opening has woken does not wait again before the walk
  has read its link (excluded: `two_barriers`). It may if it was the last to be woken, for then the link
  it writes is the end of the list either way, as long as nobody queues behind it.
- `ReleasesAlone`: a release that goes through, or that looks at a barrier, finds no other task
  inside a call on its object, except asleep (excluded: `event_early`, and a BARREL right after BARSYNC).
  Whether somebody sleeps there, or has the lock, is for the runtime to find out.
- `AssignsAlone`: an assignment that creates an object finds nobody inside of the one the variable stood for
  (excluded: two tasks that assign at the same time).

A thread TSKSTART did not create is not on the count (section 4), hence `Autotask = {}` in the
last two. `Orderly` is a condition on behaviours; the run `macrotasking` shows that the twelve
programs keep it in all their behaviours.

*The argument.* The modules for one kind of object are instances over variables that the kinds
share, and a task's one link field belongs to the queue of whatever it waits for. Their theorems
are about one kind alone, those on events and barriers about one object, and say nothing here. `Inv` therefore views an object of any
kind as a queue with two ends and a semaphore (`QHead`, `QTail`, `Sem`), and says in `ObjectsInv` that the queue, or
the rest of it that a walk is still to meet, is a list of exactly the tasks that sleep there
(`Queues`), what a waiter and a waker look like (`WaitersWait`, `WakersWake`), and what the words
of a lock, an event and a barrier say of their queues (`LockWord`, `EventWord`, `BarrierWord`).
Each step is one of a few shapes: a task queues, a walk goes on, a queue is emptied,
or nothing moves; what a shape does to the queue at hand, and that it leaves all others
alone, is proved once for all kinds. `LinksAreRead` is used at one place, where a task that queues
writes its link.

`NamesInv` is about variables and memory: whoever is inside of an object is inside of what its
variable stands for, a lock that somebody has is not given back (`HeldAreAllocated`), and
a release that has found its object idle finds it so until it is through (`FreeAreIdle`). The last needs
that nobody can come in meanwhile: `ReleasesAlone` keeps out those that have read the address, and a sleeper there would
have been seen. `ObjectsInv` and `NamesInv` need each other: memory handed out again starts with an
empty queue only because nobody was in it when it was freed.

`CountInv` follows the count as in `MactLock`, but a post or an opening puts as many back as it has
counted under the semaphore before (`CountsItsWaiters`), and
until its walk has met them these are known by the object they wait for (`PutBack`).

### Model-checked only

- Liveness (`WaiterGetsLock`, `PostReleases`, `OpeningReleases`, `WaitReturns`,
  `EveryCallReturns`), which is out of the prover's reach.
- `Orderly`, of the programs of `macrotasking`: whether a program keeps it depends on the program.
- `IdleMeansIdle`, `ReleasedIdle` under a post, `NobodyStranded` with two barriers,
  `WaitMeansEnded`, and false deadlock with foreign threads: these are refuted.

## 6. What is not modelled

- EVTEST and TSKTEST, which only read; what TSKLIST's rows say.
- LOCKASGN and its like when `malloc` fails (they report it and go on, to a null pointer),
  and the failure of `thr_create` (the code aborts). LOCKASGN and EVASGN compare only
  the first word of the variable; an address and the expected value are taken to differ in it.
- TSKWAIT and the end of tasks together with locks, events and barriers: `MactTasks`
  has descriptors on lists, `Macrotasking` has tasks that are there from the start.
- The stack size, task ids, argument vectors beyond the hand-shake; TSKTUNE, TSKVALUE.
- Task common without `SHORT_TERM_TASKCOM`, which the build defines (`macdefs.h`), and the
  hash table of the cross reference, which is a way to search its list.
- Asynchronous I/O on files of the flexible I/O layers, which is synchronous underneath, and on
  systems without compound `listio` (`_MPP_LSTIOKLUDGE`); the checks of arguments; the limit of
  a million recalls, which `NoBlindRecall` keeps out of reach.
- Memory ordering: steps are sequentially consistent, as the `volatile` fields and
  semaphores on the original machine intend.
- All other parts of the repository: `PROJECT.json` gives the reason for each.

## 7. What could follow

1. `Macrotasking` with tasks that start and end, for the deadlock detection of programs that
   use TSKWAIT and locks.
2. The cache layer of flexible file I/O, against a file without a cache.
