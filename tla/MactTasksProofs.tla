--------------------------- MODULE MactTasksProofs ---------------------------
(***************************************************************************)
(* Proofs about MactTasks, for any number of threads and descriptors.      *)
(* TasksInv is about the free list and the hash chains; on it rest         *)
(* LooksInv, about what the looks of TSKWAIT find, WaitInv, about the      *)
(* lists of waiters, and, for programs in which only macrotasks wait,      *)
(* CountInv, about the count of runnable tasks.                            *)
(***************************************************************************)
EXTENDS MactTasks, ChainProofs, FiniteSetTheorems, TLAPS

-----------------------------------------------------------------------------
(* What makes ListsIntact and ListFits hold after every step. The free     *)
(* list and the chains as sequences:                                       *)
Link == [d \in Descriptor |-> desc[d].link]
FreeList == ListFrom(free, Link, NULL, MaxMt)
HashLists == [b \in Bucket |-> ListFrom(hash[b], Link, NULL, MaxMt)]

Placed(f, q) ==
  /\ f \in Seq(Descriptor) /\ IsList(f, free, Link, NULL) /\ Len(f) = free_count
  /\ q \in [Bucket -> Seq(Descriptor)]
  /\ \A b \in Bucket : IsList(q[b], hash[b], Link, NULL)
  /\ \A d \in Descriptor :
       d <= total_count <=> \/ d \in Nodes(f) \/ d \in InHand
                           \/ \E b \in Bucket : d \in Nodes(q[b])
  /\ InHand \subseteq Descriptor /\ Nodes(f) \cap InHand = {}
  /\ \A b \in Bucket : \A d \in Nodes(q[b]) :
       /\ d \notin Nodes(f) \cup InHand
       /\ desc[d].stid \in Thread /\ MT_HASH(desc[d].stid) = b
  /\ \A d \in Descriptor : d > total_count => desc[d].link = NULL

HoldersDiffer ==
  \A t, u \in Thread : Holds(t) /\ Holds(u) /\ Held(t) = Held(u) => t = u

(* A thread that runs a macrotask, and one that starts a macrotask and has *)
(* not created its thread yet.                                             *)
Alive(t) ==
  \/ pc[t] \in {"complete", "inc", "mark", "next", "uncount", "unlink"}
  \/ t \notin Foreign /\ pc[t] \notin {"unborn", "chosen", "born", "add", "gone"}

Starting(t) == pc[t] \in {"allocate", "ready", "fill"}

(* Whoever runs a macrotask is found on its chain; nobody starts the task  *)
(* somebody else is starting.                                              *)
Lives(q) ==
  /\ \A t \in Thread : Alive(t) =>
       own[t] \in Nodes(q[MT_HASH(t)]) /\ desc[own[t]].stid = t
  /\ \A t \in Thread : pc[t] = "add" => desc[own[t]].stid = t
  /\ \A t \in Thread : Starting(t) => arg[t] \in Thread /\ pc[arg[t]] = "chosen"
  /\ \A t, u \in Thread : Starting(t) /\ Starting(u) /\ arg[t] = arg[u] => t = u
  /\ \A t \in Thread :
       pc[t] \in {"look", "join", "dec", "check", "spin"} => arg[t] \in Thread
  /\ \A t \in Thread : pc[t] \in {"look", "join", "next"} => mt[t] # NULL

TasksInv == Typed /\ HoldersDiffer /\ Placed(FreeList, HashLists) /\ Lives(HashLists)

(* What makes LooksAreRight hold after every step. The task c runs; and d  *)
(* was its descriptor, and is until c gives it back.                       *)
Runs(c) ==
  c \notin Foreign \cup {Main} /\ pc[c] \notin {"unborn", "chosen", "born"} /\ ~Ended(c)

WasOf(d, c) == pc[c] = "gone" \/ (d = own[c] /\ (Runs(c) \/ Ended(c)))

LooksInv ==
  /\ \A c \in Foreign \cup {Main} : pc[c] \notin {"unborn", "chosen", "born"}
  /\ \A c \in Thread :
       /\ Runs(c) \/ pc[c] = "born" => desc[own[c]].utid = UtidOf(c)
       /\ Runs(c) => desc[own[c]].state \notin {"TS_Nonexistent", "TS_Complete"}
       /\ tca[c] # NULL => WasOf(tca[c], c)
  /\ \A t \in Thread :
       /\ pc[t] = "argv" => /\ arg[t] \in Thread
                            /\ \/ WasOf(mt[t], arg[t])
                               \/ pc[arg[t]] = "born" /\ mt[t] = own[arg[t]]
       /\ pc[t] \in {"look", "join"} => WasOf(mt[t], arg[t])

(* What makes EarlyOnlyByMishap and NobodyForgotten hold after every step: *)
(* as long as there is no mishap, the waiters of a task are a list, and    *)
(* whoever sleeps is on the list of the task it waits for.                 *)
InWait(t) == pc[t] \in {"dec", "check", "spin"}

Serves(u) == Runs(u) \/ pc[u] \in {"complete", "inc", "mark", "next"}

FirstToWake(u) ==
  IF pc[u] \in {"inc", "mark"} THEN mt[u]
  ELSE IF pc[u] = "next" THEN desc[mt[u]].wait_link
  ELSE desc[own[u]].waiters

WaitLink == [d \in Descriptor |-> desc[d].wait_link]
WaitLists ==
  [u \in Thread |->
     IF Serves(u) THEN ListFrom(FirstToWake(u), WaitLink, NULL, MaxMt) ELSE <<>>]

Sleeps(t, w) ==
  /\ desc[my_mt[t]].state = "TS_Task_Wait"
  /\ Serves(arg[t]) /\ mt[t] = own[arg[t]]
  /\ my_mt[t] \in Nodes(w[arg[t]])

Queued(w) ==
  /\ w \in [Thread -> Seq(Descriptor)]
  /\ \A u \in Thread :
       IF Serves(u) THEN IsList(w[u], FirstToWake(u), WaitLink, NULL) ELSE w[u] = <<>>
  /\ \A u \in Thread : \A d \in Nodes(w[u]) :
       \E t \in Thread : InWait(t) /\ my_mt[t] = d /\ arg[t] = u /\ Sleeps(t, w)
  /\ \A t \in Thread : InWait(t) =>
       /\ my_mt[t] \in Nodes(HashLists[MT_HASH(t)]) /\ desc[my_mt[t]].stid = t
       /\ Sleeps(t, w) \/ (desc[my_mt[t]].state = "TS_Running" /\ Ended(arg[t]))
  /\ \A t \in Thread : pc[t] \in {"look", "join"} => arg[t] # t
  /\ WaitMeansEnded

(* And a task that ends stays marked until it gives its descriptor back.   *)
Ending(c) == Ended(c) /\ pc[c] # "gone"

Marked == \A c \in Thread : Ending(c) => desc[own[c]].state = "TS_Complete"

WaitInv == mishap \/ (Queued(WaitLists) /\ Marked)

(* What makes NoFalseDeadlock hold when only macrotasks wait:              *)
(* runnable_tasks is the number of tasks that run, and of those that sleep *)
(* while the task they wait for has counted its waiters.                   *)
OnlyTasksWait == Waiter \cap Foreign = {}

Counted ==
  {t \in Thread \ Foreign : pc[t] \notin {"unborn", "check", "spin", "unlink", "gone"}}

LetGo ==
  {t \in Thread : /\ InWait(t)
                  /\ desc[my_mt[t]].state = "TS_Running" \/ pc[arg[t]] \in {"mark", "next"}}

CountInv ==
  /\ mishap \/ runnable_tasks = Cardinality(Counted) + Cardinality(LetGo)
  /\ aborted => runnable_tasks = 0
  /\ \A t \in Foreign : pc[t] \notin {"look", "join"} /\ ~InWait(t) /\ ~Ended(t)

LEMMA Descriptors ==
  /\ MaxMt \in Nat /\ Descriptor \subseteq MtOrNull /\ NULL \in MtOrNull
  /\ NULL \notin Descriptor
  /\ \A d \in MtOrNull : d # NULL => d \in Descriptor
  /\ Cardinality(Descriptor) = MaxMt /\ IsFiniteSet(Descriptor)
<1>1. MaxMt \in Nat
  BY MtAssumption
<1> QED
  BY <1>1, FS_Interval DEF NULL, MtOrNull, Descriptor

-----------------------------------------------------------------------------
LEMMA HashTyped == \A t \in Thread : MT_HASH(t) \in Bucket
BY DEF MT_HASH, Bucket

(* The free list and the chains are the only sequences that fit.           *)
LEMMA ListsAre ==
  ASSUME NEW f, NEW q, Placed(f, q)
  PROVE  FreeList = f /\ HashLists = q
<1>1. MaxMt \in Nat /\ NULL \notin Descriptor
  BY Descriptors
<1>2. Cardinality(Descriptor) = MaxMt /\ IsFiniteSet(Descriptor)
  BY Descriptors
<1>3. FreeList = f
  <2>1. f \in Seq(Descriptor) /\ IsList(f, free, Link, NULL)
    BY DEF Placed
  <2>2. Len(f) <= MaxMt
    BY <1>2, <2>1, NodesAreDistinct
  <2> QED
    BY <1>1, <2>1, <2>2, WalkMeetsList DEF FreeList
<1>4. ASSUME NEW b \in Bucket PROVE ListFrom(hash[b], Link, NULL, MaxMt) = q[b]
  <2>1. q[b] \in Seq(Descriptor) /\ IsList(q[b], hash[b], Link, NULL)
    BY DEF Placed
  <2>2. Len(q[b]) <= MaxMt
    BY <1>2, <2>1, NodesAreDistinct
  <2> QED
    BY <1>1, <2>1, <2>2, WalkMeetsList
<1>5. HashLists = q
  <2>1. q \in [Bucket -> Seq(Descriptor)]
    BY DEF Placed
  <2> QED
    BY <1>4, <2>1 DEF HashLists
<1> QED
  BY <1>3, <1>5

LEMMA NextListsAre ==
  ASSUME NEW f, NEW q, Placed(f, q)'
  PROVE  FreeList' = f /\ HashLists' = q
<1>1. MaxMt \in Nat /\ NULL \notin Descriptor
  BY Descriptors
<1>2. Cardinality(Descriptor) = MaxMt /\ IsFiniteSet(Descriptor)
  BY Descriptors
<1>3. FreeList' = f
  <2>1. f \in Seq(Descriptor) /\ IsList(f, free', Link', NULL)
    BY DEF Placed
  <2>2. Len(f) <= MaxMt
    BY <1>2, <2>1, NodesAreDistinct
  <2> QED
    BY <1>1, <2>1, <2>2, WalkMeetsList DEF FreeList
<1>4. ASSUME NEW b \in Bucket PROVE ListFrom(hash'[b], Link', NULL, MaxMt) = q[b]
  <2>1. q[b] \in Seq(Descriptor) /\ IsList(q[b], hash'[b], Link', NULL)
    BY DEF Placed
  <2>2. Len(q[b]) <= MaxMt
    BY <1>2, <2>1, NodesAreDistinct
  <2> QED
    BY <1>1, <2>1, <2>2, WalkMeetsList
<1>5. HashLists' = q
  <2>1. q \in [Bucket -> Seq(Descriptor)]
    BY DEF Placed
  <2> QED
    BY <1>4, <2>1 DEF HashLists
<1> QED
  BY <1>3, <1>5

(* What the walks along mt_link meet.                                      *)
LEMMA WalksMeetLists ==
  ASSUME NEW f, NEW q, Placed(f, q)
  PROVE  /\ Chain(free, "link") = Nodes(f) /\ WalkEnds(free, "link")
         /\ \A b \in Bucket : /\ Chain(hash[b], "link") = Nodes(q[b])
                              /\ WalkEnds(hash[b], "link")
         /\ \A b \in Bucket : \A i \in 1 .. Len(q[b]) : \A j \in i .. Len(q[b]) :
              q[b][j] \in Chain(q[b][i], "link")
<1>1. MaxMt \in Nat /\ NULL \notin Descriptor
  BY Descriptors
<1>2. Cardinality(Descriptor) = MaxMt /\ IsFiniteSet(Descriptor)
  BY Descriptors
<1>3. \A h : Reached(h, "link") = Met(h, Link, NULL, MaxMt)
  BY DEF Reached, Link
<1>4. ASSUME NEW r \in Seq(Descriptor), NEW h, IsList(r, h, Link, NULL)
      PROVE  Chain(h, "link") = Nodes(r) /\ WalkEnds(h, "link")
  <2>1. Len(r) <= MaxMt
    BY <1>2, <1>4, NodesAreDistinct
  <2>2. NULL \in Met(h, Link, NULL, MaxMt) /\ Met(h, Link, NULL, MaxMt) \ {NULL} = Nodes(r)
    BY <1>1, <1>4, <2>1, WalkMeetsList
  <2> QED
    BY <1>3, <2>2 DEF Chain, WalkEnds
<1>5. ASSUME NEW b \in Bucket, NEW i \in 1 .. Len(q[b])
      PROVE  \A j \in i .. Len(q[b]) : q[b][j] \in Chain(q[b][i], "link")
  <2> DEFINE s == q[b]
  <2>1. s \in Seq(Descriptor) /\ IsList(s, hash[b], Link, NULL) /\ i \in 1 .. Len(s)
    BY DEF Placed
  <2> HIDE DEF s
  <2>2. PICK r \in Seq(Descriptor) :
          /\ IsList(r, s[i], Link, NULL)
          /\ \A j \in i .. Len(s) : s[j] \in Nodes(r)
    BY <1>1, <2>1, RestOfList
  <2>3. \A j \in i .. Len(s) : s[j] \in Chain(s[i], "link")
    BY <1>4, <2>2
  <2> QED
    BY <2>3 DEF s
<1>6. ASSUME NEW b \in Bucket
      PROVE  Chain(hash[b], "link") = Nodes(q[b]) /\ WalkEnds(hash[b], "link")
  BY <1>4 DEF Placed
<1>7. Chain(free, "link") = Nodes(f) /\ WalkEnds(free, "link")
  BY <1>4 DEF Placed
<1> QED
  BY <1>5, <1>6, <1>7

(* Where the descriptors are that the routines work on.                    *)
LEMMA Whereabouts ==
  ASSUME TasksInv
  PROVE  /\ \A t \in Thread : Holds(t) => Held(t) \in Descriptor
         /\ \A t \in Thread : Alive(t) => own[t] \in Descriptor
<1>1. PICK f, q : Placed(f, q) /\ Lives(q)
  BY DEF TasksInv
<1>2. \A t \in Thread : Holds(t) => Held(t) \in Descriptor
  BY <1>1 DEF Placed, InHand
<1>3. ASSUME NEW t \in Thread, Alive(t) PROVE own[t] \in Descriptor
  <2>1. MT_HASH(t) \in Bucket
    BY HashTyped
  <2>2. q[MT_HASH(t)] \in Seq(Descriptor) /\ own[t] \in Nodes(q[MT_HASH(t)])
    BY <1>1, <1>3, <2>1 DEF Placed, Lives
  <2> QED
    BY <2>2, NodesAreIn
<1> QED
  BY <1>2, <1>3

(* A thread finds itself on its chain, or nobody.                          *)
LEMMA SelfTyped ==
  ASSUME TasksInv, NEW t \in Thread
  PROVE  /\ Self(t) \in MtOrNull
         /\ Self(t) # NULL => /\ desc[Self(t)].stid = t
                              /\ Self(t) \in Nodes(HashLists[MT_HASH(t)])
<1>1. PICK f, q : Placed(f, q)
  BY DEF TasksInv
<1> DEFINE b == MT_HASH(t)
           s == q[b]
           mine == {d \in Chain(hash[b], "link") : desc[d].stid = t}
<1>2. b \in Bucket
  BY HashTyped
<1>3. s \in Seq(Descriptor) /\ Chain(hash[b], "link") = Nodes(s)
  BY <1>1, <1>2, WalksMeetLists DEF Placed
<1>4. Nodes(s) \subseteq Descriptor
  BY <1>3, NodesAreIn
<1>5. CASE mine = {}
  <2>1. Self(t) = NULL
    BY <1>5 DEF Self
  <2> QED
    BY <2>1, Descriptors
<1>6. CASE mine # {}
  <2> DEFINE I == {i \in 1 .. Len(s) : s[i] \in mine}
  <2>1. I # {} /\ I \in SUBSET Nat
    <3>1. PICK d \in mine : d \in Nodes(s)
      BY <1>3, <1>6
    <3>2. PICK i \in 1 .. Len(s) : d = s[i]
      BY <3>1 DEF Nodes
    <3>3. i \in I
      BY <3>1, <3>2
    <3> QED
      BY <1>3, <3>3
  <2>2. PICK i \in I : \A j \in I : i <= j
    BY <2>1, LeastNatural
  <2>3. \A j \in i .. Len(s) : s[j] \in Chain(s[i], "link")
    BY <1>1, <1>2, <2>2, WalksMeetLists
  <2>4. ASSUME NEW d \in mine PROVE d \in Chain(s[i], "link")
    <3>1. PICK j \in 1 .. Len(s) : d = s[j]
      BY <1>3, <2>4 DEF Nodes
    <3>2. j \in i .. Len(s)
      BY <2>1, <2>2, <3>1
    <3> QED
      BY <2>3, <3>1, <3>2
  <2>5. \E d \in mine : mine \subseteq Chain(d, "link")
    BY <2>2, <2>4
  <2>6. Self(t) \in mine
    BY <1>6, <2>5 DEF Self
  <2>7. Self(t) \in Nodes(s) /\ desc[Self(t)].stid = t
    BY <1>3, <2>6
  <2>8. s = HashLists[b]
    BY <1>1, ListsAre
  <2> HIDE DEF mine, s
  <2> QED
    BY <1>4, <2>7, <2>8, Descriptors
<1> QED
  BY <1>5, <1>6, Descriptors
-----------------------------------------------------------------------------
(* Types, action by action.  The length of the free list is left to the    *)
(* lists.                                                                  *)
TypedButCount ==
  /\ pc \in [Thread -> Pc]
  /\ calls \in [Thread -> 0 .. MaxCalls]
  /\ arg \in [Thread -> Thread \cup {NoThread}]
  /\ own \in [Thread -> MtOrNull]
  /\ my_mt \in [Thread -> MtOrNull]
  /\ mt \in [Thread -> MtOrNull]
  /\ tca \in [Thread -> MtOrNull]
  /\ joined \in [Thread -> SUBSET Thread]
  /\ desc \in [Descriptor -> Desc]
  /\ total_count \in 1 .. MaxMt
  /\ free \in MtOrNull
  /\ hash \in [Bucket -> MtOrNull]
  /\ free_sem \in Thread \cup {NoThread}
  /\ aborted \in BOOLEAN

LEMMA TypedFindSelfStep ==
  ASSUME TasksInv, NEW t \in Thread, find_self_step(t)
  PROVE  TypedButCount'
<1>1. mt[t] # NULL => desc[mt[t]] \in Desc
  BY Descriptors DEF TasksInv, Typed
<1>2. mt' \in [Thread -> MtOrNull]
  BY <1>1, Descriptors DEF find_self_step, TasksInv, Typed, Desc
<1> QED
  BY <1>2
    DEF find_self_step, At, Goto, TasksInv, Typed, TypedButCount, Pc, program, locals,
        lists

LEMMA TypedTskstartReady ==
  ASSUME TasksInv, NEW t \in Thread, tskstart_ready(t)
  PROVE  TypedButCount'
<1>1. mt[t] \in Descriptor
  BY Whereabouts DEF tskstart_ready, At, Holds, Held
<1>2. desc[mt[t]] \in Desc
  BY <1>1 DEF TasksInv, Typed
<1>3. desc' \in [Descriptor -> Desc]
  BY <1>1, <1>2 DEF tskstart_ready, TasksInv, Typed, Desc, TaskState
<1> QED
  BY <1>3
    DEF tskstart_ready, At, Goto, TasksInv, Typed, TypedButCount, Pc, program, locals,
        lists

LEMMA TypedTskstartFill ==
  ASSUME TasksInv, NEW t \in Thread, tskstart_fill(t)
  PROVE  TypedButCount'
<1>1. mt[t] \in Descriptor
  BY Whereabouts DEF tskstart_fill, At, Holds, Held
<1>2. desc[mt[t]] \in Desc /\ arg[t] \in Thread
  BY <1>1 DEF TasksInv, Typed, Lives, Starting, tskstart_fill, At
<1>3. desc' \in [Descriptor -> Desc]
  BY <1>1, <1>2, Descriptors DEF tskstart_fill, TasksInv, Typed, Desc, UtidOf
<1> QED
  BY <1>1, <1>3, Descriptors
    DEF tskstart_fill, At, Goto, TasksInv, Typed, TypedButCount, Pc, program, locals,
        lists

LEMMA TypedTskstartReturn ==
  ASSUME TasksInv, NEW t \in Thread, tskstart_return(t)
  PROVE  TypedButCount'
BY Descriptors, Whereabouts
  DEF tskstart_return, At, Goto, TasksInv, Typed, TypedButCount, Lives, Starting, Alive,
      Holds, Held, Pc, TaskState, Desc, UtidOf, program, locals, lists

LEMMA TypedStartMacrotask ==
  ASSUME TasksInv, NEW t \in Thread, _mact_start_macrotask(t)
  PROVE  TypedButCount'
<1>1. own[t] \in Descriptor
  BY Whereabouts DEF _mact_start_macrotask, At, Holds, Held
<1>2. desc[own[t]] \in Desc
  BY <1>1 DEF TasksInv, Typed
<1>3. desc' \in [Descriptor -> Desc]
  BY <1>1, <1>2, Descriptors DEF _mact_start_macrotask, TasksInv, Typed, Desc, TaskState
<1> QED
  BY <1>3
    DEF _mact_start_macrotask, At, Goto, TasksInv, Typed, TypedButCount, Pc, program,
        locals, lists

LEMMA TypedTskwaitLook ==
  ASSUME TasksInv, NEW t \in Thread, tskwait_look(t)
  PROVE  TypedButCount'
<1>1. arg[t] \in Thread
  BY DEF TasksInv, Lives, tskwait_look, At
<1> QED
  BY <1>1, Descriptors
    DEF tskwait_look, Return, At, Goto, TasksInv, Typed, TypedButCount, Pc, program,
        locals, lists

LEMMA TypedTskwaitJoin ==
  ASSUME TasksInv, NEW t \in Thread, tskwait_join(t)
  PROVE  TypedButCount'
<1>1. arg[t] \in Thread /\ Self(t) \in MtOrNull /\ mt[t] \in MtOrNull
  BY SelfTyped DEF TasksInv, Typed, Lives, tskwait_join, At
<1>2. desc' \in [Descriptor -> Desc]
  <2>1. CASE desc' = desc
    BY <2>1 DEF TasksInv, Typed
  <2>2. CASE desc' = Joined(t, Self(t))
    <3> DEFINE self == Self(t)
               D == [desc EXCEPT ![self] = [@ EXCEPT !.wait_link = desc[mt[t]].waiters,
                                                     !.state = "TS_Task_Wait"]]
    <3>1. mt[t] \in Descriptor
      BY <1>1, Descriptors DEF TasksInv, Typed, Lives, tskwait_join, At
    <3>2. desc[mt[t]].waiters \in MtOrNull /\ desc \in [Descriptor -> Desc]
      BY <3>1 DEF TasksInv, Typed, Desc
    <3>3. D \in [Descriptor -> Desc]
      <4> HIDE DEF self
      <4> QED
        BY <3>2 DEF Desc, TaskState
    <3>4. desc' = [D EXCEPT ![mt[t]].waiters = self]
      BY <2>2 DEF Joined
    <3> QED
      <4> HIDE DEF D, self
      <4>1. self \in MtOrNull
        BY <1>1 DEF self
      <4> QED
        BY <3>1, <3>3, <3>4, <4>1 DEF Desc
  <2>3. CASE desc' = [desc EXCEPT ![mt[t]].sem = t]
    BY <1>1, <2>3 DEF TasksInv, Typed, Desc
  <2> QED
    BY <2>1, <2>2, <2>3 DEF tskwait_join
<1> QED
  BY <1>1, <1>2, Descriptors
    DEF tskwait_join, Return, At, Goto, TasksInv, Typed, TypedButCount, Pc, program,
        locals, lists

LEMMA TypedTskwaitDec ==
  ASSUME TasksInv, NEW t \in Thread, tskwait_dec(t)
  PROVE  TypedButCount'
BY Descriptors, Whereabouts
  DEF tskwait_dec, At, Goto, TasksInv, Typed, TypedButCount, Lives, Starting, Alive,
      Holds, Held, Pc, TaskState, Desc, UtidOf, program, locals, lists

LEMMA TypedCheckForMactDeadlock ==
  ASSUME TasksInv, NEW t \in Thread, CHECK_FOR_MACT_DEADLOCK(t)
  PROVE  TypedButCount'
BY Descriptors, Whereabouts
  DEF CHECK_FOR_MACT_DEADLOCK, At, Goto, TasksInv, Typed, TypedButCount, Lives,
      Starting, Alive, Holds, Held, Pc, TaskState, Desc, UtidOf, program, locals, lists

LEMMA TypedTskwaitReturn ==
  ASSUME TasksInv, NEW t \in Thread, tskwait_return(t)
  PROVE  TypedButCount'
BY Descriptors, Whereabouts
  DEF tskwait_return, Return, At, Goto, TasksInv, Typed, TypedButCount, Lives, Starting,
      Alive, Holds, Held, Pc, TaskState, Desc, UtidOf, program, locals, lists

LEMMA TypedDeleteWait ==
  ASSUME TasksInv, NEW t \in Thread, delete_wait(t)
  PROVE  TypedButCount'
<1>1. own[t] \in Descriptor
  BY Whereabouts DEF delete_wait, At, Alive
<1>2. desc[own[t]] \in Desc
  BY <1>1 DEF TasksInv, Typed
<1>3. mt' \in [Thread -> MtOrNull]
  BY <1>2 DEF delete_wait, TasksInv, Typed, Desc
<1>4. desc' \in [Descriptor -> Desc]
  BY <1>1, <1>2 DEF delete_wait, TasksInv, Typed, Desc
<1> QED
  BY <1>3, <1>4
    DEF delete_wait, At, Goto, TasksInv, Typed, TypedButCount, Pc, program, locals,
        lists

LEMMA TypedDeleteInc ==
  ASSUME TasksInv, NEW t \in Thread, delete_inc(t)
  PROVE  TypedButCount'
BY Descriptors, Whereabouts
  DEF delete_inc, At, Goto, TasksInv, Typed, TypedButCount, Lives, Starting, Alive,
      Holds, Held, Pc, TaskState, Desc, UtidOf, program, locals, lists

LEMMA TypedDeleteWake ==
  ASSUME TasksInv, NEW t \in Thread, delete_wake(t)
  PROVE  TypedButCount'
<1>1. mt[t] \in Descriptor
  BY Descriptors DEF delete_wake, TasksInv, Typed
<1>2. desc[mt[t]] \in Desc
  BY <1>1 DEF TasksInv, Typed
<1>3. desc' \in [Descriptor -> Desc]
  BY <1>1, <1>2 DEF delete_wake, TasksInv, Typed, Desc, TaskState
<1> QED
  BY <1>3
    DEF delete_wake, At, Goto, TasksInv, Typed, TypedButCount, Pc, program, locals,
        lists

LEMMA TypedDeleteNext ==
  ASSUME TasksInv, NEW t \in Thread, delete_next(t)
  PROVE  TypedButCount'
<1>1. mt[t] \in Descriptor
  BY Descriptors DEF delete_next, At, TasksInv, Typed, Lives
<1>2. desc[mt[t]] \in Desc
  BY <1>1 DEF TasksInv, Typed
<1>3. mt' \in [Thread -> MtOrNull]
  BY <1>2 DEF delete_next, TasksInv, Typed, Desc
<1> QED
  BY <1>3
    DEF delete_next, At, Goto, TasksInv, Typed, TypedButCount, Pc, program, locals,
        lists

LEMMA TypedDeleteWoken ==
  ASSUME TasksInv, NEW t \in Thread, delete_woken(t)
  PROVE  TypedButCount'
<1>1. own[t] \in Descriptor
  BY Whereabouts DEF delete_woken, At, Alive
<1>2. desc[own[t]] \in Desc
  BY <1>1 DEF TasksInv, Typed
<1>3. desc' \in [Descriptor -> Desc]
  BY <1>1, <1>2 DEF delete_woken, TasksInv, Typed, Desc, TaskState
<1> QED
  BY <1>3
    DEF delete_woken, At, Goto, TasksInv, Typed, TypedButCount, Pc, program, locals,
        lists

LEMMA TypedDeleteDec ==
  ASSUME TasksInv, NEW t \in Thread, delete_dec(t)
  PROVE  TypedButCount'
BY Descriptors, Whereabouts
  DEF delete_dec, At, Goto, TasksInv, Typed, TypedButCount, Lives, Starting, Alive,
      Holds, Held, Pc, TaskState, Desc, UtidOf, program, locals, lists

LEMMA TypedFindSelf ==
  ASSUME TasksInv, NEW t \in Thread, _mact_find_self(t)
  PROVE  TypedButCount'
<1>1. MT_HASH(t) \in Bucket
  BY HashTyped
<1> QED
  BY <1>1, MtAssumption
    DEF _mact_find_self, At, Goto, TasksInv, Typed, TypedButCount, Pc, program, locals,
        lists

LEMMA TypedDelete ==
  ASSUME TasksInv, NEW t \in Thread, _mact_delete(t)
  PROVE  TypedButCount'
<1>1. own[t] \in Descriptor
  BY Whereabouts DEF _mact_delete, At, Alive
<1>2. desc[own[t]] \in Desc
  BY <1>1 DEF TasksInv, Typed
<1>3. desc' \in [Descriptor -> Desc]
  BY <1>1, <1>2 DEF _mact_delete, TasksInv, Typed, Desc, TaskState
<1> QED
  BY <1>3
    DEF _mact_delete, At, Goto, TasksInv, Typed, TypedButCount, Pc, program, locals,
        lists

-----------------------------------------------------------------------------
(* Putting the invariant of the next state together.                       *)
LEMMA NextInv ==
  ASSUME NEW f, NEW q, TypedButCount', HoldersDiffer', Placed(f, q)', Lives(q)'
  PROVE  TasksInv'
<1>1. FreeList' = f /\ HashLists' = q
  BY NextListsAre
<1>2. free_count' \in 0 .. MaxMt
  <2>1. f \in Seq(Descriptor) /\ IsList(f, free', Link', NULL) /\ Len(f) = free_count'
    BY DEF Placed
  <2>2. Len(f) <= MaxMt /\ Len(f) \in Nat
    BY <2>1, NodesAreDistinct, Descriptors
  <2> QED
    BY <2>1, <2>2, Descriptors
<1> QED
  BY <1>1, <1>2 DEF TasksInv, Typed, TypedButCount

(* A descriptor stays on its hash chain, unless t takes its own off.       *)
Kept(t) ==
  \A b \in Bucket : \A d \in Nodes(HashLists[b]) :
    d \in Nodes(HashLists'[b]) \/ (pc[t] = "unlink" /\ d = own[t])

LEMMA ListsKept ==
  ASSUME NEW t \in Thread, NEW f, NEW q, NEW r, NEW q2, Placed(f, q), Placed(r, q2)',
         \A b \in Bucket : \A d \in Nodes(q[b]) :
           d \in Nodes(q2[b]) \/ (pc[t] = "unlink" /\ d = own[t])
  PROVE  Kept(t)
<1>1. HashLists = q
  BY ListsAre
<1>2. HashLists' = q2
  BY NextListsAre
<1> QED
  BY <1>1, <1>2 DEF Kept

(* A step of t that leaves the lists and everybody's descriptors alone.    *)
Ordinary(t) ==
  /\ UNCHANGED <<total_count, free_count, free, hash, own>>
  /\ \A d \in Descriptor :
       desc'[d].link = desc[d].link /\ desc'[d].stid = desc[d].stid
  /\ \A u \in Thread \ {t} : pc'[u] = pc[u] /\ arg'[u] = arg[u] /\ mt'[u] = mt[u]
  /\ Holds(t)' <=> Holds(t)
  /\ Holds(t) => Held(t)' = Held(t)
  /\ Alive(t)' => Alive(t)
  /\ pc'[t] = "add" => pc[t] = "add"
  /\ Starting(t)' => Starting(t) /\ arg'[t] = arg[t]
  /\ pc[t] # "chosen"
  /\ pc'[t] \in {"look", "join", "dec", "check", "spin"} => arg'[t] \in Thread
  /\ pc'[t] \in {"look", "join", "next"} => mt'[t] # NULL

LEMMA OrdinaryStep ==
  ASSUME TasksInv, NEW t \in Thread, Ordinary(t), TypedButCount'
  PROVE  TasksInv' /\ Kept(t)
<1>1. PICK f, q : Placed(f, q) /\ Lives(q)
  BY DEF TasksInv
<1>2. \A u \in Thread : (Holds(u)' <=> Holds(u)) /\ (Holds(u) => Held(u)' = Held(u))
  BY DEF Ordinary, Holds, Held
<1>3. InHand' = InHand
  BY <1>2 DEF InHand
<1>4. Link' = Link
  BY DEF Link, Ordinary
<1>5. HoldersDiffer'
  BY <1>2 DEF TasksInv, HoldersDiffer
<1>6. Placed(f, q)'
  <2>1. \A b \in Bucket : Nodes(q[b]) \subseteq Descriptor
    BY <1>1, NodesAreIn DEF Placed
  <2> QED
    BY <1>1, <1>3, <1>4, <2>1 DEF Placed, Ordinary
<1>7. Lives(q)'
  <2>1. ASSUME NEW u \in Thread, Alive(u)'
        PROVE  own'[u] \in Nodes(q[MT_HASH(u)]) /\ desc'[own'[u]].stid = u
    <3>1. Alive(u)
      BY <2>1 DEF Ordinary, Alive
    <3> QED
      BY <1>1, <3>1, Whereabouts DEF Lives, Ordinary
  <2>2. ASSUME NEW u \in Thread, pc'[u] = "add" PROVE desc'[own'[u]].stid = u
    <3>1. pc[u] = "add" /\ own[u] \in Descriptor
      BY <2>2, Whereabouts DEF Ordinary, Holds, Held
    <3> QED
      BY <1>1, <3>1 DEF Lives, Ordinary
  <2>3. \A u \in Thread : Starting(u)' => Starting(u) /\ arg'[u] = arg[u]
    BY DEF Ordinary, Starting
  <2>4. \A u \in Thread : pc[u] = "chosen" => pc'[u] = "chosen"
    BY DEF Ordinary
  <2>5. ASSUME NEW u \in Thread
        PROVE  /\ pc'[u] \in {"look", "join", "dec", "check", "spin"} => arg'[u] \in Thread
               /\ pc'[u] \in {"look", "join", "next"} => mt'[u] # NULL
    BY <1>1 DEF Lives, Ordinary
  <2> QED
    BY <1>1, <2>1, <2>2, <2>3, <2>4, <2>5 DEF Lives
<1>20. Kept(t)
  BY <1>1, <1>6, ListsKept
<1> QED
  BY <1>20, <1>5, <1>6, <1>7, NextInv

LEMMA FindSelfKeeps ==
  ASSUME TasksInv, NEW t \in Thread, _mact_find_self(t)
  PROVE  TasksInv' /\ Kept(t)
<1>1. Ordinary(t)
  BY Descriptors, Whereabouts
     DEF _mact_find_self, Ordinary, At, Goto, TasksInv, Typed, Lives, Starting, Alive,
         Holds, Held, program, locals, lists
<1> QED
  BY <1>1, TypedFindSelf, OrdinaryStep

LEMMA FindSelfStepKeeps ==
  ASSUME TasksInv, NEW t \in Thread, find_self_step(t)
  PROVE  TasksInv' /\ Kept(t)
<1>1. Ordinary(t)
  BY Descriptors, Whereabouts
     DEF find_self_step, Ordinary, At, Goto, TasksInv, Typed, Lives, Starting, Alive,
         Holds, Held, program, locals, lists
<1> QED
  BY <1>1, TypedFindSelfStep, OrdinaryStep

LEMMA TskstartReadyKeeps ==
  ASSUME TasksInv, NEW t \in Thread, tskstart_ready(t)
  PROVE  TasksInv' /\ Kept(t)
<1>1. Ordinary(t)
  BY Descriptors, Whereabouts
     DEF tskstart_ready, Ordinary, At, Goto, TasksInv, Typed, Lives, Starting, Alive,
         Holds, Held, program, locals, lists
<1> QED
  BY <1>1, TypedTskstartReady, OrdinaryStep

LEMMA TskstartReturnKeeps ==
  ASSUME TasksInv, NEW t \in Thread, tskstart_return(t)
  PROVE  TasksInv' /\ Kept(t)
<1>1. Ordinary(t)
  BY Descriptors, Whereabouts
     DEF tskstart_return, Ordinary, At, Goto, TasksInv, Typed, Lives, Starting, Alive,
         Holds, Held, program, locals, lists
<1> QED
  BY <1>1, TypedTskstartReturn, OrdinaryStep

LEMMA TskwaitLookKeeps ==
  ASSUME TasksInv, NEW t \in Thread, tskwait_look(t)
  PROVE  TasksInv' /\ Kept(t)
<1>1. Ordinary(t)
  BY Descriptors, Whereabouts
     DEF tskwait_look, Return, Ordinary, At, Goto, TasksInv, Typed, Lives, Starting, Alive,
         Holds, Held, program, locals, lists
<1> QED
  BY <1>1, TypedTskwaitLook, OrdinaryStep

LEMMA TskwaitJoinKeeps ==
  ASSUME TasksInv, NEW t \in Thread, tskwait_join(t)
  PROVE  TasksInv' /\ Kept(t)
<1>1. \A d \in Descriptor :
        desc'[d].link = desc[d].link /\ desc'[d].stid = desc[d].stid
  <2>1. CASE desc' = desc
    BY <2>1
  <2>2. CASE desc' = Joined(t, Self(t))
    BY <2>2 DEF Joined, TasksInv, Typed, Desc
  <2>3. CASE desc' = [desc EXCEPT ![mt[t]].sem = t]
    BY <2>3 DEF TasksInv, Typed, Desc
  <2> QED
    BY <2>1, <2>2, <2>3 DEF tskwait_join
<1>2. Ordinary(t)
  BY <1>1 DEF tskwait_join, Return, Ordinary, At, Goto, TasksInv, Typed, Lives, Starting,
              Alive, Holds, Held, program, locals, lists
<1> QED
  BY <1>2, TypedTskwaitJoin, OrdinaryStep

LEMMA TskwaitKeeps ==
  ASSUME TasksInv, NEW t \in Thread, NEW c \in Thread, tskwait_(t, c)
  PROVE  TasksInv' /\ Kept(t)
<1>1. TypedButCount'
  <2>1. calls' \in [Thread -> 0 .. MaxCalls]
    BY MtAssumption DEF tskwait_, TasksInv, Typed
  <2> QED
    BY <2>1, Descriptors
       DEF tskwait_, Return, At, Goto, TasksInv, Typed, TypedButCount, Pc, program, locals,
           lists
<1>2. Ordinary(t)
  BY Descriptors, Whereabouts
     DEF tskwait_, Return, Ordinary, At, Goto, TasksInv, Typed, Lives, Starting, Alive,
         Holds, Held, program, locals, lists
<1> QED
  BY <1>1, <1>2, OrdinaryStep

LEMMA TskwaitDecKeeps ==
  ASSUME TasksInv, NEW t \in Thread, tskwait_dec(t)
  PROVE  TasksInv' /\ Kept(t)
<1>1. Ordinary(t)
  BY Descriptors, Whereabouts
     DEF tskwait_dec, Ordinary, At, Goto, TasksInv, Typed, Lives, Starting, Alive,
         Holds, Held, program, locals, lists
<1> QED
  BY <1>1, TypedTskwaitDec, OrdinaryStep

LEMMA CheckForMactDeadlockKeeps ==
  ASSUME TasksInv, NEW t \in Thread, CHECK_FOR_MACT_DEADLOCK(t)
  PROVE  TasksInv' /\ Kept(t)
<1>1. Ordinary(t)
  BY Descriptors, Whereabouts
    DEF CHECK_FOR_MACT_DEADLOCK, Ordinary, At, Goto, TasksInv, Typed, Lives, Starting,
        Alive, Holds, Held, program, locals, lists
<1> QED
  BY <1>1, TypedCheckForMactDeadlock, OrdinaryStep

LEMMA TskwaitReturnKeeps ==
  ASSUME TasksInv, NEW t \in Thread, tskwait_return(t)
  PROVE  TasksInv' /\ Kept(t)
<1>1. Ordinary(t)
  BY Descriptors, Whereabouts
    DEF tskwait_return, Return, Ordinary, At, Goto, TasksInv, Typed, Lives, Starting,
        Alive, Holds, Held, program, locals, lists
<1> QED
  BY <1>1, TypedTskwaitReturn, OrdinaryStep

LEMMA DeleteKeeps ==
  ASSUME TasksInv, NEW t \in Thread, _mact_delete(t)
  PROVE  TasksInv' /\ Kept(t)
<1>1. Ordinary(t)
  BY Descriptors, Whereabouts
     DEF _mact_delete, Ordinary, At, Goto, TasksInv, Typed, Lives, Starting, Alive,
         Holds, Held, program, locals, lists
<1> QED
  BY <1>1, TypedDelete, OrdinaryStep

LEMMA DeleteWaitKeeps ==
  ASSUME TasksInv, NEW t \in Thread, delete_wait(t)
  PROVE  TasksInv' /\ Kept(t)
<1>1. Ordinary(t)
  BY Descriptors, Whereabouts
     DEF delete_wait, Ordinary, At, Goto, TasksInv, Typed, Lives, Starting, Alive,
         Holds, Held, program, locals, lists
<1> QED
  BY <1>1, TypedDeleteWait, OrdinaryStep

LEMMA DeleteIncKeeps ==
  ASSUME TasksInv, NEW t \in Thread, delete_inc(t)
  PROVE  TasksInv' /\ Kept(t)
<1>1. Ordinary(t)
  BY Descriptors, Whereabouts
     DEF delete_inc, Ordinary, At, Goto, TasksInv, Typed, Lives, Starting, Alive,
         Holds, Held, program, locals, lists
<1> QED
  BY <1>1, TypedDeleteInc, OrdinaryStep

LEMMA DeleteWakeKeeps ==
  ASSUME TasksInv, NEW t \in Thread, delete_wake(t)
  PROVE  TasksInv' /\ Kept(t)
<1>1. Ordinary(t)
  BY Descriptors, Whereabouts
     DEF delete_wake, Ordinary, At, Goto, TasksInv, Typed, Lives, Starting, Alive,
         Holds, Held, program, locals, lists
<1> QED
  BY <1>1, TypedDeleteWake, OrdinaryStep

LEMMA DeleteNextKeeps ==
  ASSUME TasksInv, NEW t \in Thread, delete_next(t)
  PROVE  TasksInv' /\ Kept(t)
<1>1. Ordinary(t)
  BY Descriptors, Whereabouts
     DEF delete_next, Ordinary, At, Goto, TasksInv, Typed, Lives, Starting, Alive,
         Holds, Held, program, locals, lists
<1> QED
  BY <1>1, TypedDeleteNext, OrdinaryStep

LEMMA DeleteWokenKeeps ==
  ASSUME TasksInv, NEW t \in Thread, delete_woken(t)
  PROVE  TasksInv' /\ Kept(t)
<1>1. Ordinary(t)
  BY Descriptors, Whereabouts
     DEF delete_woken, Ordinary, At, Goto, TasksInv, Typed, Lives, Starting, Alive,
         Holds, Held, program, locals, lists
<1> QED
  BY <1>1, TypedDeleteWoken, OrdinaryStep

LEMMA DeleteDecKeeps ==
  ASSUME TasksInv, NEW t \in Thread, delete_dec(t)
  PROVE  TasksInv' /\ Kept(t)
<1>1. Ordinary(t)
  BY Descriptors, Whereabouts
     DEF delete_dec, Ordinary, At, Goto, TasksInv, Typed, Lives, Starting, Alive,
         Holds, Held, program, locals, lists
<1> QED
  BY <1>1, TypedDeleteDec, OrdinaryStep

-----------------------------------------------------------------------------
(* The steps of a start: a task is chosen, its descriptor passes from the  *)
(* starter to the new thread, and the thread puts its name on it.          *)
LEMMA PlacedStays ==
  ASSUME NEW f, NEW q, Placed(f, q), InHand' = InHand,
         UNCHANGED <<total_count, free_count, free, hash>>,
         \A d \in Descriptor : desc'[d].link = desc[d].link,
         \A b \in Bucket : \A d \in Nodes(q[b]) : desc'[d].stid = desc[d].stid
  PROVE  Placed(f, q)'
<1>1. Link' = Link
  BY DEF Link
<1> QED
  BY <1>1 DEF Placed

LEMMA TskstartKeeps ==
  ASSUME TasksInv, NEW t \in Thread, NEW c \in Thread, tskstart_(t, c)
  PROVE  TasksInv' /\ Kept(t)
<1>1. PICK f, q : Placed(f, q) /\ Lives(q)
  BY DEF TasksInv
<1>2. /\ pc \in [Thread -> Pc] /\ pc[t] = "user" /\ pc[c] = "unborn" /\ t # c
      /\ pc' = [pc EXCEPT ![t] = "allocate", ![c] = "chosen"]
      /\ arg' = [arg EXCEPT ![t] = c] /\ arg \in [Thread -> Thread \cup {NoThread}]
      /\ UNCHANGED <<own, mt, desc, total_count, free_count, free, hash>>
  BY DEF tskstart_, At, TasksInv, Typed, lists
<1>3. TypedButCount'
  BY <1>2 DEF tskstart_, TasksInv, Typed, TypedButCount, Pc, program, lists
<1>4. \A u \in Thread : (Holds(u)' <=> Holds(u)) /\ (Holds(u) => Held(u)' = Held(u))
  BY <1>2 DEF Holds, Held
<1>5. InHand' = InHand /\ HoldersDiffer'
  BY <1>4 DEF InHand, TasksInv, HoldersDiffer
<1>6. Placed(f, q)'
  BY <1>1, <1>2, <1>5, PlacedStays
<1>7. Lives(q)'
  <2>1. \A u \in Thread : Alive(u)' => Alive(u)
    BY <1>2 DEF Alive
  <2>2. \A u \in Thread : Starting(u)' /\ u # t =>
          Starting(u) /\ arg'[u] = arg[u] /\ pc[arg[u]] = "chosen" /\ arg[u] # c
    BY <1>1, <1>2 DEF Starting, Lives
  <2>3. \A u \in Thread : Starting(u)' => arg'[u] \in Thread /\ pc'[arg'[u]] = "chosen"
    <3>1. arg'[t] = c /\ pc'[c] = "chosen"
      BY <1>2
    <3>2. \A u \in Thread : pc[u] = "chosen" => pc'[u] = "chosen"
      BY <1>2
    <3> QED
      BY <1>1, <2>2, <3>1, <3>2 DEF Lives
  <2>4. \A u, v \in Thread : Starting(u)' /\ Starting(v)' /\ arg'[u] = arg'[v] => u = v
    BY <1>1, <1>2, <2>2 DEF Lives
  <2>5. ASSUME NEW u \in Thread
        PROVE  /\ pc'[u] = "add" => pc[u] = "add"
               /\ pc'[u] \in {"look", "join", "dec", "check", "spin"} => arg'[u] \in Thread
               /\ pc'[u] \in {"look", "join", "next"} => mt'[u] # NULL
    BY <1>1, <1>2 DEF Lives
  <2> QED
    BY <1>1, <1>2, <2>1, <2>3, <2>4, <2>5 DEF Lives
<1>20. Kept(t)
  BY <1>1, <1>6, ListsKept
<1> QED
  BY <1>20, <1>3, <1>5, <1>6, <1>7, NextInv

LEMMA TskstartFillKeeps ==
  ASSUME TasksInv, NEW t \in Thread, tskstart_fill(t)
  PROVE  TasksInv' /\ Kept(t)
<1>1. PICK f, q : Placed(f, q) /\ Lives(q)
  BY DEF TasksInv
<1>2. PICK c \in Thread : c = arg[t] /\ pc[c] = "chosen"
  BY <1>1 DEF tskstart_fill, At, Lives, Starting
<1>3. PICK d \in Descriptor : d = mt[t] /\ d = Held(t) /\ Holds(t)
  BY Whereabouts DEF tskstart_fill, At, Holds, Held
<1>4. /\ pc \in [Thread -> Pc] /\ pc[t] = "fill" /\ t # c
      /\ pc' = [pc EXCEPT ![t] = "argv", ![c] = "born"]
      /\ own \in [Thread -> MtOrNull] /\ own' = [own EXCEPT ![c] = d]
      /\ UNCHANGED <<arg, mt, total_count, free_count, free, hash>>
      /\ desc \in [Descriptor -> Desc]
      /\ \A e \in Descriptor : desc'[e].link = desc[e].link
      /\ \A e \in Descriptor \ {d} : desc'[e].stid = desc[e].stid
  BY <1>2, <1>3 DEF tskstart_fill, At, TasksInv, Typed, Desc, lists
<1>5. /\ \A u \in Thread \ {t, c} :
           (Holds(u)' <=> Holds(u)) /\ (Holds(u) => Held(u)' = Held(u))
      /\ ~Holds(t)' /\ ~Holds(c) /\ Holds(c)' /\ Held(c)' = Held(t)
  BY <1>2, <1>3, <1>4 DEF Holds, Held
<1>6. InHand' = InHand
  BY <1>3, <1>5 DEF InHand
<1>7. HoldersDiffer'
  BY <1>3, <1>5 DEF TasksInv, HoldersDiffer
<1>8. d \in InHand
  BY <1>3 DEF InHand
<1>9. \A b \in Bucket : \A e \in Nodes(q[b]) : e \in Descriptor \ {d}
  BY <1>1, <1>8, NodesAreIn DEF Placed
<1>10. Placed(f, q)'
  BY <1>1, <1>4, <1>6, <1>9, PlacedStays
<1>11. Lives(q)'
  <2>1. ASSUME NEW u \in Thread, Alive(u)'
        PROVE  own'[u] \in Nodes(q[MT_HASH(u)]) /\ desc'[own'[u]].stid = u
    <3>1. Alive(u) /\ own'[u] = own[u]
      BY <1>2, <1>4, <2>1 DEF Alive
    <3> QED
      BY <1>1, <1>4, <1>9, <3>1, HashTyped DEF Lives
  <2>2. ASSUME NEW u \in Thread, pc'[u] = "add" PROVE desc'[own'[u]].stid = u
    <3>1. pc[u] = "add" /\ own'[u] = own[u] /\ Holds(u) /\ Held(u) = own[u] /\ u # t
      BY <1>2, <1>4, <2>2 DEF Holds, Held
    <3>2. own[u] # d /\ own[u] \in Descriptor
      BY <1>3, <3>1, Whereabouts DEF TasksInv, HoldersDiffer
    <3> QED
      BY <1>1, <1>4, <3>1, <3>2 DEF Lives
  <2>3. \A u \in Thread : Starting(u)' => Starting(u) /\ u # t /\ arg[u] # c
    BY <1>1, <1>2, <1>4 DEF Starting, Lives
  <2>4. \A u \in Thread : Starting(u)' => arg'[u] \in Thread /\ pc'[arg'[u]] = "chosen"
    BY <1>1, <1>4, <2>3 DEF Lives
  <2>5. ASSUME NEW u \in Thread
        PROVE  /\ pc'[u] \in {"look", "join", "dec", "check", "spin"} => arg'[u] \in Thread
               /\ pc'[u] \in {"look", "join", "next"} => mt'[u] # NULL
    BY <1>1, <1>4 DEF Lives
  <2> QED
    BY <1>1, <1>4, <2>1, <2>2, <2>3, <2>4, <2>5 DEF Lives
<1>20. Kept(t)
  BY <1>1, <1>10, ListsKept
<1> QED
  BY <1>20, <1>7, <1>10, <1>11, TypedTskstartFill, NextInv

LEMMA StartMacrotaskKeeps ==
  ASSUME TasksInv, NEW t \in Thread, _mact_start_macrotask(t)
  PROVE  TasksInv' /\ Kept(t)
<1>1. PICK f, q : Placed(f, q) /\ Lives(q)
  BY DEF TasksInv
<1>2. PICK d \in Descriptor : d = own[t] /\ d = Held(t) /\ Holds(t)
  BY Whereabouts DEF _mact_start_macrotask, At, Holds, Held
<1>3. /\ pc \in [Thread -> Pc] /\ pc[t] = "born" /\ pc' = [pc EXCEPT ![t] = "add"]
      /\ UNCHANGED <<own, arg, mt, total_count, free_count, free, hash>>
      /\ desc \in [Descriptor -> Desc]
      /\ \A e \in Descriptor : desc'[e].link = desc[e].link
      /\ desc'[d].stid = t
      /\ \A e \in Descriptor \ {d} : desc'[e].stid = desc[e].stid
  BY <1>2 DEF _mact_start_macrotask, At, Goto, TasksInv, Typed, Desc, lists, locals
<1>4. \A u \in Thread : (Holds(u)' <=> Holds(u)) /\ (Holds(u) => Held(u)' = Held(u))
  BY <1>3 DEF Holds, Held
<1>5. InHand' = InHand /\ HoldersDiffer'
  BY <1>4 DEF InHand, TasksInv, HoldersDiffer
<1>6. d \in InHand
  BY <1>2 DEF InHand
<1>7. \A b \in Bucket : \A e \in Nodes(q[b]) : e \in Descriptor \ {d}
  BY <1>1, <1>6, NodesAreIn DEF Placed
<1>8. Placed(f, q)'
  BY <1>1, <1>3, <1>5, <1>7, PlacedStays
<1>9. Lives(q)'
  <2>1. ASSUME NEW u \in Thread, Alive(u)'
        PROVE  own'[u] \in Nodes(q[MT_HASH(u)]) /\ desc'[own'[u]].stid = u
    <3>1. Alive(u) /\ own'[u] = own[u]
      BY <1>3, <2>1 DEF Alive
    <3> QED
      BY <1>1, <1>3, <1>7, <3>1, HashTyped DEF Lives
  <2>2. ASSUME NEW u \in Thread, pc'[u] = "add" PROVE desc'[own'[u]].stid = u
    <3>1. CASE u = t
      BY <1>2, <1>3, <3>1
    <3>2. CASE u # t
      <4>1. pc[u] = "add" /\ Holds(u) /\ Held(u) = own[u]
        BY <1>3, <2>2, <3>2 DEF Holds, Held
      <4>2. own[u] # d /\ own[u] \in Descriptor
        BY <1>2, <3>2, <4>1, Whereabouts DEF TasksInv, HoldersDiffer
      <4> QED
        BY <1>1, <1>3, <4>1, <4>2 DEF Lives
    <3> QED
      BY <3>1, <3>2
  <2>3. \A u \in Thread : Starting(u)' => Starting(u)
    BY <1>3 DEF Starting
  <2>4. \A u \in Thread : pc[u] = "chosen" => pc'[u] = "chosen"
    BY <1>3
  <2>5. ASSUME NEW u \in Thread
        PROVE  /\ pc'[u] \in {"look", "join", "dec", "check", "spin"} => arg'[u] \in Thread
               /\ pc'[u] \in {"look", "join", "next"} => mt'[u] # NULL
    BY <1>1, <1>3 DEF Lives
  <2> QED
    BY <1>1, <1>3, <2>1, <2>2, <2>3, <2>4, <2>5 DEF Lives
<1>20. Kept(t)
  BY <1>1, <1>8, ListsKept
<1> QED
  BY <1>20, <1>5, <1>8, <1>9, TypedStartMacrotask, NextInv

-----------------------------------------------------------------------------
(* A thread puts the descriptor in its hands at the head of its chain.     *)
LEMMA PlacedAfterAdd ==
  ASSUME NEW f, NEW q, Placed(f, q), NEW d \in InHand, NEW b \in Bucket,
         desc'[d].link = hash[b], desc'[d].stid \in Thread,
         MT_HASH(desc'[d].stid) = b,
         \A e \in Descriptor \ {d} : desc'[e] = desc[e],
         hash \in [Bucket -> MtOrNull], hash' = [hash EXCEPT ![b] = d],
         total_count \in Nat, UNCHANGED <<total_count, free_count, free>>,
         InHand' = InHand \ {d}
  PROVE  \E q2 : /\ Placed(f, q2)'
                 /\ \A a \in Bucket : Nodes(q[a]) \subseteq Nodes(q2[a])
                 /\ d \in Nodes(q2[b])
<1>1. d \in Descriptor /\ NULL \notin Descriptor
  BY Descriptors DEF Placed
<1>2. /\ \A a \in Bucket : q[a] \in Seq(Descriptor) /\ IsList(q[a], hash[a], Link, NULL)
      /\ \A a \in Bucket : Nodes(q[a]) \subseteq Descriptor \ {d}
      /\ f \in Seq(Descriptor) /\ IsList(f, free, Link, NULL)
      /\ Nodes(f) \subseteq Descriptor \ {d}
  BY <1>1, NodesAreIn DEF Placed
<1>3. /\ Link'[d] = hash[b]
      /\ \A e \in Descriptor \ {d} : Link'[e] = Link[e]
  BY <1>1 DEF Link
<1>4. PICK r \in Seq(Descriptor) :
        IsList(r, d, Link', NULL) /\ Nodes(r) = Nodes(q[b]) \cup {d}
  <2>1. PICK s \in Seq(Descriptor) : s = q[b]
    BY <1>2
  <2>2. IsList(s, hash[b], Link, NULL) /\ Nodes(s) \subseteq Descriptor \ {d}
    BY <1>2, <2>1
  <2>3. \A e \in Nodes(s) : Link'[e] = Link[e]
    BY <1>3, <2>2
  <2>4. \E r \in Seq(Descriptor) :
          IsList(r, d, Link', NULL) /\ Nodes(r) = Nodes(s) \cup {d}
    <3>1. d \in Descriptor \ Nodes(s) /\ Link'[d] = hash[b]
      BY <1>1, <1>3, <2>2
    <3> QED
      BY <1>1, <2>2, <2>3, <3>1, ListGrowsAtHead
  <2> QED
    BY <2>1, <2>4
<1> DEFINE q2 == [q EXCEPT ![b] = r]
<1>5. /\ q2 \in [Bucket -> Seq(Descriptor)] /\ q2[b] = r
      /\ \A a \in Bucket \ {b} : q2[a] = q[a]
  BY DEF Placed
<1> HIDE DEF q2
<1>6. ASSUME NEW a \in Bucket PROVE IsList(q2[a], hash'[a], Link', NULL)
  <2>1. CASE a = b
    BY <1>4, <1>5, <2>1
  <2>2. CASE a # b
    <3>1. \A e \in Nodes(q[a]) : Link'[e] = Link[e]
      BY <1>2, <1>3
    <3>2. IsList(q[a], hash[a], Link', NULL)
      BY <1>2, <3>1, ListStays
    <3>3. q2[a] = q[a] /\ hash'[a] = hash[a]
      BY <1>5, <2>2
    <3> QED
      BY <3>2, <3>3
  <2> QED
    BY <2>1, <2>2
<1>7. IsList(f, free', Link', NULL)
  <2>1. \A e \in Nodes(f) : Link'[e] = Link[e]
    BY <1>2, <1>3
  <2> QED
    BY <1>2, <2>1, ListStays
<1>8. /\ \A a \in Bucket \ {b} : Nodes(q2[a]) = Nodes(q[a])
      /\ Nodes(q2[b]) = Nodes(q[b]) \cup {d}
  BY <1>4, <1>5
<1>9. \A e \in Descriptor :
        e <= total_count' <=> \/ e \in Nodes(f) \/ e \in InHand'
                             \/ \E a \in Bucket : e \in Nodes(q2[a])
  <2>1. \A e : (\E a \in Bucket : e \in Nodes(q2[a]))
                 <=> e = d \/ \E a \in Bucket : e \in Nodes(q[a])
    BY <1>8
  <2> QED
    BY <1>1, <1>2, <2>1 DEF Placed
<1>10. ASSUME NEW a \in Bucket, NEW e \in Nodes(q2[a])
       PROVE  /\ e \notin Nodes(f) \cup InHand'
              /\ desc'[e].stid \in Thread /\ MT_HASH(desc'[e].stid) = a
  <2>1. CASE e = d
    <3>1. a = b
      BY <1>2, <1>8, <2>1
    <3> QED
      BY <1>2, <2>1, <3>1
  <2>2. CASE e # d
    <3>1. e \in Nodes(q[a]) /\ e \in Descriptor \ {d}
      BY <1>2, <1>8, <2>2
    <3> QED
      BY <3>1 DEF Placed
  <2> QED
    BY <2>1, <2>2
<1>11. \A e \in Descriptor : e > total_count' => desc'[e].link = NULL
  <2>1. d <= total_count
    BY <1>1 DEF Placed
  <2>2. \A e \in Descriptor : e > total_count' => e # d
    <3>1. d \in Int
      BY <1>1 DEF Descriptor
    <3> QED
      BY <2>1, <3>1
  <2> QED
    BY <2>2 DEF Placed
<1>12. Placed(f, q2)'
  BY <1>5, <1>6, <1>7, <1>9, <1>10, <1>11 DEF Placed
<1> QED
  BY <1>4, <1>8, <1>12

LEMMA TypedAdd ==
  ASSUME TasksInv, NEW t \in Thread, find_self_add(t) \/ start_macrotask_add(t)
  PROVE  TypedButCount'
<1>1. PICK d \in Descriptor : /\ find_self_add(t) => d = mt[t]
                              /\ start_macrotask_add(t) => d = own[t]
  BY Whereabouts DEF find_self_add, start_macrotask_add, At, Holds, Held
<1>2. /\ MT_HASH(t) \in Bucket /\ hash[MT_HASH(t)] \in MtOrNull /\ desc[d] \in Desc
      /\ d \in MtOrNull
  BY HashTyped, Descriptors DEF TasksInv, Typed
<1>3. desc' \in [Descriptor -> Desc]
  <2>1. desc \in [Descriptor -> Desc]
    BY DEF TasksInv, Typed
  <2>2. CASE find_self_add(t)
    BY <1>1, <1>2, <2>1, <2>2 DEF find_self_add, _mact_add, Desc
  <2>3. CASE start_macrotask_add(t)
    BY <1>1, <1>2, <2>1, <2>3 DEF start_macrotask_add, _mact_add, Desc
  <2> QED
    BY <2>2, <2>3
<1>4. hash' \in [Bucket -> MtOrNull]
  BY <1>1, <1>2 DEF find_self_add, start_macrotask_add, _mact_add, TasksInv, Typed
<1> QED
  BY <1>3, <1>4, Descriptors
     DEF find_self_add, start_macrotask_add, _mact_add, At, Goto, TasksInv, Typed,
         TypedButCount, Pc, program, locals

LEMMA FindSelfAddKeeps ==
  ASSUME TasksInv, NEW t \in Thread, find_self_add(t)
  PROVE  TasksInv' /\ Kept(t)
<1>1. PICK f, q : Placed(f, q) /\ Lives(q)
  BY DEF TasksInv
<1>2. PICK d \in Descriptor : d = mt[t] /\ d = Held(t) /\ Holds(t)
  BY Whereabouts DEF find_self_add, At, Holds, Held
<1>3. PICK b \in Bucket : b = MT_HASH(t)
  BY HashTyped
<1>4. /\ pc \in [Thread -> Pc] /\ pc[t] = "find_add" /\ pc' = [pc EXCEPT ![t] = "user"]
      /\ mt \in [Thread -> MtOrNull] /\ mt' = [mt EXCEPT ![t] = NULL]
      /\ UNCHANGED <<own, arg, total_count, free_count, free>> /\ total_count \in Nat
      /\ hash \in [Bucket -> MtOrNull] /\ hash' = [hash EXCEPT ![b] = d]
      /\ desc'[d].link = hash[b] /\ desc'[d].stid = t
      /\ \A e \in Descriptor \ {d} : desc'[e] = desc[e]
  BY <1>2, <1>3 DEF find_self_add, _mact_add, At, Goto, TasksInv, Typed, Desc
<1>5. /\ ~Holds(t)'
      /\ \A u \in Thread \ {t} :
           (Holds(u)' <=> Holds(u)) /\ (Holds(u) => Held(u)' = Held(u) /\ Held(u) # d)
  BY <1>2, <1>4 DEF Holds, Held, TasksInv, HoldersDiffer
<1>6. d \in InHand /\ InHand' = InHand \ {d}
  BY <1>2, <1>5 DEF InHand
<1>7. HoldersDiffer'
  BY <1>5 DEF TasksInv, HoldersDiffer
<1>8. PICK q2 : /\ Placed(f, q2)'
                /\ \A a \in Bucket : Nodes(q[a]) \subseteq Nodes(q2[a])
  BY <1>1, <1>3, <1>4, <1>6, PlacedAfterAdd
<1>9. \A a \in Bucket : \A e \in Nodes(q[a]) : e \in Descriptor \ {d}
  BY <1>1, <1>6, NodesAreIn DEF Placed
<1>10. Lives(q2)'
  <2>1. ASSUME NEW u \in Thread, Alive(u)'
        PROVE  own'[u] \in Nodes(q2[MT_HASH(u)]) /\ desc'[own'[u]].stid = u
    <3>1. Alive(u) /\ own'[u] = own[u]
      BY <1>4, <2>1 DEF Alive
    <3> QED
      BY <1>1, <1>4, <1>8, <1>9, <3>1, HashTyped DEF Lives
  <2>2. ASSUME NEW u \in Thread, pc'[u] = "add" PROVE desc'[own'[u]].stid = u
    <3>1. pc[u] = "add" /\ Holds(u) /\ Held(u) = own[u] /\ u # t
      BY <1>4, <2>2 DEF Holds, Held
    <3>2. own[u] # d /\ own[u] \in Descriptor
      BY <1>5, <3>1, Whereabouts
    <3> QED
      BY <1>1, <1>4, <3>1, <3>2 DEF Lives
  <2>3. \A u \in Thread : Starting(u)' => Starting(u)
    BY <1>4 DEF Starting
  <2>4. \A u \in Thread : pc[u] = "chosen" => pc'[u] = "chosen"
    BY <1>4
  <2>5. ASSUME NEW u \in Thread
        PROVE  /\ pc'[u] \in {"look", "join", "dec", "check", "spin"} => arg'[u] \in Thread
               /\ pc'[u] \in {"look", "join", "next"} => mt'[u] # NULL
    BY <1>1, <1>4 DEF Lives
  <2> QED
    BY <1>1, <1>4, <2>1, <2>2, <2>3, <2>4, <2>5 DEF Lives
<1>20. Kept(t)
  BY <1>1, <1>8, ListsKept
<1> QED
  BY <1>20, <1>7, <1>8, <1>10, TypedAdd, NextInv

LEMMA StartMacrotaskAddKeeps ==
  ASSUME TasksInv, NEW t \in Thread, start_macrotask_add(t)
  PROVE  TasksInv' /\ Kept(t)
<1>1. PICK f, q : Placed(f, q) /\ Lives(q)
  BY DEF TasksInv
<1>2. PICK d \in Descriptor : d = own[t] /\ d = Held(t) /\ Holds(t) /\ desc[d].stid = t
  BY <1>1, Whereabouts DEF start_macrotask_add, At, Holds, Held, Lives
<1>3. PICK b \in Bucket : b = MT_HASH(t)
  BY HashTyped
<1>4. /\ pc \in [Thread -> Pc] /\ pc[t] = "add" /\ pc' = [pc EXCEPT ![t] = "user"]
      /\ UNCHANGED <<own, arg, mt, total_count, free_count, free>> /\ total_count \in Nat
      /\ hash \in [Bucket -> MtOrNull] /\ hash' = [hash EXCEPT ![b] = d]
      /\ desc'[d].link = hash[b] /\ desc'[d].stid = t
      /\ \A e \in Descriptor \ {d} : desc'[e] = desc[e]
  BY <1>2, <1>3
     DEF start_macrotask_add, _mact_add, At, Goto, TasksInv, Typed, Desc, locals
<1>5. /\ ~Holds(t)'
      /\ \A u \in Thread \ {t} :
           (Holds(u)' <=> Holds(u)) /\ (Holds(u) => Held(u)' = Held(u) /\ Held(u) # d)
  BY <1>2, <1>4 DEF Holds, Held, TasksInv, HoldersDiffer
<1>6. d \in InHand /\ InHand' = InHand \ {d}
  BY <1>2, <1>5 DEF InHand
<1>7. HoldersDiffer'
  BY <1>5 DEF TasksInv, HoldersDiffer
<1>8. PICK q2 : /\ Placed(f, q2)' /\ d \in Nodes(q2[b])
                /\ \A a \in Bucket : Nodes(q[a]) \subseteq Nodes(q2[a])
  BY <1>1, <1>3, <1>4, <1>6, PlacedAfterAdd
<1>9. \A a \in Bucket : \A e \in Nodes(q[a]) : e \in Descriptor \ {d}
  BY <1>1, <1>6, NodesAreIn DEF Placed
<1>10. Lives(q2)'
  <2>1. ASSUME NEW u \in Thread, Alive(u)'
        PROVE  own'[u] \in Nodes(q2[MT_HASH(u)]) /\ desc'[own'[u]].stid = u
    <3>1. CASE u = t
      BY <1>2, <1>3, <1>4, <1>8, <3>1
    <3>2. CASE u # t
      <4>1. Alive(u) /\ own'[u] = own[u]
        BY <1>4, <2>1, <3>2 DEF Alive
      <4> QED
        BY <1>1, <1>4, <1>8, <1>9, <4>1, HashTyped DEF Lives
    <3> QED
      BY <3>1, <3>2
  <2>2. ASSUME NEW u \in Thread, pc'[u] = "add" PROVE desc'[own'[u]].stid = u
    <3>1. pc[u] = "add" /\ Holds(u) /\ Held(u) = own[u] /\ u # t
      BY <1>4, <2>2 DEF Holds, Held
    <3>2. own[u] # d /\ own[u] \in Descriptor
      BY <1>5, <3>1, Whereabouts
    <3> QED
      BY <1>1, <1>4, <3>1, <3>2 DEF Lives
  <2>3. \A u \in Thread : Starting(u)' => Starting(u)
    BY <1>4 DEF Starting
  <2>4. \A u \in Thread : pc[u] = "chosen" => pc'[u] = "chosen"
    BY <1>4
  <2>5. ASSUME NEW u \in Thread
        PROVE  /\ pc'[u] \in {"look", "join", "dec", "check", "spin"} => arg'[u] \in Thread
               /\ pc'[u] \in {"look", "join", "next"} => mt'[u] # NULL
    BY <1>1, <1>4 DEF Lives
  <2> QED
    BY <1>1, <1>4, <2>1, <2>2, <2>3, <2>4, <2>5 DEF Lives
<1>20. Kept(t)
  BY <1>1, <1>8, ListsKept
<1> QED
  BY <1>20, <1>7, <1>8, <1>10, TypedAdd, NextInv

-----------------------------------------------------------------------------
(* A thread takes the first of the free descriptors.                       *)
LEMMA TakesFree ==
  ASSUME TasksInv, NEW f, NEW q, Placed(f, q), NEW t \in Thread, _mact_allocate(t),
         free # NULL, InHand' = InHand \cup {mt'[t]}
  PROVE  /\ mt'[t] \in Descriptor \ InHand /\ desc' = desc
         /\ total_count' = total_count /\ free' \in MtOrNull
         /\ \E r : Placed(r, q)'
<1>1. /\ f \in Seq(Descriptor) /\ IsList(f, free, Link, NULL) /\ Len(f) = free_count
      /\ NULL \notin Descriptor
  BY Descriptors DEF Placed
<1>2. f # <<>> /\ free \in Nodes(f)
  BY <1>1, EndsOfList
<1>3. PICK d \in Descriptor : d = free
  BY <1>1, <1>2, NodesAreIn
<1>4. /\ mt'[t] = d /\ free' = desc[d].link
      /\ UNCHANGED <<total_count, desc, hash>> /\ free_count' = free_count - 1
  BY <1>3 DEF _mact_allocate, FreeCount, TasksInv, Typed
<1>5. Link' = Link /\ free' = Link[d]
  BY <1>3, <1>4 DEF Link
<1>6. PICK r \in Seq(Descriptor) :
        /\ IsList(r, Link[d], Link, NULL) /\ Nodes(r) = Nodes(f) \ {d}
        /\ Len(r) = Len(f) - 1
  <2>1. /\ Tail(f) \in Seq(Descriptor) /\ IsList(Tail(f), Link[free], Link, NULL)
        /\ Nodes(Tail(f)) = Nodes(f) \ {free}
    BY <1>1, <1>2, ListLosesHead
  <2>2. Len(Tail(f)) = Len(f) - 1
    BY <1>1, <1>2
  <2> QED
    BY <1>3, <2>1, <2>2
<1>7. /\ \A e \in Descriptor :
           e <= total_count' <=> \/ e \in Nodes(r) \/ e \in InHand'
                                \/ \E b \in Bucket : e \in Nodes(q[b])
      /\ InHand' \subseteq Descriptor /\ Nodes(r) \cap InHand' = {}
      /\ \A b \in Bucket : \A e \in Nodes(q[b]) :
           /\ e \notin Nodes(r) \cup InHand'
           /\ desc'[e].stid \in Thread /\ MT_HASH(desc'[e].stid) = b
  BY <1>2, <1>3, <1>4, <1>6 DEF Placed
<1>8. Placed(r, q)'
  BY <1>1, <1>4, <1>5, <1>6, <1>7 DEF Placed
<1>9. d \notin InHand
  BY <1>2, <1>3 DEF Placed
<1>10. free' \in MtOrNull
  BY <1>3, <1>4 DEF TasksInv, Typed, Desc
<1> QED
  BY <1>3, <1>4, <1>8, <1>9, <1>10

(* There is none: the thread makes some, and takes the first of them.      *)
LEMMA ObtainsMore ==
  ASSUME TasksInv, NEW f, NEW q, Placed(f, q), NEW t \in Thread, _mact_allocate(t),
         free = NULL, InHand' = InHand \cup {mt'[t]}
  PROVE  /\ mt'[t] \in Descriptor \ InHand /\ desc' \in [Descriptor -> Desc]
         /\ total_count' \in 1 .. MaxMt /\ free' \in MtOrNull
         /\ \A d \in Descriptor : desc'[d].stid = desc[d].stid
         /\ \E r : Placed(r, q)'
<1> DEFINE n == total_count
           k == MTS_TO_GET
<1>1. n \in Nat /\ n >= 1 /\ k \in Nat \ {0} /\ n + k <= MaxMt /\ MaxMt \in Nat
  BY MtAssumption DEF _mact_allocate, get_more_mt_descriptors, TasksInv, Typed
<1>2. /\ total_count' = n + k /\ hash' = hash /\ free_count' = free_count + k - 1
      /\ mt'[t] = n + 1 /\ free' = desc'[n + 1].link
  BY <1>1 DEF _mact_allocate, get_more_mt_descriptors, FreeCount, TasksInv, Typed
<1>0. PICK garbage \in TaskState : desc' = Initialised(n + k, garbage)
  BY GarbageAssumption DEF _mact_allocate, get_more_mt_descriptors
<1>3. \A d \in Descriptor :
        desc'[d] = IF d \in n + 1 .. n + k - 1 THEN [desc[d] EXCEPT !.link = d + 1]
                   ELSE IF d = n + k THEN [desc[d] EXCEPT !.state = garbage]
                   ELSE desc[d]
  <2>1. PICK last : last = n + k
    OBVIOUS
  <2>2. desc' = Initialised(last, garbage) /\ last - 1 = n + k - 1
    BY <1>0, <1>1, <2>1
  <2> HIDE DEF k
  <2>3. \A d \in Descriptor :
          desc'[d] = IF d \in total_count + 1 .. last - 1 THEN [desc[d] EXCEPT !.link = d + 1]
                     ELSE IF d = last THEN [desc[d] EXCEPT !.state = garbage]
                     ELSE desc[d]
    BY <2>2, Zenon DEF Initialised
  <2> QED
    BY <2>1, <2>2, <2>3
<1> HIDE DEF n, k
<1>4. \A d \in Descriptor : d \in Int /\ 1 <= d /\ d <= MaxMt /\ desc[d] \in Desc
  <2>1. desc \in [Descriptor -> Desc]
    BY DEF TasksInv, Typed
  <2>2. \A d \in Descriptor : d \in Int /\ 1 <= d /\ d <= MaxMt
    BY <1>1 DEF Descriptor
  <2> QED
    BY <2>1, <2>2
<1>5. \A d \in n + 1 .. n + k : d \in Descriptor /\ d > n
  BY <1>1 DEF Descriptor
<1>6. ASSUME NEW d \in Descriptor
      PROVE  /\ desc'[d] \in Desc /\ desc'[d].stid = desc[d].stid
             /\ desc'[d].link = IF d \in n + 1 .. n + k - 1 THEN d + 1 ELSE desc[d].link
  <2>1. desc[d] \in Desc /\ d \in Int
    BY <1>4
  <2>2. CASE d \in n + 1 .. n + k - 1
    <3>1. d + 1 \in MtOrNull
      BY <1>1, <2>2 DEF MtOrNull
    <3>2. desc'[d] = [desc[d] EXCEPT !.link = d + 1]
      <4>1. d # n + k
        BY <1>1, <2>2
      <4> QED
        BY <1>3, <2>2, <4>1
    <3> QED
      BY <2>1, <2>2, <3>1, <3>2 DEF Desc
  <2>3. CASE d \notin n + 1 .. n + k - 1 /\ d = n + k
    <3>1. desc'[d] = [desc[d] EXCEPT !.state = garbage]
      BY <1>3, <2>3
    <3> QED
      BY <2>1, <2>3, <3>1 DEF Desc
  <2>4. CASE d \notin n + 1 .. n + k - 1 /\ d # n + k
    BY <1>3, <2>1, <2>4
  <2> QED
    BY <2>2, <2>3, <2>4
<1>7. \A d \in Descriptor : d > n => desc[d].link = NULL
  BY DEF Placed, n
<1>8. ASSUME NEW d \in n + 1 .. n + k
      PROVE  Link'[d] = IF d = n + k THEN NULL ELSE d + 1
  <2>1. d \in Descriptor /\ d > n /\ Link'[d] = desc'[d].link
    BY <1>5 DEF Link
  <2>2. d \in n + 1 .. n + k - 1 <=> d # n + k
    BY <1>1
  <2> QED
    BY <1>6, <1>7, <2>1, <2>2
<1>9. \A d \in Descriptor : d <= n => Link'[d] = Link[d]
  <2>1. \A d \in Descriptor : d <= n => d \notin n + 1 .. n + k - 1
    BY <1>1, <1>4
  <2> QED
    BY <1>6, <2>1 DEF Link
<1>10. PICK r \in Seq(Descriptor) :
         /\ Len(r) = k - 1 /\ (r = <<>> <=> k = 1)
         /\ \A i \in 1 .. k - 1 : r[i] = n + 1 + i
  <2> DEFINE s == [i \in 1 .. k - 1 |-> n + 1 + i]
  <2>1. \A i \in 1 .. k - 1 : n + 1 + i \in Descriptor
    BY <1>1 DEF Descriptor
  <2>2. s \in [1 .. k - 1 -> Descriptor]
    BY <2>1
  <2>3. k - 1 \in Nat /\ (k - 1 = 0 <=> k = 1)
    BY <1>1
  <2>4. \A i \in 1 .. k - 1 : s[i] = n + 1 + i
    OBVIOUS
  <2> HIDE DEF s
  <2>5. s \in Seq(Descriptor) /\ Len(s) = k - 1 /\ (s = <<>> <=> k = 1)
    BY <2>2, <2>3, SeqOf
  <2> QED
    BY <2>4, <2>5
<1>11. \A e : e \in Nodes(r) <=> e \in n + 2 .. n + k
  <2>1. Nodes(r) = {n + 1 + i : i \in 1 .. k - 1}
    BY <1>10 DEF Nodes
  <2>2. \A i \in 1 .. k - 1 : n + 1 + i \in n + 2 .. n + k
    BY <1>1
  <2>3. \A e \in n + 2 .. n + k : e - n - 1 \in 1 .. k - 1 /\ e = n + 1 + (e - n - 1)
    BY <1>1
  <2> QED
    BY <2>1, <2>2, <2>3
<1>12. IsList(r, free', Link', NULL)
  <2>1. free' = IF k = 1 THEN NULL ELSE n + 2
    <3>1. n + 1 \in n + 1 .. n + k /\ (n + 1 = n + k <=> k = 1) /\ (n + 1) + 1 = n + 2
      BY <1>1
    <3>2. free' = Link'[n + 1]
      BY <1>2, <1>5, <3>1 DEF Link
    <3>3. Link'[n + 1] = IF n + 1 = n + k THEN NULL ELSE (n + 1) + 1
      BY <1>8, <3>1
    <3> QED
      BY <3>1, <3>2, <3>3
  <2>2. k # 1 => r[1] = n + 2
    <3>1. k # 1 => 1 \in 1 .. k - 1 /\ n + 1 + 1 = n + 2
      BY <1>1
    <3> QED
      BY <1>10, <3>1
  <2>3. ASSUME NEW i \in 1 .. Len(r)
        PROVE  r[i] # NULL /\ Link'[r[i]] = IF i = Len(r) THEN NULL ELSE r[i + 1]
    <3>1. /\ i \in 1 .. k - 1 /\ r[i] = n + 1 + i /\ n + 1 + i \in n + 1 .. n + k
          /\ (n + 1 + i = n + k <=> i = k - 1) /\ (n + 1 + i) + 1 = n + 1 + (i + 1)
          /\ (i # k - 1 => i + 1 \in 1 .. k - 1)
      BY <1>1, <1>10, <2>3
    <3>2. n + 1 + i \in Descriptor
      BY <1>5, <3>1
    <3> QED
      BY <1>8, <1>10, <3>1, <3>2, Descriptors
  <2>4. ASSUME NEW i \in 1 .. Len(r), NEW j \in 1 .. Len(r), r[i] = r[j] PROVE i = j
    <3>1. i \in Int /\ j \in Int /\ n \in Int /\ n + 1 + i = n + 1 + j
      BY <1>1, <1>10, <2>4
    <3> QED
      BY <3>1
  <2> QED
    BY <1>10, <2>1, <2>2, <2>3, <2>4 DEF IsList
<1>13. f = <<>> /\ Nodes(f) = {} /\ free_count = 0
  <2>1. f \in Seq(Descriptor) /\ IsList(f, NULL, Link, NULL) /\ Len(f) = free_count
    BY DEF Placed
  <2>2. f = <<>>
    BY <2>1, Descriptors, EndsOfList
  <2> QED
    BY <2>1, <2>2 DEF Nodes
<1>14. /\ \A b \in Bucket : \A e \in Nodes(q[b]) : e \in Descriptor /\ e <= n
       /\ \A e \in InHand : e \in Descriptor /\ e <= n
  <2>1. \A b \in Bucket : Nodes(q[b]) \subseteq Descriptor
    BY NodesAreIn DEF Placed
  <2> QED
    BY <2>1 DEF Placed, n
<1>15. \A b \in Bucket : IsList(q[b], hash'[b], Link', NULL)
  <2>1. \A b \in Bucket : \A e \in Nodes(q[b]) : Link'[e] = Link[e]
    BY <1>9, <1>14
  <2>2. \A b \in Bucket : IsList(q[b], hash[b], Link, NULL)
    BY DEF Placed
  <2> QED
    BY <1>2, <2>1, <2>2, ListStays
<1>16. \A e \in Descriptor :
         e <= n + k <=> \/ e \in Nodes(r) \/ e \in InHand'
                        \/ \E b \in Bucket : e \in Nodes(q[b])
  <2>1. \A e \in Descriptor : e <= n <=> e \in InHand \/ \E b \in Bucket : e \in Nodes(q[b])
    BY <1>13 DEF Placed, n
  <2>2. \A e \in Descriptor : e <= n + k <=> e <= n \/ e = n + 1 \/ e \in n + 2 .. n + k
    BY <1>1, <1>4
  <2> QED
    BY <1>2, <1>11, <2>1, <2>2
<1>17. n + 1 \in Descriptor /\ n + 1 \notin InHand
       /\ \A b \in Bucket : n + 1 \notin Nodes(q[b])
  <2>1. n + 1 \in n + 1 .. n + k /\ ~(n + 1 <= n)
    BY <1>1
  <2> QED
    BY <1>5, <1>14, <2>1
<1>18. \A e \in Nodes(r) : e \notin InHand' /\ \A b \in Bucket : e \notin Nodes(q[b])
  <2>1. \A e \in n + 2 .. n + k : ~(e <= n) /\ e # n + 1
    BY <1>1
  <2> QED
    BY <1>2, <1>11, <1>14, <2>1
<1>19. \A b \in Bucket : \A e \in Nodes(q[b]) :
         desc'[e].stid \in Thread /\ MT_HASH(desc'[e].stid) = b
  BY <1>6, <1>14 DEF Placed
<1>20. \A e \in Descriptor : e > n + k => desc'[e].link = NULL
  <2>1. \A e \in Descriptor : e > n + k => e > n /\ e \notin n + 1 .. n + k - 1
    BY <1>1, <1>4
  <2> QED
    BY <1>6, <1>7, <2>1
<1>21. Len(r) = free_count'
  BY <1>1, <1>2, <1>10, <1>13
<1>22. InHand' \subseteq Descriptor
  BY <1>2, <1>14, <1>17
<1>23. Placed(r, q)'
  <2>1. q \in [Bucket -> Seq(Descriptor)]
    BY DEF Placed
  <2>2. Nodes(r) \cap InHand' = {}
    BY <1>18
  <2>3. \A b \in Bucket : \A e \in Nodes(q[b]) : e \notin Nodes(r) \cup InHand'
    BY <1>2, <1>17, <1>18 DEF Placed
  <2>4. \A e \in Descriptor :
          e <= total_count' <=> \/ e \in Nodes(r) \/ e \in InHand'
                               \/ \E b \in Bucket : e \in Nodes(q[b])
    BY <1>2, <1>16
  <2>5. \A e \in Descriptor : e > total_count' => desc'[e].link = NULL
    BY <1>2, <1>20
  <2>6. \A b \in Bucket : \A e \in Nodes(q[b]) :
          /\ e \notin Nodes(r) \cup InHand'
          /\ desc'[e].stid \in Thread /\ MT_HASH(desc'[e].stid) = b
    BY <1>19, <2>3
  <2> QED
    BY <1>10, <1>12, <1>15, <1>21, <1>22, <2>1, <2>2, <2>4, <2>5, <2>6 DEF Placed
<1>24. desc' \in [Descriptor -> Desc]
  BY <1>0, <1>6 DEF Initialised
<1>25. free' \in MtOrNull
  <2>1. n + 1 \in Descriptor
    BY <1>17
  <2> QED
    BY <1>2, <1>6, <2>1 DEF Desc
<1>26. total_count' \in 1 .. MaxMt
  BY <1>1, <1>2
<1> QED
  BY <1>2, <1>6, <1>17, <1>23, <1>24, <1>25, <1>26

LEMMA AllocateKeeps ==
  ASSUME TasksInv, NEW t \in Thread, tskstart_allocate(t) \/ find_self_allocate(t)
  PROVE  TasksInv' /\ Kept(t)
<1>1. PICK f, q : Placed(f, q) /\ Lives(q)
  BY DEF TasksInv
<1>2. /\ pc \in [Thread -> Pc] /\ pc[t] \in {"allocate", "find_allocate"}
      /\ pc' = [pc EXCEPT ![t] = IF pc[t] = "allocate" THEN "ready" ELSE "find_add"]
      /\ _mact_allocate(t)
      /\ mt \in [Thread -> MtOrNull] /\ mt' = [mt EXCEPT ![t] = mt'[t]]
      /\ UNCHANGED <<arg, own, my_mt, calls, tca, joined, aborted, hash, free_sem>>
  BY DEF tskstart_allocate, find_self_allocate, _mact_allocate, At, Goto, TasksInv, Typed,
         program
<1>3. /\ ~Holds(t) /\ Holds(t)' /\ Held(t)' = mt'[t]
      /\ \A u \in Thread \ {t} :
           (Holds(u)' <=> Holds(u)) /\ (Holds(u) => Held(u)' = Held(u))
  BY <1>2 DEF Holds, Held
<1>4. InHand' = InHand \cup {mt'[t]}
  BY <1>3 DEF InHand
<1>5. /\ mt'[t] \in Descriptor \ InHand /\ desc' \in [Descriptor -> Desc]
      /\ total_count' \in 1 .. MaxMt /\ free' \in MtOrNull
      /\ \A d \in Descriptor : desc'[d].stid = desc[d].stid
      /\ \E r : Placed(r, q)'
  <2>1. CASE free = NULL
    BY <1>1, <1>2, <1>4, <2>1, ObtainsMore
  <2>2. CASE free # NULL
    <3>1. /\ mt'[t] \in Descriptor \ InHand /\ desc' = desc
          /\ total_count' = total_count /\ free' \in MtOrNull
          /\ \E r : Placed(r, q)'
      BY <1>1, <1>2, <1>4, <2>2, TakesFree
    <3> QED
      BY <3>1 DEF TasksInv, Typed
  <2> QED
    BY <2>1, <2>2
<1>6. PICK r : Placed(r, q)'
  BY <1>5
<1>7. TypedButCount'
  <2>1. pc' \in [Thread -> Pc]
    BY <1>2 DEF Pc
  <2>2. mt' \in [Thread -> MtOrNull]
    BY <1>2, <1>5, Descriptors
  <2> QED
    BY <1>2, <1>5, <2>1, <2>2 DEF TasksInv, Typed, TypedButCount
<1>8. HoldersDiffer'
  <2>1. \A u \in Thread : Holds(u) => Held(u) # mt'[t]
    BY <1>5 DEF InHand
  <2> QED
    BY <1>3, <2>1 DEF TasksInv, HoldersDiffer
<1>9. Lives(q)'
  <2>1. ASSUME NEW u \in Thread, Alive(u)'
        PROVE  own'[u] \in Nodes(q[MT_HASH(u)]) /\ desc'[own'[u]].stid = u
    <3>1. Alive(u) /\ own'[u] = own[u]
      BY <1>2, <2>1 DEF Alive
    <3> QED
      BY <1>1, <1>5, <3>1, Whereabouts DEF Lives
  <2>2. ASSUME NEW u \in Thread, pc'[u] = "add" PROVE desc'[own'[u]].stid = u
    <3>1. pc[u] = "add" /\ own[u] \in Descriptor
      BY <1>2, <2>2, Whereabouts DEF Holds, Held
    <3> QED
      BY <1>1, <1>2, <1>5, <3>1 DEF Lives
  <2>3. \A u \in Thread : Starting(u)' => Starting(u)
    BY <1>2 DEF Starting
  <2>4. \A u \in Thread : pc[u] = "chosen" => pc'[u] = "chosen"
    BY <1>2
  <2>5. ASSUME NEW u \in Thread
        PROVE  /\ pc'[u] \in {"look", "join", "dec", "check", "spin"} => arg'[u] \in Thread
               /\ pc'[u] \in {"look", "join", "next"} => mt'[u] # NULL
    BY <1>1, <1>2 DEF Lives
  <2> QED
    BY <1>1, <1>2, <2>1, <2>2, <2>3, <2>4, <2>5 DEF Lives
<1>20. Kept(t)
  BY <1>1, <1>6, ListsKept
<1> QED
  BY <1>20, <1>6, <1>7, <1>8, <1>9, NextInv

-----------------------------------------------------------------------------
(* The descriptor of a thread that ends leaves its chain for the free list.*)
LEMMA PlacedAfterUnlink ==
  ASSUME TasksInv, NEW f, NEW q, Placed(f, q), NEW t \in Thread, delete_unlink(t),
         NEW d \in Descriptor, d = own[t], NEW b \in Bucket, b = MT_HASH(t),
         d \in Nodes(q[b]), InHand' = InHand
  PROVE  /\ desc' \in [Descriptor -> Desc] /\ hash' \in [Bucket -> MtOrNull]
         /\ \A e \in Descriptor \ {d} : desc'[e].stid = desc[e].stid
         /\ \E r, q2 : /\ Placed(r, q2)'
                       /\ \A a \in Bucket : Nodes(q[a]) \ {d} \subseteq Nodes(q2[a])
<1>1. /\ \A a \in Bucket : q[a] \in Seq(Descriptor) /\ IsList(q[a], hash[a], Link, NULL)
      /\ \A a \in Bucket : Nodes(q[a]) \subseteq Descriptor
      /\ f \in Seq(Descriptor) /\ IsList(f, free, Link, NULL) /\ Len(f) = free_count
      /\ Nodes(f) \subseteq Descriptor /\ NULL \notin Descriptor
      /\ \A a \in Bucket \ {b} : Nodes(q[a]) \cap Nodes(q[b]) = {}
  BY NodesAreIn, Descriptors DEF Placed
<1>2. /\ d \notin Nodes(f) /\ d \notin InHand /\ d <= total_count
  BY DEF Placed
<1>3. PICK s \in Seq(Descriptor) : s = q[b]
  BY <1>1
<1>4. Chain(hash[b], "link") = Nodes(s)
  BY <1>3, WalksMeetLists
<1>5. /\ hash \in [Bucket -> MtOrNull] /\ desc \in [Descriptor -> Desc]
      /\ hash' = [hash EXCEPT ![b] = IF @ = d THEN desc[d].link ELSE @]
      /\ desc' = [Unlinked(b, d) EXCEPT ![d] =
                    [@ EXCEPT !.state = "TS_Nonexistent", !.stid = NoThread,
                              !.link = free]]
      /\ free' = d /\ free_count' = free_count + 1 /\ total_count' = total_count
  BY DEF delete_unlink, TasksInv, Typed
<1>6. ASSUME NEW e \in Descriptor
      PROVE  Unlinked(b, d)[e] = IF e \in Nodes(s) /\ desc[e].link = d
                                   THEN [desc[e] EXCEPT !.link = desc[d].link]
                                   ELSE desc[e]
  BY <1>4 DEF Unlinked
<1>7. Unlinked(b, d) \in [Descriptor -> Desc]
  <2>1. ASSUME NEW e \in Descriptor PROVE Unlinked(b, d)[e] \in Desc
    <3>1. desc[e] \in Desc /\ desc[d].link \in MtOrNull
      BY <1>5 DEF Desc
    <3> QED
      BY <1>6, <3>1 DEF Desc
  <2> QED
    BY <2>1 DEF Unlinked
<1>8. /\ desc' \in [Descriptor -> Desc] /\ desc'[d].link = free
      /\ \A e \in Descriptor \ {d} : desc'[e] = Unlinked(b, d)[e]
  <2>1. free \in MtOrNull /\ Unlinked(b, d)[d] \in Desc
    BY <1>7 DEF TasksInv, Typed
  <2> QED
    BY <1>5, <1>7, <2>1 DEF Desc, TaskState
<1>9. \A e \in Descriptor \ {d} :
        /\ desc'[e].stid = desc[e].stid
        /\ desc'[e].link = IF e \in Nodes(s) /\ desc[e].link = d THEN desc[d].link
                                                                 ELSE desc[e].link
  <2> SUFFICES ASSUME NEW e \in Descriptor \ {d}
               PROVE  /\ desc'[e].stid = desc[e].stid
                      /\ desc'[e].link = IF e \in Nodes(s) /\ desc[e].link = d
                                            THEN desc[d].link ELSE desc[e].link
    OBVIOUS
  <2>1. desc[e] \in Desc /\ desc'[e] = Unlinked(b, d)[e]
    BY <1>5, <1>8
  <2>2. CASE e \in Nodes(s) /\ desc[e].link = d
    <3>1. desc'[e] = [desc[e] EXCEPT !.link = desc[d].link]
      BY <1>6, <2>1, <2>2
    <3> QED
      BY <2>1, <2>2, <3>1 DEF Desc
  <2>3. CASE ~(e \in Nodes(s) /\ desc[e].link = d)
    <3>1. desc'[e] = desc[e]
      BY <1>6, <2>1, <2>3
    <3> QED
      BY <2>3, <3>1
  <2> QED
    BY <2>2, <2>3
<1>10. /\ Link'[d] = free
       /\ \A e \in Nodes(s) \ {d} : Link'[e] = IF Link[e] = d THEN Link[d] ELSE Link[e]
       /\ \A e \in Descriptor \ (Nodes(s) \cup {d}) : Link'[e] = Link[e]
  BY <1>1, <1>3, <1>8, <1>9 DEF Link
<1>11. PICK r \in Seq(Descriptor) : /\ IsList(r, d, Link', NULL)
                                    /\ Nodes(r) = Nodes(f) \cup {d}
                                    /\ Len(r) = Len(f) + 1
  <2>1. \A e \in Nodes(f) : e \in Descriptor \ (Nodes(s) \cup {d})
    BY <1>1, <1>2, <1>3 DEF Placed
  <2>2. \A e \in Nodes(f) : Link'[e] = Link[e]
    BY <1>10, <2>1
  <2>3. PICK h : h = free
    OBVIOUS
  <2>4. /\ f \in Seq(Descriptor) /\ IsList(f, h, Link, NULL) /\ NULL \notin Descriptor
        /\ d \in Descriptor \ Nodes(f) /\ Link'[d] = h
    BY <1>1, <1>2, <1>10, <2>3
  <2> QED
    BY <2>2, <2>4, ListGrowsAtHead
<1>12. PICK s2 \in Seq(Descriptor) :
         IsList(s2, hash'[b], Link', NULL) /\ Nodes(s2) = Nodes(s) \ {d}
  <2>1. PICK h : h = hash[b]
    OBVIOUS
  <2>2. IsList(s, h, Link, NULL) /\ d \in Nodes(s)
    BY <1>1, <1>3, <2>1
  <2>3. \A e \in Nodes(s) \ {d} : Link'[e] = IF Link[e] = d THEN Link[d] ELSE Link[e]
    BY <1>10
  <2>4. PICK h2 : h2 = hash'[b] /\ h2 = IF h = d THEN Link[d] ELSE h
    BY <1>5, <2>1 DEF Link
  <2>5. NULL \notin Descriptor
    BY <1>1
  <2>6. \E r2 \in Seq(Descriptor) :
          IsList(r2, h2, Link', NULL) /\ Nodes(r2) = Nodes(s) \ {d}
    <3>1. Bypassed(s, d, h, Link, h2, Link')
      BY <2>3, <2>4 DEF Bypassed
    <3> QED
      BY <2>2, <2>5, <3>1, ListLosesMember
  <2> QED
    BY <2>4, <2>6
<1>13. PICK q2 : q2 = [q EXCEPT ![b] = s2]
  OBVIOUS
<1>14. /\ q2 \in [Bucket -> Seq(Descriptor)] /\ q2[b] = s2
       /\ \A a \in Bucket \ {b} : q2[a] = q[a]
       /\ Nodes(q2[b]) = Nodes(q[b]) \ {d}
  BY <1>3, <1>12, <1>13 DEF Placed
<1>15. ASSUME NEW a \in Bucket PROVE IsList(q2[a], hash'[a], Link', NULL)
  <2>1. CASE a = b
    BY <1>12, <1>14, <2>1
  <2>2. CASE a # b
    <3>1. \A e \in Nodes(q[a]) : e \in Descriptor \ (Nodes(s) \cup {d})
      BY <1>1, <1>3, <2>2
    <3>2. \A e \in Nodes(q[a]) : Link'[e] = Link[e]
      BY <1>10, <3>1
    <3>3. IsList(q[a], hash[a], Link', NULL)
      BY <1>1, <3>2, ListStays
    <3>4. q2[a] = q[a] /\ hash'[a] = hash[a]
      BY <1>5, <1>14, <2>2
    <3> QED
      BY <3>3, <3>4
  <2> QED
    BY <2>1, <2>2
<1>16. \A a \in Bucket : Nodes(q2[a]) = Nodes(q[a]) \ {d}
  <2>1. \A a \in Bucket \ {b} : d \notin Nodes(q[a])
    BY <1>1
  <2> QED
    BY <1>14, <2>1
<1>17. \A e \in Descriptor :
         e <= total_count' <=> \/ e \in Nodes(r) \/ e \in InHand'
                              \/ \E a \in Bucket : e \in Nodes(q2[a])
  BY <1>2, <1>5, <1>11, <1>16 DEF Placed
<1>18. ASSUME NEW a \in Bucket, NEW e \in Nodes(q2[a])
       PROVE  /\ e \notin Nodes(r) \cup InHand'
              /\ desc'[e].stid \in Thread /\ MT_HASH(desc'[e].stid) = a
  <2>1. e \in Nodes(q[a]) /\ e # d /\ e \in Descriptor
    BY <1>1, <1>16
  <2>2. desc'[e].stid = desc[e].stid
    BY <1>9, <2>1
  <2> QED
    BY <1>11, <2>1, <2>2 DEF Placed
<1>19. \A e \in Descriptor : e > total_count' => desc'[e].link = NULL
  <2>1. total_count \in Int /\ \A e \in Descriptor : e \in Int
    BY DEF TasksInv, Typed, Descriptor
  <2>2. \A e \in Nodes(s) : e <= total_count
    BY <1>1, <1>3 DEF Placed
  <2>3. \A e \in Descriptor : e > total_count => e \notin Nodes(s) /\ e # d
    BY <1>2, <2>1, <2>2
  <2> QED
    BY <1>5, <1>9, <2>3 DEF Placed
<1>20. InHand' \subseteq Descriptor /\ Nodes(r) \cap InHand' = {}
  BY <1>2, <1>11 DEF Placed
<1>21. Placed(r, q2)'
  <2>1. IsList(r, free', Link', NULL) /\ Len(r) = free_count'
    BY <1>1, <1>5, <1>11
  <2> QED
    BY <1>14, <1>15, <1>17, <1>18, <1>19, <1>20, <2>1 DEF Placed
<1>22. hash' \in [Bucket -> MtOrNull]
  BY <1>5 DEF Desc
<1>23. \A e \in Descriptor \ {d} : desc'[e].stid = desc[e].stid
  BY <1>9
<1>24. \E p, p2 : /\ Placed(p, p2)'
                  /\ \A a \in Bucket : Nodes(q[a]) \ {d} \subseteq Nodes(p2[a])
  BY <1>16, <1>21
<1> QED
  BY <1>8, <1>22, <1>23, <1>24

LEMMA DeleteUnlinkKeeps ==
  ASSUME TasksInv, NEW t \in Thread, delete_unlink(t)
  PROVE  TasksInv' /\ Kept(t)
<1>1. PICK f, q : Placed(f, q) /\ Lives(q)
  BY DEF TasksInv
<1>2. Alive(t)
  BY DEF delete_unlink, At, Alive
<1>3. PICK d \in Descriptor : d = own[t]
  BY <1>2, Whereabouts
<1>4. PICK b \in Bucket : b = MT_HASH(t)
  BY HashTyped
<1>5. d \in Nodes(q[b]) /\ desc[d].stid = t
  BY <1>1, <1>2, <1>3, <1>4 DEF Lives
<1>6. /\ pc \in [Thread -> Pc] /\ pc[t] = "unlink" /\ pc' = [pc EXCEPT ![t] = "gone"]
      /\ own \in [Thread -> MtOrNull] /\ own' = [own EXCEPT ![t] = NULL]
      /\ UNCHANGED <<arg, my_mt, mt, program, total_count, free_sem, aborted>>
      /\ free' = d
  BY <1>3 DEF delete_unlink, At, Goto, TasksInv, Typed
<1>7. \A u \in Thread : (Holds(u)' <=> Holds(u)) /\ (Holds(u) => Held(u)' = Held(u))
  BY <1>6 DEF Holds, Held
<1>8. InHand' = InHand /\ HoldersDiffer'
  BY <1>7 DEF InHand, TasksInv, HoldersDiffer
<1>9. /\ desc' \in [Descriptor -> Desc] /\ hash' \in [Bucket -> MtOrNull]
      /\ \A e \in Descriptor \ {d} : desc'[e].stid = desc[e].stid
      /\ \E r, q2 : /\ Placed(r, q2)'
                    /\ \A a \in Bucket : Nodes(q[a]) \ {d} \subseteq Nodes(q2[a])
  <2>1. /\ Placed(f, q) /\ d = own[t] /\ b = MT_HASH(t) /\ d \in Nodes(q[b])
        /\ InHand' = InHand
    BY <1>1, <1>3, <1>4, <1>5, <1>8
  <2> QED
    BY <2>1, PlacedAfterUnlink, SMTT(30)
<1>10. PICK r, q2 : /\ Placed(r, q2)'
                    /\ \A a \in Bucket : Nodes(q[a]) \ {d} \subseteq Nodes(q2[a])
  BY <1>9
<1>11. TypedButCount'
  BY <1>6, <1>9, Descriptors DEF TasksInv, Typed, TypedButCount, Pc, program
<1>12. Lives(q2)'
  <2>1. ASSUME NEW u \in Thread, Alive(u)'
        PROVE  own'[u] \in Nodes(q2[MT_HASH(u)]) /\ desc'[own'[u]].stid = u
    <3>1. Alive(u) /\ own'[u] = own[u] /\ u # t
      BY <1>6, <2>1 DEF Alive
    <3>2. own[u] \in Descriptor /\ own[u] \in Nodes(q[MT_HASH(u)]) /\ desc[own[u]].stid = u
      BY <1>1, <3>1, Whereabouts DEF Lives
    <3>3. own[u] # d
      BY <1>5, <3>1, <3>2
    <3> QED
      BY <1>9, <1>10, <3>1, <3>2, <3>3, HashTyped
  <2>2. ASSUME NEW u \in Thread, pc'[u] = "add" PROVE desc'[own'[u]].stid = u
    <3>1. pc[u] = "add" /\ own'[u] = own[u] /\ Holds(u) /\ Held(u) = own[u]
      BY <1>6, <2>2 DEF Holds, Held
    <3>2. own[u] \in Descriptor /\ own[u] \in InHand
      BY <3>1, Whereabouts DEF InHand
    <3>3. own[u] # d
      BY <1>1, <1>5, <3>2 DEF Placed
    <3> QED
      BY <1>1, <1>9, <3>1, <3>2, <3>3 DEF Lives
  <2>3. \A u \in Thread : Starting(u)' => Starting(u)
    BY <1>6 DEF Starting
  <2>4. \A u \in Thread : pc[u] = "chosen" => pc'[u] = "chosen"
    BY <1>6
  <2>5. ASSUME NEW u \in Thread
        PROVE  /\ pc'[u] \in {"look", "join", "dec", "check", "spin"} => arg'[u] \in Thread
               /\ pc'[u] \in {"look", "join", "next"} => mt'[u] # NULL
    BY <1>1, <1>6 DEF Lives
  <2> QED
    BY <1>1, <1>6, <2>1, <2>2, <2>3, <2>4, <2>5 DEF Lives
<1>20. Kept(t)
  BY <1>1, <1>3, <1>6, <1>10, ListsKept
<1> QED
  BY <1>20, <1>8, <1>10, <1>11, <1>12, NextInv

-----------------------------------------------------------------------------
LEMMA InitInv ==
  ASSUME Init
  PROVE  TasksInv
<1> DEFINE n == INITIAL_TASKS
           f == [i \in 1 .. n - 1 |-> i + 1]
           q == [b \in Bucket |-> IF b = MT_HASH(Main) THEN <<1>> ELSE <<>>]
<1>1. n \in Nat /\ n >= 1 /\ n <= MaxMt /\ MaxMt \in Nat
  BY MtAssumption
<1>2. /\ Main \in Thread /\ Main \notin Foreign /\ MT_HASH(Main) \in Bucket
      /\ NoThread \notin Thread
  BY ThreadAssumption, HashTyped
<1>3. 1 \in Descriptor /\ \A d \in Descriptor : d \in Int /\ 1 <= d /\ d <= MaxMt
  BY <1>1 DEF Descriptor
<1>4. ASSUME NEW d \in Descriptor PROVE InitialTask(d) \in Desc
  <2>1. (IF d \in 2 .. n - 1 THEN d + 1 ELSE NULL) \in MtOrNull
    BY <1>1, <1>3 DEF MtOrNull, NULL
  <2> QED
    BY <1>2, <2>1, Descriptors DEF InitialTask, Desc, TaskState
<1>5. /\ desc \in [Descriptor -> Desc]
      /\ \A d \in Descriptor :
           /\ desc[d].stid = IF d = 1 THEN Main ELSE NoThread
           /\ desc[d].link = IF d \in 2 .. n - 1 THEN d + 1 ELSE NULL
  BY <1>4 DEF Init, InitialTask
<1>6. /\ total_count = n /\ free_count = n - 1 /\ free = (IF n > 1 THEN 2 ELSE NULL)
      /\ hash = [b \in Bucket |-> IF b = MT_HASH(Main) THEN 1 ELSE NULL]
      /\ own = [t \in Thread |-> IF t = Main THEN 1 ELSE NULL]
      /\ pc = [t \in Thread |-> IF t \in Foreign \cup {Main} THEN "user" ELSE "unborn"]
  BY DEF Init
<1>7. /\ f \in Seq(Descriptor) /\ Len(f) = n - 1 /\ (f = <<>> <=> n = 1)
      /\ \A i \in 1 .. n - 1 : f[i] = i + 1
  <2>1. \A i \in 1 .. n - 1 : i + 1 \in Descriptor
    BY <1>1 DEF Descriptor
  <2>2. f \in [1 .. n - 1 -> Descriptor]
    BY <2>1
  <2>3. n - 1 \in Nat /\ (n - 1 = 0 <=> n = 1)
    BY <1>1
  <2>4. \A i \in 1 .. n - 1 : f[i] = i + 1
    OBVIOUS
  <2> HIDE DEF f, n
  <2> QED
    BY <2>2, <2>3, <2>4, SeqOf
<1> HIDE DEF f, n
<1>8. IsList(f, free, Link, NULL)
  <2>1. free = IF f = <<>> THEN NULL ELSE f[1]
    <3>1. n # 1 => n > 1 /\ 1 \in 1 .. n - 1 /\ 1 + 1 = 2
      BY <1>1
    <3>2. n = 1 => ~(n > 1)
      OBVIOUS
    <3> QED
      BY <1>6, <1>7, <3>1, <3>2
  <2>2. ASSUME NEW i \in 1 .. Len(f)
        PROVE  f[i] # NULL /\ Link[f[i]] = IF i = Len(f) THEN NULL ELSE f[i + 1]
    <3>1. /\ i \in 1 .. n - 1 /\ f[i] = i + 1 /\ i + 1 \in Descriptor
          /\ (i + 1 \in 2 .. n - 1 <=> i # n - 1)
          /\ (i # n - 1 => i + 1 \in 1 .. n - 1)
      BY <1>1, <1>7, <2>2 DEF Descriptor
    <3>2. Link[i + 1] = IF i + 1 \in 2 .. n - 1 THEN (i + 1) + 1 ELSE NULL
      BY <1>5, <3>1 DEF Link
    <3> QED
      BY <1>7, <3>1, <3>2, Descriptors
  <2>3. ASSUME NEW i \in 1 .. Len(f), NEW j \in 1 .. Len(f), f[i] = f[j] PROVE i = j
    <3>1. i \in Int /\ j \in Int /\ i + 1 = j + 1
      BY <1>1, <1>7, <2>3
    <3> QED
      BY <3>1
  <2> QED
    BY <2>1, <2>2, <2>3 DEF IsList
<1>9. \A d : d \in Nodes(f) <=> d \in 2 .. n
  <2>1. Nodes(f) = {i + 1 : i \in 1 .. n - 1}
    BY <1>7 DEF Nodes
  <2>2. /\ \A i \in 1 .. n - 1 : i + 1 \in 2 .. n
        /\ \A d \in 2 .. n : d - 1 \in 1 .. n - 1 /\ d = (d - 1) + 1
    BY <1>1
  <2> QED
    BY <2>1, <2>2
<1>10. /\ q \in [Bucket -> Seq(Descriptor)]
       /\ \A b \in Bucket :
            q[b] = IF b = MT_HASH(Main) THEN <<1>> ELSE <<>>
  BY <1>3
<1> HIDE DEF q
<1>11. IsList(<<1>>, 1, Link, NULL) /\ Nodes(<<1>>) = {1}
  <2>1. Link[1] = NULL
    BY <1>3, <1>5 DEF Link
  <2> QED
    BY <1>3, <2>1, Descriptors DEF IsList, Nodes
<1>12. \A b \in Bucket :
         /\ IsList(q[b], hash[b], Link, NULL)
         /\ Nodes(q[b]) = IF b = MT_HASH(Main) THEN {1} ELSE {}
  BY <1>6, <1>10, <1>11, EmptyList
<1>13. \A t \in Thread : ~Holds(t) /\ ~Starting(t) /\ (Alive(t) => t = Main)
  BY <1>2, <1>6 DEF Holds, Starting, Alive
<1>14. InHand = {} /\ HoldersDiffer
  BY <1>13 DEF InHand, HoldersDiffer
<1>15. Placed(f, q)
  <2>1. \A d \in Descriptor :
          d <= total_count <=> \/ d \in Nodes(f) \/ d \in InHand
                              \/ \E b \in Bucket : d \in Nodes(q[b])
    <3>1. \A d \in Descriptor : d <= n <=> d = 1 \/ d \in 2 .. n
      BY <1>1, <1>3
    <3>2. \A d : (\E b \in Bucket : d \in Nodes(q[b])) <=> d = 1
      BY <1>2, <1>12
    <3> QED
      BY <1>6, <1>9, <1>14, <3>1, <3>2
  <2>2. \A b \in Bucket : \A d \in Nodes(q[b]) :
          /\ d \notin Nodes(f) \cup InHand
          /\ desc[d].stid \in Thread /\ MT_HASH(desc[d].stid) = b
    <3>1. \A b \in Bucket : \A d \in Nodes(q[b]) : d = 1 /\ b = MT_HASH(Main)
      BY <1>12
    <3>2. 1 \notin 2 .. n
      OBVIOUS
    <3> QED
      BY <1>2, <1>3, <1>5, <1>9, <1>14, <3>1, <3>2
  <2>3. \A d \in Descriptor : d > total_count => desc[d].link = NULL
    <3>1. \A d \in Descriptor : d > n => d \notin 2 .. n - 1
      BY <1>1, <1>3
    <3> QED
      BY <1>5, <1>6, <3>1
  <2> QED
    BY <1>6, <1>7, <1>8, <1>10, <1>12, <1>14, <2>1, <2>2, <2>3 DEF Placed
<1>16. Lives(q)
  <2>1. own[Main] = 1 /\ desc[1].stid = Main /\ 1 \in Nodes(q[MT_HASH(Main)])
    BY <1>2, <1>3, <1>5, <1>6, <1>12
  <2>2. \A t \in Thread : pc[t] \in {"user", "unborn"}
    BY <1>6
  <2> QED
    BY <1>13, <2>1, <2>2 DEF Lives
<1>17. Typed
  <2>1. total_count \in 1 .. MaxMt /\ free_count \in 0 .. MaxMt /\ free \in MtOrNull
    BY <1>1, <1>6 DEF MtOrNull, NULL
  <2>2. own \in [Thread -> MtOrNull] /\ hash \in [Bucket -> MtOrNull]
    BY <1>3, <1>6, Descriptors
  <2>3. pc \in [Thread -> Pc]
    BY <1>6 DEF Pc
  <2>4. calls \in [Thread -> 0 .. MaxCalls]
    BY MtAssumption DEF Init
  <2> QED
    BY <1>5, <2>1, <2>2, <2>3, <2>4, Descriptors DEF Init, Typed
<1>18. FreeList = f /\ HashLists = q
  BY <1>15, ListsAre
<1> QED
  BY <1>14, <1>15, <1>16, <1>17, <1>18 DEF TasksInv

LEMMA NextKeeps ==
  ASSUME TasksInv, [Next]_vars
  PROVE  TasksInv'
<1>1. CASE UNCHANGED vars
  <2>1. /\ UNCHANGED <<pc, calls, arg, own, my_mt, mt, tca, joined, desc>>
        /\ UNCHANGED <<total_count, free_count, free, hash, free_sem, aborted>>
    BY <1>1 DEF vars, locals, program, lists
  <2>2. PICK f, q : Placed(f, q) /\ Lives(q)
    BY DEF TasksInv
  <2>3. \A t \in Thread : (Holds(t)' <=> Holds(t)) /\ Held(t)' = Held(t)
    BY <2>1 DEF Holds, Held
  <2>4. InHand' = InHand /\ HoldersDiffer'
    BY <2>3 DEF InHand, TasksInv, HoldersDiffer
  <2>5. Placed(f, q)'
    BY <2>1, <2>2, <2>4, PlacedStays
  <2>6. Lives(q)'
    BY <2>1, <2>2 DEF Lives, Alive, Starting
  <2>7. TypedButCount'
    BY <2>1 DEF TypedButCount, TasksInv, Typed
  <2> QED
    BY <2>4, <2>5, <2>6, <2>7, NextInv
<1>2. CASE Next
  <2>1. PICK t \in Thread :
          \/ InRuntime(t) \/ _mact_find_self(t) \/ _mact_delete(t)
          \/ \E c \in Thread : tskstart_(t, c) \/ tskwait_(t, c)
    BY <1>2 DEF Next
  <2>2. CASE _mact_find_self(t)
    BY <2>2, FindSelfKeeps
  <2>3. CASE _mact_delete(t)
    BY <2>3, DeleteKeeps
  <2>4. CASE \E c \in Thread : tskstart_(t, c) \/ tskwait_(t, c)
    BY <2>4, TskstartKeeps, TskwaitKeeps
  <2>5. CASE InRuntime(t)
    <3>1. CASE find_self_step(t)
      BY <3>1, FindSelfStepKeeps
    <3>2. CASE tskstart_ready(t)
      BY <3>2, TskstartReadyKeeps
    <3>3. CASE tskstart_fill(t)
      BY <3>3, TskstartFillKeeps
    <3>4. CASE tskstart_return(t)
      BY <3>4, TskstartReturnKeeps
    <3>5. CASE _mact_start_macrotask(t)
      BY <3>5, StartMacrotaskKeeps
    <3>6. CASE tskwait_look(t)
      BY <3>6, TskwaitLookKeeps
    <3>7. CASE tskwait_join(t)
      BY <3>7, TskwaitJoinKeeps
    <3>8. CASE tskwait_dec(t)
      BY <3>8, TskwaitDecKeeps
    <3>9. CASE CHECK_FOR_MACT_DEADLOCK(t)
      BY <3>9, CheckForMactDeadlockKeeps
    <3>10. CASE tskwait_return(t)
      BY <3>10, TskwaitReturnKeeps
    <3>11. CASE delete_wait(t)
      BY <3>11, DeleteWaitKeeps
    <3>12. CASE delete_inc(t)
      BY <3>12, DeleteIncKeeps
    <3>13. CASE delete_wake(t)
      BY <3>13, DeleteWakeKeeps
    <3>14. CASE delete_next(t)
      BY <3>14, DeleteNextKeeps
    <3>15. CASE delete_woken(t)
      BY <3>15, DeleteWokenKeeps
    <3>16. CASE delete_dec(t)
      BY <3>16, DeleteDecKeeps
    <3>17. CASE delete_unlink(t)
      BY <3>17, DeleteUnlinkKeeps
    <3>18. CASE find_self_add(t)
      BY <3>18, FindSelfAddKeeps
    <3>19. CASE start_macrotask_add(t)
      BY <3>19, StartMacrotaskAddKeeps
    <3>20. CASE tskstart_allocate(t) \/ find_self_allocate(t)
      BY <3>20, AllocateKeeps
    <3> QED
      BY <2>5, <3>1, <3>2, <3>3, <3>4, <3>5, <3>6, <3>7, <3>8, <3>9, <3>10, <3>11,
         <3>12, <3>13, <3>14, <3>15, <3>16, <3>17, <3>18, <3>19, <3>20
        DEF InRuntime
  <2> QED
    BY <2>1, <2>2, <2>3, <2>4, <2>5
<1> QED
  BY <1>1, <1>2

LEMMA Invariance == Spec => []TasksInv
<1>1. Init => TasksInv
  BY InitInv
<1>2. TasksInv /\ [Next]_vars => TasksInv'
  BY NextKeeps
<1> QED
  BY <1>1, <1>2, PTL DEF Spec

-----------------------------------------------------------------------------
(* Whatever threads start, find, wait for and delete tasks in whatever     *)
(* order, every variable keeps its type: in particular no routine follows  *)
(* a pointer that is neither null nor a descriptor, and the count of free  *)
(* descriptors is never negative.                                          *)
THEOREM DescriptorsTyped == Spec => []Typed
<1>1. TasksInv => Typed
  BY DEF TasksInv
<1> QED
  BY <1>1, Invariance, PTL

LEMMA InvGivesLists ==
  ASSUME TasksInv
  PROVE  ListsIntact
<1>1. PICK f, q : Placed(f, q)
  BY DEF TasksInv
<1> DEFINE Free == Chain(free, "link")
           Hashed == [b \in Bucket |-> Chain(hash[b], "link")]
<1>2. Free = Nodes(f) /\ \A b \in Bucket : Hashed[b] = Nodes(q[b])
  BY <1>1, WalksMeetLists
<1>3. WalkEnds(free, "link") /\ \A b \in Bucket : WalkEnds(hash[b], "link")
  BY <1>1, WalksMeetLists
<1>4. /\ total_count \in 1 .. MaxMt /\ MaxMt \in Nat
      /\ \A d \in Descriptor : d \in 1 .. total_count <=> d <= total_count
      /\ 1 .. total_count \subseteq Descriptor
  BY Descriptors DEF TasksInv, Typed, Descriptor
<1>5. /\ Nodes(f) \subseteq Descriptor /\ InHand \subseteq Descriptor
      /\ \A b \in Bucket : Nodes(q[b]) \subseteq Descriptor
  <2>1. f \in Seq(Descriptor) /\ \A b \in Bucket : q[b] \in Seq(Descriptor)
    BY <1>1 DEF Placed
  <2>2. InHand \subseteq Descriptor
    BY <1>1 DEF Placed
  <2> QED
    BY <2>1, <2>2, NodesAreIn
<1>6. \A d \in Descriptor :
        d <= total_count <=> \/ d \in Nodes(f) \/ d \in InHand
                            \/ \E b \in Bucket : d \in Nodes(q[b])
  BY <1>1 DEF Placed
<1> HIDE DEF Free, Hashed
<1>7. 1 .. total_count = Free \cup InHand \cup UNION {Hashed[b] : b \in Bucket}
  <2>1. \A d : d \in 1 .. total_count <=>
          \/ d \in Nodes(f) \/ d \in InHand \/ \E b \in Bucket : d \in Nodes(q[b])
    BY <1>4, <1>5, <1>6
  <2> QED
    BY <1>2, <2>1
<1>8. Free \cap InHand = {}
  BY <1>1, <1>2 DEF Placed
<1>9. \A b \in Bucket : \A d \in Hashed[b] :
        /\ d \notin Free \cup InHand
        /\ desc[d].stid # NoThread
        /\ MT_HASH(desc[d].stid) = b
  BY <1>1, <1>2, ThreadAssumption DEF Placed
<1> QED
  BY <1>3, <1>7, <1>8, <1>9 DEF ListsIntact, Free, Hashed

(* The free list and the hash chains share one link field, which the       *)
(* allocation, the hash table and the removal of an ended task all change: *)
(* no descriptor is ever lost, on two lists, or on a wrong chain, and no   *)
(* walk goes round in circles.                                             *)
THEOREM ListsStayIntact == Spec => []ListsIntact
<1>1. TasksInv => ListsIntact
  BY InvGivesLists
<1> QED
  BY <1>1, Invariance, PTL

(* TSKSTAT sizes its table by two counters and fills it from the chains:   *)
(* it never writes beyond the table.                                       *)
THEOREM TableAlwaysFits == Spec => []ListFits
<1>1. ASSUME TasksInv PROVE ListFits
  <2>1. PICK f, q : Placed(f, q)
    BY <1>1 DEF TasksInv
  <2> DEFINE S == UNION {Chain(hash[b], "link") : b \in Bucket}
             T == 1 .. total_count
  <2>2. \A b \in Bucket : Chain(hash[b], "link") = Nodes(q[b])
    BY <2>1, WalksMeetLists
  <2>3. total_count \in 1 .. MaxMt /\ MaxMt \in Nat
    BY <1>1, Descriptors DEF TasksInv, Typed
  <2>4. Nodes(f) \subseteq T /\ S \subseteq T
    <3>1. ListsIntact
      BY <1>1, InvGivesLists
    <3>2. Chain(free, "link") = Nodes(f)
      BY <2>1, WalksMeetLists
    <3> QED
      BY <3>1, <3>2 DEF ListsIntact
  <2>5. S \subseteq T \ Nodes(f)
    BY <2>1, <2>2, <2>4 DEF Placed
  <2>6. IsFiniteSet(T) /\ Cardinality(T) = total_count
    BY <2>3, FS_Interval
  <2>7. IsFiniteSet(Nodes(f)) /\ Cardinality(Nodes(f)) = free_count /\ free_count \in Nat
    <3>1. f \in Seq(Descriptor) /\ IsList(f, free, Link, NULL) /\ Len(f) = free_count
      BY <2>1 DEF Placed
    <3>2. IsFiniteSet(Nodes(f)) /\ Cardinality(Nodes(f)) = Len(f)
      BY <3>1, NodesAreDistinct
    <3> QED
      BY <3>1, <3>2
  <2> HIDE DEF S, T
  <2>8. Cardinality(T \ Nodes(f)) = total_count - free_count /\ IsFiniteSet(T \ Nodes(f))
    <3>1. T \cap Nodes(f) = Nodes(f)
      BY <2>4
    <3> QED
      BY <2>6, <2>7, <3>1, FS_Difference
  <2>9. Cardinality(S) <= Cardinality(T \ Nodes(f))
    BY <2>5, <2>8, FS_Subset
  <2> QED
    BY <2>8, <2>9 DEF ListFits, Listed, Room, S
<1>2. TasksInv => ListFits
  BY <1>1
<1> QED
  BY <1>2, Invariance, PTL

-----------------------------------------------------------------------------
(* Nobody writes the state or the user id of a task that runs, or of one   *)
(* that has just been created, but to put the task to sleep and to wake    *)
(* it.                                                                     *)
HasOwn(c) == Runs(c) \/ pc[c] = "born"

Undisturbed(d) ==
  /\ desc'[d].utid = desc[d].utid
  /\ desc'[d].state \in {desc[d].state, "TS_Running", "TS_Task_Wait"}

LEMMA OwnIsApart ==
  ASSUME TasksInv, NEW c \in Thread, HasOwn(c) \/ Alive(c)
  PROVE  /\ own[c] \in Descriptor /\ own[c] <= total_count
         /\ \A t \in Thread \ {c} : /\ Holds(t) => Held(t) # own[c]
                                    /\ Alive(t) => own[t] # own[c]
         /\ Holds(c) /\ Held(c) = own[c] => pc[c] \in {"born", "add"}
<1>1. PICK f, q : Placed(f, q) /\ Lives(q)
  BY DEF TasksInv
<1>2. (Holds(c) /\ Held(c) = own[c]) \/ Alive(c)
  BY DEF HasOwn, Runs, Ended, Holds, Held, Alive
<1>3. CASE Holds(c) /\ Held(c) = own[c]
  <2>1. own[c] \in Descriptor /\ own[c] \in InHand
    BY <1>3, Whereabouts DEF InHand
  <2>2. own[c] <= total_count
    BY <1>1, <2>1 DEF Placed
  <2>3. ASSUME NEW t \in Thread \ {c}, Holds(t) PROVE Held(t) # own[c]
    BY <1>3, <2>3 DEF TasksInv, HoldersDiffer
  <2>4. ASSUME NEW t \in Thread \ {c}, Alive(t) PROVE own[t] # own[c]
    BY <1>1, <2>1, <2>4, HashTyped DEF Placed, Lives
  <2>5. CASE Alive(c)
    <3>1. own[c] \in Nodes(q[MT_HASH(c)]) /\ MT_HASH(c) \in Bucket
      BY <1>1, <2>5, HashTyped DEF Lives
    <3> QED
      BY <1>1, <2>1, <3>1 DEF Placed
  <2>6. ~Alive(c) => pc[c] \in {"born", "add"}
    BY <1>3 DEF HasOwn, Runs, Ended, Alive
  <2> QED
    BY <2>1, <2>2, <2>3, <2>4, <2>5, <2>6
<1>4. CASE Alive(c)
  <2>1. /\ own[c] \in Descriptor /\ MT_HASH(c) \in Bucket
        /\ own[c] \in Nodes(q[MT_HASH(c)]) /\ desc[own[c]].stid = c
    BY <1>1, <1>4, Whereabouts, HashTyped DEF Lives
  <2>2. own[c] <= total_count /\ own[c] \notin InHand
    BY <1>1, <2>1 DEF Placed
  <2>3. ASSUME NEW t \in Thread \ {c}, Holds(t) PROVE Held(t) # own[c]
    BY <2>2, <2>3 DEF InHand
  <2>4. ASSUME NEW t \in Thread \ {c}, Alive(t) PROVE own[t] # own[c]
    BY <1>1, <2>1, <2>4 DEF Lives
  <2>5. ~(Holds(c) /\ Held(c) = own[c])
    BY <2>1, <2>2 DEF InHand
  <2> QED
    BY <2>1, <2>2, <2>3, <2>4, <2>5
<1> QED
  BY <1>2, <1>3, <1>4

(* A step of t that creates no task and ends no other.                     *)
Calm(t) ==
  /\ tca' = tca /\ \A u \in Thread : pc'[u] = "gone" \/ own'[u] = own[u]
  /\ \A u \in Thread \ {t} : pc'[u] = pc[u] /\ arg'[u] = arg[u] /\ mt'[u] = mt[u]
  /\ {pc[t], pc'[t]} \cap {"unborn", "chosen", "born"} = {} /\ pc[t] # "gone"
  /\ Ended(t) => Ended(t)'
  /\ pc'[t] # "argv"
  /\ pc'[t] \in {"look", "join"} => WasOf(mt'[t], arg'[t])
  /\ \A c \in Thread : HasOwn(c) => Undisturbed(own[c]) \/ (c = t /\ Ended(t)')

LEMMA CalmStep ==
  ASSUME TasksInv, LooksInv, NEW t \in Thread, Calm(t),
         \A u \in Thread : pc'[u] \in {"look", "join"} => arg'[u] \in Thread
  PROVE  LooksInv'
<1>1. \A c \in Thread : Ended(c) => Ended(c)'
  BY DEF Calm, Ended
<1>2. \A c \in Thread : Runs(c)' => Runs(c) /\ own'[c] = own[c]
  BY DEF Calm, Runs, Ended
<1>3. \A c \in Thread : pc'[c] = "born" => pc[c] = "born" /\ own'[c] = own[c]
  BY DEF Calm, Ended
<1>4. \A c \in Thread : Runs(c) \/ Ended(c) =>
        pc'[c] = "gone" \/ ((Runs(c)' \/ Ended(c)') /\ own'[c] = own[c])
  BY DEF Calm, Runs, Ended
<1>5. \A c \in Thread : \A d : WasOf(d, c) => WasOf(d, c)'
  <2>1. \A c \in Thread : pc[c] = "gone" => pc'[c] = "gone"
    BY DEF Calm
  <2> QED
    BY <1>4, <2>1 DEF WasOf
<1>6. \A c \in Foreign \cup {Main} : pc'[c] \notin {"unborn", "chosen", "born"}
  BY ThreadAssumption DEF Calm, LooksInv
<1>7. ASSUME NEW c \in Thread
      PROVE  /\ Runs(c)' \/ pc'[c] = "born" => desc'[own'[c]].utid = UtidOf(c)
             /\ Runs(c)' => desc'[own'[c]].state \notin {"TS_Nonexistent", "TS_Complete"}
             /\ tca'[c] # NULL => WasOf(tca[c], c)'
  <2>1. ASSUME Runs(c)' \/ pc'[c] = "born"
        PROVE  HasOwn(c) /\ own'[c] = own[c] /\ Undisturbed(own[c])
    <3>1. HasOwn(c) /\ own'[c] = own[c] /\ ~Ended(c)'
      BY <1>2, <1>3, <2>1 DEF HasOwn, Runs, Ended
    <3> QED
      BY <3>1 DEF Calm
  <2>2. Runs(c)' \/ pc'[c] = "born" => desc'[own'[c]].utid = UtidOf(c)
    BY <2>1 DEF LooksInv, HasOwn, Undisturbed
  <2>3. Runs(c)' => desc'[own'[c]].state \notin {"TS_Nonexistent", "TS_Complete"}
    BY <1>2, <2>1 DEF LooksInv, Undisturbed
  <2>4. tca'[c] # NULL => WasOf(tca[c], c)'
    BY <1>5 DEF LooksInv, Calm
  <2> QED
    BY <2>2, <2>3, <2>4
<1>8. ASSUME NEW u \in Thread
      PROVE  /\ pc'[u] = "argv" => /\ arg'[u] \in Thread
                                  /\ \/ WasOf(mt[u], arg[u])'
                                     \/ pc'[arg'[u]] = "born" /\ mt'[u] = own'[arg'[u]]
             /\ pc'[u] \in {"look", "join"} => WasOf(mt[u], arg[u])'
  <2>1. ASSUME pc'[u] = "argv"
        PROVE  /\ arg'[u] \in Thread
               /\ \/ WasOf(mt[u], arg[u])'
                  \/ pc'[arg'[u]] = "born" /\ mt'[u] = own'[arg'[u]]
    <3>1. u # t /\ pc[u] = "argv" /\ arg'[u] = arg[u] /\ mt'[u] = mt[u]
      BY <2>1 DEF Calm
    <3>2. PICK c \in Thread : c = arg[u]
      BY <3>1 DEF LooksInv
    <3>3. CASE WasOf(mt[u], c)
      <4>1. PICK d : d = mt[u]
        OBVIOUS
      <4>2. WasOf(d, c)'
        BY <1>5, <3>3, <4>1
      <4> QED
        BY <3>1, <3>2, <4>1, <4>2 DEF WasOf, Runs, Ended
    <3>4. CASE pc[c] = "born" /\ mt[u] = own[c]
      BY <3>1, <3>2, <3>4 DEF Calm, Ended
    <3> QED
      BY <3>1, <3>2, <3>3, <3>4 DEF LooksInv
  <2>2. ASSUME pc'[u] \in {"look", "join"} PROVE WasOf(mt[u], arg[u])'
    <3>1. PICK c \in Thread : c = arg'[u]
      BY <2>2
    <3>2. PICK d : d = mt'[u]
      OBVIOUS
    <3>3. WasOf(d, c)
      BY <2>2, <3>1, <3>2 DEF Calm, LooksInv
    <3>4. WasOf(d, c)'
      BY <1>5, <3>3
    <3> QED
      BY <3>1, <3>2, <3>4 DEF WasOf, Runs, Ended
  <2> QED
    BY <2>1, <2>2
<1> QED
  BY <1>6, <1>7, <1>8 DEF LooksInv, HasOwn

(* Steps that write to no descriptor.                                      *)
LEMMA NothingDisturbed ==
  ASSUME desc' = desc, NEW d
  PROVE  Undisturbed(d)
BY DEF Undisturbed

(* Steps of t that write to the descriptor e, which is not d, or leave the *)
(* user id and the state alone.                                            *)
LEMMA OthersUndisturbed ==
  ASSUME NEW d \in Descriptor, NEW e, desc \in [Descriptor -> Desc], NEW new,
         desc' = [desc EXCEPT ![e] = new],
         e = d => /\ new.utid = desc[d].utid
                  /\ new.state \in {desc[d].state, "TS_Running", "TS_Task_Wait"}
  PROVE  Undisturbed(d)
BY DEF Undisturbed

LEMMA AllocateCalm ==
  ASSUME TasksInv, LooksInv, NEW t \in Thread,
         tskstart_allocate(t) \/ find_self_allocate(t)
  PROVE  Calm(t)
<1>1. /\ pc \in [Thread -> Pc] /\ pc[t] \in {"allocate", "find_allocate"}
      /\ pc' = [pc EXCEPT ![t] = IF pc[t] = "allocate" THEN "ready" ELSE "find_add"]
      /\ _mact_allocate(t)
      /\ mt \in [Thread -> MtOrNull] /\ mt' = [mt EXCEPT ![t] = mt'[t]]
      /\ UNCHANGED <<arg, own, tca>>
  BY DEF tskstart_allocate, find_self_allocate, _mact_allocate, At, Goto, TasksInv, Typed,
         program
<1>2. ASSUME NEW c \in Thread, HasOwn(c) PROVE Undisturbed(own[c])
  <2>1. PICK d \in Descriptor : d = own[c] /\ d <= total_count
    BY <1>2, OwnIsApart
  <2>2. CASE desc' = desc
    BY <2>2, NothingDisturbed
  <2>3. CASE get_more_mt_descriptors
    <3>1. PICK last, garbage : desc' = Initialised(last, garbage) /\ last = total_count + MTS_TO_GET
      BY <2>3 DEF get_more_mt_descriptors
    <3>2. total_count \in Nat /\ MTS_TO_GET \in Nat \ {0} /\ d \in Nat
      BY MtAssumption DEF TasksInv, Typed, Descriptor
    <3>3. d \notin total_count + 1 .. last - 1 /\ d # last
      BY <2>1, <3>1, <3>2
    <3>4. desc'[d] = desc[d]
      BY <3>1, <3>3, Zenon DEF Initialised
    <3> QED
      BY <2>1, <3>4 DEF Undisturbed
  <2> QED
    BY <1>1, <2>2, <2>3 DEF _mact_allocate
<1> QED
  BY <1>1, <1>2 DEF Calm, Ended

LEMMA ReadyCalm ==
  ASSUME TasksInv, LooksInv, NEW t \in Thread, tskstart_ready(t)
  PROVE  Calm(t)
<1>1. /\ pc \in [Thread -> Pc] /\ pc[t] = "ready" /\ pc' = [pc EXCEPT ![t] = "fill"]
      /\ UNCHANGED <<arg, own, mt, tca>> /\ Holds(t) /\ Held(t) = mt[t]
      /\ desc' = [desc EXCEPT ![mt[t]].state = "TS_Ready"] /\ desc \in [Descriptor -> Desc]
  BY DEF tskstart_ready, At, Goto, TasksInv, Typed, locals, program, Holds, Held
<1>2. ASSUME NEW c \in Thread, HasOwn(c) PROVE Undisturbed(own[c])
  <2>2. own[c] \in Descriptor /\ own[c] # mt[t]
    BY <1>1, <1>2, OwnIsApart
  <2> QED
    BY <1>1, <2>2 DEF Undisturbed
<1> QED
  BY <1>1, <1>2 DEF Calm, Ended

LEMMA AddCalm ==
  ASSUME TasksInv, LooksInv, NEW t \in Thread, find_self_add(t) \/ start_macrotask_add(t)
  PROVE  Calm(t)
<1>1. /\ pc \in [Thread -> Pc] /\ pc[t] \in {"find_add", "add"}
      /\ pc' = [pc EXCEPT ![t] = "user"] /\ UNCHANGED <<arg, own, tca>>
      /\ mt \in [Thread -> MtOrNull] /\ \A u \in Thread \ {t} : mt'[u] = mt[u]
      /\ desc \in [Descriptor -> Desc]
  BY DEF find_self_add, start_macrotask_add, At, Goto, TasksInv, Typed, locals, program
<1>2. ASSUME NEW c \in Thread, HasOwn(c) PROVE Undisturbed(own[c])
  <2>1. own[c] \in Descriptor
    BY <1>2, OwnIsApart
  <2>2. CASE find_self_add(t)
    <3>1. Holds(t) /\ Held(t) = mt[t]
      BY <2>2 DEF find_self_add, At, Holds, Held
    <3>2. mt[t] # own[c]
      BY <1>2, <2>2, <3>1, OwnIsApart DEF find_self_add, At
    <3> QED
      BY <1>1, <2>1, <2>2, <3>2 DEF find_self_add, _mact_add, Undisturbed
  <2>3. CASE start_macrotask_add(t)
    <3>1. own[t] \in Descriptor
      BY <2>3, Whereabouts DEF start_macrotask_add, At, Holds, Held
    <3>2. /\ desc[own[t]] \in Desc
          /\ desc' = [desc EXCEPT ![own[t]] = [desc[own[t]] EXCEPT !.link = hash[MT_HASH(t)]]]
      BY <1>1, <2>3, <3>1 DEF start_macrotask_add, _mact_add
    <3> QED
      BY <1>1, <2>1, <3>1, <3>2 DEF Undisturbed, Desc
  <2> QED
    BY <2>2, <2>3
<1> QED
  BY <1>1, <1>2 DEF Calm, Ended

(* Steps that change the place of t and its local variables only.          *)
LEMMA QuietCalm ==
  ASSUME TasksInv, LooksInv, NEW t \in Thread, UNCHANGED <<desc, own, tca>>,
         pc[t] \notin {"unborn", "chosen", "born", "gone"},
         NEW label \in Pc \ {"unborn", "chosen", "born", "argv"}, Goto(t, label),
         Ended(t) => Ended(t)',
         \A u \in Thread \ {t} : arg'[u] = arg[u] /\ mt'[u] = mt[u],
         label \in {"look", "join"} => WasOf(mt'[t], arg'[t])
  PROVE  Calm(t)
<1>1. pc' = [pc EXCEPT ![t] = label] /\ pc \in [Thread -> Pc]
  BY DEF Goto, TasksInv, Typed
<1>2. \A c \in Thread : HasOwn(c) => Undisturbed(own[c])
  BY NothingDisturbed
<1> QED
  BY <1>1, <1>2 DEF Calm

LEMMA FindSelfCalm ==
  ASSUME TasksInv, LooksInv, NEW t \in Thread, _mact_find_self(t) \/ find_self_step(t)
  PROVE  Calm(t)
<1>1. \A u \in Thread \ {t} : arg'[u] = arg[u] /\ mt'[u] = mt[u]
  BY DEF _mact_find_self, find_self_step, TasksInv, Typed
<1>2. PICK label \in {"find", "find_allocate", "user"} :
        pc' = [pc EXCEPT ![t] = label] /\ pc[t] \in {"user", "find"}
  BY DEF _mact_find_self, find_self_step, At, Goto, TasksInv, Typed
<1>3. UNCHANGED <<desc, own, tca>>
  BY DEF _mact_find_self, find_self_step, program
<1>4. ~Ended(t) /\ label \in Pc \ {"unborn", "chosen", "born", "argv"} /\ Goto(t, label)
  BY <1>2 DEF Ended, Pc, Goto
<1> QED
  BY <1>1, <1>2, <1>3, <1>4, QuietCalm

LEMMA TskwaitCalm ==
  ASSUME TasksInv, LooksInv, NEW t \in Thread, NEW c \in Thread, tskwait_(t, c)
  PROVE  Calm(t)
<1>1. \A u \in Thread \ {t} : arg'[u] = arg[u] /\ mt'[u] = mt[u]
  BY DEF tskwait_, Return, TasksInv, Typed
<1>2. PICK label \in {"look", "user"} :
        /\ Goto(t, label) /\ pc[t] = "user"
        /\ label = "look" => mt'[t] = tca[c] /\ arg'[t] = c /\ tca[c] # NULL
  BY DEF tskwait_, Return, At, TasksInv, Typed
<1>3. UNCHANGED <<desc, own, tca>>
  BY DEF tskwait_
<1>4. ~Ended(t) /\ label \in Pc \ {"unborn", "chosen", "born", "argv"} /\ label # "join"
  BY <1>2 DEF Ended, Pc
<1>5. label = "look" => WasOf(mt'[t], arg'[t])
  BY <1>2 DEF LooksInv
<1> QED
  BY <1>1, <1>2, <1>3, <1>4, <1>5, QuietCalm

LEMMA TskwaitLookCalm ==
  ASSUME TasksInv, LooksInv, NEW t \in Thread, tskwait_look(t)
  PROVE  Calm(t)
<1>1. \A u \in Thread \ {t} : arg'[u] = arg[u] /\ mt'[u] = mt[u]
  BY DEF tskwait_look, Return, TasksInv, Typed
<1>2. PICK label \in {"join", "user"} :
        /\ Goto(t, label) /\ pc[t] = "look"
        /\ label = "join" => mt'[t] = mt[t] /\ arg'[t] = arg[t]
  BY DEF tskwait_look, Return, At, TasksInv, Typed
<1>3. UNCHANGED <<desc, own, tca>>
  BY DEF tskwait_look
<1>4. ~Ended(t) /\ label \in Pc \ {"unborn", "chosen", "born", "argv"} /\ label # "look"
  BY <1>2 DEF Ended, Pc
<1>5. label = "join" => WasOf(mt'[t], arg'[t])
  BY <1>2 DEF LooksInv
<1> QED
  BY <1>1, <1>2, <1>3, <1>4, <1>5, QuietCalm

LEMMA TskwaitJoinCalm ==
  ASSUME TasksInv, LooksInv, NEW t \in Thread, tskwait_join(t)
  PROVE  Calm(t)
<1>1. \A u \in Thread \ {t} : arg'[u] = arg[u] /\ mt'[u] = mt[u]
  BY DEF tskwait_join, Return, TasksInv, Typed
<1>2. PICK label \in {"dec", "hung", "user"} :
        pc' = [pc EXCEPT ![t] = label] /\ pc[t] = "join" /\ pc \in [Thread -> Pc]
  BY DEF tskwait_join, Return, At, Goto, TasksInv, Typed
<1>3. UNCHANGED <<own, tca>>
  BY DEF tskwait_join
<1>4. ASSUME NEW c \in Thread, HasOwn(c) PROVE Undisturbed(own[c])
  <2>1. PICK d \in Descriptor : d = own[c]
    BY <1>4, OwnIsApart
  <2>2. desc \in [Descriptor -> Desc]
    BY DEF TasksInv, Typed
  <2>3. CASE desc' = desc
    BY <2>3, NothingDisturbed
  <2>4. CASE desc' = [desc EXCEPT ![mt[t]].sem = t]
    BY <2>1, <2>2, <2>4 DEF Undisturbed, Desc
  <2>5. CASE desc' = Joined(t, Self(t))
    <3>1. desc'[d].utid = desc[d].utid
      BY <2>1, <2>2, <2>5 DEF Joined, Desc
    <3>2. desc'[d].state \in {desc[d].state, "TS_Task_Wait"}
      BY <2>1, <2>2, <2>5 DEF Joined, Desc
    <3> QED
      BY <2>1, <3>1, <3>2 DEF Undisturbed
  <2> QED
    BY <2>3, <2>4, <2>5 DEF tskwait_join
<1> QED
  BY <1>1, <1>2, <1>3, <1>4 DEF Calm, Ended

LEMMA SleepCalm ==
  ASSUME TasksInv, LooksInv, NEW t \in Thread,
         tskwait_dec(t) \/ CHECK_FOR_MACT_DEADLOCK(t) \/ tskwait_return(t)
  PROVE  Calm(t)
<1>1. \A u \in Thread \ {t} : arg'[u] = arg[u] /\ mt'[u] = mt[u]
  BY DEF tskwait_dec, CHECK_FOR_MACT_DEADLOCK, tskwait_return, Return, TasksInv, Typed,
         locals
<1>2. PICK label \in {"check", "spin", "user"} :
        pc' = [pc EXCEPT ![t] = label] /\ pc[t] \in {"dec", "check", "spin"}
  BY DEF tskwait_dec, CHECK_FOR_MACT_DEADLOCK, tskwait_return, Return, At, Goto, TasksInv,
         Typed
<1>3. UNCHANGED <<desc, own, tca>>
  BY DEF tskwait_dec, CHECK_FOR_MACT_DEADLOCK, tskwait_return, program, locals
<1>4. ~Ended(t) /\ label \in Pc \ {"unborn", "chosen", "born", "argv"} /\ Goto(t, label)
  BY <1>2 DEF Ended, Pc, Goto
<1> QED
  BY <1>1, <1>2, <1>3, <1>4, QuietCalm

LEMMA DeleteQuietCalm ==
  ASSUME TasksInv, LooksInv, NEW t \in Thread, delete_inc(t) \/ delete_next(t) \/ delete_dec(t)
  PROVE  Calm(t)
<1>1. \A u \in Thread \ {t} : arg'[u] = arg[u] /\ mt'[u] = mt[u]
  BY DEF delete_inc, delete_next, delete_dec, TasksInv, Typed, locals
<1>2. PICK label \in {"mark", "unlink"} :
        pc' = [pc EXCEPT ![t] = label] /\ pc[t] \in {"inc", "next", "uncount"}
  BY DEF delete_inc, delete_next, delete_dec, At, Goto
<1>3. UNCHANGED <<desc, own, tca>>
  BY DEF delete_inc, delete_next, delete_dec, program, locals
<1>4. Ended(t)' /\ label \in Pc \ {"unborn", "chosen", "born", "argv"} /\ Goto(t, label)
  BY <1>2 DEF Ended, Pc, Goto, TasksInv, Typed
<1> QED
  BY <1>1, <1>2, <1>3, <1>4, QuietCalm

LEMMA DeleteCalm ==
  ASSUME TasksInv, LooksInv, NEW t \in Thread,
         \/ _mact_delete(t) \/ delete_wait(t) \/ delete_wake(t) \/ delete_woken(t)
  PROVE  Calm(t)
<1>1. \A u \in Thread \ {t} : arg'[u] = arg[u] /\ mt'[u] = mt[u]
  BY DEF _mact_delete, delete_wait, delete_wake, delete_woken, TasksInv, Typed, locals
<1>2. PICK label \in {"complete", "inc", "next", "uncount"} :
        /\ pc' = [pc EXCEPT ![t] = label] /\ pc[t] \in {"user", "complete", "mark"}
        /\ pc \in [Thread -> Pc]
  BY DEF _mact_delete, delete_wait, delete_wake, delete_woken, At, Goto, TasksInv, Typed
<1>3. UNCHANGED <<own, tca>>
  BY DEF _mact_delete, delete_wait, delete_wake, delete_woken, program, locals
<1>4. Ended(t)'
  BY <1>2 DEF Ended
<1>5. ASSUME NEW c \in Thread \ {t}, HasOwn(c) PROVE Undisturbed(own[c])
  <2>1. PICK d \in Descriptor : d = own[c]
    BY <1>5, OwnIsApart
  <2>2. desc \in [Descriptor -> Desc]
    BY DEF TasksInv, Typed
  <2>3. CASE _mact_delete(t)
    <3>1. Alive(t)
      BY <2>3 DEF _mact_delete, At, Alive
    <3>2. own[t] # d
      BY <1>5, <2>1, <3>1, OwnIsApart
    <3> QED
      BY <2>1, <2>2, <2>3, <3>2 DEF _mact_delete, Undisturbed
  <2>4. CASE delete_wait(t)
    BY <2>1, <2>2, <2>4 DEF delete_wait, Undisturbed, Desc
  <2>5. CASE delete_wake(t)
    BY <2>1, <2>2, <2>5 DEF delete_wake, Undisturbed, Desc
  <2>6. CASE delete_woken(t)
    BY <2>1, <2>2, <2>6 DEF delete_woken, Undisturbed, Desc
  <2> QED
    BY <2>3, <2>4, <2>5, <2>6
<1> QED
  BY <1>1, <1>2, <1>3, <1>4, <1>5 DEF Calm

LEMMA DeleteUnlinkCalm ==
  ASSUME TasksInv, LooksInv, NEW t \in Thread, delete_unlink(t)
  PROVE  Calm(t)
<1>1. /\ pc \in [Thread -> Pc] /\ pc[t] = "unlink" /\ pc' = [pc EXCEPT ![t] = "gone"]
      /\ own \in [Thread -> MtOrNull] /\ own' = [own EXCEPT ![t] = NULL]
      /\ UNCHANGED <<arg, mt, tca>>
  BY DEF delete_unlink, At, Goto, TasksInv, Typed, program
<1>2. Ended(t) /\ Ended(t)' /\ Alive(t)
  BY <1>1 DEF Ended, Alive
<1>3. ASSUME NEW c \in Thread \ {t}, HasOwn(c) PROVE Undisturbed(own[c])
  <2>1. PICK d \in Descriptor : d = own[c] /\ d # own[t]
    BY <1>2, <1>3, OwnIsApart
  <2>2. desc[d] \in Desc
    BY DEF TasksInv, Typed
  <2>3. desc'[d] = Unlinked(MT_HASH(t), own[t])[d]
    BY <2>1, Zenon DEF delete_unlink, Unlinked
  <2>4. desc'[d] = [desc[d] EXCEPT !.link = desc[own[t]].link] \/ desc'[d] = desc[d]
    BY <2>3, Zenon DEF Unlinked
  <2> QED
    BY <2>1, <2>2, <2>4 DEF Undisturbed, Desc
<1> QED
  BY <1>1, <1>2, <1>3 DEF Calm

-----------------------------------------------------------------------------
(* The steps that create a task.                                           *)
LEMMA TskstartLooks ==
  ASSUME TasksInv, LooksInv, NEW t \in Thread, NEW c \in Thread, tskstart_(t, c)
  PROVE  LooksInv'
<1>1. /\ pc \in [Thread -> Pc] /\ pc[t] = "user" /\ pc[c] = "unborn" /\ t # c
      /\ pc' = [pc EXCEPT ![t] = "allocate", ![c] = "chosen"]
      /\ arg' = [arg EXCEPT ![t] = c] /\ arg \in [Thread -> Thread \cup {NoThread}]
      /\ UNCHANGED <<own, mt, desc, tca>>
  BY DEF tskstart_, At, TasksInv, Typed, program
<1>2. c \notin Foreign \cup {Main}
  BY <1>1 DEF LooksInv
<1>3. \A u \in Thread : (Runs(u)' <=> Runs(u)) /\ (Ended(u)' <=> Ended(u))
                        /\ (pc'[u] = "born" <=> pc[u] = "born")
                        /\ (pc'[u] = "gone" <=> pc[u] = "gone")
  BY <1>1 DEF Runs, Ended
<1>4. \A u \in Thread : \A d : WasOf(d, u) => WasOf(d, u)'
  BY <1>1, <1>3 DEF WasOf
<1>5. \A u \in Foreign \cup {Main} : pc'[u] \notin {"unborn", "chosen", "born"}
  BY ThreadAssumption, <1>1, <1>2 DEF LooksInv
<1>6. ASSUME NEW u \in Thread
      PROVE  /\ Runs(u)' \/ pc'[u] = "born" => desc'[own'[u]].utid = UtidOf(u)
             /\ Runs(u)' => desc'[own'[u]].state \notin {"TS_Nonexistent", "TS_Complete"}
             /\ tca'[u] # NULL => WasOf(tca[u], u)'
  BY <1>1, <1>3, <1>4 DEF LooksInv
<1>7. ASSUME NEW u \in Thread
      PROVE  /\ pc'[u] = "argv" => /\ arg'[u] \in Thread
                                  /\ \/ WasOf(mt[u], arg[u])'
                                     \/ pc'[arg'[u]] = "born" /\ mt'[u] = own'[arg'[u]]
             /\ pc'[u] \in {"look", "join"} => WasOf(mt[u], arg[u])'
  <2>1. pc'[u] \in {"argv", "look", "join"} =>
          pc[u] = pc'[u] /\ arg'[u] = arg[u] /\ mt'[u] = mt[u] /\ arg[u] \in Thread
    BY <1>1 DEF LooksInv, TasksInv, Lives
  <2>2. pc'[u] \in {"argv", "look", "join"} /\ WasOf(mt[u], arg[u]) => WasOf(mt[u], arg[u])'
    BY <1>1, <1>3, <2>1 DEF WasOf
  <2> QED
    BY <1>1, <1>3, <2>1, <2>2 DEF LooksInv
<1> QED
  BY <1>5, <1>6, <1>7 DEF LooksInv

LEMMA TskstartFillLooks ==
  ASSUME TasksInv, LooksInv, NEW t \in Thread, tskstart_fill(t)
  PROVE  LooksInv'
<1>1. PICK c \in Thread : c = arg[t] /\ pc[c] = "chosen"
  BY DEF tskstart_fill, At, TasksInv, Lives, Starting
<1>2. PICK d \in Descriptor : d = mt[t] /\ d = Held(t) /\ Holds(t)
  BY Whereabouts DEF tskstart_fill, At, Holds, Held
<1>3. /\ pc \in [Thread -> Pc] /\ pc[t] = "fill" /\ t # c
      /\ pc' = [pc EXCEPT ![t] = "argv", ![c] = "born"]
      /\ own \in [Thread -> MtOrNull] /\ own' = [own EXCEPT ![c] = d]
      /\ UNCHANGED <<arg, mt, tca>>
      /\ desc \in [Descriptor -> Desc]
      /\ desc'[d].utid = UtidOf(c)
      /\ \A e \in Descriptor \ {d} : desc'[e] = desc[e]
  BY <1>1, <1>2 DEF tskstart_fill, At, TasksInv, Typed, Desc, program
<1>4. c \notin Foreign \cup {Main}
  BY <1>1 DEF LooksInv
<1>5. \A u \in Thread : /\ Runs(u)' <=> Runs(u)
                        /\ Ended(u)' <=> Ended(u)
                        /\ pc'[u] = "gone" <=> pc[u] = "gone"
                        /\ pc'[u] = "born" <=> pc[u] = "born" \/ u = c
                        /\ Runs(u) \/ Ended(u) => own'[u] = own[u]
  BY <1>1, <1>3 DEF Runs, Ended
<1>6. \A u \in Foreign \cup {Main} : pc'[u] \notin {"unborn", "chosen", "born"}
  BY ThreadAssumption, <1>3, <1>4 DEF LooksInv
<1>7. ASSUME NEW u \in Thread
      PROVE  /\ Runs(u)' \/ pc'[u] = "born" => desc'[own'[u]].utid = UtidOf(u)
             /\ Runs(u)' => desc'[own'[u]].state \notin {"TS_Nonexistent", "TS_Complete"}
             /\ tca'[u] # NULL => WasOf(tca[u], u)'
  <2>1. CASE u = c
    <3>1. ~Runs(u) /\ ~Runs(u)' /\ ~Ended(u) /\ pc[u] # "gone"
      BY <1>1, <1>5, <2>1 DEF Runs, Ended
    <3>2. tca[u] = NULL
      BY <3>1 DEF LooksInv, WasOf
    <3> QED
      BY <1>3, <2>1, <3>1, <3>2
  <2>2. CASE u # c
    <3>1. own'[u] = own[u]
      BY <1>3, <2>2
    <3>2. HasOwn(u) => desc'[own[u]] = desc[own[u]]
      <4>1. HasOwn(u) => own[u] \in Descriptor /\ own[u] # d
        BY <1>2, <1>3, OwnIsApart DEF HasOwn
      <4> QED
        BY <1>3, <4>1
    <3>3. WasOf(tca[u], u) => WasOf(tca[u], u)'
      BY <1>3, <1>5, <3>1 DEF WasOf
    <3> QED
      BY <1>3, <1>5, <2>2, <3>1, <3>2, <3>3 DEF LooksInv, HasOwn
  <2> QED
    BY <2>1, <2>2
<1>8. ASSUME NEW u \in Thread
      PROVE  /\ pc'[u] = "argv" => /\ arg'[u] \in Thread
                                  /\ \/ WasOf(mt[u], arg[u])'
                                     \/ pc'[arg'[u]] = "born" /\ mt'[u] = own'[arg'[u]]
             /\ pc'[u] \in {"look", "join"} => WasOf(mt[u], arg[u])'
  <2>1. CASE u = t
    BY <1>1, <1>2, <1>3, <2>1
  <2>2. CASE u # t
    <3>1. pc'[u] \in {"argv", "look", "join"} => pc[u] = pc'[u] /\ arg[u] \in Thread
      BY <1>3, <2>2 DEF LooksInv, TasksInv, Lives
    <3>2. arg[u] \in Thread /\ WasOf(mt[u], arg[u]) => WasOf(mt[u], arg[u])'
      BY <1>3, <1>5 DEF WasOf
    <3>3. arg[u] \in Thread /\ pc[arg[u]] = "born" =>
            arg[u] # c /\ own'[arg[u]] = own[arg[u]] /\ pc'[arg[u]] = "born"
      BY <1>1, <1>3, <1>5
    <3> QED
      BY <1>3, <3>1, <3>2, <3>3 DEF LooksInv
  <2> QED
    BY <2>1, <2>2
<1> QED
  BY <1>6, <1>7, <1>8 DEF LooksInv

LEMMA TskstartReturnLooks ==
  ASSUME TasksInv, LooksInv, NEW t \in Thread, tskstart_return(t)
  PROVE  LooksInv'
<1>1. PICK c \in Thread : c = arg[t] /\ WasOf(mt[t], c)
  BY DEF tskstart_return, At, LooksInv
<1>2. /\ pc \in [Thread -> Pc] /\ pc[t] = "argv" /\ pc' = [pc EXCEPT ![t] = "user"]
      /\ tca \in [Thread -> MtOrNull] /\ tca' = [tca EXCEPT ![c] = mt[t]]
      /\ \A u \in Thread \ {t} : arg'[u] = arg[u] /\ mt'[u] = mt[u]
      /\ UNCHANGED <<own, desc>>
  BY <1>1 DEF tskstart_return, At, Goto, TasksInv, Typed
<1>3. \A u \in Thread : /\ Runs(u)' <=> Runs(u)
                        /\ Ended(u)' <=> Ended(u)
                        /\ pc'[u] = "gone" <=> pc[u] = "gone"
                        /\ pc'[u] = "born" <=> pc[u] = "born"
  BY <1>2 DEF Runs, Ended
<1>4. \A u \in Foreign \cup {Main} : pc'[u] \notin {"unborn", "chosen", "born"}
  BY <1>2 DEF LooksInv
<1>5. ASSUME NEW u \in Thread
      PROVE  /\ Runs(u)' \/ pc'[u] = "born" => desc'[own'[u]].utid = UtidOf(u)
             /\ Runs(u)' => desc'[own'[u]].state \notin {"TS_Nonexistent", "TS_Complete"}
             /\ tca'[u] # NULL => WasOf(tca[u], u)'
  <2>1. tca'[u] # NULL => WasOf(tca'[u], u)
    BY <1>1, <1>2 DEF LooksInv
  <2>2. WasOf(tca'[u], u) => WasOf(tca[u], u)'
    BY <1>2, <1>3 DEF WasOf
  <2> QED
    BY <1>2, <1>3, <2>1, <2>2 DEF LooksInv
<1>6. ASSUME NEW u \in Thread
      PROVE  /\ pc'[u] = "argv" => /\ arg'[u] \in Thread
                                  /\ \/ WasOf(mt[u], arg[u])'
                                     \/ pc'[arg'[u]] = "born" /\ mt'[u] = own'[arg'[u]]
             /\ pc'[u] \in {"look", "join"} => WasOf(mt[u], arg[u])'
  <2>1. pc'[u] \in {"argv", "look", "join"} =>
          u # t /\ pc[u] = pc'[u] /\ arg[u] \in Thread
    BY <1>2 DEF LooksInv, TasksInv, Lives
  <2>2. u # t /\ arg[u] \in Thread /\ WasOf(mt[u], arg[u]) => WasOf(mt[u], arg[u])'
    BY <1>2, <1>3 DEF WasOf
  <2> QED
    BY <1>2, <1>3, <2>1, <2>2 DEF LooksInv
<1> QED
  BY <1>4, <1>5, <1>6 DEF LooksInv

LEMMA StartMacrotaskLooks ==
  ASSUME TasksInv, LooksInv, NEW t \in Thread, _mact_start_macrotask(t)
  PROVE  LooksInv'
<1>1. PICK d \in Descriptor : d = own[t] /\ d = Held(t) /\ Holds(t)
  BY Whereabouts DEF _mact_start_macrotask, At, Holds, Held
<1>2. /\ pc \in [Thread -> Pc] /\ pc[t] = "born" /\ pc' = [pc EXCEPT ![t] = "add"]
      /\ UNCHANGED <<own, arg, mt, tca>> /\ desc \in [Descriptor -> Desc]
      /\ desc'[d].utid = desc[d].utid /\ desc'[d].state = "TS_Running"
      /\ \A e \in Descriptor \ {d} : desc'[e] = desc[e]
  BY <1>1 DEF _mact_start_macrotask, At, Goto, TasksInv, Typed, Desc, locals, program
<1>3. t \notin Foreign \cup {Main}
  BY <1>2 DEF LooksInv
<1>4. \A u \in Thread : /\ Runs(u)' <=> Runs(u) \/ u = t
                        /\ Ended(u)' <=> Ended(u)
                        /\ pc'[u] = "gone" <=> pc[u] = "gone"
                        /\ pc'[u] = "born" <=> pc[u] = "born" /\ u # t
  BY <1>2, <1>3 DEF Runs, Ended
<1>5. \A u \in Foreign \cup {Main} : pc'[u] \notin {"unborn", "chosen", "born"}
  BY <1>2 DEF LooksInv
<1>6. ASSUME NEW u \in Thread
      PROVE  /\ Runs(u)' \/ pc'[u] = "born" => desc'[own'[u]].utid = UtidOf(u)
             /\ Runs(u)' => desc'[own'[u]].state \notin {"TS_Nonexistent", "TS_Complete"}
             /\ tca'[u] # NULL => WasOf(tca[u], u)'
  <2>1. u # t /\ HasOwn(u) => desc'[own[u]] = desc[own[u]]
    <3>1. u # t /\ HasOwn(u) => own[u] \in Descriptor /\ own[u] # d
      BY <1>1, OwnIsApart
    <3> QED
      BY <1>2, <3>1
  <2>2. WasOf(tca[u], u) => WasOf(tca[u], u)'
    BY <1>2, <1>4 DEF WasOf
  <2>3. CASE u = t
    BY <1>1, <1>2, <2>2, <2>3 DEF LooksInv
  <2>4. CASE u # t
    BY <1>2, <1>4, <2>1, <2>2, <2>4 DEF LooksInv, HasOwn
  <2> QED
    BY <2>3, <2>4
<1>7. ASSUME NEW u \in Thread
      PROVE  /\ pc'[u] = "argv" => /\ arg'[u] \in Thread
                                  /\ \/ WasOf(mt[u], arg[u])'
                                     \/ pc'[arg'[u]] = "born" /\ mt'[u] = own'[arg'[u]]
             /\ pc'[u] \in {"look", "join"} => WasOf(mt[u], arg[u])'
  <2>1. pc'[u] \in {"argv", "look", "join"} => pc[u] = pc'[u] /\ arg[u] \in Thread
    BY <1>2 DEF LooksInv, TasksInv, Lives
  <2>2. arg[u] \in Thread /\ WasOf(mt[u], arg[u]) => WasOf(mt[u], arg[u])'
    BY <1>2, <1>4 DEF WasOf
  <2>3. arg[u] \in Thread /\ pc[arg[u]] = "born" /\ mt[u] = own[arg[u]] =>
          WasOf(mt[u], arg[u])' \/ (pc'[arg[u]] = "born" /\ mt'[u] = own'[arg[u]])
    BY <1>2, <1>4 DEF WasOf
  <2> QED
    BY <1>2, <2>1, <2>2, <2>3 DEF LooksInv
<1> QED
  BY <1>5, <1>6, <1>7 DEF LooksInv

-----------------------------------------------------------------------------
LEMMA LooksNext ==
  ASSUME TasksInv, LooksInv, [Next]_vars, TasksInv'
  PROVE  LooksInv'
<1>1. CASE UNCHANGED vars
  BY <1>1 DEF LooksInv, WasOf, Runs, Ended, vars, locals, program
<1>2. CASE Next
  <2>1. PICK t \in Thread :
          \/ InRuntime(t)
          \/ _mact_find_self(t)
          \/ _mact_delete(t)
          \/ \E c \in Thread : tskstart_(t, c) \/ tskwait_(t, c)
    BY <1>2 DEF Next
  <2>2. \A u \in Thread : pc'[u] \in {"look", "join"} => arg'[u] \in Thread
    BY DEF TasksInv, Lives
  <2>3. CASE Calm(t)
    BY <2>2, <2>3, CalmStep
  <2>4. CASE \E c \in Thread : tskstart_(t, c)
    BY <2>4, TskstartLooks
  <2>5. CASE tskstart_fill(t)
    BY <2>5, TskstartFillLooks
  <2>6. CASE tskstart_return(t)
    BY <2>6, TskstartReturnLooks
  <2>7. CASE _mact_start_macrotask(t)
    BY <2>7, StartMacrotaskLooks
  <2>8. CASE \E c \in Thread : tskwait_(t, c)
    BY <2>3, <2>8, TskwaitCalm
  <2>9. CASE _mact_find_self(t) \/ find_self_step(t) \/ find_self_allocate(t) \/ find_self_add(t)
    BY <2>3, <2>9, FindSelfCalm, AllocateCalm, AddCalm
  <2>10. CASE tskstart_allocate(t) \/ tskstart_ready(t) \/ start_macrotask_add(t)
    BY <2>3, <2>10, AllocateCalm, ReadyCalm, AddCalm
  <2>11. CASE \/ tskwait_look(t) \/ tskwait_join(t) \/ tskwait_dec(t)
              \/ CHECK_FOR_MACT_DEADLOCK(t) \/ tskwait_return(t)
    BY <2>3, <2>11, TskwaitLookCalm, TskwaitJoinCalm, SleepCalm
  <2>12. CASE \/ _mact_delete(t) \/ delete_wait(t) \/ delete_wake(t) \/ delete_woken(t)
    BY <2>3, <2>12, DeleteCalm
  <2>13. CASE delete_inc(t) \/ delete_next(t) \/ delete_dec(t) \/ delete_unlink(t)
    BY <2>3, <2>13, DeleteQuietCalm, DeleteUnlinkCalm
  <2> QED
    BY <2>1, <2>4, <2>5, <2>6, <2>7, <2>8, <2>9, <2>10, <2>11, <2>12, <2>13 DEF InRuntime
<1> QED
  BY <1>1, <1>2

LEMMA InitLooks ==
  ASSUME Init
  PROVE  LooksInv
<1>1. \A c \in Thread : pc[c] \notin {"born", "argv", "look", "join"} /\ tca[c] = NULL
  BY DEF Init
<1>2. \A c \in Thread : ~Runs(c)
  BY DEF Init, Runs
<1>3. \A c \in Foreign \cup {Main} : pc[c] \notin {"unborn", "chosen", "born"}
  BY ThreadAssumption DEF Init
<1> QED
  BY <1>1, <1>2, <1>3 DEF LooksInv

(* A descriptor goes back to the free list and is used again while task    *)
(* control arrays, and tasks on their way through TSKWAIT, still point at  *)
(* it; it is marked ready under its last task's user id; its fields are    *)
(* written and read under no common semaphore.  Even so, no task that is   *)
(* still running is ever taken for over by TSKWAIT's looks at its          *)
(* descriptor, or by TSKTEST's.                                            *)
THEOREM LooksStayRight == Spec => []LooksAreRight
<1>1. Init => TasksInv /\ LooksInv
  BY InitInv, InitLooks
<1>2. TasksInv /\ LooksInv /\ [Next]_vars => (TasksInv /\ LooksInv)'
  BY NextKeeps, LooksNext
<1>3. ASSUME TasksInv, LooksInv PROVE LooksAreRight
  <2>1. ASSUME NEW c \in Thread, NEW d, WasOf(d, c), Over(d, c) PROVE Ended(c)
    BY <1>3, <2>1 DEF WasOf, Over, LooksInv, Ended
  <2>2. \A t \in Thread : pc[t] \in {"look", "join"} => arg[t] \in Thread
    BY <1>3 DEF TasksInv, Lives
  <2> QED
    BY <1>3, <2>1, <2>2 DEF LooksAreRight, LooksInv
<1>4. TasksInv /\ LooksInv => LooksAreRight
  BY <1>3
<1> QED
  BY <1>1, <1>2, <1>4, PTL DEF Spec

-----------------------------------------------------------------------------
(* Waiting.  The lists of waiters are the only sequences that fit.         *)
LEMMA WaitListsAre ==
  ASSUME NEW w, Queued(w)
  PROVE  WaitLists = w
<1>1. MaxMt \in Nat /\ NULL \notin Descriptor
  BY Descriptors
<1>2. Cardinality(Descriptor) = MaxMt /\ IsFiniteSet(Descriptor)
  BY Descriptors
<1>3. ASSUME NEW u \in Thread PROVE WaitLists[u] = w[u]
  <2>1. CASE Serves(u)
    <3>1. w[u] \in Seq(Descriptor) /\ IsList(w[u], FirstToWake(u), WaitLink, NULL)
      BY <2>1 DEF Queued
    <3>2. Len(w[u]) <= MaxMt
      BY <1>2, <3>1, NodesAreDistinct
    <3>3. ListFrom(FirstToWake(u), WaitLink, NULL, MaxMt) = w[u]
      BY <1>1, <3>1, <3>2, WalkMeetsList
    <3> QED
      BY <2>1, <3>3 DEF WaitLists
  <2>2. CASE ~Serves(u)
    BY <2>2 DEF WaitLists, Queued
  <2> QED
    BY <2>1, <2>2
<1>4. w \in [Thread -> Seq(Descriptor)]
  BY DEF Queued
<1> QED
  BY <1>3, <1>4 DEF WaitLists

LEMMA NextWaitListsAre ==
  ASSUME NEW w, Queued(w)'
  PROVE  WaitLists' = w
<1>1. MaxMt \in Nat /\ NULL \notin Descriptor
  BY Descriptors
<1>2. Cardinality(Descriptor) = MaxMt /\ IsFiniteSet(Descriptor)
  BY Descriptors
<1>3. ASSUME NEW u \in Thread PROVE WaitLists'[u] = w[u]
  <2>1. CASE Serves(u)'
    <3>1. w[u] \in Seq(Descriptor) /\ IsList(w[u], FirstToWake(u)', WaitLink', NULL)
      BY <2>1 DEF Queued
    <3>2. Len(w[u]) <= MaxMt
      BY <1>2, <3>1, NodesAreDistinct
    <3>3. ListFrom(FirstToWake(u)', WaitLink', NULL, MaxMt) = w[u]
      BY <1>1, <3>1, <3>2, WalkMeetsList
    <3> QED
      BY <2>1, <3>3 DEF WaitLists
  <2>2. CASE ~Serves(u)'
    BY <2>2 DEF WaitLists, Queued
  <2> QED
    BY <2>1, <2>2
<1>4. w \in [Thread -> Seq(Descriptor)]
  BY DEF Queued
<1> QED
  BY <1>3, <1>4 DEF WaitLists

(* The descriptor of a task that waits in TSKWAIT is nobody else's.        *)
LEMMA SleeperIsApart ==
  ASSUME TasksInv, NEW w, Queued(w), NEW t \in Thread, InWait(t)
  PROVE  /\ my_mt[t] \in Descriptor /\ my_mt[t] <= total_count
         /\ desc[my_mt[t]].stid = t
         /\ \A u \in Thread : Holds(u) => Held(u) # my_mt[t]
         /\ \A u \in Thread \ {t} : Alive(u) => own[u] # my_mt[t]
<1>1. PICK f, q : Placed(f, q) /\ Lives(q)
  BY DEF TasksInv
<1>2. HashLists = q /\ MT_HASH(t) \in Bucket
  BY <1>1, ListsAre, HashTyped
<1>3. my_mt[t] \in Nodes(q[MT_HASH(t)]) /\ desc[my_mt[t]].stid = t
  BY <1>2 DEF Queued
<1>4. my_mt[t] \in Descriptor
  BY <1>1, <1>2, <1>3, NodesAreIn DEF Placed
<1>5. my_mt[t] <= total_count /\ my_mt[t] \notin InHand
  BY <1>1, <1>2, <1>3, <1>4 DEF Placed
<1>6. \A u \in Thread : Holds(u) => Held(u) # my_mt[t]
  BY <1>5 DEF InHand
<1>7. \A u \in Thread \ {t} : Alive(u) => own[u] # my_mt[t]
  BY <1>1, <1>3 DEF Lives
<1> QED
  BY <1>3, <1>4, <1>5, <1>6, <1>7

(* A step that neither puts a waiter on a list nor takes one off.          *)
Steady ==
  /\ \A u \in Thread : Serves(u)' =>
       IF Serves(u) THEN own'[u] = own[u] /\ FirstToWake(u)' = FirstToWake(u)
                    ELSE FirstToWake(u)' = NULL
  /\ \A u \in Thread : Serves(u) => Serves(u)' \/ FirstToWake(u) = NULL
  /\ \A t \in Thread : InWait(t)' =>
       InWait(t) /\ my_mt'[t] = my_mt[t] /\ arg'[t] = arg[t] /\ mt'[t] = mt[t]
  /\ \A t \in Thread : InWait(t) =>
       /\ InWait(t)' \/ desc[my_mt[t]].state # "TS_Task_Wait"
       /\ desc'[my_mt[t]].state = desc[my_mt[t]].state
       /\ desc'[my_mt[t]].stid = desc[my_mt[t]].stid
       /\ desc'[my_mt[t]].wait_link = desc[my_mt[t]].wait_link
  /\ \A c \in Thread : Ended(c) => Ended(c)'
  /\ \A t \in Thread : \A c \in joined'[t] : c \in joined[t] \/ Ended(c)
  /\ \A t \in Thread : pc'[t] \in {"look", "join"} => arg'[t] # t

LEMMA SteadyStep ==
  ASSUME TasksInv, TasksInv', NEW w, Queued(w), Steady, NEW a \in Thread, Kept(a)
  PROVE  Queued(w)'
<1>1. NULL \notin Descriptor /\ w \in [Thread -> Seq(Descriptor)]
  BY Descriptors DEF Queued
<1>2. \A t \in Thread : InWait(t) => arg[t] \in Thread
  BY DEF TasksInv, Lives, InWait
<1>3. ASSUME NEW t \in Thread, InWait(t), Sleeps(t, w)
      PROVE  InWait(t)' /\ Sleeps(t, w)'
  <2>1. InWait(t)' /\ my_mt'[t] = my_mt[t] /\ arg'[t] = arg[t] /\ mt'[t] = mt[t]
    BY <1>3 DEF Steady, Sleeps
  <2>2. PICK c \in Thread : c = arg[t] /\ Serves(c)
    BY <1>2, <1>3 DEF Sleeps
  <2>3. FirstToWake(c) # NULL
    <3>1. w[c] \in Seq(Descriptor) /\ IsList(w[c], FirstToWake(c), WaitLink, NULL)
      BY <2>2 DEF Queued
    <3>2. Nodes(w[c]) # {}
      BY <1>3, <2>2 DEF Sleeps
    <3> QED
      BY <1>1, <3>1, <3>2, EndsOfList
  <2>4. Serves(c)' /\ own'[c] = own[c]
    BY <2>2, <2>3 DEF Steady
  <2> QED
    BY <1>3, <2>1, <2>2, <2>4 DEF Sleeps, Steady
<1>4. ASSUME NEW u \in Thread
      PROVE  IF Serves(u)' THEN IsList(w[u], FirstToWake(u)', WaitLink', NULL)
                           ELSE w[u] = <<>>
  <2>1. CASE Serves(u) /\ Serves(u)'
    <3>1. IsList(w[u], FirstToWake(u), WaitLink, NULL) /\ FirstToWake(u)' = FirstToWake(u)
      BY <2>1 DEF Queued, Steady
    <3>2. ASSUME NEW d \in Nodes(w[u]) PROVE WaitLink'[d] = WaitLink[d]
      <4>1. PICK t \in Thread : InWait(t) /\ my_mt[t] = d
        BY <3>2 DEF Queued
      <4>2. d \in Descriptor
        BY <4>1, SleeperIsApart
      <4> QED
        BY <4>1, <4>2 DEF WaitLink, Steady
    <3> QED
      BY <2>1, <3>1, <3>2, ListStays
  <2>2. CASE ~Serves(u) /\ Serves(u)'
    <3>1. w[u] = <<>> /\ FirstToWake(u)' = NULL
      BY <2>2 DEF Queued, Steady
    <3> QED
      BY <2>2, <3>1, EmptyList
  <2>3. CASE Serves(u) /\ ~Serves(u)'
    <3>1. /\ w[u] \in Seq(Descriptor) /\ FirstToWake(u) = NULL
          /\ IsList(w[u], FirstToWake(u), WaitLink, NULL)
      BY <2>3 DEF Queued, Steady
    <3>2. w[u] = <<>>
      BY <1>1, <3>1, EndsOfList
    <3> QED
      BY <2>3, <3>2
  <2>4. CASE ~Serves(u) /\ ~Serves(u)'
    BY <2>4 DEF Queued
  <2> QED
    BY <2>1, <2>2, <2>3, <2>4
<1>5. ASSUME NEW u \in Thread, NEW d \in Nodes(w[u])
      PROVE  \E t \in Thread :
               InWait(t)' /\ my_mt'[t] = d /\ arg'[t] = u /\ Sleeps(t, w)'
  <2>1. PICK t \in Thread : InWait(t) /\ my_mt[t] = d /\ arg[t] = u /\ Sleeps(t, w)
    BY <1>5 DEF Queued
  <2>2. InWait(t)' /\ Sleeps(t, w)'
    BY <1>3, <2>1
  <2> QED
    BY <2>1, <2>2 DEF Steady
<1>6. ASSUME NEW t \in Thread, InWait(t)'
      PROVE  /\ my_mt'[t] \in Nodes(HashLists'[MT_HASH(t)]) /\ desc'[my_mt'[t]].stid = t
             /\ Sleeps(t, w)' \/ (desc'[my_mt'[t]].state = "TS_Running" /\ Ended(arg[t])')
  <2>1. InWait(t) /\ my_mt'[t] = my_mt[t] /\ arg'[t] = arg[t]
    BY <1>6 DEF Steady
  <2>2. /\ my_mt[t] \in Nodes(HashLists[MT_HASH(t)]) /\ desc[my_mt[t]].stid = t
        /\ Sleeps(t, w) \/ (desc[my_mt[t]].state = "TS_Running" /\ Ended(arg[t]))
    BY <2>1 DEF Queued
  <2>3. ~(pc[a] = "unlink" /\ my_mt[t] = own[a])
    <3>1. pc[a] = "unlink" => a # t /\ Alive(a)
      BY <2>1 DEF InWait, Alive
    <3> QED
      BY <2>1, <3>1, SleeperIsApart
  <2>4. my_mt[t] \in Nodes(HashLists'[MT_HASH(t)])
    BY <2>2, <2>3, HashTyped DEF Kept
  <2>5. Ended(arg[t]) => Ended(arg[t])'
    <3>1. PICK c \in Thread : c = arg[t]
      BY <1>2, <2>1
    <3>2. Ended(c) => Ended(c)'
      BY DEF Steady
    <3> QED
      BY <2>1, <3>1, <3>2 DEF Ended
  <2> QED
    BY <1>3, <2>1, <2>2, <2>4, <2>5 DEF Steady
<1>7. \A t \in Thread : pc'[t] \in {"look", "join"} => arg'[t] # t
  BY DEF Steady
<1>8. WaitMeansEnded'
  <2>1. \A t \in Thread : \A c \in joined'[t] : c \in Thread /\ Ended(c)
    BY DEF Steady, Queued, WaitMeansEnded, TasksInv, Typed
  <2> QED
    BY <2>1 DEF WaitMeansEnded, Steady
<1> QED
  BY <1>1, <1>4, <1>5, <1>6, <1>7, <1>8 DEF Queued
(* Most steps are steady.  What a step of a does to itself, to the other   *)
(* threads, and to the descriptors that waiting relies on.                 *)
SteadyItself(a) ==
  /\ Serves(a)' => IF Serves(a) THEN own'[a] = own[a] /\ FirstToWake(a)' = FirstToWake(a)
                                ELSE FirstToWake(a)' = NULL
  /\ Serves(a) => Serves(a)' \/ FirstToWake(a) = NULL
  /\ InWait(a)' => InWait(a) /\ my_mt'[a] = my_mt[a] /\ arg'[a] = arg[a] /\ mt'[a] = mt[a]
  /\ InWait(a) => InWait(a)' \/ desc[my_mt[a]].state # "TS_Task_Wait"
  /\ Ended(a) => Ended(a)'
  /\ \A c \in joined'[a] : c \in joined[a] \/ Ended(c)
  /\ pc'[a] \in {"look", "join"} => arg'[a] # a

OthersStay(a) ==
  \A u \in Thread \ {a} :
    /\ arg'[u] = arg[u] /\ mt'[u] = mt[u] /\ my_mt'[u] = my_mt[u] /\ joined'[u] = joined[u]
    /\ \/ pc'[u] = pc[u] /\ own'[u] = own[u]
       \/ pc[u] \in {"unborn", "chosen"} /\ pc'[u] \in {"chosen", "born"}

WaitersStay(a) ==
  /\ \A t \in Thread : InWait(t) =>
       /\ desc'[my_mt[t]].state = desc[my_mt[t]].state
       /\ desc'[my_mt[t]].stid = desc[my_mt[t]].stid
       /\ desc'[my_mt[t]].wait_link = desc[my_mt[t]].wait_link
  /\ \A u \in Thread \ {a} : Serves(u) =>
       IF pc[u] = "next" THEN desc'[mt[u]].wait_link = desc[mt[u]].wait_link
                         ELSE desc'[own[u]].waiters = desc[own[u]].waiters

LEMMA SteadyIf ==
  ASSUME NEW a \in Thread, SteadyItself(a), OthersStay(a), WaitersStay(a),
         \A t \in Thread : pc[t] \in {"look", "join"} => arg[t] # t
  PROVE  Steady
<1>1. ASSUME NEW u \in Thread \ {a}
      PROVE  /\ Serves(u)' <=> Serves(u)
             /\ InWait(u)' <=> InWait(u)
             /\ Ended(u)' <=> Ended(u)
             /\ Serves(u) \/ InWait(u) => pc'[u] = pc[u] /\ own'[u] = own[u]
  BY DEF OthersStay, Serves, Runs, Ended, InWait
<1>2. \A u \in Thread \ {a} : Serves(u) => FirstToWake(u)' = FirstToWake(u)
  BY <1>1 DEF OthersStay, WaitersStay, FirstToWake
<1>3. \A u \in Thread \ {a} : pc'[u] \in {"look", "join"} => arg'[u] # u
  BY DEF OthersStay
<1>4. \A u \in Thread : Ended(u) => Ended(u)'
  BY <1>1 DEF SteadyItself
<1>5. \A u \in Thread : Serves(u)' =>
        IF Serves(u) THEN own'[u] = own[u] /\ FirstToWake(u)' = FirstToWake(u)
                     ELSE FirstToWake(u)' = NULL
  BY <1>1, <1>2 DEF SteadyItself
<1>6. \A u \in Thread : Serves(u) => Serves(u)' \/ FirstToWake(u) = NULL
  BY <1>1 DEF SteadyItself
<1>7. \A t \in Thread : InWait(t)' =>
        InWait(t) /\ my_mt'[t] = my_mt[t] /\ arg'[t] = arg[t] /\ mt'[t] = mt[t]
  BY <1>1 DEF SteadyItself, OthersStay
<1>8. \A t \in Thread : InWait(t) => InWait(t)' \/ desc[my_mt[t]].state # "TS_Task_Wait"
  BY <1>1 DEF SteadyItself
<1>9. \A t \in Thread : \A c \in joined'[t] : c \in joined[t] \/ Ended(c)
  BY DEF SteadyItself, OthersStay
<1> QED
  BY <1>3, <1>4, <1>5, <1>6, <1>7, <1>8, <1>9 DEF Steady, SteadyItself, WaitersStay

(* Steps that write to the descriptor e alone, of the fields that matter.  *)
Apart(e, a) ==
  /\ \A t \in Thread : InWait(t) => my_mt[t] # e
  /\ \A u \in Thread \ {a} : Serves(u) => own[u] # e

LEMMA ServesHasOwn ==
  ASSUME NEW u \in Thread, Serves(u)
  PROVE  HasOwn(u) \/ Alive(u)
BY DEF Serves, HasOwn, Alive

LEMMA HeldIsApart ==
  ASSUME TasksInv, NEW w, Queued(w), NEW a \in Thread, Holds(a)
  PROVE  Apart(Held(a), a)
<1>1. \A t \in Thread : InWait(t) => my_mt[t] # Held(a)
  BY SleeperIsApart
<1>2. \A u \in Thread \ {a} : Serves(u) => own[u] # Held(a)
  BY ServesHasOwn, OwnIsApart
<1> QED
  BY <1>1, <1>2 DEF Apart

LEMMA OwnStaysApart ==
  ASSUME TasksInv, NEW w, Queued(w), NEW a \in Thread, Alive(a), ~InWait(a)
  PROVE  Apart(own[a], a)
<1>1. \A t \in Thread : InWait(t) => my_mt[t] # own[a]
  BY SleeperIsApart
<1>2. \A u \in Thread \ {a} : Serves(u) => own[u] # own[a]
  BY ServesHasOwn, OwnIsApart
<1> QED
  BY <1>1, <1>2 DEF Apart

LEMMA NewIsApart ==
  ASSUME TasksInv, NEW w, Queued(w), NEW a \in Thread, NEW e \in Nat, e > total_count
  PROVE  Apart(e, a)
<1>1. total_count \in Nat
  BY DEF TasksInv, Typed
<1>2. \A t \in Thread : InWait(t) => my_mt[t] <= total_count
  BY SleeperIsApart
<1>3. \A u \in Thread \ {a} : Serves(u) => own[u] <= total_count
  BY ServesHasOwn, OwnIsApart
<1> QED
  BY <1>1, <1>2, <1>3 DEF Apart

LEMMA WaitersStayIf ==
  ASSUME TasksInv, NEW w, Queued(w), NEW a \in Thread, NEW e, Apart(e, a),
         \A d \in Descriptor \ {e} :
           /\ desc'[d].state = desc[d].state /\ desc'[d].stid = desc[d].stid
           /\ desc'[d].wait_link = desc[d].wait_link /\ desc'[d].waiters = desc[d].waiters,
         desc'[e].wait_link = desc[e].wait_link \/ ~StoodOn(e)
  PROVE  WaitersStay(a)
<1>1. \A t \in Thread : InWait(t) => my_mt[t] \in Descriptor \ {e}
  BY SleeperIsApart DEF Apart
<1>2. \A u \in Thread \ {a} : Serves(u) => own[u] \in Descriptor \ {e}
  BY ServesHasOwn, OwnIsApart DEF Apart
<1>3. \A u \in Thread : pc[u] = "next" => mt[u] \in Descriptor
  BY Descriptors DEF TasksInv, Typed, Lives
<1>4. \A u \in Thread : pc[u] = "next" => desc'[mt[u]].wait_link = desc[mt[u]].wait_link
  BY <1>3 DEF StoodOn
<1> QED
  BY <1>1, <1>2, <1>4 DEF WaitersStay
LEMMA QueuedParts ==
  ASSUME NEW w, Queued(w)
  PROVE  \A t \in Thread : pc[t] \in {"look", "join"} => arg[t] # t
BY DEF Queued

(* Steps that write to no descriptor, and lead from somewhere where a      *)
(* thread neither waits nor deletes itself to somewhere of that kind.      *)
Busy == {"add", "user", "find", "find_allocate", "find_add", "allocate", "ready", "fill",
         "argv", "look", "join", "hung"}

LEMMA BusyStep ==
  ASSUME TasksInv, NEW w, Queued(w), NEW a \in Thread, pc[a] \in Busy, pc'[a] \in Busy,
         own'[a] = own[a], desc'[own[a]].waiters = desc[own[a]].waiters \/ ~Serves(a),
         \A c \in joined'[a] : c \in joined[a] \/ Ended(c),
         pc'[a] \in {"look", "join"} => arg'[a] # a
  PROVE  SteadyItself(a)
<1>1. /\ ~InWait(a) /\ ~InWait(a)' /\ ~Ended(a)
      /\ Serves(a)' <=> Serves(a)
      /\ FirstToWake(a) = desc[own[a]].waiters
      /\ FirstToWake(a)' = desc'[own[a]].waiters
  BY DEF Busy, InWait, Ended, Serves, Runs, FirstToWake
<1> QED
  BY <1>1 DEF SteadyItself

LEMMA NothingWritten ==
  ASSUME NEW a \in Thread, UNCHANGED desc
  PROVE  WaitersStay(a)
BY DEF WaitersStay

LEMMA FindSelfSteady ==
  ASSUME TasksInv, NEW w, Queued(w), NEW a \in Thread,
         _mact_find_self(a) \/ find_self_step(a)
  PROVE  Steady
<1>1. /\ pc \in [Thread -> Pc] /\ pc[a] \in {"user", "find"}
      /\ \E label \in {"find", "find_allocate", "user"} : pc' = [pc EXCEPT ![a] = label]
      /\ UNCHANGED <<arg, own, my_mt, joined, desc>>
      /\ \A u \in Thread \ {a} : mt'[u] = mt[u]
  BY DEF _mact_find_self, find_self_step, At, Goto, TasksInv, Typed, program
<1>2. SteadyItself(a)
  BY <1>1, BusyStep DEF Busy
<1>3. OthersStay(a)
  BY <1>1 DEF OthersStay
<1> QED
  BY <1>1, <1>2, <1>3, NothingWritten, QueuedParts, SteadyIf

LEMMA TskstartSteady ==
  ASSUME TasksInv, NEW w, Queued(w), NEW a \in Thread, NEW c \in Thread, tskstart_(a, c)
  PROVE  Steady
<1>1. /\ pc \in [Thread -> Pc] /\ pc[a] = "user" /\ pc[c] = "unborn" /\ a # c
      /\ pc' = [pc EXCEPT ![a] = "allocate", ![c] = "chosen"]
      /\ UNCHANGED <<own, my_mt, joined, mt, desc>>
      /\ \A u \in Thread \ {a} : arg'[u] = arg[u]
  BY DEF tskstart_, At, TasksInv, Typed, program
<1>2. SteadyItself(a)
  BY <1>1, BusyStep DEF Busy
<1>3. OthersStay(a)
  BY <1>1 DEF OthersStay
<1> QED
  BY <1>1, <1>2, <1>3, NothingWritten, QueuedParts, SteadyIf

LEMMA TskstartReturnSteady ==
  ASSUME TasksInv, NEW w, Queued(w), NEW a \in Thread, tskstart_return(a)
  PROVE  Steady
<1>1. /\ pc \in [Thread -> Pc] /\ pc[a] = "argv" /\ pc' = [pc EXCEPT ![a] = "user"]
      /\ UNCHANGED <<own, my_mt, joined, desc>>
      /\ \A u \in Thread \ {a} : arg'[u] = arg[u] /\ mt'[u] = mt[u]
  BY DEF tskstart_return, At, Goto, TasksInv, Typed
<1>2. SteadyItself(a)
  BY <1>1, BusyStep DEF Busy
<1>3. OthersStay(a)
  BY <1>1 DEF OthersStay
<1> QED
  BY <1>1, <1>2, <1>3, NothingWritten, QueuedParts, SteadyIf

(* TSKWAIT's looks.                                                        *)
LEMMA OverIsEnded ==
  ASSUME LooksInv, NEW c \in Thread, NEW d, WasOf(d, c), Over(d, c)
  PROVE  Ended(c)
BY DEF WasOf, Over, LooksInv, Ended

LEMMA TskwaitSteady ==
  ASSUME TasksInv, LooksInv, NEW w, Queued(w), NEW a \in Thread, NEW c \in Thread,
         tskwait_(a, c)
  PROVE  Steady
<1>1. /\ pc \in [Thread -> Pc] /\ pc[a] = "user" /\ a # c
      /\ UNCHANGED <<own, desc>>
      /\ \A u \in Thread \ {a} : /\ arg'[u] = arg[u] /\ mt'[u] = mt[u]
                                 /\ my_mt'[u] = my_mt[u] /\ joined'[u] = joined[u]
  BY DEF tskwait_, Return, At, TasksInv, Typed
<1>2. Over(tca[c], c) => Ended(c)
  BY OverIsEnded DEF tskwait_, LooksInv
<1>3. \/ /\ Over(tca[c], c) /\ pc' = [pc EXCEPT ![a] = "user"]
         /\ joined'[a] = joined[a] \cup {c}
      \/ pc' = [pc EXCEPT ![a] = "look"] /\ joined' = joined /\ arg'[a] = c
  BY DEF tskwait_, Return, Goto, TasksInv, Typed
<1>4. SteadyItself(a)
  BY <1>1, <1>2, <1>3, BusyStep DEF Busy
<1>5. OthersStay(a)
  BY <1>1, <1>3 DEF OthersStay
<1> QED
  BY <1>1, <1>4, <1>5, NothingWritten, QueuedParts, SteadyIf

LEMMA TskwaitLookSteady ==
  ASSUME TasksInv, LooksInv, NEW w, Queued(w), NEW a \in Thread,
         tskwait_look(a) \/ (tskwait_join(a) /\ Over(mt[a], arg[a]))
  PROVE  Steady
<1>1. PICK c \in Thread : c = arg[a] /\ c # a
  BY QueuedParts DEF tskwait_look, tskwait_join, At, TasksInv, Lives
<1>2. /\ pc \in [Thread -> Pc] /\ pc[a] \in {"look", "join"}
      /\ UNCHANGED <<own, desc>>
      /\ \A u \in Thread \ {a} : /\ arg'[u] = arg[u] /\ mt'[u] = mt[u]
                                 /\ my_mt'[u] = my_mt[u] /\ joined'[u] = joined[u]
  BY DEF tskwait_look, tskwait_join, Return, At, TasksInv, Typed
<1>3. Over(mt[a], c) => Ended(c)
  BY <1>1, <1>2, OverIsEnded DEF LooksInv
<1>4. \/ /\ Over(mt[a], c) /\ pc' = [pc EXCEPT ![a] = "user"]
         /\ joined'[a] = joined[a] \cup {c}
      \/ pc' = [pc EXCEPT ![a] = "join"] /\ joined' = joined /\ arg' = arg
  BY <1>1 DEF tskwait_look, tskwait_join, Return, Goto, TasksInv, Typed
<1>5. SteadyItself(a)
  BY <1>1, <1>2, <1>3, <1>4, BusyStep DEF Busy
<1>6. OthersStay(a)
  BY <1>2, <1>4 DEF OthersStay
<1> QED
  BY <1>2, <1>5, <1>6, NothingWritten, QueuedParts, SteadyIf
(* A thread without a descriptor of its own hangs in its third look.       *)
LEMMA HungSteady ==
  ASSUME TasksInv, NEW w, Queued(w), NEW a \in Thread, tskwait_join(a),
         ~Over(mt[a], arg[a]), Self(a) = NULL
  PROVE  Steady
<1>1. /\ pc \in [Thread -> Pc] /\ pc[a] = "join" /\ pc' = [pc EXCEPT ![a] = "hung"]
      /\ UNCHANGED <<own, arg, mt, my_mt, joined>>
      /\ desc \in [Descriptor -> Desc] /\ desc' = [desc EXCEPT ![mt[a]].sem = a]
  BY DEF tskwait_join, At, Goto, TasksInv, Typed
<1>2. \A d : /\ desc'[d].state = desc[d].state /\ desc'[d].stid = desc[d].stid
             /\ desc'[d].wait_link = desc[d].wait_link
             /\ desc'[d].waiters = desc[d].waiters
  <2> SUFFICES ASSUME NEW d
               PROVE  /\ desc'[d].state = desc[d].state /\ desc'[d].stid = desc[d].stid
                      /\ desc'[d].wait_link = desc[d].wait_link
                      /\ desc'[d].waiters = desc[d].waiters
    OBVIOUS
  <2>1. CASE d \in Descriptor
    BY <1>1, <2>1 DEF Desc
  <2>2. CASE d \notin Descriptor
    BY <1>1, <2>2
  <2> QED
    BY <2>1, <2>2
<1>3. SteadyItself(a)
  BY <1>1, <1>2, BusyStep DEF Busy
<1>4. OthersStay(a)
  BY <1>1 DEF OthersStay
<1>5. WaitersStay(a)
  BY <1>2 DEF WaitersStay
<1> QED
  BY <1>3, <1>4, <1>5, QueuedParts, SteadyIf

(* Going to sleep, and TSKWAIT's return.                                   *)
LEMMA SleepSteady ==
  ASSUME TasksInv, NEW w, Queued(w), NEW a \in Thread,
         tskwait_dec(a) \/ CHECK_FOR_MACT_DEADLOCK(a) \/ tskwait_return(a)
  PROVE  Steady
<1>1. /\ pc \in [Thread -> Pc] /\ InWait(a) /\ UNCHANGED <<own, desc>>
      /\ \A u \in Thread \ {a} : /\ arg'[u] = arg[u] /\ mt'[u] = mt[u]
                                 /\ my_mt'[u] = my_mt[u] /\ joined'[u] = joined[u]
  BY DEF tskwait_dec, CHECK_FOR_MACT_DEADLOCK, tskwait_return, Return, At, TasksInv, Typed,
         locals, program, InWait
<1>2. \/ /\ pc' = [pc EXCEPT ![a] = "user"] /\ desc[my_mt[a]].state = "TS_Running"
         /\ joined'[a] = joined[a] \cup {arg[a]}
      \/ /\ \E label \in {"check", "spin"} : pc' = [pc EXCEPT ![a] = label]
         /\ UNCHANGED <<arg, mt, my_mt, joined>>
      \/ UNCHANGED <<pc, arg, mt, my_mt, joined>>
  BY DEF tskwait_dec, CHECK_FOR_MACT_DEADLOCK, tskwait_return, Return, At, Goto, TasksInv,
         Typed, locals, program
<1>3. desc[my_mt[a]].state = "TS_Running" => Ended(arg[a])
  BY <1>1 DEF Queued, Sleeps
<1>4. /\ Serves(a)' <=> Serves(a)
      /\ FirstToWake(a) = desc[own[a]].waiters
      /\ FirstToWake(a)' = desc[own[a]].waiters
      /\ ~Ended(a) /\ pc'[a] \notin {"look", "join"}
  BY <1>1, <1>2 DEF InWait, Serves, Runs, Ended, FirstToWake
<1>5. SteadyItself(a)
  BY <1>1, <1>2, <1>3, <1>4 DEF SteadyItself, InWait
<1>6. OthersStay(a)
  BY <1>1, <1>2 DEF OthersStay
<1> QED
  BY <1>1, <1>5, <1>6, NothingWritten, QueuedParts, SteadyIf

(* The steps of a task that ends, but for the one that wakes a waiter and  *)
(* for the last.                                                           *)
LEMMA DeleteQuietSteady ==
  ASSUME TasksInv, NEW w, Queued(w), NEW a \in Thread,
         delete_inc(a) \/ delete_next(a) \/ delete_dec(a)
  PROVE  Steady
<1>1. /\ pc \in [Thread -> Pc] /\ UNCHANGED <<own, arg, my_mt, joined, desc>>
      /\ \A u \in Thread \ {a} : mt'[u] = mt[u]
      /\ mt \in [Thread -> MtOrNull]
  BY DEF delete_inc, delete_next, delete_dec, TasksInv, Typed, locals, program
<1>2. \/ pc[a] = "inc" /\ pc' = [pc EXCEPT ![a] = "mark"] /\ mt' = mt
      \/ /\ pc[a] = "next" /\ pc' = [pc EXCEPT ![a] = "mark"]
         /\ mt'[a] = desc[mt[a]].wait_link
      \/ pc[a] = "uncount" /\ pc' = [pc EXCEPT ![a] = "unlink"]
  BY <1>1 DEF delete_inc, delete_next, delete_dec, At, Goto, locals
<1>3. /\ Serves(a)' <=> Serves(a)
      /\ Serves(a) => FirstToWake(a)' = FirstToWake(a)
      /\ ~InWait(a) /\ ~InWait(a)' /\ Ended(a)' /\ pc'[a] \notin {"look", "join"}
  BY <1>1, <1>2 DEF InWait, Serves, Runs, Ended, FirstToWake
<1>4. SteadyItself(a)
  BY <1>1, <1>3 DEF SteadyItself
<1>5. OthersStay(a)
  BY <1>1, <1>2 DEF OthersStay
<1> QED
  BY <1>1, <1>4, <1>5, NothingWritten, QueuedParts, SteadyIf

LEMMA DeleteSteady ==
  ASSUME TasksInv, NEW w, Queued(w), NEW a \in Thread,
         _mact_delete(a) \/ delete_wait(a) \/ delete_woken(a)
  PROVE  Steady
<1>1. /\ pc \in [Thread -> Pc] /\ UNCHANGED <<own, arg, my_mt, joined>>
      /\ \A u \in Thread \ {a} : mt'[u] = mt[u]
      /\ mt \in [Thread -> MtOrNull] /\ desc \in [Descriptor -> Desc]
  BY DEF _mact_delete, delete_wait, delete_woken, TasksInv, Typed, locals, program
<1>2. Alive(a) /\ ~InWait(a)
  BY DEF _mact_delete, delete_wait, delete_woken, At, Alive, InWait
<1>3. PICK d \in Descriptor : d = own[a]
  BY <1>2, Whereabouts
<1>4. \/ /\ pc[a] = "user" /\ a \notin Foreign \cup {Main}
         /\ pc' = [pc EXCEPT ![a] = "complete"] /\ mt' = mt
         /\ desc' = [desc EXCEPT ![d].state = "TS_Complete"]
      \/ /\ pc[a] = "complete" /\ pc' = [pc EXCEPT ![a] = "inc"]
         /\ mt'[a] = desc[d].waiters /\ desc' = [desc EXCEPT ![d].sem = a]
      \/ /\ pc[a] = "mark" /\ mt[a] = NULL /\ pc' = [pc EXCEPT ![a] = "uncount"]
         /\ mt' = mt /\ desc' = [desc EXCEPT ![d].sem = NoThread]
  BY <1>1, <1>3 DEF _mact_delete, delete_wait, delete_woken, At, Goto, locals
<1>5. /\ \A e \in Descriptor \ {d} : desc'[e] = desc[e]
      /\ desc'[d].waiters = desc[d].waiters /\ desc'[d].wait_link = desc[d].wait_link
  BY <1>1, <1>4 DEF Desc
<1>6. /\ Serves(a) /\ (Serves(a)' => FirstToWake(a)' = FirstToWake(a))
      /\ Serves(a)' \/ FirstToWake(a) = NULL
      /\ ~InWait(a)' /\ Ended(a)' /\ pc'[a] \notin {"look", "join"}
  BY <1>1, <1>3, <1>4, <1>5 DEF InWait, Serves, Runs, Ended, FirstToWake
<1>7. SteadyItself(a)
  BY <1>1, <1>2, <1>6 DEF SteadyItself
<1>8. OthersStay(a)
  BY <1>1, <1>4 DEF OthersStay
<1>9. WaitersStay(a)
  <2>1. Apart(d, a)
    BY <1>2, <1>3, OwnStaysApart
  <2> QED
    BY <1>5, <2>1, WaitersStayIf
<1> QED
  BY <1>7, <1>8, <1>9, QueuedParts, SteadyIf

LEMMA DeleteUnlinkSteady ==
  ASSUME TasksInv, NEW w, Queued(w), NEW a \in Thread, delete_unlink(a)
  PROVE  Steady
<1>1. /\ pc \in [Thread -> Pc] /\ pc[a] = "unlink" /\ pc' = [pc EXCEPT ![a] = "gone"]
      /\ own \in [Thread -> MtOrNull] /\ own' = [own EXCEPT ![a] = NULL]
      /\ UNCHANGED <<arg, my_mt, mt, joined>> /\ desc \in [Descriptor -> Desc]
  BY DEF delete_unlink, At, Goto, TasksInv, Typed, program
<1>2. Alive(a) /\ ~InWait(a)
  BY <1>1 DEF Alive, InWait
<1>3. PICK d \in Descriptor : d = own[a]
  BY <1>2, Whereabouts
<1>4. ASSUME NEW e \in Descriptor
      PROVE  /\ Unlinked(MT_HASH(a), d)[e] \in {desc[e], [desc[e] EXCEPT !.link = desc[d].link]}
             /\ desc[e] \in Desc
  BY <1>1, Zenon DEF Unlinked
<1>5. \A e \in Descriptor \ {d} : desc'[e] = Unlinked(MT_HASH(a), d)[e]
  BY <1>3, Zenon DEF delete_unlink, Unlinked
<1>6. desc'[d] = [Unlinked(MT_HASH(a), d)[d] EXCEPT !.state = "TS_Nonexistent",
                                             !.stid = NoThread, !.link = free]
  BY <1>3 DEF delete_unlink, Unlinked
<1>7. /\ \A e \in Descriptor \ {d} :
           /\ desc'[e].state = desc[e].state /\ desc'[e].stid = desc[e].stid
           /\ desc'[e].wait_link = desc[e].wait_link /\ desc'[e].waiters = desc[e].waiters
      /\ desc'[d].wait_link = desc[d].wait_link
  BY <1>4, <1>5, <1>6 DEF Desc
<1>8. SteadyItself(a)
  <2>1. ~Serves(a) /\ ~Serves(a)' /\ ~InWait(a)' /\ Ended(a)'
    BY <1>1 DEF Serves, Runs, Ended, InWait
  <2> QED
    BY <1>1, <1>2, <2>1 DEF SteadyItself
<1>9. OthersStay(a)
  BY <1>1 DEF OthersStay
<1>10. WaitersStay(a)
  <2>1. Apart(d, a)
    BY <1>2, <1>3, OwnStaysApart
  <2> QED
    BY <1>7, <2>1, WaitersStayIf
<1> QED
  BY <1>8, <1>9, <1>10, QueuedParts, SteadyIf
(* The steps that obtain, fill in and add a descriptor.                    *)
LEMMA AllocateSteady ==
  ASSUME TasksInv, NEW w, Queued(w), NEW a \in Thread,
         tskstart_allocate(a) \/ find_self_allocate(a)
  PROVE  Steady
<1>1. /\ pc \in [Thread -> Pc] /\ pc[a] \in {"allocate", "find_allocate"}
      /\ pc' = [pc EXCEPT ![a] = IF pc[a] = "allocate" THEN "ready" ELSE "find_add"]
      /\ _mact_allocate(a)
      /\ mt \in [Thread -> MtOrNull] /\ mt' = [mt EXCEPT ![a] = mt'[a]]
      /\ UNCHANGED <<arg, own, my_mt, joined>> /\ desc \in [Descriptor -> Desc]
  BY DEF tskstart_allocate, find_self_allocate, _mact_allocate, At, Goto, TasksInv, Typed,
         program
<1>2. PICK e \in Nat :
        /\ e > total_count
        /\ \A d \in Descriptor \ {e} :
             /\ desc'[d].state = desc[d].state /\ desc'[d].stid = desc[d].stid
             /\ desc'[d].wait_link = desc[d].wait_link /\ desc'[d].waiters = desc[d].waiters
        /\ \A d \in Descriptor :
             desc'[d].wait_link = desc[d].wait_link /\ desc'[d].waiters = desc[d].waiters
  <2>1. total_count \in Nat /\ MTS_TO_GET \in Nat \ {0}
    BY MtAssumption DEF TasksInv, Typed
  <2>2. CASE desc' = desc
    <3>1. total_count + 1 \in Nat /\ total_count + 1 > total_count
      BY <2>1
    <3> QED
      BY <2>2, <3>1
  <2>3. CASE get_more_mt_descriptors
    <3>1. PICK last, garbage :
            desc' = Initialised(last, garbage) /\ last = total_count + MTS_TO_GET
      BY <2>3 DEF get_more_mt_descriptors
    <3>2. \A d \in Descriptor :
            desc'[d] \in {desc[d], [desc[d] EXCEPT !.link = d + 1]}
              \/ (d = last /\ desc'[d] = [desc[d] EXCEPT !.state = garbage])
      BY <3>1, Zenon DEF Initialised
    <3>3. last \in Nat /\ last > total_count
      BY <2>1, <3>1
    <3>4. \A d \in Descriptor : desc[d] \in Desc
      BY <1>1
    <3>5. \A d \in Descriptor :
            /\ desc'[d].wait_link = desc[d].wait_link /\ desc'[d].waiters = desc[d].waiters
            /\ desc'[d].stid = desc[d].stid
      BY <3>2, <3>4 DEF Desc
    <3>6. \A d \in Descriptor \ {last} : desc'[d].state = desc[d].state
      BY <3>2, <3>4 DEF Desc
    <3> QED
      BY <3>3, <3>5, <3>6
  <2> QED
    BY <1>1, <2>2, <2>3 DEF _mact_allocate
<1>3. SteadyItself(a)
  <2>1. desc'[own[a]].waiters = desc[own[a]].waiters \/ ~Serves(a)
    <3>1. Serves(a) => own[a] \in Descriptor
      BY ServesHasOwn, OwnIsApart
    <3> QED
      BY <1>2, <3>1
  <2> QED
    BY <1>1, <2>1, BusyStep DEF Busy
<1>4. OthersStay(a)
  BY <1>1 DEF OthersStay
<1>5. WaitersStay(a)
  <2>1. Apart(e, a)
    BY <1>2, NewIsApart
  <2>2. \A t \in Thread : InWait(t) => my_mt[t] \in Descriptor \ {e}
    BY <2>1, SleeperIsApart DEF Apart
  <2>3. \A u \in Thread : Serves(u) => own[u] \in Descriptor
    BY ServesHasOwn, OwnIsApart
  <2>4. \A u \in Thread : pc[u] = "next" => mt[u] \in Descriptor
    BY Descriptors DEF TasksInv, Typed, Lives
  <2> QED
    BY <1>2, <2>2, <2>3, <2>4 DEF WaitersStay
<1> QED
  BY <1>3, <1>4, <1>5, QueuedParts, SteadyIf

LEMMA TskstartReadySteady ==
  ASSUME TasksInv, NEW w, Queued(w), NEW a \in Thread, tskstart_ready(a)
  PROVE  Steady
<1>1. PICK d \in Descriptor : d = mt[a] /\ d = Held(a) /\ Holds(a) /\ pc[a] = "ready"
  BY Whereabouts DEF tskstart_ready, At, Holds, Held
<1>2. /\ pc \in [Thread -> Pc] /\ pc' = [pc EXCEPT ![a] = "fill"]
      /\ UNCHANGED <<own, arg, mt, my_mt, joined>> /\ desc \in [Descriptor -> Desc]
      /\ desc' = [desc EXCEPT ![d].state = "TS_Ready"]
  BY <1>1 DEF tskstart_ready, Goto, TasksInv, Typed, locals, program
<1>3. /\ \A e \in Descriptor \ {d} : desc'[e] = desc[e]
      /\ desc'[d].waiters = desc[d].waiters /\ desc'[d].wait_link = desc[d].wait_link
  BY <1>2 DEF Desc
<1>4. SteadyItself(a)
  <2>1. Serves(a) => own[a] \in Descriptor
    BY ServesHasOwn, OwnIsApart
  <2>2. desc'[own[a]].waiters = desc[own[a]].waiters \/ ~Serves(a)
    BY <1>3, <2>1
  <2> QED
    BY <1>1, <1>2, <2>2, BusyStep DEF Busy
<1>5. OthersStay(a)
  BY <1>2 DEF OthersStay
<1>6. WaitersStay(a)
  <2>1. Apart(d, a)
    BY <1>1, HeldIsApart
  <2> QED
    BY <1>3, <2>1, WaitersStayIf
<1> QED
  BY <1>4, <1>5, <1>6, QueuedParts, SteadyIf

LEMMA TskstartFillSteady ==
  ASSUME TasksInv, NEW w, Queued(w), NEW a \in Thread, tskstart_fill(a), ~mishap'
  PROVE  Steady
<1>1. PICK c \in Thread : c = arg[a] /\ pc[c] = "chosen"
  BY DEF tskstart_fill, At, TasksInv, Lives, Starting
<1>2. PICK d \in Descriptor : d = mt[a] /\ d = Held(a) /\ Holds(a) /\ pc[a] = "fill"
  BY Whereabouts DEF tskstart_fill, At, Holds, Held
<1>3. /\ pc \in [Thread -> Pc] /\ a # c
      /\ pc' = [pc EXCEPT ![a] = "argv", ![c] = "born"]
      /\ own \in [Thread -> MtOrNull] /\ own' = [own EXCEPT ![c] = d]
      /\ UNCHANGED <<arg, mt, my_mt, joined>> /\ desc \in [Descriptor -> Desc]
      /\ \A e \in Descriptor \ {d} : desc'[e] = desc[e]
      /\ desc'[d].waiters = desc[d].waiters
      /\ ~StoodOn(d)
  BY <1>1, <1>2 DEF tskstart_fill, TasksInv, Typed, Desc
<1>4. SteadyItself(a)
  <2>1. Serves(a) => own[a] \in Descriptor
    BY ServesHasOwn, OwnIsApart
  <2>2. desc'[own[a]].waiters = desc[own[a]].waiters \/ ~Serves(a)
    BY <1>3, <2>1
  <2> QED
    BY <1>2, <1>3, <2>2, BusyStep DEF Busy
<1>5. OthersStay(a)
  BY <1>1, <1>3 DEF OthersStay
<1>6. WaitersStay(a)
  <2>1. Apart(d, a)
    BY <1>2, HeldIsApart
  <2> QED
    BY <1>3, <2>1, WaitersStayIf
<1> QED
  BY <1>4, <1>5, <1>6, QueuedParts, SteadyIf

LEMMA StartMacrotaskSteady ==
  ASSUME TasksInv, LooksInv, NEW w, Queued(w), NEW a \in Thread, _mact_start_macrotask(a)
  PROVE  Steady
<1>1. PICK d \in Descriptor : d = own[a] /\ d = Held(a) /\ Holds(a) /\ pc[a] = "born"
  BY Whereabouts DEF _mact_start_macrotask, At, Holds, Held
<1>2. /\ pc \in [Thread -> Pc] /\ pc' = [pc EXCEPT ![a] = "add"]
      /\ UNCHANGED <<own, arg, mt, my_mt, joined>> /\ desc \in [Descriptor -> Desc]
      /\ \A e \in Descriptor \ {d} : desc'[e] = desc[e]
      /\ desc'[d].wait_link = desc[d].wait_link /\ desc'[d].waiters = NULL
  BY <1>1 DEF _mact_start_macrotask, Goto, TasksInv, Typed, Desc, locals, program
<1>3. SteadyItself(a)
  <2>1. /\ ~Serves(a) /\ FirstToWake(a)' = NULL
        /\ ~InWait(a) /\ ~InWait(a)' /\ ~Ended(a)
    BY <1>1, <1>2 DEF Serves, Runs, Ended, InWait, FirstToWake
  <2> QED
    BY <1>2, <2>1 DEF SteadyItself
<1>4. OthersStay(a)
  BY <1>2 DEF OthersStay
<1>5. WaitersStay(a)
  <2>1. Apart(d, a)
    BY <1>1, HeldIsApart
  <2> QED
    BY <1>2, <2>1, WaitersStayIf
<1> QED
  BY <1>3, <1>4, <1>5, QueuedParts, SteadyIf

LEMMA AddSteady ==
  ASSUME TasksInv, NEW w, Queued(w), NEW a \in Thread,
         find_self_add(a) \/ start_macrotask_add(a)
  PROVE  Steady
<1>1. PICK d \in Descriptor : d = Held(a) /\ Holds(a) /\ pc[a] \in {"find_add", "add"}
  BY Whereabouts DEF find_self_add, start_macrotask_add, At, Holds
<1>2. /\ pc \in [Thread -> Pc] /\ pc' = [pc EXCEPT ![a] = "user"]
      /\ UNCHANGED <<own, arg, my_mt, joined>> /\ desc \in [Descriptor -> Desc]
      /\ \A u \in Thread \ {a} : mt'[u] = mt[u]
  BY DEF find_self_add, start_macrotask_add, At, Goto, TasksInv, Typed, locals, program
<1>3. \/ _mact_add(a, d, [desc[d] EXCEPT !.stid = a, !.utid = NoThread])
      \/ _mact_add(a, d, desc[d])
  BY <1>1 DEF find_self_add, start_macrotask_add, At, Held
<1>4. /\ \A e \in Descriptor \ {d} : desc'[e] = desc[e]
      /\ desc'[d].waiters = desc[d].waiters /\ desc'[d].wait_link = desc[d].wait_link
  <2>1. desc[d] \in Desc
    BY <1>2
  <2>2. CASE _mact_add(a, d, desc[d])
    BY <1>2, <2>1, <2>2 DEF _mact_add, Desc
  <2>3. CASE _mact_add(a, d, [desc[d] EXCEPT !.stid = a, !.utid = NoThread])
    BY <1>2, <2>1, <2>3 DEF _mact_add, Desc
  <2> QED
    BY <1>3, <2>2, <2>3
<1>5. SteadyItself(a)
  <2>1. Serves(a) => own[a] \in Descriptor
    BY ServesHasOwn, OwnIsApart
  <2>2. desc'[own[a]].waiters = desc[own[a]].waiters \/ ~Serves(a)
    BY <1>4, <2>1
  <2> QED
    BY <1>1, <1>2, <2>2, BusyStep DEF Busy
<1>6. OthersStay(a)
  BY <1>2 DEF OthersStay
<1>7. WaitersStay(a)
  <2>1. Apart(d, a)
    BY <1>1, HeldIsApart
  <2> QED
    BY <1>4, <2>1, WaitersStayIf
<1> QED
  BY <1>5, <1>6, <1>7, QueuedParts, SteadyIf
-----------------------------------------------------------------------------
(* A task that has marked itself complete stays so until it gives its      *)
(* descriptor back: nobody but a sleeper is put to sleep or woken.         *)
LEMMA NotOverYet ==
  ASSUME LooksInv, Marked, NEW c \in Thread, NEW d, WasOf(d, c), ~Over(d, c),
         pc[c] # "gone"
  PROVE  Runs(c) /\ d = own[c]
BY DEF WasOf, Marked, Ending, Over

LEMMA EndingHasOwn ==
  ASSUME TasksInv, NEW c \in Thread, Ending(c)
  PROVE  Alive(c) /\ ~InWait(c) /\ own[c] \in Descriptor /\ own[c] <= total_count
<1>1. Alive(c) /\ ~InWait(c)
  BY DEF Ending, Ended, Alive, InWait
<1> QED
  BY <1>1, OwnIsApart

LEMMA MarkedIf ==
  ASSUME TasksInv, Marked, NEW a \in Thread,
         \A u \in Thread \ {a} :
           \/ pc'[u] = pc[u] /\ own'[u] = own[u]
           \/ pc'[u] \in {"chosen", "born"},
         \A u \in Thread \ {a} : Ending(u) => desc'[own[u]].state = desc[own[u]].state,
         Ending(a)' => desc'[own'[a]].state = "TS_Complete"
  PROVE  Marked'
<1>1. ASSUME NEW u \in Thread \ {a}, Ending(u)' PROVE desc'[own'[u]].state = "TS_Complete"
  <2>1. pc'[u] = pc[u] /\ own'[u] = own[u] /\ Ending(u)
    BY <1>1 DEF Ending, Ended
  <2> QED
    BY <2>1 DEF Marked
<1> QED
  BY <1>1 DEF Marked, Ending, Ended

(* Steps that write to no descriptor.                                      *)
LEMMA QuietMarked ==
  ASSUME TasksInv, Marked, NEW a \in Thread,
         \/ _mact_find_self(a) \/ find_self_step(a) \/ tskstart_return(a)
         \/ \E c \in Thread : tskstart_(a, c) \/ tskwait_(a, c)
         \/ tskwait_look(a) \/ tskwait_dec(a)
         \/ CHECK_FOR_MACT_DEADLOCK(a) \/ tskwait_return(a)
         \/ delete_inc(a) \/ delete_next(a) \/ delete_dec(a)
  PROVE  Marked'
<1>1. desc' = desc /\ own' = own /\ pc \in [Thread -> Pc]
  BY DEF _mact_find_self, find_self_step, tskstart_return, tskstart_, tskwait_, tskwait_look,
         tskwait_dec, CHECK_FOR_MACT_DEADLOCK, tskwait_return, delete_inc, delete_next,
         delete_dec, locals, program, TasksInv, Typed
<1>2. \A u \in Thread \ {a} : pc'[u] = pc[u] \/ pc'[u] \in {"chosen", "born"}
  BY <1>1
     DEF _mact_find_self, find_self_step, tskstart_return, tskstart_, tskwait_, tskwait_look,
         tskwait_dec, CHECK_FOR_MACT_DEADLOCK, tskwait_return, delete_inc, delete_next,
         delete_dec, Return, Goto
<1>3. Ending(a)' => Ending(a)
  <2>1. CASE \/ _mact_find_self(a) \/ find_self_step(a) \/ tskstart_return(a)
             \/ \E c \in Thread : tskstart_(a, c) \/ tskwait_(a, c)
             \/ tskwait_look(a) \/ tskwait_dec(a)
             \/ CHECK_FOR_MACT_DEADLOCK(a) \/ tskwait_return(a)
    <3>1. pc'[a] \in {"find", "find_allocate", "user", "allocate", "chosen", "look", "join",
                      "check", "spin"}
      BY <1>1, <2>1
         DEF _mact_find_self, find_self_step, tskstart_return, tskstart_, tskwait_,
             tskwait_look, tskwait_dec, CHECK_FOR_MACT_DEADLOCK, tskwait_return, Return,
             At, Goto
    <3> QED
      BY <3>1 DEF Ending, Ended
  <2>2. CASE delete_inc(a) \/ delete_next(a) \/ delete_dec(a)
    BY <2>2 DEF delete_inc, delete_next, delete_dec, At, Ending, Ended
  <2> QED
    BY <2>1, <2>2
<1>4. Ending(a)' => desc'[own'[a]].state = "TS_Complete"
  BY <1>1, <1>3 DEF Marked
<1> QED
  BY <1>1, <1>2, <1>4, MarkedIf

(* A thread allocates descriptors, and writes to the one it has in hand.   *)
LEMMA InHandMarked ==
  ASSUME TasksInv, Marked, NEW a \in Thread,
         \/ find_self_allocate(a) \/ tskstart_allocate(a) \/ tskstart_ready(a)
         \/ tskstart_fill(a) \/ find_self_add(a)
         \/ _mact_start_macrotask(a) \/ start_macrotask_add(a)
  PROVE  Marked'
<1>1. /\ pc \in [Thread -> Pc] /\ own \in [Thread -> MtOrNull]
      /\ desc \in [Descriptor -> Desc]
  BY DEF TasksInv, Typed
<1>2. \A u \in Thread \ {a} :
        \/ pc'[u] = pc[u] /\ own'[u] = own[u]
        \/ pc'[u] \in {"chosen", "born"}
  <2>1. CASE tskstart_fill(a)
    <3>1. PICK c \in Thread : c = arg[a]
      BY <2>1 DEF tskstart_fill, At, TasksInv, Lives, Starting
    <3> QED
      BY <1>1, <2>1, <3>1 DEF tskstart_fill
  <2>2. CASE ~tskstart_fill(a)
    BY <1>1, <2>2
       DEF find_self_allocate, tskstart_allocate, tskstart_ready, find_self_add,
           _mact_start_macrotask, start_macrotask_add, Goto, locals
  <2> QED
    BY <2>1, <2>2
<1>3. pc'[a] \in {"find_add", "ready", "fill", "argv", "born", "user", "add"}
  BY <1>1
     DEF find_self_allocate, tskstart_allocate, tskstart_ready, tskstart_fill, find_self_add,
         _mact_start_macrotask, start_macrotask_add, Goto
<1>4. ~Ending(a)'
  BY <1>3 DEF Ending, Ended
<1>5. ASSUME NEW u \in Thread \ {a}, Ending(u)
      PROVE  desc'[own[u]].state = desc[own[u]].state
  <2>1. PICK d \in Descriptor : d = own[u] /\ d <= total_count
    BY <1>5, EndingHasOwn
  <2>2. Holds(a) => Held(a) # d
    BY <1>5, <2>1, EndingHasOwn, OwnIsApart
  <2>3. CASE find_self_allocate(a) \/ tskstart_allocate(a)
    <3>1. CASE desc' = desc
      BY <2>1, <3>1
    <3>2. CASE get_more_mt_descriptors
      <4>1. PICK last, garbage :
              desc' = Initialised(last, garbage) /\ last = total_count + MTS_TO_GET
        BY <3>2 DEF get_more_mt_descriptors
      <4>2. total_count \in Nat /\ MTS_TO_GET \in Nat \ {0} /\ d \in Nat
        BY MtAssumption DEF TasksInv, Typed, Descriptor
      <4>3. d \notin total_count + 1 .. last - 1 /\ d # last
        BY <2>1, <4>1, <4>2
      <4>4. desc'[d] = desc[d]
        BY <4>1, <4>3, Zenon DEF Initialised
      <4> QED
        BY <2>1, <4>4
    <3> QED
      BY <2>3, <3>1, <3>2 DEF find_self_allocate, tskstart_allocate, _mact_allocate
  <2>4. CASE tskstart_ready(a)
    <3>1. mt[a] # d
      BY <2>2, <2>4 DEF tskstart_ready, At, Holds, Held
    <3> QED
      BY <1>1, <2>1, <2>4, <3>1 DEF tskstart_ready
  <2>5. CASE tskstart_fill(a)
    <3>1. mt[a] # d
      BY <2>2, <2>5 DEF tskstart_fill, At, Holds, Held
    <3> QED
      BY <1>1, <2>1, <2>5, <3>1 DEF tskstart_fill
  <2>6. CASE find_self_add(a)
    <3>1. mt[a] # d
      BY <2>2, <2>6 DEF find_self_add, At, Holds, Held
    <3> QED
      BY <1>1, <2>1, <2>6, <3>1 DEF find_self_add, _mact_add
  <2>7. CASE _mact_start_macrotask(a)
    <3>1. own[a] # d
      BY <2>2, <2>7 DEF _mact_start_macrotask, At, Holds, Held
    <3> QED
      BY <1>1, <2>1, <2>7, <3>1 DEF _mact_start_macrotask
  <2>8. CASE start_macrotask_add(a)
    <3>1. own[a] # d
      BY <2>2, <2>8 DEF start_macrotask_add, At, Holds, Held
    <3> QED
      BY <1>1, <2>1, <2>8, <3>1 DEF start_macrotask_add, _mact_add
  <2> QED
    BY <2>3, <2>4, <2>5, <2>6, <2>7, <2>8
<1> QED
  BY <1>2, <1>4, <1>5, MarkedIf

(* A waiter joins; a task ends.                                            *)
LEMMA JoinMarked ==
  ASSUME TasksInv, Marked, NEW a \in Thread, tskwait_join(a)
  PROVE  Marked'
<1>1. /\ pc \in [Thread -> Pc] /\ UNCHANGED own /\ desc \in [Descriptor -> Desc]
      /\ \A u \in Thread \ {a} : pc'[u] = pc[u]
      /\ pc'[a] \in {"user", "dec", "hung"}
  BY DEF tskwait_join, Return, Goto, TasksInv, Typed
<1>2. ~Ending(a)'
  BY <1>1 DEF Ending, Ended
<1>3. ASSUME NEW u \in Thread \ {a}, Ending(u)
      PROVE  desc'[own[u]].state = desc[own[u]].state
  <2>1. PICK d \in Descriptor : d = own[u] /\ desc[d].stid = u
    <3>1. Alive(u) /\ own[u] \in Descriptor
      BY <1>3, EndingHasOwn
    <3> QED
      BY <3>1 DEF TasksInv, Lives
  <2>2. CASE desc' = desc
    BY <2>2
  <2>3. CASE desc' = [desc EXCEPT ![mt[a]].sem = a]
    BY <1>1, <2>1, <2>3 DEF Desc
  <2>4. CASE Self(a) # NULL /\ desc' = Joined(a, Self(a))
    <3>1. PICK self \in Descriptor : self = Self(a) /\ desc[self].stid = a
      BY <2>4, SelfTyped, Descriptors
    <3>2. self # d
      BY <2>1, <3>1
    <3> QED
      BY <1>1, <2>1, <2>4, <3>1, <3>2 DEF Joined, Desc
  <2> QED
    BY <2>2, <2>3, <2>4 DEF tskwait_join
<1> QED
  BY <1>1, <1>2, <1>3, MarkedIf

LEMMA DeleteMarked ==
  ASSUME TasksInv, NEW w, Queued(w), Marked, NEW a \in Thread,
         \/ _mact_delete(a) \/ delete_wait(a) \/ delete_wake(a) \/ delete_woken(a)
         \/ delete_unlink(a)
  PROVE  Marked'
<1>1. /\ pc \in [Thread -> Pc] /\ own \in [Thread -> MtOrNull]
      /\ desc \in [Descriptor -> Desc]
      /\ \A u \in Thread \ {a} : pc'[u] = pc[u] /\ own'[u] = own[u]
  BY DEF _mact_delete, delete_wait, delete_wake, delete_woken, delete_unlink, Goto, TasksInv,
         Typed, locals
<1>2. Alive(a)
  BY DEF _mact_delete, delete_wait, delete_wake, delete_woken, delete_unlink, At, Alive
<1>3. own[a] \in Descriptor
  BY <1>2, OwnIsApart
<1>4. ASSUME delete_wake(a)
      PROVE  mt[a] \in Descriptor /\ \A u \in Thread : Ending(u) => own[u] # mt[a]
  <2>1. PICK d \in Descriptor : d = mt[a] /\ pc[a] = "mark"
    BY <1>4, Descriptors DEF delete_wake, At, TasksInv, Typed
  <2>2. Serves(a) /\ FirstToWake(a) = d
    BY <2>1 DEF Serves, FirstToWake
  <2>3. w[a] \in Seq(Descriptor) /\ IsList(w[a], d, WaitLink, NULL)
    BY <2>2 DEF Queued
  <2>4. d \in Nodes(w[a])
    BY <2>3, Descriptors, EndsOfList
  <2>5. PICK t \in Thread : InWait(t) /\ my_mt[t] = d
    BY <2>4 DEF Queued
  <2>6. \A u \in Thread : Ending(u) => u # t /\ Alive(u)
    BY <2>5, EndingHasOwn
  <2> QED
    BY <2>1, <2>5, <2>6, SleeperIsApart
<1>5. ASSUME NEW u \in Thread, Ending(u), ~delete_unlink(a)
      PROVE  desc'[own[u]].state = desc[own[u]].state \/ desc'[own[u]].state = "TS_Complete"
  <2>1. PICK d \in Descriptor : d = own[u]
    BY <1>5, EndingHasOwn
  <2>2. CASE _mact_delete(a)
    BY <1>1, <1>3, <2>1, <2>2 DEF _mact_delete
  <2>3. CASE delete_wait(a)
    BY <1>1, <2>1, <2>3 DEF delete_wait, Desc
  <2>4. CASE delete_wake(a)
    <3>1. mt[a] # d
      BY <1>4, <1>5, <2>1, <2>4
    <3> QED
      BY <1>1, <2>1, <2>4, <3>1 DEF delete_wake
  <2>5. CASE delete_woken(a)
    BY <1>1, <2>1, <2>5 DEF delete_woken, Desc
  <2> QED
    BY <1>5, <2>2, <2>3, <2>4, <2>5
<1>6. ASSUME NEW u \in Thread \ {a}, Ending(u), delete_unlink(a)
      PROVE  desc'[own[u]].state = desc[own[u]].state
  <2>1. PICK d \in Descriptor : d = own[u] /\ d # own[a]
    BY <1>2, <1>6, EndingHasOwn, OwnIsApart
  <2>2. desc[d] \in Desc
    BY <1>1
  <2>3. desc'[d] = Unlinked(MT_HASH(a), own[a])[d]
    BY <1>6, <2>1, Zenon DEF delete_unlink, Unlinked
  <2>4. desc'[d] = [desc[d] EXCEPT !.link = desc[own[a]].link] \/ desc'[d] = desc[d]
    BY <2>3, Zenon DEF Unlinked
  <2> QED
    BY <2>1, <2>2, <2>4 DEF Desc
<1>7. Ending(a)' => desc'[own'[a]].state = "TS_Complete"
  <2>1. CASE _mact_delete(a)
    <3>1. desc'[own[a]].state = "TS_Complete" /\ own' = own
      BY <1>1, <1>3, <2>1 DEF _mact_delete, Desc, locals
    <3> QED
      BY <3>1
  <2>2. CASE delete_wait(a) \/ delete_wake(a) \/ delete_woken(a)
    <3>1. Ending(a) /\ own' = own /\ ~delete_unlink(a)
      BY <2>2 DEF delete_wait, delete_wake, delete_woken, delete_unlink, At, Ending, Ended,
                  locals
    <3>2. desc[own[a]].state = "TS_Complete"
      BY <3>1 DEF Marked
    <3> QED
      BY <1>5, <3>1, <3>2
  <2>3. CASE delete_unlink(a)
    BY <1>1, <2>3 DEF delete_unlink, Goto, Ending
  <2> QED
    BY <2>1, <2>2, <2>3
<1>8. \A u \in Thread \ {a} : Ending(u) => desc'[own[u]].state = desc[own[u]].state
  BY <1>5, <1>6 DEF Marked
<1> QED
  BY <1>1, <1>7, <1>8, MarkedIf

LEMMA MarkedNext ==
  ASSUME TasksInv, NEW w, Queued(w), Marked, [Next]_vars
  PROVE  Marked'
<1>1. CASE UNCHANGED vars
  BY <1>1 DEF Marked, Ending, Ended, vars, locals
<1>2. CASE Next
  <2>1. PICK t \in Thread :
          \/ InRuntime(t)
          \/ _mact_find_self(t)
          \/ _mact_delete(t)
          \/ \E c \in Thread : tskstart_(t, c) \/ tskwait_(t, c)
    BY <1>2 DEF Next
  <2> QED
    BY <2>1, QuietMarked, InHandMarked, JoinMarked, DeleteMarked DEF InRuntime
<1> QED
  BY <1>1, <1>2

-----------------------------------------------------------------------------
(* A task joins the waiters of another.                                    *)
LEMMA JoinedQueued ==
  ASSUME TasksInv, LooksInv, NEW w, Queued(w), Marked, NEW a \in Thread, Kept(a),
         tskwait_join(a), ~Over(mt[a], arg[a]), Self(a) # NULL, ~mishap'
  PROVE  \E w2 : Queued(w2)'
<1>1. PICK c \in Thread : c = arg[a] /\ c # a /\ pc[a] = "join"
  BY QueuedParts DEF tskwait_join, At, TasksInv, Lives
<1>2. PICK self : self = Self(a)
  OBVIOUS
<1>3. /\ pc \in [Thread -> Pc] /\ pc' = [pc EXCEPT ![a] = "dec"]
      /\ my_mt \in [Thread -> MtOrNull] /\ my_mt' = [my_mt EXCEPT ![a] = self]
      /\ UNCHANGED <<own, arg, mt, joined>>
      /\ desc \in [Descriptor -> Desc] /\ desc' = Joined(a, self)
      /\ ~StoodOn(self) /\ pc[c] # "gone"
  BY <1>1, <1>2 DEF tskwait_join, Goto, TasksInv, Typed
<1>4. Runs(c) /\ mt[a] = own[c]
  <2>1. WasOf(mt[a], c)
    BY <1>1 DEF LooksInv
  <2> QED
    BY <1>1, <1>3, <2>1, NotOverYet
<1>5. /\ self \in Descriptor /\ desc[self].stid = a
      /\ self \in Nodes(HashLists[MT_HASH(a)])
  BY <1>2, SelfTyped, Descriptors
<1>6. PICK e \in Descriptor : e = own[c] /\ desc[e].stid = c
  <2>1. own[c] \in Descriptor
    BY <1>4, OwnIsApart DEF HasOwn
  <2>2. Alive(c) \/ pc[c] = "add"
    BY <1>4 DEF Runs, Ended, Alive
  <2> QED
    BY <2>1, <2>2 DEF TasksInv, Lives
<1>7. e # self
  BY <1>1, <1>5, <1>6
<1>8. /\ desc'[self] = [desc[self] EXCEPT !.wait_link = desc[e].waiters,
                                          !.state = "TS_Task_Wait"]
      /\ desc'[e] = [desc[e] EXCEPT !.waiters = self]
      /\ \A d \in Descriptor \ {e, self} : desc'[d] = desc[d]
  BY <1>3, <1>4, <1>5, <1>6, <1>7 DEF Joined
<1>9. /\ desc'[self].wait_link = desc[e].waiters /\ desc'[self].state = "TS_Task_Wait"
      /\ desc'[e].waiters = self
      /\ \A d \in Descriptor \ {self} : desc'[d].wait_link = desc[d].wait_link
                                        /\ desc'[d].state = desc[d].state
      /\ \A d \in Descriptor \ {e} : desc'[d].waiters = desc[d].waiters
      /\ \A d \in Descriptor : desc'[d].stid = desc[d].stid
  <2>1. desc[self] \in Desc /\ desc[e] \in Desc
    BY <1>3, <1>5, <1>6
  <2>2. /\ desc'[self].wait_link = desc[e].waiters /\ desc'[self].state = "TS_Task_Wait"
        /\ desc'[self].waiters = desc[self].waiters /\ desc'[self].stid = desc[self].stid
    BY <1>8, <2>1 DEF Desc
  <2>3. /\ desc'[e].wait_link = desc[e].wait_link /\ desc'[e].state = desc[e].state
        /\ desc'[e].waiters = self /\ desc'[e].stid = desc[e].stid
    BY <1>8, <2>1 DEF Desc
  <2> QED
    BY <1>8, <2>2, <2>3
<1>10. \A t \in Thread : InWait(t) => my_mt[t] \in Descriptor \ {self} /\ t # a
  <2>1. ~InWait(a)
    BY <1>1 DEF InWait
  <2> QED
    BY <1>5, <2>1, SleeperIsApart
<1>11. \A u \in Thread : \A d \in Nodes(w[u]) : d \in Descriptor \ {self}
  BY <1>10 DEF Queued
<1>12. \A u \in Thread : /\ Serves(u)' <=> Serves(u)
                         /\ Ended(u)' <=> Ended(u)
                         /\ InWait(u)' <=> InWait(u) \/ u = a
  BY <1>1, <1>3 DEF Serves, Runs, Ended, InWait
<1>13. /\ Serves(c) /\ FirstToWake(c) = desc[e].waiters /\ FirstToWake(c)' = self
  BY <1>3, <1>4, <1>6, <1>9, <1>1 DEF Serves, FirstToWake, Runs, Ended
<1>14. NULL \notin Descriptor
  BY Descriptors
<1>15. w \in [Thread -> Seq(Descriptor)]
  BY DEF Queued
<1>16. PICK r \in Seq(Descriptor) :
         IsList(r, self, WaitLink', NULL) /\ Nodes(r) = Nodes(w[c]) \cup {self}
  <2>1. w[c] \in Seq(Descriptor) /\ IsList(w[c], FirstToWake(c), WaitLink, NULL)
    BY <1>13, <1>15 DEF Queued
  <2>2. self \in Descriptor \ Nodes(w[c])
    BY <1>5, <1>11
  <2>3. WaitLink'[self] = FirstToWake(c)
    BY <1>5, <1>9, <1>13 DEF WaitLink
  <2>4. \A d \in Nodes(w[c]) : WaitLink'[d] = WaitLink[d]
    BY <1>9, <1>11 DEF WaitLink
  <2> QED
    BY <1>14, <2>1, <2>2, <2>3, <2>4, ListGrowsAtHead
<1>17. PICK w2 : w2 = [w EXCEPT ![c] = r]
  OBVIOUS
<1>18. /\ w2 \in [Thread -> Seq(Descriptor)] /\ w2[c] = r
       /\ \A u \in Thread \ {c} : w2[u] = w[u]
       /\ \A u \in Thread : \A d : d \in Nodes(w2[u]) <=> d \in Nodes(w[u]) \/ (u = c /\ d = self)
  BY <1>15, <1>16, <1>17
<1>19. ASSUME NEW u \in Thread
       PROVE  IF Serves(u)' THEN IsList(w2[u], FirstToWake(u)', WaitLink', NULL)
                            ELSE w2[u] = <<>>
  <2>1. CASE u = c
    BY <1>12, <1>13, <1>16, <1>18, <2>1
  <2>2. CASE u # c /\ Serves(u)
    <3>1. own[u] \in Descriptor \ {e}
      <4>1. own[u] \in Descriptor
        BY <2>2, ServesHasOwn, OwnIsApart
      <4>2. own[u] # own[c]
        BY <1>4, <2>2, ServesHasOwn, OwnIsApart DEF HasOwn, Runs, Ended, Holds, Held, Alive
      <4> QED
        BY <1>6, <4>1, <4>2
    <3>2. pc[u] = "next" => mt[u] \in Descriptor \ {self}
      BY <1>3, Descriptors DEF StoodOn, TasksInv, Typed, Lives
    <3>3. pc[u] \in {"inc", "mark", "next"} => pc'[u] = pc[u]
      BY <1>1, <1>3
    <3>4. FirstToWake(u)' = FirstToWake(u)
      <4>1. CASE u = a
        BY <1>1, <1>3, <1>9, <3>1, <4>1 DEF FirstToWake
      <4>2. CASE u # a
        BY <1>3, <1>9, <3>1, <3>2, <4>2 DEF FirstToWake
      <4> QED
        BY <4>1, <4>2
    <3>5. \A d \in Nodes(w[u]) : WaitLink'[d] = WaitLink[d]
      BY <1>9, <1>11 DEF WaitLink
    <3>6. IsList(w[u], FirstToWake(u), WaitLink, NULL)
      BY <2>2 DEF Queued
    <3> QED
      BY <1>12, <1>18, <2>2, <3>4, <3>5, <3>6, ListStays
  <2>3. CASE u # c /\ ~Serves(u)
    BY <1>12, <1>18, <2>3 DEF Queued
  <2> QED
    BY <2>1, <2>2, <2>3
<1>20. InWait(a)' /\ my_mt'[a] = self /\ arg'[a] = c /\ Sleeps(a, w2)'
  <2>1. InWait(a)' /\ my_mt'[a] = self /\ arg'[a] = c
    BY <1>1, <1>3, <1>12
  <2> QED
    BY <1>3, <1>4, <1>6, <1>9, <1>12, <1>13, <1>18, <2>1 DEF Sleeps, Serves, Runs, Ended
<1>21. ASSUME NEW t \in Thread, InWait(t)
       PROVE  /\ InWait(t)' /\ my_mt'[t] = my_mt[t] /\ arg'[t] = arg[t]
              /\ desc'[my_mt[t]].state = desc[my_mt[t]].state
              /\ Sleeps(t, w) => Sleeps(t, w2)'
  <2>1. /\ t # a /\ InWait(t)' /\ my_mt'[t] = my_mt[t] /\ arg'[t] = arg[t] /\ mt'[t] = mt[t]
        /\ desc'[my_mt[t]].state = desc[my_mt[t]].state
    BY <1>3, <1>9, <1>10, <1>12, <1>21
  <2>2. PICK u \in Thread : u = arg[t]
    BY <1>21 DEF TasksInv, Lives, InWait
  <2>3. Serves(u) => Serves(u)' /\ own'[u] = own[u]
    BY <1>3, <1>12
  <2>4. my_mt[t] \in Nodes(w[u]) => my_mt[t] \in Nodes(w2[u])
    BY <1>18
  <2> QED
    BY <2>1, <2>2, <2>3, <2>4 DEF Sleeps, Serves, Runs, Ended
<1>22. ASSUME NEW u \in Thread, NEW d \in Nodes(w2[u])
       PROVE  \E t \in Thread :
                InWait(t)' /\ my_mt'[t] = d /\ arg'[t] = u /\ Sleeps(t, w2)'
  <2>1. CASE u = c /\ d = self
    BY <1>20, <2>1
  <2>2. CASE d \in Nodes(w[u])
    <3>1. PICK t \in Thread : InWait(t) /\ my_mt[t] = d /\ arg[t] = u /\ Sleeps(t, w)
      BY <2>2 DEF Queued
    <3>2. InWait(t)' /\ my_mt'[t] = d /\ arg'[t] = u /\ Sleeps(t, w2)'
      BY <1>21, <3>1
    <3> QED
      BY <3>2
  <2> QED
    BY <1>18, <1>22, <2>1, <2>2
<1>23. ASSUME NEW t \in Thread, InWait(t)'
       PROVE  /\ my_mt'[t] \in Nodes(HashLists'[MT_HASH(t)]) /\ desc'[my_mt'[t]].stid = t
              /\ Sleeps(t, w2)' \/ (desc'[my_mt'[t]].state = "TS_Running" /\ Ended(arg[t])')
  <2>1. \A d \in Nodes(HashLists[MT_HASH(t)]) : d \in Nodes(HashLists'[MT_HASH(t)])
    BY <1>1, HashTyped DEF Kept
  <2>2. CASE t = a
    BY <1>5, <1>9, <1>20, <2>1, <2>2
  <2>3. CASE InWait(t)
    <3>1. /\ my_mt[t] \in Nodes(HashLists[MT_HASH(t)]) /\ desc[my_mt[t]].stid = t
          /\ Sleeps(t, w) \/ (desc[my_mt[t]].state = "TS_Running" /\ Ended(arg[t]))
      BY <2>3 DEF Queued
    <3>2. PICK u \in Thread : u = arg[t]
      BY <2>3 DEF TasksInv, Lives, InWait
    <3>3. Ended(arg[t]) => Ended(arg[t])'
      BY <1>3, <1>12, <3>2 DEF Ended
    <3>4. desc'[my_mt[t]].stid = desc[my_mt[t]].stid
      BY <1>9, <1>10, <2>3
    <3>5. my_mt'[t] = my_mt[t] /\ desc'[my_mt[t]].state = desc[my_mt[t]].state
      BY <1>21, <2>3
    <3>6. Sleeps(t, w) => Sleeps(t, w2)'
      BY <1>21, <2>3
    <3> QED
      BY <2>1, <3>1, <3>3, <3>4, <3>5, <3>6
  <2> QED
    BY <1>12, <1>23, <2>2, <2>3
<1>24. \A t \in Thread : pc'[t] \in {"look", "join"} => arg'[t] # t
  BY <1>3, QueuedParts
<1>25. WaitMeansEnded'
  <2>1. \A t \in Thread : \A d \in joined[t] : d \in Thread /\ Ended(d)
    BY DEF Queued, WaitMeansEnded, TasksInv, Typed
  <2> QED
    BY <1>3, <1>12, <2>1 DEF WaitMeansEnded
<1>26. Queued(w2)'
  BY <1>18, <1>19, <1>22, <1>23, <1>24, <1>25 DEF Queued
<1> QED
  BY <1>26
(* A task that ends lets the first of its waiters go.                      *)
LEMMA WokenQueued ==
  ASSUME TasksInv, NEW w, Queued(w), NEW a \in Thread, Kept(a), delete_wake(a)
  PROVE  \E w2 : Queued(w2)'
<1>1. PICK d \in Descriptor : d = mt[a] /\ pc[a] = "mark"
  BY Descriptors DEF delete_wake, At, TasksInv, Typed
<1>2. /\ pc \in [Thread -> Pc] /\ pc' = [pc EXCEPT ![a] = "next"]
      /\ UNCHANGED <<own, arg, my_mt, mt, joined>>
      /\ desc \in [Descriptor -> Desc]
      /\ desc' = [desc EXCEPT ![d].state = "TS_Running"]
  BY <1>1 DEF delete_wake, Goto, TasksInv, Typed, locals, program
<1>3. /\ desc'[d].state = "TS_Running"
      /\ \A e \in Descriptor \ {d} : desc'[e].state = desc[e].state
      /\ \A e \in Descriptor : /\ desc'[e].wait_link = desc[e].wait_link
                               /\ desc'[e].waiters = desc[e].waiters
                               /\ desc'[e].stid = desc[e].stid
  BY <1>2 DEF Desc
<1>4. NULL \notin Descriptor /\ w \in [Thread -> Seq(Descriptor)]
  BY Descriptors DEF Queued
<1>5. /\ Serves(a) /\ FirstToWake(a) = d /\ FirstToWake(a)' = WaitLink[d]
      /\ w[a] \in Seq(Descriptor) /\ IsList(w[a], d, WaitLink, NULL)
  <2>1. Serves(a) /\ FirstToWake(a) = d
    BY <1>1 DEF Serves, FirstToWake
  <2>2. FirstToWake(a)' = WaitLink[d]
    BY <1>1, <1>2, <1>3 DEF FirstToWake, WaitLink
  <2> QED
    BY <1>4, <2>1, <2>2 DEF Queued
<1>6. WaitLink' = WaitLink
  BY <1>3 DEF WaitLink
<1>7. w[a] # <<>> /\ d \in Nodes(w[a])
  BY <1>4, <1>5, EndsOfList
<1>8. PICK r \in Seq(Descriptor) :
        IsList(r, WaitLink[d], WaitLink, NULL) /\ Nodes(r) = Nodes(w[a]) \ {d}
  <2>1. PICK q, next : q \in Seq(Descriptor) /\ q = w[a] /\ next = WaitLink
    BY <1>5
  <2>2. q \in Seq(Descriptor) /\ IsList(q, d, next, NULL) /\ q # <<>>
    BY <1>5, <1>7, <2>1
  <2>3. /\ Tail(q) \in Seq(Descriptor) /\ IsList(Tail(q), next[d], next, NULL)
        /\ Nodes(Tail(q)) = Nodes(q) \ {d}
    BY <1>4, <2>2, ListLosesHead
  <2> QED
    BY <2>1, <2>3
<1>9. PICK woken \in Thread :
        InWait(woken) /\ my_mt[woken] = d /\ arg[woken] = a /\ desc[d].stid = woken
  <2>1. PICK t \in Thread : InWait(t) /\ my_mt[t] = d /\ arg[t] = a
    BY <1>7 DEF Queued
  <2>2. desc[d].stid = t
    BY <2>1, SleeperIsApart
  <2> QED
    BY <2>1, <2>2
<1>10. \A t \in Thread : InWait(t) => my_mt[t] \in Descriptor /\ (my_mt[t] = d => t = woken)
  BY <1>9, SleeperIsApart
<1>11. PICK w2 : w2 = [w EXCEPT ![a] = r]
  OBVIOUS
<1>12. /\ w2 \in [Thread -> Seq(Descriptor)] /\ w2[a] = r
       /\ \A u \in Thread \ {a} : w2[u] = w[u]
  BY <1>4, <1>11
<1>13. \A u \in Thread : /\ Serves(u)' <=> Serves(u)
                         /\ Ended(u)' <=> Ended(u)
                         /\ InWait(u)' <=> InWait(u)
  BY <1>1, <1>2 DEF Serves, Runs, Ended, InWait
<1>14. ASSUME NEW u \in Thread
       PROVE  IF Serves(u)' THEN IsList(w2[u], FirstToWake(u)', WaitLink', NULL)
                            ELSE w2[u] = <<>>
  <2>1. CASE u = a
    BY <1>5, <1>6, <1>8, <1>12, <1>13, <2>1
  <2>2. CASE u # a /\ Serves(u)
    <3>1. own[u] \in Descriptor
      BY <2>2, ServesHasOwn, OwnIsApart
    <3>2. pc[u] = "next" => mt[u] \in Descriptor
      BY Descriptors DEF TasksInv, Typed, Lives
    <3>3. FirstToWake(u)' = FirstToWake(u)
      BY <1>2, <1>3, <2>2, <3>1, <3>2 DEF FirstToWake
    <3> QED
      BY <1>6, <1>12, <1>13, <2>2, <3>3 DEF Queued
  <2>3. CASE u # a /\ ~Serves(u)
    BY <1>12, <1>13, <2>3 DEF Queued
  <2> QED
    BY <2>1, <2>2, <2>3
<1>15. ASSUME NEW t \in Thread, InWait(t), my_mt[t] # d
       PROVE  /\ desc'[my_mt[t]].state = desc[my_mt[t]].state
              /\ Sleeps(t, w) => Sleeps(t, w2)'
  <2>1. desc'[my_mt[t]].state = desc[my_mt[t]].state
    BY <1>3, <1>10, <1>15
  <2>2. PICK u \in Thread : u = arg[t]
    BY <1>15 DEF TasksInv, Lives, InWait
  <2>3. Serves(u) => Serves(u)'
    BY <1>13
  <2>4. my_mt[t] \in Nodes(w[u]) => my_mt[t] \in Nodes(w2[u])
    BY <1>8, <1>12, <1>15
  <2> QED
    BY <1>2, <2>1, <2>2, <2>3, <2>4 DEF Sleeps, Serves, Runs, Ended
<1>16. ASSUME NEW u \in Thread, NEW e \in Nodes(w2[u])
       PROVE  \E t \in Thread :
                InWait(t)' /\ my_mt'[t] = e /\ arg'[t] = u /\ Sleeps(t, w2)'
  <2>1. e \in Nodes(w[u]) /\ (u = a => e # d)
    BY <1>8, <1>12, <1>16
  <2>2. PICK t \in Thread : InWait(t) /\ my_mt[t] = e /\ arg[t] = u /\ Sleeps(t, w)
    BY <2>1 DEF Queued
  <2>3. e # d
    BY <1>9, <1>10, <2>1, <2>2
  <2>4. InWait(t)' /\ Sleeps(t, w2)'
    BY <1>13, <1>15, <2>2, <2>3
  <2> QED
    BY <1>2, <2>2, <2>4
<1>17. ASSUME NEW t \in Thread, InWait(t)'
       PROVE  /\ my_mt'[t] \in Nodes(HashLists'[MT_HASH(t)]) /\ desc'[my_mt'[t]].stid = t
              /\ Sleeps(t, w2)' \/ (desc'[my_mt'[t]].state = "TS_Running" /\ Ended(arg[t])')
  <2>1. /\ InWait(t) /\ my_mt[t] \in Nodes(HashLists[MT_HASH(t)]) /\ desc[my_mt[t]].stid = t
        /\ Sleeps(t, w) \/ (desc[my_mt[t]].state = "TS_Running" /\ Ended(arg[t]))
    BY <1>13, <1>17 DEF Queued
  <2>2. my_mt[t] \in Nodes(HashLists'[MT_HASH(t)])
    BY <1>1, <2>1, HashTyped DEF Kept
  <2>3. my_mt'[t] = my_mt[t] /\ desc'[my_mt[t]].stid = desc[my_mt[t]].stid
    BY <1>2, <1>3, <1>10, <2>1
  <2>4. PICK u \in Thread : u = arg[t]
    BY <2>1 DEF TasksInv, Lives, InWait
  <2>5. Ended(arg[t]) => Ended(arg[t])'
    BY <1>2, <1>13, <2>4 DEF Ended
  <2>6. CASE my_mt[t] = d
    <3>1. u = a /\ Ended(a)'
      BY <1>2, <1>9, <1>10, <2>1, <2>4, <2>6 DEF Ended
    <3>2. Ended(arg[t])'
      BY <1>2, <2>4, <3>1 DEF Ended
    <3> QED
      BY <1>3, <2>1, <2>2, <2>3, <2>6, <3>2
  <2>7. CASE my_mt[t] # d
    BY <1>15, <2>1, <2>2, <2>3, <2>5, <2>7
  <2> QED
    BY <2>6, <2>7
<1>18. \A t \in Thread : pc'[t] \in {"look", "join"} => arg'[t] # t
  BY <1>2, QueuedParts
<1>19. WaitMeansEnded'
  <2>1. \A t \in Thread : \A c \in joined[t] : c \in Thread /\ Ended(c)
    BY DEF Queued, WaitMeansEnded, TasksInv, Typed
  <2> QED
    BY <1>2, <1>13, <2>1 DEF WaitMeansEnded
<1>20. Queued(w2)'
  BY <1>12, <1>14, <1>16, <1>17, <1>18, <1>19 DEF Queued
<1> QED
  BY <1>20
-----------------------------------------------------------------------------
LEMMA MishapsStay ==
  ASSUME [Next]_vars, Typed, mishap
  PROVE  mishap'
<1>1. CASE UNCHANGED vars
  BY <1>1 DEF vars, program
<1>2. CASE Next
  <2>1. PICK t \in Thread :
          \/ InRuntime(t)
          \/ _mact_find_self(t)
          \/ _mact_delete(t)
          \/ \E c \in Thread : tskstart_(t, c) \/ tskwait_(t, c)
    BY <1>2 DEF Next
  <2>2. CASE InRuntime(t)
    BY <2>2
       DEF InRuntime, find_self_step, find_self_allocate, find_self_add, tskstart_allocate,
           tskstart_ready, tskstart_fill, tskstart_return, _mact_start_macrotask,
           start_macrotask_add, tskwait_look, tskwait_join, tskwait_dec,
           CHECK_FOR_MACT_DEADLOCK, tskwait_return, delete_wait, delete_inc, delete_wake,
           delete_next, delete_woken, delete_dec, delete_unlink, program
  <2>3. CASE _mact_find_self(t) \/ _mact_delete(t)
    BY <2>3 DEF _mact_find_self, _mact_delete, program
  <2>4. CASE \E c \in Thread : tskstart_(t, c) \/ tskwait_(t, c)
    BY <2>4 DEF tskstart_, tskwait_, program
  <2> QED
    BY <2>1, <2>2, <2>3, <2>4
<1> QED
  BY <1>1, <1>2

LEMMA QueuedStutters ==
  ASSUME TasksInv, NEW w, Queued(w), UNCHANGED vars
  PROVE  Queued(w)'
<1>1. UNCHANGED <<pc, arg, own, my_mt, mt, joined, desc, hash>>
  BY DEF vars, locals, program, lists
<1>2. /\ Steady
      /\ HashLists' = HashLists
  <2>1. HashLists' = HashLists
    BY <1>1 DEF HashLists, Link
  <2>2. Steady
    BY <1>1, QueuedParts DEF Steady, Serves, Runs, Ended, InWait, FirstToWake
  <2> QED
    BY <2>1, <2>2
<1>3. \A t \in Thread : Kept(t)
  BY <1>2 DEF Kept
<1>4. TasksInv'
  BY NextKeeps
<1>5. Main \in Thread
  BY ThreadAssumption
<1> QED
  BY <1>2, <1>3, <1>4, <1>5, SteadyStep

LEMMA QueuedNext ==
  ASSUME TasksInv, LooksInv, NEW w, Queued(w), Marked, Next, ~mishap'
  PROVE  \E w2 : Queued(w2)'
<1>1. PICK t \in Thread :
        \/ InRuntime(t)
        \/ _mact_find_self(t)
        \/ _mact_delete(t)
        \/ \E c \in Thread : tskstart_(t, c) \/ tskwait_(t, c)
  BY DEF Next
<1>2. TasksInv' /\ Kept(t)
  <2>1. TasksInv'
    BY NextKeeps
  <2>2. Kept(t)
    BY <1>1, FindSelfKeeps, FindSelfStepKeeps, AllocateKeeps, FindSelfAddKeeps,
       TskstartKeeps, TskstartReadyKeeps, TskstartFillKeeps, TskstartReturnKeeps,
       StartMacrotaskKeeps, StartMacrotaskAddKeeps, TskwaitKeeps, TskwaitLookKeeps,
       TskwaitJoinKeeps, TskwaitDecKeeps, CheckForMactDeadlockKeeps, TskwaitReturnKeeps,
       DeleteKeeps, DeleteWaitKeeps, DeleteIncKeeps, DeleteWakeKeeps, DeleteNextKeeps,
       DeleteWokenKeeps, DeleteDecKeeps, DeleteUnlinkKeeps
      DEF InRuntime
  <2> QED
    BY <2>1, <2>2
<1>3. CASE Steady
  <2>1. Queued(w)'
    BY <1>2, <1>3, SteadyStep
  <2> QED
    BY <2>1
<1>4. CASE _mact_find_self(t) \/ find_self_step(t) \/ find_self_allocate(t) \/ find_self_add(t)
  BY <1>3, <1>4, FindSelfSteady, AllocateSteady, AddSteady
<1>5. CASE \E c \in Thread : tskstart_(t, c) \/ tskwait_(t, c)
  BY <1>3, <1>5, TskstartSteady, TskwaitSteady
<1>6. CASE \/ tskstart_allocate(t) \/ tskstart_ready(t) \/ tskstart_fill(t)
           \/ tskstart_return(t)
  BY <1>3, <1>6, AllocateSteady, TskstartReadySteady, TskstartFillSteady,
     TskstartReturnSteady
<1>7. CASE _mact_start_macrotask(t) \/ start_macrotask_add(t)
  BY <1>3, <1>7, StartMacrotaskSteady, AddSteady
<1>8. CASE tskwait_look(t) \/ (tskwait_join(t) /\ Over(mt[t], arg[t]))
  BY <1>3, <1>8, TskwaitLookSteady
<1>9. CASE tskwait_join(t) /\ ~Over(mt[t], arg[t])
  <2>1. CASE Self(t) = NULL
    BY <1>3, <1>9, <2>1, HungSteady
  <2>2. CASE Self(t) # NULL
    BY <1>2, <1>9, <2>2, JoinedQueued
  <2> QED
    BY <2>1, <2>2
<1>10. CASE tskwait_dec(t) \/ CHECK_FOR_MACT_DEADLOCK(t) \/ tskwait_return(t)
  BY <1>3, <1>10, SleepSteady
<1>11. CASE _mact_delete(t) \/ delete_wait(t) \/ delete_woken(t)
  BY <1>3, <1>11, DeleteSteady
<1>12. CASE delete_inc(t) \/ delete_next(t) \/ delete_dec(t)
  BY <1>3, <1>12, DeleteQuietSteady
<1>13. CASE delete_unlink(t)
  BY <1>3, <1>13, DeleteUnlinkSteady
<1>14. CASE delete_wake(t)
  BY <1>2, <1>14, WokenQueued
<1> QED
  BY <1>1, <1>4, <1>5, <1>6, <1>7, <1>8, <1>9, <1>10, <1>11, <1>12, <1>13, <1>14
     DEF InRuntime

LEMMA InitQueued ==
  ASSUME Init
  PROVE  \E w : Queued(w)
<1>1. PICK w : w = [u \in Thread |-> <<>>]
  OBVIOUS
<1>2. \A u \in Thread : w[u] = <<>> /\ Nodes(w[u]) = {}
  BY <1>1, EmptyList
<1>3. w \in [Thread -> Seq(Descriptor)]
  BY <1>1
<1>4. \A u \in Thread :
        /\ pc[u] \in {"user", "unborn"} /\ joined[u] = {}
        /\ pc[u] = "unborn" \/ u \in Foreign \cup {Main}
  BY DEF Init
<1>5. \A u \in Thread : ~Serves(u) /\ ~InWait(u) /\ pc[u] \notin {"look", "join"}
  BY <1>4 DEF Serves, Runs, Ended, InWait
<1>6. Queued(w)
  BY <1>2, <1>3, <1>4, <1>5 DEF Queued, WaitMeansEnded
<1> QED
  BY <1>6

LEMMA WaitingIsInvariant == Spec => [](TasksInv /\ LooksInv /\ WaitInv)
<1>1. Init => TasksInv /\ LooksInv /\ WaitInv
  <2>1. ASSUME Init PROVE WaitInv
    <3>1. PICK w : Queued(w)
      BY <2>1, InitQueued
    <3>2. WaitLists = w
      BY <3>1, WaitListsAre
    <3>3. Marked
      BY <2>1 DEF Init, Marked, Ending, Ended
    <3> QED
      BY <3>1, <3>2, <3>3 DEF WaitInv
  <2> QED
    BY <2>1, InitInv, InitLooks
<1>2. ASSUME TasksInv, LooksInv, WaitInv, [Next]_vars
      PROVE  (TasksInv /\ LooksInv /\ WaitInv)'
  <2>1. TasksInv' /\ LooksInv'
    BY <1>2, NextKeeps, LooksNext
  <2>2. ASSUME ~mishap' PROVE (Queued(WaitLists) /\ Marked)'
    <3>1. ~mishap
      BY <1>2, <2>2, MishapsStay DEF TasksInv
    <3>2. PICK w : Queued(w) /\ Marked
      BY <1>2, <3>1 DEF WaitInv
    <3>3. PICK w2 : Queued(w2)'
      BY <1>2, <2>2, <3>2, QueuedNext, QueuedStutters
    <3>4. WaitLists' = w2
      BY <3>3, NextWaitListsAre
    <3>5. Marked'
      BY <1>2, <3>2, MarkedNext
    <3> QED
      BY <3>3, <3>4, <3>5 DEF Queued
  <2> QED
    BY <2>1, <2>2 DEF WaitInv
<1> QED
  BY <1>1, <1>2, PTL DEF Spec

(* However tasks wait for each other, end and are started again: TSKWAIT   *)
(* returns only when the task it was asked about has ended, unless a       *)
(* waiter's link has been written while a walk stood on it, or a waiter    *)
(* has joined a descriptor that was being used again.                      *)
THEOREM WaitsEndRightly == Spec => []EarlyOnlyByMishap
<1>1. TasksInv /\ LooksInv /\ WaitInv => EarlyOnlyByMishap
  BY DEF WaitInv, Queued, EarlyOnlyByMishap
<1> QED
  BY <1>1, WaitingIsInvariant, PTL

(* Whoever sleeps in TSKWAIT is on the list of waiters that the task it    *)
(* waits for has still to walk: although a task marks itself complete      *)
(* under no semaphore, no waiter that has just looked is missed.           *)
THEOREM NobodyIsForgotten == Spec => []NobodyForgotten
<1>1. ASSUME TasksInv, WaitInv, ~mishap, NEW t \in Thread, Asleep(t)
      PROVE  \E u \in Thread : own[u] = mt[t] /\ my_mt[t] \in ToWake(u)
  <2>1. PICK w : Queued(w)
    BY <1>1 DEF WaitInv
  <2>2. InWait(t) /\ desc[my_mt[t]].state # "TS_Running"
    BY <1>1 DEF Asleep, InWait
  <2>3. Sleeps(t, w)
    BY <2>1, <2>2 DEF Queued
  <2>4. PICK u \in Thread :
          u = arg[t] /\ Serves(u) /\ own[u] = mt[t] /\ my_mt[t] \in Nodes(w[u])
    BY <1>1, <2>2, <2>3 DEF Sleeps, TasksInv, Lives, InWait
  <2>5. PICK h, next : h = FirstToWake(u) /\ next = WaitLink
    OBVIOUS
  <2>6. w[u] \in Seq(Descriptor) /\ IsList(w[u], h, next, NULL)
    BY <2>1, <2>4, <2>5 DEF Queued
  <2>7. NULL \notin Descriptor /\ MaxMt \in Nat /\ IsFiniteSet(Descriptor)
        /\ Cardinality(Descriptor) = MaxMt
    BY Descriptors
  <2>8. Len(w[u]) <= MaxMt
    BY <2>6, <2>7, NodesAreDistinct
  <2>9. Met(h, next, NULL, MaxMt) \ {NULL} = Nodes(w[u])
    BY <2>6, <2>7, <2>8, WalkMeetsList
  <2>10. Chain(FirstToWake(u), "wait_link") = Nodes(w[u])
    BY <2>5, <2>9 DEF Chain, Reached, WaitLink
  <2>11. ToWake(u) = Chain(FirstToWake(u), "wait_link")
    BY <2>4 DEF ToWake, FirstToWake, Serves, Runs, Ended
  <2> QED
    BY <2>4, <2>10, <2>11
<1>2. TasksInv /\ LooksInv /\ WaitInv => NobodyForgotten
  BY <1>1 DEF NobodyForgotten
<1> QED
  BY <1>2, WaitingIsInvariant, PTL
-----------------------------------------------------------------------------
(* Counting.  Threads that TSKSTART did not create are neither waiters nor *)
(* do they end, and nothing happens in a program that has been given up.   *)
LEMMA ForeignersStayOut ==
  ASSUME [Next]_vars, Typed, OnlyTasksWait,
         \A t \in Foreign : pc[t] \notin {"look", "join"} /\ ~InWait(t) /\ ~Ended(t),
         \A t \in Foreign : pc[t] \notin {"unborn", "chosen", "born"}
  PROVE  \A t \in Foreign : pc'[t] \notin {"look", "join"} /\ ~InWait(t)' /\ ~Ended(t)'
<1> DEFINE Out(label) ==
      label \notin {"look", "join", "dec", "check", "spin", "complete", "inc", "mark", "next",
                    "uncount", "unlink", "gone"}
<1>1. SUFFICES ASSUME NEW f \in Foreign PROVE Out(pc'[f])
  BY DEF InWait, Ended
<1>2. Out(pc[f]) /\ pc[f] \notin {"unborn", "chosen", "born"}
  BY DEF InWait, Ended
<1>3. f \in Thread /\ pc \in [Thread -> Pc]
  BY ThreadAssumption DEF Typed
<1>4. CASE UNCHANGED vars
  BY <1>2, <1>4 DEF vars
<1>5. CASE Next
  <2>1. PICK t \in Thread :
          \/ InRuntime(t)
          \/ _mact_find_self(t)
          \/ _mact_delete(t)
          \/ \E c \in Thread : tskstart_(t, c) \/ tskwait_(t, c)
    BY <1>5 DEF Next
  <2>2. CASE \/ find_self_step(t) \/ find_self_allocate(t) \/ find_self_add(t)
             \/ tskstart_allocate(t) \/ tskstart_ready(t) \/ tskstart_return(t)
             \/ _mact_start_macrotask(t) \/ start_macrotask_add(t)
    <3>1. \/ \E label \in {"find_allocate", "find_add", "user", "ready", "fill", "add"} :
               pc' = [pc EXCEPT ![t] = label]
          \/ pc' = pc
      BY <2>2
        DEF find_self_step, find_self_allocate, find_self_add, tskstart_allocate,
            tskstart_ready, tskstart_return, _mact_start_macrotask, start_macrotask_add,
            Goto
    <3> QED
      BY <1>2, <1>3, <3>1
  <2>3. CASE tskstart_fill(t)
    BY <1>2, <1>3, <2>3 DEF tskstart_fill
  <2>4. CASE \/ tskwait_look(t) \/ tskwait_join(t) \/ tskwait_dec(t)
             \/ CHECK_FOR_MACT_DEADLOCK(t) \/ tskwait_return(t)
             \/ delete_wait(t) \/ delete_inc(t) \/ delete_wake(t) \/ delete_next(t)
             \/ delete_woken(t) \/ delete_dec(t) \/ delete_unlink(t)
    <3>1. /\ pc' = pc \/ \E label : pc' = [pc EXCEPT ![t] = label]
          /\ ~Out(pc[t])
      BY <2>4 DEF tskwait_look, tskwait_join, tskwait_dec, CHECK_FOR_MACT_DEADLOCK,
                  tskwait_return, delete_wait, delete_inc, delete_wake, delete_next,
                  delete_woken, delete_dec, delete_unlink, Goto, At, Return
    <3> QED
      BY <1>2, <1>3, <3>1
  <2>5. CASE _mact_find_self(t)
    BY <1>2, <1>3, <2>5 DEF _mact_find_self, Goto
  <2>6. CASE _mact_delete(t)
    BY <1>2, <1>3, <2>6 DEF _mact_delete, Goto
  <2>7. CASE \E c \in Thread : tskstart_(t, c)
    <3>1. PICK c \in Thread : pc' = [pc EXCEPT ![t] = "allocate", ![c] = "chosen"]
      BY <2>7 DEF tskstart_
    <3> QED
      BY <1>2, <1>3, <3>1
  <2>8. CASE \E c \in Thread : tskwait_(t, c)
    <3>1. /\ t \notin Foreign
          /\ \E label : pc' = [pc EXCEPT ![t] = label]
      BY <2>8 DEF tskwait_, Return, Goto, OnlyTasksWait
    <3> QED
      BY <1>2, <1>3, <3>1
  <2> QED
    BY <2>1, <2>2, <2>3, <2>4, <2>5, <2>6, <2>7, <2>8 DEF InRuntime
<1> QED
  BY <1>4, <1>5

LEMMA GivenUpAtNone ==
  ASSUME [Next]_vars, aborted => runnable_tasks = 0
  PROVE  aborted' => runnable_tasks' = 0
<1>1. CASE UNCHANGED vars
  BY <1>1 DEF vars
<1>2. CASE Next
  <2>1. PICK t \in Thread :
          \/ InRuntime(t)
          \/ _mact_find_self(t)
          \/ _mact_delete(t)
          \/ \E c \in Thread : tskstart_(t, c) \/ tskwait_(t, c)
    BY <1>2 DEF Next
  <2>2. CASE CHECK_FOR_MACT_DEADLOCK(t)
    BY <2>2 DEF CHECK_FOR_MACT_DEADLOCK
  <2>3. CASE InRuntime(t) /\ ~CHECK_FOR_MACT_DEADLOCK(t)
    <3>1. ~aborted /\ aborted' = aborted
      BY <2>3
        DEF InRuntime, find_self_step, find_self_allocate, find_self_add,
            tskstart_allocate, tskstart_ready, tskstart_fill, tskstart_return,
            _mact_start_macrotask, start_macrotask_add, tskwait_look, tskwait_join,
            tskwait_dec, tskwait_return, delete_wait, delete_inc, delete_wake,
            delete_next, delete_woken, delete_dec, delete_unlink, At
    <3> QED
      BY <3>1
  <2>4. CASE _mact_find_self(t) \/ _mact_delete(t) \/ \E c \in Thread : tskstart_(t, c) \/ tskwait_(t, c)
    BY <2>4 DEF _mact_find_self, _mact_delete, tskstart_, tskwait_, At
  <2> QED
    BY <2>1, <2>2, <2>3, <2>4
<1> QED
  BY <1>1, <1>2
LEMMA CountsAre ==
  /\ IsFiniteSet(Counted) /\ Cardinality(Counted) \in Nat
  /\ IsFiniteSet(LetGo) /\ Cardinality(LetGo) \in Nat
  /\ IsFiniteSet(Thread)
<1>1. IsFiniteSet(Thread) /\ Counted \in SUBSET Thread /\ LetGo \in SUBSET Thread
  BY ThreadAssumption DEF Counted, LetGo
<1> QED
  BY <1>1, FS_Subset, FS_CardinalityType

Balanced == runnable_tasks = Cardinality(Counted) + Cardinality(LetGo)

Off == {"unborn", "check", "spin", "unlink", "gone"}
Walking == {"mark", "next"}

LEMMA LetGoStays ==
  ASSUME TasksInv, Steady,
         \A u \in Thread : pc'[u] \in Walking <=> pc[u] \in Walking
  PROVE  \A t \in Thread : t \in LetGo' <=> t \in LetGo /\ InWait(t)'
<1> SUFFICES ASSUME NEW t \in Thread
             PROVE  t \in LetGo' <=> t \in LetGo /\ InWait(t)'
  OBVIOUS
<1>1. CASE InWait(t) /\ InWait(t)'
  <2>1. my_mt'[t] = my_mt[t] /\ arg'[t] = arg[t]
    BY <1>1 DEF Steady
  <2>2. desc'[my_mt[t]].state = desc[my_mt[t]].state
    BY <1>1 DEF Steady
  <2>3. PICK c \in Thread : c = arg[t]
    BY <1>1 DEF TasksInv, Lives, InWait
  <2>4. pc'[c] \in {"mark", "next"} <=> pc[c] \in {"mark", "next"}
    BY DEF Walking
  <2> QED
    BY <1>1, <2>1, <2>2, <2>3, <2>4 DEF LetGo
<1>2. CASE ~InWait(t) \/ ~InWait(t)'
  <2>1. InWait(t)' => InWait(t)
    BY DEF Steady
  <2> QED
    BY <1>2, <2>1 DEF LetGo
<1> QED
  BY <1>1, <1>2

LEMMA EvenStep ==
  ASSUME TasksInv, Steady, Balanced, runnable_tasks' = runnable_tasks,
         \A u \in Thread : /\ pc'[u] \in Off <=> pc[u] \in Off
                           /\ pc'[u] \in Walking <=> pc[u] \in Walking
                           /\ InWait(u)' <=> InWait(u)
  PROVE  Balanced'
<1>1. \A t \in Thread : t \in LetGo' <=> t \in LetGo /\ InWait(t)'
  BY LetGoStays
<1>2. LetGo' = LetGo
  BY <1>1 DEF LetGo
<1>3. Counted' = Counted
  BY DEF Counted, Off
<1> QED
  BY <1>2, <1>3 DEF Balanced

(* Steps of a from somewhere where a thread counts to somewhere of that    *)
(* kind.                                                                   *)
LEMMA BusyEven ==
  ASSUME TasksInv, Steady, Balanced, runnable_tasks' = runnable_tasks,
         NEW a \in Thread, NEW label, pc' = [pc EXCEPT ![a] = label],
         pc[a] \in Busy \cup {"born", "complete", "inc"},
         label \in Busy \cup {"born", "complete", "inc"}
  PROVE  Balanced'
<1>1. \A u \in Thread : /\ pc'[u] \in Off <=> pc[u] \in Off
                        /\ pc'[u] \in Walking <=> pc[u] \in Walking
                        /\ InWait(u)' <=> InWait(u)
  BY DEF TasksInv, Typed, Busy, Off, Walking, InWait
<1> QED
  BY <1>1, EvenStep

LEMMA FindSelfEven ==
  ASSUME TasksInv, NEW w, Queued(w), Balanced, NEW a \in Thread,
         \/ _mact_find_self(a) \/ find_self_step(a)
         \/ find_self_allocate(a) \/ find_self_add(a)
  PROVE  Balanced'
<1>1. Steady
  BY FindSelfSteady, AllocateSteady, AddSteady
<1>2. /\ pc[a] \in {"user", "find", "find_allocate", "find_add"}
      /\ \E label \in {"user", "find", "find_allocate", "find_add"} :
           pc' = [pc EXCEPT ![a] = label]
      /\ runnable_tasks' = runnable_tasks
  BY DEF _mact_find_self, find_self_step, find_self_allocate, find_self_add, At, Goto,
         TasksInv, Typed
<1> QED
  BY <1>1, <1>2, BusyEven DEF Busy

LEMMA StartEven ==
  ASSUME TasksInv, LooksInv, NEW w, Queued(w), Balanced, NEW a \in Thread,
         \/ tskstart_allocate(a) \/ tskstart_ready(a) \/ tskstart_return(a)
         \/ _mact_start_macrotask(a) \/ start_macrotask_add(a)
  PROVE  Balanced'
<1>1. Steady
  BY AllocateSteady, TskstartReadySteady, TskstartReturnSteady, StartMacrotaskSteady,
     AddSteady
<1>2. /\ pc[a] \in {"allocate", "ready", "argv", "born", "add"}
      /\ \E label \in {"ready", "fill", "user", "add"} : pc' = [pc EXCEPT ![a] = label]
      /\ runnable_tasks' = runnable_tasks
  BY DEF tskstart_allocate, tskstart_ready, tskstart_return, _mact_start_macrotask,
         start_macrotask_add, At, Goto, TasksInv, Typed
<1> QED
  BY <1>1, <1>2, BusyEven DEF Busy

LEMMA TskstartFillEven ==
  ASSUME TasksInv, NEW w, Queued(w), Balanced, NEW a \in Thread, tskstart_fill(a), ~mishap'
  PROVE  Balanced'
<1>1. Steady
  BY TskstartFillSteady
<1>2. PICK c \in Thread : c = arg[a] /\ pc[c] = "chosen"
  BY DEF tskstart_fill, At, TasksInv, Lives, Starting
<1>3. /\ pc \in [Thread -> Pc] /\ pc[a] = "fill" /\ a # c
      /\ pc' = [pc EXCEPT ![a] = "argv", ![c] = "born"]
      /\ runnable_tasks' = runnable_tasks
  BY <1>2 DEF tskstart_fill, At, TasksInv, Typed
<1>4. \A u \in Thread : /\ pc'[u] \in Off <=> pc[u] \in Off
                        /\ pc'[u] \in Walking <=> pc[u] \in Walking
                        /\ InWait(u)' <=> InWait(u)
  BY <1>2, <1>3 DEF Off, Walking, InWait
<1> QED
  BY <1>1, <1>3, <1>4, EvenStep

LEMMA TskstartCounts ==
  ASSUME TasksInv, LooksInv, NEW w, Queued(w), Balanced, NEW a \in Thread, NEW c \in Thread,
         tskstart_(a, c)
  PROVE  Balanced'
<1>1. Steady
  BY TskstartSteady
<1>2. /\ pc \in [Thread -> Pc] /\ pc[a] = "user" /\ pc[c] = "unborn" /\ a # c
      /\ pc' = [pc EXCEPT ![a] = "allocate", ![c] = "chosen"]
      /\ runnable_tasks' = runnable_tasks + 1
  BY DEF tskstart_, At, TasksInv, Typed, CountNewTask
<1>3. c \notin Foreign
  BY <1>2 DEF LooksInv
<1>4. \A u \in Thread : /\ pc'[u] \in Walking <=> pc[u] \in Walking
                        /\ InWait(u)' <=> InWait(u)
  BY <1>2 DEF Walking, InWait
<1>5. LetGo' = LetGo
  <2>1. \A t \in Thread : t \in LetGo' <=> t \in LetGo /\ InWait(t)'
    BY <1>1, <1>4, LetGoStays
  <2> QED
    BY <1>4, <2>1 DEF LetGo
<1>6. Counted' = Counted \cup {c} /\ c \notin Counted
  BY <1>2, <1>3 DEF Counted
<1>7. Cardinality(Counted') = Cardinality(Counted) + 1
  BY <1>6, CountsAre, FS_AddElement
<1> QED
  BY <1>2, <1>5, <1>7, CountsAre DEF Balanced

LEMMA TskwaitEven ==
  ASSUME TasksInv, LooksInv, NEW w, Queued(w), Balanced, NEW a \in Thread, NEW c \in Thread,
         tskwait_(a, c)
  PROVE  Balanced'
<1>1. Steady
  BY TskwaitSteady
<1>2. /\ pc[a] = "user" /\ runnable_tasks' = runnable_tasks
      /\ \E label \in {"user", "look"} : pc' = [pc EXCEPT ![a] = label]
  BY DEF tskwait_, Return, At, Goto
<1> QED
  BY <1>1, <1>2, BusyEven DEF Busy

LEMMA TskwaitLookEven ==
  ASSUME TasksInv, LooksInv, NEW w, Queued(w), Balanced, NEW a \in Thread,
         \/ tskwait_look(a) \/ (tskwait_join(a) /\ Over(mt[a], arg[a]))
         \/ (tskwait_join(a) /\ ~Over(mt[a], arg[a]) /\ Self(a) = NULL)
  PROVE  Balanced'
<1>1. Steady
  BY TskwaitLookSteady, HungSteady
<1>2. /\ pc[a] \in {"look", "join"} /\ runnable_tasks' = runnable_tasks
      /\ \E label \in {"user", "join", "hung"} : pc' = [pc EXCEPT ![a] = label]
  BY DEF tskwait_look, tskwait_join, Return, At, Goto
<1> QED
  BY <1>1, <1>2, BusyEven DEF Busy

LEMMA DeleteEven ==
  ASSUME TasksInv, NEW w, Queued(w), Balanced, NEW a \in Thread,
         _mact_delete(a) \/ delete_wait(a)
  PROVE  Balanced'
<1>1. Steady
  BY DeleteSteady
<1>2. /\ pc[a] \in {"user", "complete"} /\ runnable_tasks' = runnable_tasks
      /\ \E label \in {"complete", "inc"} : pc' = [pc EXCEPT ![a] = label]
  BY DEF _mact_delete, delete_wait, At, Goto
<1> QED
  BY <1>1, <1>2, BusyEven DEF Busy

LEMMA UnlinkEven ==
  ASSUME TasksInv, NEW w, Queued(w), Balanced, NEW a \in Thread,
         delete_unlink(a) \/ delete_next(a)
  PROVE  Balanced'
<1>1. Steady
  BY DeleteUnlinkSteady, DeleteQuietSteady
<1>2. /\ pc \in [Thread -> Pc] /\ runnable_tasks' = runnable_tasks
      /\ \/ pc[a] = "unlink" /\ pc' = [pc EXCEPT ![a] = "gone"]
         \/ pc[a] = "next" /\ pc' = [pc EXCEPT ![a] = "mark"]
  BY DEF delete_unlink, delete_next, At, Goto, TasksInv, Typed
<1>3. \A u \in Thread : /\ pc'[u] \in Off <=> pc[u] \in Off
                        /\ pc'[u] \in Walking <=> pc[u] \in Walking
                        /\ InWait(u)' <=> InWait(u)
  BY <1>2 DEF Off, Walking, InWait
<1> QED
  BY <1>1, <1>2, <1>3, EvenStep
(* The task that goes to sleep in TSKWAIT, and the one that returns.       *)
LEMMA JoinEven ==
  ASSUME TasksInv, LooksInv, NEW w, Queued(w), Marked, Balanced, NEW a \in Thread,
         tskwait_join(a), ~Over(mt[a], arg[a]), Self(a) # NULL, ~mishap'
  PROVE  Balanced'
<1>1. PICK c \in Thread : c = arg[a] /\ pc[a] = "join"
  BY DEF tskwait_join, At, TasksInv, Lives
<1>2. PICK self \in Descriptor : self = Self(a) /\ desc[self].stid = a
  BY SelfTyped, Descriptors
<1>3. /\ pc \in [Thread -> Pc] /\ pc' = [pc EXCEPT ![a] = "dec"]
      /\ my_mt \in [Thread -> MtOrNull] /\ my_mt' = [my_mt EXCEPT ![a] = self]
      /\ UNCHANGED <<arg, runnable_tasks>>
      /\ desc \in [Descriptor -> Desc] /\ desc' = Joined(a, self)
      /\ ~Ended(c)
  <2>1. WasOf(mt[a], c)
    BY <1>1 DEF LooksInv
  <2>2. pc[c] # "gone"
    BY <1>1, <1>2 DEF tskwait_join
  <2>3. ~Ended(c)
    BY <1>1, <2>1, <2>2, NotOverYet DEF Runs
  <2> QED
    BY <1>1, <1>2, <2>3 DEF tskwait_join, Goto, TasksInv, Typed
<1>4. /\ desc'[self].state = "TS_Task_Wait"
      /\ \A d \in Descriptor \ {self} : desc'[d].state = desc[d].state
  BY <1>2, <1>3 DEF Joined, Desc
<1>5. \A t \in Thread : InWait(t) => my_mt[t] \in Descriptor \ {self} /\ t # a
  <2>1. ~InWait(a)
    BY <1>1 DEF InWait
  <2> QED
    BY <1>2, <2>1, SleeperIsApart
<1>6. Counted' = Counted
  BY <1>1, <1>3 DEF Counted
<1>7. ASSUME NEW t \in Thread PROVE t \in LetGo' <=> t \in LetGo
  <2>1. CASE t = a
    <3>1. my_mt'[a] = self /\ arg'[a] = c /\ pc'[c] \notin {"mark", "next"}
      BY <1>1, <1>3 DEF Ended
    <3> QED
      BY <1>4, <1>5, <2>1, <3>1 DEF LetGo
  <2>2. CASE t # a /\ InWait(t)
    <3>1. PICK u \in Thread : u = arg[t]
      BY <2>2 DEF TasksInv, Lives, InWait
    <3>2. pc'[u] \in {"mark", "next"} <=> pc[u] \in {"mark", "next"}
      BY <1>1, <1>3
    <3> QED
      BY <1>3, <1>4, <1>5, <2>2, <3>1, <3>2 DEF LetGo, InWait
  <2>3. CASE t # a /\ ~InWait(t)
    BY <1>3, <2>3 DEF LetGo, InWait
  <2> QED
    BY <2>1, <2>2, <2>3
<1>8. LetGo' = LetGo
  BY <1>7 DEF LetGo
<1> QED
  BY <1>3, <1>6, <1>8 DEF Balanced

LEMMA SleepCounts ==
  ASSUME TasksInv, NEW w, Queued(w), Balanced, NEW a \in Thread, a \notin Foreign,
         tskwait_dec(a) \/ delete_dec(a)
  PROVE  Balanced'
<1>1. Steady
  BY SleepSteady, DeleteQuietSteady
<1>2. /\ pc \in [Thread -> Pc] /\ runnable_tasks' = runnable_tasks - 1
      /\ \/ pc[a] = "dec" /\ pc' = [pc EXCEPT ![a] = "check"]
         \/ pc[a] = "uncount" /\ pc' = [pc EXCEPT ![a] = "unlink"]
  BY DEF tskwait_dec, delete_dec, At, Goto, TasksInv, Typed
<1>3. \A u \in Thread : /\ pc'[u] \in Walking <=> pc[u] \in Walking
                        /\ InWait(u)' <=> InWait(u)
  BY <1>2 DEF Walking, InWait
<1>4. LetGo' = LetGo
  <2>1. \A t \in Thread : t \in LetGo' <=> t \in LetGo /\ InWait(t)'
    BY <1>1, <1>3, LetGoStays
  <2> QED
    BY <1>3, <2>1 DEF LetGo
<1>5. Counted' = Counted \ {a} /\ a \in Counted
  BY <1>2 DEF Counted
<1>6. Cardinality(Counted') = Cardinality(Counted) - 1
  BY <1>5, CountsAre, FS_RemoveElement
<1> QED
  BY <1>2, <1>4, <1>6, CountsAre DEF Balanced

LEMMA CheckEven ==
  ASSUME TasksInv, NEW w, Queued(w), Balanced, NEW a \in Thread, CHECK_FOR_MACT_DEADLOCK(a)
  PROVE  Balanced'
<1>1. Steady
  BY SleepSteady
<1>2. /\ pc \in [Thread -> Pc] /\ runnable_tasks' = runnable_tasks /\ pc[a] = "check"
      /\ pc' = pc \/ pc' = [pc EXCEPT ![a] = "spin"]
  BY DEF CHECK_FOR_MACT_DEADLOCK, At, Goto, TasksInv, Typed
<1>3. \A u \in Thread : /\ pc'[u] \in Off <=> pc[u] \in Off
                        /\ pc'[u] \in Walking <=> pc[u] \in Walking
                        /\ InWait(u)' <=> InWait(u)
  BY <1>2 DEF Off, Walking, InWait
<1> QED
  BY <1>1, <1>2, <1>3, EvenStep

LEMMA ReturnEven ==
  ASSUME TasksInv, NEW w, Queued(w), Balanced, NEW a \in Thread, a \notin Foreign,
         tskwait_return(a)
  PROVE  Balanced'
<1>1. Steady
  BY SleepSteady
<1>2. /\ pc \in [Thread -> Pc] /\ runnable_tasks' = runnable_tasks /\ pc[a] = "spin"
      /\ pc' = [pc EXCEPT ![a] = "user"] /\ desc[my_mt[a]].state = "TS_Running"
  BY DEF tskwait_return, Return, At, Goto, TasksInv, Typed
<1>3. \A u \in Thread : /\ pc'[u] \in Walking <=> pc[u] \in Walking
                        /\ InWait(u)' <=> InWait(u) /\ u # a
  BY <1>2 DEF Walking, InWait
<1>4. LetGo' = LetGo \ {a} /\ a \in LetGo
  <2>1. \A t \in Thread : t \in LetGo' <=> t \in LetGo /\ InWait(t)'
    BY <1>1, <1>3, LetGoStays
  <2>2. a \in LetGo
    BY <1>2 DEF LetGo, InWait
  <2>3. LetGo \subseteq Thread /\ LetGo' \subseteq Thread /\ \A t \in LetGo : InWait(t)
    BY DEF LetGo
  <2> QED
    BY <1>3, <2>1, <2>2, <2>3
<1>5. Counted' = Counted \cup {a} /\ a \notin Counted
  BY <1>2 DEF Counted
<1>6. Cardinality(Counted') = Cardinality(Counted) + 1
  BY <1>5, CountsAre, FS_AddElement
<1>7. Cardinality(LetGo') = Cardinality(LetGo) - 1
  BY <1>4, CountsAre, FS_RemoveElement
<1> QED
  BY <1>2, <1>6, <1>7, CountsAre DEF Balanced
(* A task that ends counts its waiters, lets them go one by one, and has   *)
(* none left at the end.                                                   *)
LEMMA WaitersCounted ==
  ASSUME TasksInv, NEW w, Queued(w), NEW a \in Thread, Serves(a),
         NEW S, S = {t \in Thread : /\ InWait(t) /\ arg[t] = a
                                    /\ desc[my_mt[t]].state # "TS_Running"}
  PROVE  /\ IsFiniteSet(S)
         /\ Cardinality(S) = Cardinality(Chain(FirstToWake(a), "wait_link"))
<1>1. NULL \notin Descriptor /\ MaxMt \in Nat /\ IsFiniteSet(Descriptor)
      /\ Cardinality(Descriptor) = MaxMt
  BY Descriptors
<1>2. PICK h, next : h = FirstToWake(a) /\ next = WaitLink
  OBVIOUS
<1>3. w[a] \in Seq(Descriptor) /\ IsList(w[a], h, next, NULL)
  BY <1>2 DEF Queued
<1>4. Len(w[a]) <= MaxMt
  BY <1>1, <1>3, NodesAreDistinct
<1>5. Met(h, next, NULL, MaxMt) \ {NULL} = Nodes(w[a])
  BY <1>1, <1>3, <1>4, WalkMeetsList
<1>6. Chain(FirstToWake(a), "wait_link") = Nodes(w[a])
  BY <1>2, <1>5 DEF Chain, Reached, WaitLink
<1>7. IsFiniteSet(S)
  <2>1. S \in SUBSET Thread
    OBVIOUS
  <2> QED
    BY <2>1, CountsAre, FS_Subset
<1>8. \A t \in S : my_mt[t] \in Nodes(w[a])
  BY DEF Queued, Sleeps
<1>9. \A d \in Nodes(w[a]) : \E t \in S : my_mt[t] = d
  BY DEF Queued, Sleeps
<1>10. \A t, u \in S : my_mt[t] = my_mt[u] => t = u
  <2>1. \A t \in S : desc[my_mt[t]].stid = t
    BY SleeperIsApart
  <2> QED
    BY <2>1
<1>11. PICK T : T = Nodes(w[a])
  OBVIOUS
<1>12. PICK f : f = [t \in S |-> my_mt[t]]
  OBVIOUS
<1>13. f \in [S -> T] /\ (\A d \in T : \E t \in S : f[t] = d)
       /\ \A t, u \in S : f[t] = f[u] => t = u
  BY <1>8, <1>9, <1>10, <1>11, <1>12
<1>14. f \in Surjection(S, T) /\ f \in Injection(S, T)
  BY <1>13 DEF Surjection, Injection, IsInjective
<1>15. Cardinality(T) = Cardinality(S)
  BY <1>7, <1>14, FS_Surjection
<1> QED
  BY <1>6, <1>7, <1>11, <1>15

LEMMA DeleteIncCounts ==
  ASSUME TasksInv, NEW w, Queued(w), Balanced, NEW a \in Thread, delete_inc(a)
  PROVE  Balanced'
<1>1. Steady
  BY DeleteQuietSteady
<1>2. /\ pc \in [Thread -> Pc] /\ pc[a] = "inc" /\ pc' = [pc EXCEPT ![a] = "mark"]
      /\ UNCHANGED <<arg, my_mt, desc>>
      /\ runnable_tasks' = runnable_tasks + Cardinality(Chain(mt[a], "wait_link"))
  BY DEF delete_inc, At, Goto, TasksInv, Typed, locals
<1>3. Serves(a) /\ FirstToWake(a) = mt[a]
  BY <1>2 DEF Serves, FirstToWake
<1>4. PICK S : S = {t \in Thread : /\ InWait(t) /\ arg[t] = a
                                   /\ desc[my_mt[t]].state # "TS_Running"}
  OBVIOUS
<1>5. IsFiniteSet(S) /\ Cardinality(S) = Cardinality(Chain(mt[a], "wait_link"))
  BY <1>3, <1>4, WaitersCounted
<1>6. Counted' = Counted
  BY <1>2 DEF Counted
<1>7. ASSUME NEW t \in Thread PROVE t \in LetGo' <=> t \in LetGo \/ t \in S
  <2>1. InWait(t)' <=> InWait(t)
    BY <1>2 DEF InWait
  <2>2. CASE InWait(t)
    <3>1. PICK u \in Thread : u = arg[t]
      BY <2>2 DEF TasksInv, Lives, InWait
    <3>2. pc'[u] \in {"mark", "next"} <=> pc[u] \in {"mark", "next"} \/ u = a
      BY <1>2
    <3> QED
      BY <1>2, <1>4, <2>1, <2>2, <3>1, <3>2 DEF LetGo
  <2>3. CASE ~InWait(t)
    BY <1>4, <2>1, <2>3 DEF LetGo
  <2> QED
    BY <2>2, <2>3
<1>8. LetGo' = LetGo \cup S /\ LetGo \cap S = {}
  <2>1. LetGo' \subseteq Thread /\ LetGo \subseteq Thread /\ S \subseteq Thread
    BY <1>4 DEF LetGo
  <2>2. LetGo \cap S = {}
    BY <1>2, <1>4 DEF LetGo
  <2> QED
    BY <1>7, <2>1, <2>2
<1>9. Cardinality(LetGo') = Cardinality(LetGo) + Cardinality(S)
  <2>1. Cardinality(LetGo \cup S)
          = Cardinality(LetGo) + Cardinality(S) - Cardinality(LetGo \cap S)
    BY <1>5, CountsAre, FS_Union
  <2>2. Cardinality(LetGo \cap S) = 0
    BY <1>8, FS_EmptySet
  <2>3. Cardinality(S) \in Nat
    BY <1>5, FS_CardinalityType
  <2> QED
    BY <1>8, <2>1, <2>2, <2>3, CountsAre
<1>10. Cardinality(S) \in Nat
  BY <1>5, FS_CardinalityType
<1> QED
  BY <1>2, <1>5, <1>6, <1>9, <1>10, CountsAre DEF Balanced

LEMMA WakeEven ==
  ASSUME TasksInv, NEW w, Queued(w), Balanced, NEW a \in Thread, delete_wake(a)
  PROVE  Balanced'
<1>1. PICK d \in Descriptor : d = mt[a] /\ pc[a] = "mark"
  BY Descriptors DEF delete_wake, At, TasksInv, Typed
<1>2. /\ pc \in [Thread -> Pc] /\ pc' = [pc EXCEPT ![a] = "next"]
      /\ UNCHANGED <<arg, my_mt, runnable_tasks>>
      /\ desc \in [Descriptor -> Desc]
      /\ desc' = [desc EXCEPT ![d].state = "TS_Running"]
  BY <1>1 DEF delete_wake, Goto, TasksInv, Typed, locals
<1>3. /\ desc'[d].state = "TS_Running"
      /\ \A e \in Descriptor \ {d} : desc'[e].state = desc[e].state
  BY <1>2 DEF Desc
<1>4. Serves(a) /\ FirstToWake(a) = d
  BY <1>1 DEF Serves, FirstToWake
<1>5. d \in Nodes(w[a])
  <2>1. w[a] \in Seq(Descriptor) /\ IsList(w[a], d, WaitLink, NULL)
    BY <1>4 DEF Queued
  <2>2. NULL \notin Descriptor
    BY Descriptors
  <2> QED
    BY <2>1, <2>2, EndsOfList
<1>6. PICK woken \in Thread : InWait(woken) /\ my_mt[woken] = d /\ arg[woken] = a
  BY <1>5 DEF Queued
<1>7. \A t \in Thread : InWait(t) => my_mt[t] \in Descriptor /\ (my_mt[t] = d => t = woken)
  BY <1>6, SleeperIsApart
<1>8. Counted' = Counted
  BY <1>1, <1>2 DEF Counted
<1>9. ASSUME NEW t \in Thread PROVE t \in LetGo' <=> t \in LetGo
  <2>1. InWait(t)' <=> InWait(t)
    BY <1>1, <1>2 DEF InWait
  <2>2. CASE InWait(t)
    <3>1. PICK u \in Thread : u = arg[t]
      BY <2>2 DEF TasksInv, Lives, InWait
    <3>2. pc'[u] \in {"mark", "next"} <=> pc[u] \in {"mark", "next"}
      BY <1>1, <1>2
    <3> QED
      BY <1>1, <1>2, <1>3, <1>6, <1>7, <2>1, <2>2, <3>1, <3>2 DEF LetGo
  <2>3. CASE ~InWait(t)
    BY <2>1, <2>3 DEF LetGo
  <2> QED
    BY <2>2, <2>3
<1>10. LetGo' = LetGo
  BY <1>9 DEF LetGo
<1> QED
  BY <1>2, <1>8, <1>10 DEF Balanced

LEMMA WokenEven ==
  ASSUME TasksInv, NEW w, Queued(w), Balanced, NEW a \in Thread, delete_woken(a)
  PROVE  Balanced'
<1>1. Steady
  BY DeleteSteady
<1>2. /\ pc \in [Thread -> Pc] /\ pc[a] = "mark" /\ mt[a] = NULL
      /\ pc' = [pc EXCEPT ![a] = "uncount"]
      /\ UNCHANGED <<arg, my_mt, runnable_tasks>>
  BY DEF delete_woken, At, Goto, TasksInv, Typed, locals
<1>3. Serves(a) /\ FirstToWake(a) = NULL
  BY <1>2 DEF Serves, FirstToWake
<1>4. Nodes(w[a]) = {}
  <2>1. w[a] \in Seq(Descriptor) /\ IsList(w[a], FirstToWake(a), WaitLink, NULL)
    BY <1>3 DEF Queued
  <2>2. NULL \notin Descriptor
    BY Descriptors
  <2> QED
    BY <1>3, <2>1, <2>2, EndsOfList
<1>5. \A t \in Thread : InWait(t) /\ arg[t] = a => desc[my_mt[t]].state = "TS_Running"
  BY <1>4 DEF Queued, Sleeps
<1>6. Counted' = Counted
  BY <1>2 DEF Counted
<1>7. ASSUME NEW t \in Thread PROVE t \in LetGo' <=> t \in LetGo
  <2>1. InWait(t)' <=> InWait(t)
    BY <1>2 DEF InWait
  <2>2. CASE InWait(t)
    <3>1. PICK u \in Thread : u = arg[t]
      BY <2>2 DEF TasksInv, Lives, InWait
    <3>2. u # a => (pc'[u] \in {"mark", "next"} <=> pc[u] \in {"mark", "next"})
      BY <1>2
    <3>3. desc'[my_mt[t]].state = desc[my_mt[t]].state
      BY <1>1, <2>2 DEF Steady
    <3> QED
      BY <1>2, <1>5, <2>1, <2>2, <3>1, <3>2, <3>3 DEF LetGo
  <2>3. CASE ~InWait(t)
    BY <2>1, <2>3 DEF LetGo
  <2> QED
    BY <2>2, <2>3
<1>8. LetGo' = LetGo
  BY <1>7 DEF LetGo
<1> QED
  BY <1>2, <1>6, <1>8 DEF Balanced
-----------------------------------------------------------------------------
LEMMA BalancedNext ==
  ASSUME TasksInv, LooksInv, NEW w, Queued(w), Marked, Balanced, Next, ~mishap',
         \A t \in Foreign : pc[t] \notin {"look", "join"} /\ ~InWait(t) /\ ~Ended(t)
  PROVE  Balanced'
<1>1. PICK t \in Thread :
        \/ InRuntime(t)
        \/ _mact_find_self(t)
        \/ _mact_delete(t)
        \/ \E c \in Thread : tskstart_(t, c) \/ tskwait_(t, c)
  BY DEF Next
<1>2. CASE _mact_find_self(t) \/ find_self_step(t) \/ find_self_allocate(t) \/ find_self_add(t)
  BY <1>2, FindSelfEven
<1>3. CASE \E c \in Thread : tskstart_(t, c) \/ tskwait_(t, c)
  BY <1>3, TskstartCounts, TskwaitEven
<1>4. CASE \/ tskstart_allocate(t) \/ tskstart_ready(t) \/ tskstart_return(t)
           \/ _mact_start_macrotask(t) \/ start_macrotask_add(t)
  BY <1>4, StartEven
<1>5. CASE tskstart_fill(t)
  BY <1>5, TskstartFillEven
<1>6. CASE tskwait_look(t) \/ (tskwait_join(t) /\ Over(mt[t], arg[t]))
  BY <1>6, TskwaitLookEven
<1>7. CASE tskwait_join(t) /\ ~Over(mt[t], arg[t])
  BY <1>7, TskwaitLookEven, JoinEven
<1>8. CASE tskwait_dec(t) \/ CHECK_FOR_MACT_DEADLOCK(t) \/ tskwait_return(t)
  <2>1. InWait(t)
    BY <1>8 DEF InWait, tskwait_dec, CHECK_FOR_MACT_DEADLOCK, tskwait_return, At
  <2> QED
    BY <1>8, <2>1, SleepCounts, CheckEven, ReturnEven
<1>9. CASE _mact_delete(t) \/ delete_wait(t)
  BY <1>9, DeleteEven
<1>10. CASE delete_inc(t) \/ delete_wake(t) \/ delete_woken(t)
  BY <1>10, DeleteIncCounts, WakeEven, WokenEven
<1>11. CASE delete_next(t) \/ delete_unlink(t)
  BY <1>11, UnlinkEven
<1>12. CASE delete_dec(t)
  <2>1. Ended(t)
    BY <1>12 DEF Ended, delete_dec, At
  <2> QED
    BY <1>12, <2>1, SleepCounts
<1> QED
  BY <1>1, <1>2, <1>3, <1>4, <1>5, <1>6, <1>7, <1>8, <1>9, <1>10, <1>11, <1>12
     DEF InRuntime

LEMMA CountNext ==
  ASSUME TasksInv, LooksInv, WaitInv, CountInv, [Next]_vars, OnlyTasksWait
  PROVE  CountInv'
<1>1. aborted' => runnable_tasks' = 0
  BY GivenUpAtNone DEF CountInv
<1>2. \A t \in Foreign : pc'[t] \notin {"look", "join"} /\ ~InWait(t)' /\ ~Ended(t)'
  BY ForeignersStayOut DEF CountInv, LooksInv, TasksInv
<1>3. ASSUME ~mishap' PROVE Balanced'
  <2>1. ~mishap /\ Balanced
    BY <1>3, MishapsStay DEF TasksInv, CountInv, Balanced
  <2>2. PICK w : Queued(w) /\ Marked
    BY <2>1 DEF WaitInv
  <2>3. CASE UNCHANGED vars
    <3>1. UNCHANGED <<pc, arg, my_mt, desc, runnable_tasks>>
      BY <2>3 DEF vars, locals
    <3>2. Counted' = Counted /\ LetGo' = LetGo
      BY <3>1 DEF Counted, LetGo, InWait
    <3> QED
      BY <2>1, <3>1, <3>2 DEF Balanced
  <2>4. CASE Next
    BY <1>3, <2>1, <2>2, <2>4, BalancedNext DEF CountInv
  <2> QED
    BY <2>3, <2>4
<1> QED
  BY <1>1, <1>2, <1>3 DEF CountInv, Balanced

LEMMA InitCount ==
  ASSUME Init
  PROVE  CountInv
<1>1. Counted = {Main}
  BY ThreadAssumption DEF Init, Counted
<1>2. LetGo = {}
  BY DEF Init, LetGo, InWait
<1>3. Cardinality(Counted) = 1 /\ Cardinality(LetGo) = 0
  BY <1>1, <1>2, FS_Singleton, FS_EmptySet
<1>4. runnable_tasks = 1 /\ ~aborted
  BY DEF Init
<1>5. \A t \in Foreign : pc[t] \notin {"look", "join"} /\ ~InWait(t) /\ ~Ended(t)
  BY ThreadAssumption DEF Init, InWait, Ended
<1> QED
  BY <1>3, <1>4, <1>5 DEF CountInv

LEMMA CountIsInvariant ==
  ASSUME OnlyTasksWait
  PROVE  Spec => [](TasksInv /\ LooksInv /\ WaitInv /\ CountInv)
<1>1. Init => CountInv
  BY InitCount
<1>2. TasksInv /\ LooksInv /\ WaitInv /\ CountInv /\ [Next]_vars => CountInv'
  BY CountNext
<1> QED
  BY <1>1, <1>2, WaitingIsInvariant, PTL DEF Spec

(* If only macrotasks call TSKWAIT, and there is no mishap, the runtime    *)
(* gives a program up as deadlocked only when each of its tasks sleeps or  *)
(* is over, although tasks are counted, uncounted and counted again in     *)
(* steps of their own.                                                     *)
THEOREM DeadlockIsReal ==
  ASSUME OnlyTasksWait
  PROVE  Spec => []NoFalseDeadlock
<1>1. ASSUME TasksInv, WaitInv, CountInv, aborted, ~mishap, NEW t \in Thread \ Foreign
      PROVE  \/ pc[t] \in {"unborn", "unlink", "gone"}
             \/ pc[t] \in {"check", "spin"} /\ Asleep(t)
  <2>1. 0 = Cardinality(Counted) + Cardinality(LetGo)
    BY <1>1 DEF CountInv
  <2>2. Cardinality(Counted) = 0 /\ Cardinality(LetGo) = 0
    BY <2>1, CountsAre
  <2>3. Counted = {} /\ LetGo = {}
    BY <2>2, CountsAre, FS_EmptySet
  <2>4. InWait(t) => desc[my_mt[t]].state \in {"TS_Task_Wait", "TS_Running"}
    BY <1>1 DEF WaitInv, Queued, Sleeps
  <2> QED
    BY <1>1, <2>3, <2>4 DEF Counted, LetGo, InWait, Asleep
<1>2. TasksInv /\ LooksInv /\ WaitInv /\ CountInv => NoFalseDeadlock
  BY <1>1 DEF NoFalseDeadlock
<1> QED
  BY <1>2, CountIsInvariant, PTL

(* If only macrotasks call TSKWAIT, runnable_tasks never goes below zero,  *)
(* nor above twice the number of threads: each is counted at most once as  *)
(* running and once as let go, even while a task that ends counts waiters  *)
(* that have not yet uncounted themselves.                                 *)
THEOREM CountStaysInBounds ==
  ASSUME OnlyTasksWait
  PROVE  Spec => []TypeOK
<1>1. ASSUME CountInv, ~mishap
      PROVE  runnable_tasks \in 0 .. 2 * Cardinality(Thread)
  <2>1. Counted \in SUBSET Thread /\ LetGo \in SUBSET Thread
    BY DEF Counted, LetGo
  <2>2. /\ Cardinality(Counted) <= Cardinality(Thread)
        /\ Cardinality(LetGo) <= Cardinality(Thread)
        /\ Cardinality(Thread) \in Nat
    BY <2>1, CountsAre, FS_Subset, FS_CardinalityType
  <2> QED
    BY <1>1, <2>2, CountsAre DEF CountInv
<1>2. TasksInv /\ LooksInv /\ WaitInv /\ CountInv /\ mishap \in BOOLEAN => TypeOK
  BY <1>1 DEF TypeOK, TasksInv
<1>3. Spec => [](mishap \in BOOLEAN)
  <2>1. Init => mishap \in BOOLEAN
    BY DEF Init
  <2>2. mishap \in BOOLEAN /\ [Next]_vars => (mishap \in BOOLEAN)'
    <3>1. ASSUME mishap \in BOOLEAN, UNCHANGED vars PROVE mishap' \in BOOLEAN
      BY <3>1 DEF vars, program
    <3>2. ASSUME mishap \in BOOLEAN, NEW t \in Thread, InRuntime(t) PROVE mishap' \in BOOLEAN
      <4>1. CASE tskstart_fill(t)
        <5>1. mishap' = (mishap \/ StoodOn(mt[t]))
          BY <4>1 DEF tskstart_fill
        <5> QED
          BY <5>1
      <4>2. CASE tskwait_join(t)
        <5>1. mishap' = mishap \/ mishap' = (mishap \/ StoodOn(Self(t)) \/ pc[arg[t]] = "gone")
          BY <4>2 DEF tskwait_join
        <5> QED
          BY <3>2, <5>1
      <4>3. CASE InRuntime(t) /\ ~tskstart_fill(t) /\ ~tskwait_join(t)
        BY <3>2, <4>3
           DEF InRuntime, find_self_step, find_self_allocate, find_self_add,
               tskstart_allocate, tskstart_ready, tskstart_return, _mact_start_macrotask,
               start_macrotask_add, tskwait_look, tskwait_dec, CHECK_FOR_MACT_DEADLOCK,
               tskwait_return, delete_wait, delete_inc, delete_wake, delete_next,
               delete_woken, delete_dec, delete_unlink, program
      <4> QED
        BY <3>2, <4>1, <4>2, <4>3
    <3>3. ASSUME mishap \in BOOLEAN, NEW t \in Thread,
                 \/ _mact_find_self(t) \/ _mact_delete(t)
                 \/ \E c \in Thread : tskstart_(t, c) \/ tskwait_(t, c)
          PROVE  mishap' \in BOOLEAN
      BY <3>3 DEF _mact_find_self, _mact_delete, tskstart_, tskwait_, program
    <3> QED
      BY <3>1, <3>2, <3>3 DEF Next
  <2> QED
    BY <2>1, <2>2, PTL DEF Spec
<1> QED
  BY <1>2, <1>3, CountIsInvariant, PTL

=============================================================================
