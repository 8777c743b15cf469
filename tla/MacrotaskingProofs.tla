------------------------- MODULE MacrotaskingProofs --------------------------
(***************************************************************************)
(* Proofs about programs that use locks, events and barriers together, for *)
(* any number of tasks and of objects of each kind, and any programs.      *)
(***************************************************************************)
EXTENDS Macrotasking, ChainProofs, FiniteSetTheorems, TLAPS

-----------------------------------------------------------------------------
(* Types.                                                                  *)
ObjectsOf(kind) ==
  IF kind = "lock" THEN Lock ELSE IF kind = "event" THEN Event ELSE Barrier

(* What a task knows that has begun a call: it has read the address of an  *)
(* object of the right kind.                                               *)
Calls ==
  \A t \in Task :
    /\ call[t] # "none" => program[t] # <<>> /\ pc[t] = "user"
    /\ call[t] \in Use => Head(program[t]) = call[t]
    /\ call[t] = "create" => Head(program[t]) \in Assign
    /\ call[t] \in {"free", "refused"} => Head(program[t]) \in Release
    /\ call[t] \in Use \cup {"free", "refused"} =>
         addr[t] \in ObjectsOf(KindOf(Head(program[t])))
    /\ call[t] \in {"none", "create"} => addr[t] = NULL

CallsTyped ==
  /\ program \in [Task -> Seq(STRING)]
  /\ call \in [Task -> Use \cup {"none", "create", "free", "refused"}]
  /\ addr \in [Task -> Object \cup {NULL}]
  /\ Calls

NamesTyped ==
  /\ allocated \subseteq Object
  /\ name \in [Kind -> allocated \cup {NULL}]
  /\ \A kind \in Kind : name[kind] \in ObjectsOf(kind) \cup {NULL}

DescriptorsTyped ==
  /\ TaskTypeOK(Object)
  /\ \A u \in Task : pc[u] = "next" => cur[u] \in Task

ObjectsTyped == Locks!LockTypeOK /\ Events!EventTypeOK /\ Barriers!BarrierTypeOK

Typing == DescriptorsTyped /\ ObjectsTyped /\ NamesTyped /\ CallsTyped

LEMMA TypingImplies == Typing => TypeOK
BY DEF Typing, DescriptorsTyped, ObjectsTyped, NamesTyped, CallsTyped, TypeOK

LEMMA KindsOfCalls ==
  /\ \A op \in OnLock : KindOf(op) = "lock" /\ op \in Use
  /\ \A op \in OnEvent : KindOf(op) = "event" /\ op \in Use
  /\ \A op \in OnBarrier : KindOf(op) = "barrier" /\ op \in Use
  /\ \A op \in Use \cup Assign \cup Release : KindOf(op) \in Kind
  /\ Use \cap {"none", "create", "free", "refused"} = {}
  /\ Use \cap Release = {} /\ Use \cap Assign = {} /\ Assign \cap Release = {}
BY DEF KindOf, OnLock, OnEvent, OnBarrier, Use, Assign, Release, Kind

(* The objects of the three kinds are different memory.                    *)
LEMMA KindsOfObjects ==
  /\ \A kind \in Kind : ObjectsOf(kind) \subseteq Object
  /\ \A j, k \in Kind : j # k => ObjectsOf(j) \cap ObjectsOf(k) = {}
  /\ NULL \notin Object /\ NULL \notin Task
  /\ ObjectsOf("lock") = Lock /\ ObjectsOf("event") = Event
  /\ ObjectsOf("barrier") = Barrier
BY ObjectAssumption, TaskAssumption DEF Kind, Object, ObjectsOf

(* The numbers stay within an unsigned int.                                *)
LEMMA TasksInRange ==
  /\ Cardinality(Task) \in Nat \ {0}
  /\ 2 * Cardinality(Task) <= UINT_MAX
  /\ 0 \in 0 .. UINT_MAX /\ 0 \in 0 .. MaxCalls /\ 1 \in 0 .. UINT_MAX
<1>1. Cardinality(Task) \in Nat /\ Cardinality(Task) # 0
  BY TaskAssumption, FS_CardinalityType, FS_EmptySet
<1> QED
  BY <1>1, CountAssumption

LEMMA CountInRange ==
  ASSUME NEW n \in 0 .. UINT_MAX, NEW k \in 0 .. UINT_MAX
  PROVE  Plus(n, k) \in 0 .. UINT_MAX /\ Minus1(n) \in 0 .. UINT_MAX
BY CountAssumption DEF Plus, Minus1

(* The three modules mean the same by the walk along a queue.              *)
LEMMA SameCardinality ==
  /\ \A S : Events!Cardinality(S) = Cardinality(S)
  /\ \A S : Barriers!Cardinality(S) = Cardinality(S)
  /\ \A S : Locks!Cardinality(S) = Cardinality(S)
BY DEF Events!Cardinality, Barriers!Cardinality, Locks!Cardinality, Cardinality

LEMMA SameChain ==
  /\ \A h : Events!Chain(h) = Chain(h) /\ Events!WalkEnds(h) = WalkEnds(h)
  /\ \A h : Barriers!Chain(h) = Chain(h) /\ Barriers!WalkEnds(h) = WalkEnds(h)
  /\ \A h : Locks!Chain(h) = Chain(h) /\ Locks!WalkEnds(h) = WalkEnds(h)
BY SameCardinality
DEF Events!Chain, Events!Reached, Events!WalkEnds, Events!Met, Events!Walk,
    Barriers!Chain, Barriers!Reached, Barriers!WalkEnds, Barriers!Met, Barriers!Walk,
    Locks!Chain, Locks!Reached, Locks!WalkEnds, Locks!Met, Locks!Walk,
    Chain, Reached, WalkEnds, Met, Walk

(* However broken the links are, a walk meets few enough to count.         *)
LEMMA ChainIsCountable ==
  ASSUME NEW h
  PROVE  Cardinality(Chain(h)) \in 0 .. UINT_MAX
<1> DEFINE n == Cardinality(Task)
           at == Walk(h, mt_wait_link, NULL, n)
           M == {at[k] : k \in 0 .. n}
           f == [k \in 0 .. n |-> at[k]]
<1>1. n \in Nat \ {0} /\ 2 * n <= UINT_MAX
  BY TasksInRange
<1>2. Chain(h) = M \ {NULL}
  BY DEF Chain, Reached, Met
<1> HIDE DEF n, at
<1>3. f \in Surjection(0 .. n, M)
  BY DEF Surjection
<1>4. IsFiniteSet(0 .. n) /\ Cardinality(0 .. n) = n + 1
  BY <1>1, FS_Interval
<1> HIDE DEF f, M
<1>5. IsFiniteSet(M) /\ Cardinality(M) <= n + 1
  BY <1>3, <1>4, FS_Surjection
<1>6. Cardinality(M \ {NULL}) \in Nat /\ Cardinality(M \ {NULL}) <= Cardinality(M)
  BY <1>5, FS_Subset, FS_CardinalityType
<1> QED
  BY <1>1, <1>2, <1>5, <1>6, CountAssumption, FS_CardinalityType

(* What a call that has had its effect leaves.                             *)
LEMMA DoneTyped ==
  ASSUME Typing, NEW t \in Task, call[t] # "none" \/ program[t] # <<>>, Done(t),
         \A s \in Task : s # t => pc'[s] = pc[s]
  PROVE  CallsTyped'
<1> USE DEF Typing, CallsTyped
<1>1. /\ program' = [program EXCEPT ![t] = Tail(@)]
      /\ call' = [call EXCEPT ![t] = "none"]
      /\ addr' = [addr EXCEPT ![t] = NULL]
  BY DEF Done
<1>2. program[t] # <<>> /\ program[t] \in Seq(STRING)
  BY DEF Calls
<1>3. Tail(program[t]) \in Seq(STRING)
  BY <1>2
<1>4. /\ program' \in [Task -> Seq(STRING)]
      /\ call' \in [Task -> Use \cup {"none", "create", "free", "refused"}]
      /\ addr' \in [Task -> Object \cup {NULL}]
  BY <1>1, <1>3
<1>5. call'[t] = "none" /\ addr'[t] = NULL /\ "none" \notin Use
  BY <1>1, KindsOfCalls
<1>6. \A s \in Task : s # t => call'[s] = call[s] /\ addr'[s] = addr[s]
                               /\ program'[s] = program[s] /\ pc'[s] = pc[s]
  BY <1>1
<1>7. Calls'
  BY <1>5, <1>6 DEF Calls
<1> QED
  BY <1>4, <1>7

(* A task that waits, or one that is about to wake others.                 *)
LEMMA ParkTyped ==
  ASSUME Typing, NEW t \in Task, NEW o \in Object, NEW h, NEW tail,
         NEW state \in TaskState,
         calls[t] < MaxCalls, calls' = [calls EXCEPT ![t] = @ + 1],
         mt_wait_obj' = [mt_wait_obj EXCEPT ![t] = o],
         mt_wait_link' = LinkedAtTail(t, h, tail),
         mt_state' = [mt_state EXCEPT ![t] = state],
         pc' = [pc EXCEPT ![t] = "dec"],
         UNCHANGED <<obj, cur, release_count, runnable_tasks, aborted>>
  PROVE  DescriptorsTyped'
<1> USE DEF Typing, DescriptorsTyped, TaskTypeOK
<1>1. calls' \in [Task -> 0 .. MaxCalls]
  BY CountAssumption
<1>2. mt_wait_link' \in [Task -> Task \cup {NULL}]
  BY DEF LinkedAtTail
<1>3. pc' \in [Task -> Pc] /\ \A u \in Task : pc'[u] = "next" => cur'[u] \in Task
  BY DEF Pc
<1> QED
  BY <1>1, <1>2, <1>3

LEMMA WakingTyped ==
  ASSUME Typing, NEW t \in Task, NEW o \in Object, NEW h \in Task \cup {NULL},
         NEW n \in 0 .. UINT_MAX,
         calls' = calls \/ (calls[t] < MaxCalls /\ calls' = [calls EXCEPT ![t] = @ + 1]),
         obj' = [obj EXCEPT ![t] = o],
         cur' = [cur EXCEPT ![t] = h],
         release_count' = [release_count EXCEPT ![t] = n],
         pc' = [pc EXCEPT ![t] = "inc"],
         UNCHANGED <<mt_state, mt_wait_obj, mt_wait_link, runnable_tasks, aborted>>
  PROVE  DescriptorsTyped'
<1> USE DEF Typing, DescriptorsTyped, TaskTypeOK
<1>1. calls' \in [Task -> 0 .. MaxCalls]
  BY CountAssumption
<1>2. pc' \in [Task -> Pc] /\ \A u \in Task : pc'[u] = "next" => cur'[u] \in Task
  BY DEF Pc
<1> QED
  BY <1>1, <1>2

LEMMA AtOnceTyped ==
  ASSUME Typing, NEW t \in Task,
         calls' = calls \/ (calls[t] < MaxCalls /\ calls' = [calls EXCEPT ![t] = @ + 1]),
         UNCHANGED <<pc, obj, cur, release_count, mt_state, mt_wait_obj, mt_wait_link,
                     runnable_tasks, aborted>>
  PROVE  DescriptorsTyped'
<1> USE DEF Typing, DescriptorsTyped, TaskTypeOK
<1>1. calls' \in [Task -> 0 .. MaxCalls]
  BY CountAssumption
<1> QED
  BY <1>1

LEMMA LockCallTyped ==
  ASSUME Typing, NEW t \in Task, NEW l \in Lock,
         Locks!lockon_(t, l) \/ Locks!lockoff_(t, l) \/ Locks!locktest_(t, l)
  PROVE  /\ DescriptorsTyped' /\ Locks!LockTypeOK'
         /\ \A s \in Task : s # t => pc'[s] = pc[s]
<1> USE DEF Typing, ObjectsTyped, Locks!LockTypeOK
<1>0. l \in Object /\ pc \in [Task -> Pc]
  BY DEF Object, DescriptorsTyped, TaskTypeOK
<1>1. CASE Locks!lockon_(t, l) /\ ml_state[l] = "LS_Locked"
  <2>1. /\ calls[t] < MaxCalls /\ calls' = [calls EXCEPT ![t] = @ + 1]
        /\ mt_wait_obj' = [mt_wait_obj EXCEPT ![t] = l]
        /\ mt_wait_link' = LinkedAtTail(t, ml_qhead[l], ml_qtail[l])
        /\ mt_state' = [mt_state EXCEPT ![t] = "TS_Lock_Wait"]
        /\ pc' = [pc EXCEPT ![t] = "dec"]
        /\ UNCHANGED <<obj, cur, release_count, runnable_tasks, aborted>>
        /\ ml_qhead' = [ml_qhead EXCEPT ![l] = IF @ = NULL THEN t ELSE @]
        /\ ml_qtail' = [ml_qtail EXCEPT ![l] = t]
        /\ ml_wcount' = [ml_wcount EXCEPT ![l] = Plus(@, 1)]
        /\ UNCHANGED <<ml_state, held, ml_sem>>
    BY <1>1 DEF Locks!lockon_, Locks!MakeCall, Locks!InUserCode, Locks!EnqueueWaiter,
                Locks!Park, Locks!LinkedAtTail, Locks!Plus, LinkedAtTail, Plus
  <2>2. DescriptorsTyped'
    BY <1>0, <2>1, ParkTyped DEF TaskState
  <2>3. Plus(ml_wcount[l], 1) \in 0 .. UINT_MAX
    BY CountInRange, TasksInRange
  <2> QED
    BY <1>0, <2>1, <2>2, <2>3
<1>2. CASE Locks!lockoff_(t, l) /\ ml_qhead[l] # NULL
  <2>1. PICK h \in Task : ml_qhead[l] = h
    BY <1>2
  <2>2. /\ calls' = calls
        /\ obj' = [obj EXCEPT ![t] = l]
        /\ cur' = [cur EXCEPT ![t] = h]
        /\ release_count' = [release_count EXCEPT ![t] = 1]
        /\ pc' = [pc EXCEPT ![t] = "inc"]
        /\ UNCHANGED <<mt_state, mt_wait_obj, mt_wait_link, runnable_tasks, aborted>>
        /\ held' = [held EXCEPT ![t] = @ \ {l}]
        /\ ml_qhead' = [ml_qhead EXCEPT ![l] = mt_wait_link[h]]
        /\ ml_qtail' = [ml_qtail EXCEPT ![l] = IF mt_wait_link[h] = NULL THEN NULL ELSE @]
        /\ ml_wcount' = [ml_wcount EXCEPT ![l] = Minus1(@)]
        /\ ml_sem' = [ml_sem EXCEPT ![l] = t]
        /\ UNCHANGED ml_state
    BY <1>2, <2>1 DEF Locks!lockoff_, Locks!StartWaking, Locks!Minus1, Minus1
  <2>3. DescriptorsTyped'
    BY <1>0, <2>2, WakingTyped, TasksInRange
  <2>4. /\ Minus1(ml_wcount[l]) \in 0 .. UINT_MAX
        /\ mt_wait_link[h] \in Task \cup {NULL}
    BY CountInRange, TasksInRange DEF DescriptorsTyped, TaskTypeOK
  <2> QED
    BY <1>0, <2>2, <2>3, <2>4
<1>3. CASE ~(Locks!lockon_(t, l) /\ ml_state[l] = "LS_Locked")
           /\ ~(Locks!lockoff_(t, l) /\ ml_qhead[l] # NULL)
  <2>1. /\ UNCHANGED <<pc, obj, cur, release_count, mt_state, mt_wait_obj, mt_wait_link,
                       runnable_tasks, aborted>>
        /\ calls' = calls \/ (calls[t] < MaxCalls /\ calls' = [calls EXCEPT ![t] = @ + 1])
        /\ UNCHANGED <<ml_qhead, ml_qtail, ml_wcount, ml_sem>>
        /\ \/ ml_state' = [ml_state EXCEPT ![l] = "LS_Unlocked"]
           \/ ml_state' = [ml_state EXCEPT ![l] = "LS_Locked"]
           \/ ml_state' = ml_state
        /\ \/ held' = [held EXCEPT ![t] = @ \ {l}]
           \/ held' = [held EXCEPT ![t] = @ \cup {l}]
           \/ held' = held
    BY <1>3 DEF Locks!lockon_, Locks!lockoff_, Locks!locktest_, Locks!MakeCall,
                Locks!InUserCode, Locks!TakeLock, Locks!ReturnAtOnce
  <2>2. DescriptorsTyped'
    BY <2>1, AtOnceTyped
  <2> QED
    BY <2>1, <2>2
<1> QED
  BY <1>1, <1>2, <1>3

LEMMA EventCallTyped ==
  ASSUME Typing, NEW t \in Task, NEW e \in Event,
         Events!evwait_(t, e) \/ Events!evpost_(t, e) \/ Events!evclear_(t, e)
  PROVE  /\ DescriptorsTyped' /\ Events!EventTypeOK'
         /\ \A s \in Task : s # t => pc'[s] = pc[s]
<1> USE DEF Typing, ObjectsTyped, Events!EventTypeOK
<1>0. e \in Object /\ pc \in [Task -> Pc]
  BY DEF Object, DescriptorsTyped, TaskTypeOK
<1>1. CASE Events!evwait_(t, e) /\ me_state[e] = "ES_Cleared"
  <2>1. /\ calls[t] < MaxCalls /\ calls' = [calls EXCEPT ![t] = @ + 1]
        /\ mt_wait_obj' = [mt_wait_obj EXCEPT ![t] = e]
        /\ mt_wait_link' = LinkedAtTail(t, me_qhead[e], me_qtail[e])
        /\ mt_state' = [mt_state EXCEPT ![t] = "TS_Event_Wait"]
        /\ pc' = [pc EXCEPT ![t] = "dec"]
        /\ UNCHANGED <<obj, cur, release_count, runnable_tasks, aborted>>
        /\ me_qhead' = [me_qhead EXCEPT ![e] = IF @ = NULL THEN t ELSE @]
        /\ me_qtail' = [me_qtail EXCEPT ![e] = t]
        /\ me_wcount' = [me_wcount EXCEPT ![e] = Plus(@, 1)]
        /\ UNCHANGED <<me_state, me_sem>>
    BY <1>1 DEF Events!evwait_, Events!MakeCall, Events!InUserCode, Events!Park,
                Events!LinkedAtTail, Events!Plus, LinkedAtTail, Plus
  <2>2. DescriptorsTyped'
    BY <1>0, <2>1, ParkTyped DEF TaskState
  <2>3. Plus(me_wcount[e], 1) \in 0 .. UINT_MAX
    BY CountInRange, TasksInRange
  <2> QED
    BY <1>0, <2>1, <2>2, <2>3
<1>2. CASE Events!evpost_(t, e)
  <2>1. PICK h \in Task \cup {NULL} : me_qhead[e] = h
    OBVIOUS
  <2>2. PICK n \in 0 .. UINT_MAX : n = Cardinality(Chain(h))
    BY ChainIsCountable
  <2>3. Events!Cardinality(Events!Chain(h)) = n
    BY <2>2, SameCardinality, SameChain
  <2>4. /\ calls[t] < MaxCalls /\ calls' = [calls EXCEPT ![t] = @ + 1]
        /\ obj' = [obj EXCEPT ![t] = e]
        /\ cur' = [cur EXCEPT ![t] = h]
        /\ release_count' = [release_count EXCEPT ![t] = n]
        /\ pc' = [pc EXCEPT ![t] = "inc"]
        /\ UNCHANGED <<mt_state, mt_wait_obj, mt_wait_link, runnable_tasks, aborted>>
        /\ me_sem' = [me_sem EXCEPT ![e] = t]
        /\ me_state' = [me_state EXCEPT ![e] = "ES_Posted"]
        /\ UNCHANGED <<me_qhead, me_qtail, me_wcount>>
    BY <1>2, <2>1, <2>3 DEF Events!evpost_, Events!MakeCall, Events!InUserCode,
                            Events!MarkPosted, Events!StartWaking
  <2>5. DescriptorsTyped'
    BY <1>0, <2>4, WakingTyped
  <2> QED
    BY <1>0, <2>4, <2>5
<1>3. CASE ~(Events!evwait_(t, e) /\ me_state[e] = "ES_Cleared") /\ ~Events!evpost_(t, e)
  <2>1. /\ UNCHANGED <<pc, obj, cur, release_count, mt_state, mt_wait_obj, mt_wait_link,
                       runnable_tasks, aborted>>
        /\ calls[t] < MaxCalls /\ calls' = [calls EXCEPT ![t] = @ + 1]
        /\ UNCHANGED <<me_qhead, me_qtail, me_wcount, me_sem>>
        /\ \/ me_state' = [me_state EXCEPT ![e] = "ES_Cleared"]
           \/ me_state' = me_state
    BY <1>3 DEF Events!evwait_, Events!evclear_, Events!MakeCall, Events!InUserCode,
                Events!ReturnAtOnce, Events!eventVars
  <2>2. DescriptorsTyped'
    BY <2>1, AtOnceTyped
  <2> QED
    BY <2>1, <2>2
<1> QED
  BY <1>1, <1>2, <1>3

LEMMA BarrierCallTyped ==
  ASSUME Typing, NEW t \in Task, NEW b \in Barrier,
         Barriers!barsync_(t, b) \/ Barriers!barsync_open(t, b)
  PROVE  /\ DescriptorsTyped' /\ Barriers!BarrierTypeOK'
         /\ \A s \in Task : s # t => pc'[s] = pc[s]
<1> USE DEF Typing, ObjectsTyped, Barriers!BarrierTypeOK
<1>0. b \in Object /\ pc \in [Task -> Pc]
  BY DEF Object, DescriptorsTyped, TaskTypeOK
<1>1. CASE Barriers!barsync_(t, b)
  <2>1. /\ calls[t] < MaxCalls /\ calls' = [calls EXCEPT ![t] = @ + 1]
        /\ mt_wait_obj' = [mt_wait_obj EXCEPT ![t] = b]
        /\ mt_wait_link' = LinkedAtTail(t, mb_qhead[b], mb_qtail[b])
        /\ mt_state' = [mt_state EXCEPT ![t] = "TS_Bar_Wait"]
        /\ pc' = [pc EXCEPT ![t] = "dec"]
        /\ UNCHANGED <<obj, cur, release_count, runnable_tasks, aborted>>
        /\ mb_qhead' = [mb_qhead EXCEPT ![b] = IF @ = NULL THEN t ELSE @]
        /\ mb_qtail' = [mb_qtail EXCEPT ![b] = t]
        /\ mb_ncount' = [mb_ncount EXCEPT ![b] = Minus1(@)]
        /\ UNCHANGED <<mb_ocount, mb_sem>>
    BY <1>1 DEF Barriers!barsync_, Barriers!MakeCall, Barriers!InUserCode, Barriers!Park,
                Barriers!LinkedAtTail, Barriers!Minus1, LinkedAtTail, Minus1
  <2>2. DescriptorsTyped'
    BY <1>0, <2>1, ParkTyped DEF TaskState
  <2>3. Minus1(mb_ncount[b]) \in 0 .. UINT_MAX
    BY CountInRange, TasksInRange
  <2> QED
    BY <1>0, <2>1, <2>2, <2>3
<1>2. CASE Barriers!barsync_open(t, b)
  <2>1. PICK h \in Task \cup {NULL} : mb_qhead[b] = h
    OBVIOUS
  <2>2. PICK n \in 0 .. UINT_MAX : n = Cardinality(Chain(h))
    BY ChainIsCountable
  <2>3. Barriers!Cardinality(Barriers!Chain(h)) = n
    BY <2>2, SameCardinality, SameChain
  <2>4. /\ calls[t] < MaxCalls /\ calls' = [calls EXCEPT ![t] = @ + 1]
        /\ obj' = [obj EXCEPT ![t] = b]
        /\ cur' = [cur EXCEPT ![t] = h]
        /\ release_count' = [release_count EXCEPT ![t] = n]
        /\ pc' = [pc EXCEPT ![t] = "inc"]
        /\ UNCHANGED <<mt_state, mt_wait_obj, mt_wait_link, runnable_tasks, aborted>>
        /\ mb_sem' = [mb_sem EXCEPT ![b] = t]
        /\ UNCHANGED <<mb_ocount, mb_ncount, mb_qhead, mb_qtail>>
    BY <1>2, <2>1, <2>3 DEF Barriers!barsync_open, Barriers!MakeCall, Barriers!InUserCode,
                            Barriers!StartWaking
  <2>5. DescriptorsTyped'
    BY <1>0, <2>4, WakingTyped
  <2> QED
    BY <1>0, <2>4, <2>5
<1> QED
  BY <1>1, <1>2

(* A task inside the runtime.                                              *)
LEMMA CountingTyped ==
  ASSUME Typing, NEW t \in Task,
         \/ DEC_RUNNABLE_MACT_COUNT(t) \/ CHECK_FOR_MACT_DEADLOCK(t)
         \/ INC_RUNNABLE_MACT_COUNT(t) \/ FollowLink(t)
  PROVE  DescriptorsTyped' /\ pc[t] # "user" /\ \A s \in Task : s # t => pc'[s] = pc[s]
<1> USE DEF Typing, DescriptorsTyped, TaskTypeOK
<1>1. CASE DEC_RUNNABLE_MACT_COUNT(t)
  <2>1. Minus1(runnable_tasks) \in 0 .. UINT_MAX
    BY CountInRange, TasksInRange
  <2> QED
    BY <1>1, <2>1 DEF DEC_RUNNABLE_MACT_COUNT, Pc
<1>2. CASE CHECK_FOR_MACT_DEADLOCK(t)
  BY <1>2 DEF CHECK_FOR_MACT_DEADLOCK, Pc
<1>3. CASE INC_RUNNABLE_MACT_COUNT(t)
  <2>1. Plus(runnable_tasks, release_count[t]) \in 0 .. UINT_MAX
    BY CountInRange
  <2> QED
    BY <1>3, <2>1 DEF INC_RUNNABLE_MACT_COUNT, Pc
<1>4. CASE FollowLink(t)
  BY <1>4 DEF FollowLink, Pc
<1> QED
  BY <1>1, <1>2, <1>3, <1>4

LEMMA ReturnTyped ==
  ASSUME Typing, NEW t \in Task,
         pc[t] = "spin", pc' = [pc EXCEPT ![t] = "user"],
         UNCHANGED <<calls, obj, cur, release_count, mt_state, mt_wait_obj, mt_wait_link,
                     runnable_tasks, aborted>>
  PROVE  DescriptorsTyped' /\ pc[t] # "user" /\ \A s \in Task : s # t => pc'[s] = pc[s]
BY DEF Typing, DescriptorsTyped, TaskTypeOK, Pc

LEMMA WakerTyped ==
  ASSUME Typing, NEW t \in Task, NEW next \in {"user", "next"},
         pc[t] = "mark", pc' = [pc EXCEPT ![t] = next],
         mt_state' \in [Task -> TaskState],
         \/ next = "user"
            /\ obj' = [obj EXCEPT ![t] = NULL] /\ cur' = [cur EXCEPT ![t] = NULL]
            /\ release_count' = [release_count EXCEPT ![t] = 0]
         \/ cur[t] # NULL /\ UNCHANGED <<obj, cur, release_count>>,
         UNCHANGED <<calls, mt_wait_obj, mt_wait_link, runnable_tasks, aborted>>
  PROVE  DescriptorsTyped' /\ pc[t] # "user" /\ \A s \in Task : s # t => pc'[s] = pc[s]
<1> USE DEF Typing, DescriptorsTyped, TaskTypeOK
<1>1. /\ obj' \in [Task -> Object \cup {NULL}] /\ cur' \in [Task -> Task \cup {NULL}]
      /\ release_count' \in [Task -> 0 .. UINT_MAX]
  BY TasksInRange
<1>2. pc' \in [Task -> Pc] /\ pc[t] # "user" /\ \A s \in Task : s # t => pc'[s] = pc[s]
  BY DEF Pc
<1>3. next = "next" => cur'[t] \in Task
  OBVIOUS
<1>4. ASSUME NEW u \in Task, pc'[u] = "next" PROVE cur'[u] \in Task
  <2>1. CASE u = t
    BY <1>3, <1>4, <2>1
  <2>2. CASE u # t
    BY <1>2, <1>4, <2>2
  <2> QED
    BY <2>1, <2>2
<1> QED
  BY <1>1, <1>2, <1>4

LEMMA RunningTyped ==
  ASSUME Typing, NEW h
  PROVE  [mt_state EXCEPT ![h] = "TS_Running"] \in [Task -> TaskState]
BY DEF Typing, DescriptorsTyped, TaskTypeOK, TaskState

LEMMA InLocksTyped ==
  ASSUME Typing, NEW t \in Task, Locks!lockon_return(t) \/ Locks!lockoff_wake(t)
  PROVE  /\ DescriptorsTyped' /\ Locks!LockTypeOK' /\ pc[t] # "user"
         /\ \A s \in Task : s # t => pc'[s] = pc[s]
<1> USE DEF Typing, ObjectsTyped, Locks!LockTypeOK
<1>1. CASE Locks!lockon_return(t)
  <2>1. /\ pc[t] = "spin" /\ pc' = [pc EXCEPT ![t] = "user"]
        /\ UNCHANGED <<calls, obj, cur, release_count, mt_state, mt_wait_obj, mt_wait_link,
                       runnable_tasks, aborted>>
        /\ mt_wait_obj[t] \in Lock
        /\ held' = [held EXCEPT ![t] = @ \cup {mt_wait_obj[t]}]
        /\ UNCHANGED <<ml_state, ml_qhead, ml_qtail, ml_wcount, ml_sem>>
    BY <1>1 DEF Locks!lockon_return, Locks!SeesItselfRunning
  <2>2. /\ DescriptorsTyped' /\ pc[t] # "user"
        /\ \A s \in Task : s # t => pc'[s] = pc[s]
    BY <2>1, ReturnTyped
  <2> QED
    BY <2>1, <2>2
<1>2. CASE Locks!lockoff_wake(t)
  <2>1. /\ pc[t] = "mark" /\ pc' = [pc EXCEPT ![t] = "user"]
        /\ mt_state' = [mt_state EXCEPT ![cur[t]] = "TS_Running"]
        /\ obj' = [obj EXCEPT ![t] = NULL] /\ cur' = [cur EXCEPT ![t] = NULL]
        /\ release_count' = [release_count EXCEPT ![t] = 0]
        /\ UNCHANGED <<calls, mt_wait_obj, mt_wait_link, runnable_tasks, aborted>>
        /\ ml_sem' = [ml_sem EXCEPT ![obj[t]] = NULL]
        /\ UNCHANGED <<ml_state, ml_qhead, ml_qtail, ml_wcount, held>>
    BY <1>2 DEF Locks!lockoff_wake, Locks!Wake, Locks!ForgetLocals
  <2>2. mt_state' \in [Task -> TaskState]
    BY <2>1, RunningTyped
  <2>3. /\ DescriptorsTyped' /\ pc[t] # "user"
        /\ \A s \in Task : s # t => pc'[s] = pc[s]
    BY <2>1, <2>2, WakerTyped
  <2> QED
    BY <2>1, <2>3
<1> QED
  BY <1>1, <1>2

LEMMA InEventsTyped ==
  ASSUME Typing, NEW t \in Task,
         Events!evwait_return(t) \/ Events!evpost_wake(t) \/ Events!evpost_end(t)
  PROVE  /\ DescriptorsTyped' /\ Events!EventTypeOK' /\ pc[t] # "user"
         /\ \A s \in Task : s # t => pc'[s] = pc[s]
<1> USE DEF Typing, ObjectsTyped, Events!EventTypeOK, Events!eventVars
<1>1. CASE Events!evwait_return(t)
  <2>1. /\ pc[t] = "spin" /\ pc' = [pc EXCEPT ![t] = "user"]
        /\ UNCHANGED <<calls, obj, cur, release_count, mt_state, mt_wait_obj, mt_wait_link,
                       runnable_tasks, aborted>>
        /\ UNCHANGED <<me_state, me_qhead, me_qtail, me_wcount, me_sem>>
    BY <1>1 DEF Events!evwait_return, Events!SeesItselfRunning
  <2>2. /\ DescriptorsTyped' /\ pc[t] # "user"
        /\ \A s \in Task : s # t => pc'[s] = pc[s]
    BY <2>1, ReturnTyped
  <2> QED
    BY <2>1, <2>2
<1>2. CASE Events!evpost_wake(t)
  <2>1. /\ pc[t] = "mark" /\ pc' = [pc EXCEPT ![t] = "next"]
        /\ mt_state' = [mt_state EXCEPT ![cur[t]] = "TS_Running"]
        /\ cur[t] # NULL /\ UNCHANGED <<obj, cur, release_count>>
        /\ UNCHANGED <<calls, mt_wait_obj, mt_wait_link, runnable_tasks, aborted>>
        /\ UNCHANGED <<me_state, me_qhead, me_qtail, me_wcount, me_sem>>
    BY <1>2 DEF Events!evpost_wake, Events!Wake
  <2>2. mt_state' \in [Task -> TaskState]
    BY <2>1, RunningTyped
  <2>3. /\ DescriptorsTyped' /\ pc[t] # "user"
        /\ \A s \in Task : s # t => pc'[s] = pc[s]
    BY <2>1, <2>2, WakerTyped
  <2> QED
    BY <2>1, <2>3
<1>3. CASE Events!evpost_end(t)
  <2>1. /\ pc[t] = "mark" /\ pc' = [pc EXCEPT ![t] = "user"]
        /\ obj' = [obj EXCEPT ![t] = NULL] /\ cur' = [cur EXCEPT ![t] = NULL]
        /\ release_count' = [release_count EXCEPT ![t] = 0]
        /\ UNCHANGED <<calls, mt_state, mt_wait_obj, mt_wait_link, runnable_tasks, aborted>>
        /\ me_qhead' = [me_qhead EXCEPT ![obj[t]] = NULL]
        /\ me_qtail' = [me_qtail EXCEPT ![obj[t]] = NULL]
        /\ me_wcount' = [me_wcount EXCEPT ![obj[t]] = 0]
        /\ me_sem' = [me_sem EXCEPT ![obj[t]] = NULL]
        /\ UNCHANGED me_state
    BY <1>3 DEF Events!evpost_end, Events!EndOfWalk, Events!ForgetLocals
  <2>2. mt_state' \in [Task -> TaskState]
    BY <2>1 DEF DescriptorsTyped, TaskTypeOK
  <2>3. /\ DescriptorsTyped' /\ pc[t] # "user"
        /\ \A s \in Task : s # t => pc'[s] = pc[s]
    BY <2>1, <2>2, WakerTyped
  <2> QED
    BY <2>1, <2>3, TasksInRange
<1> QED
  BY <1>1, <1>2, <1>3

LEMMA InBarriersTyped ==
  ASSUME Typing, NEW t \in Task,
         \/ Barriers!barsync_return(t) \/ Barriers!barsync_wake(t)
         \/ Barriers!barsync_close(t)
  PROVE  /\ DescriptorsTyped' /\ Barriers!BarrierTypeOK' /\ pc[t] # "user"
         /\ \A s \in Task : s # t => pc'[s] = pc[s]
<1> USE DEF Typing, ObjectsTyped, Barriers!BarrierTypeOK, Barriers!barrierVars
<1>1. CASE Barriers!barsync_return(t)
  <2>1. /\ pc[t] = "spin" /\ pc' = [pc EXCEPT ![t] = "user"]
        /\ UNCHANGED <<calls, obj, cur, release_count, mt_state, mt_wait_obj, mt_wait_link,
                       runnable_tasks, aborted>>
        /\ UNCHANGED <<mb_ocount, mb_ncount, mb_qhead, mb_qtail, mb_sem>>
    BY <1>1 DEF Barriers!barsync_return, Barriers!SeesItselfRunning
  <2>2. /\ DescriptorsTyped' /\ pc[t] # "user"
        /\ \A s \in Task : s # t => pc'[s] = pc[s]
    BY <2>1, ReturnTyped
  <2> QED
    BY <2>1, <2>2
<1>2. CASE Barriers!barsync_wake(t)
  <2>1. /\ pc[t] = "mark" /\ pc' = [pc EXCEPT ![t] = "next"]
        /\ mt_state' = [mt_state EXCEPT ![cur[t]] = "TS_Running"]
        /\ cur[t] # NULL /\ UNCHANGED <<obj, cur, release_count>>
        /\ UNCHANGED <<calls, mt_wait_obj, mt_wait_link, runnable_tasks, aborted>>
        /\ UNCHANGED <<mb_ocount, mb_ncount, mb_qhead, mb_qtail, mb_sem>>
    BY <1>2 DEF Barriers!barsync_wake, Barriers!Wake
  <2>2. mt_state' \in [Task -> TaskState]
    BY <2>1, RunningTyped
  <2>3. /\ DescriptorsTyped' /\ pc[t] # "user"
        /\ \A s \in Task : s # t => pc'[s] = pc[s]
    BY <2>1, <2>2, WakerTyped
  <2> QED
    BY <2>1, <2>3
<1>3. CASE Barriers!barsync_close(t)
  <2>1. /\ pc[t] = "mark" /\ pc' = [pc EXCEPT ![t] = "user"]
        /\ obj' = [obj EXCEPT ![t] = NULL] /\ cur' = [cur EXCEPT ![t] = NULL]
        /\ release_count' = [release_count EXCEPT ![t] = 0]
        /\ UNCHANGED <<calls, mt_state, mt_wait_obj, mt_wait_link, runnable_tasks, aborted>>
        /\ obj[t] \in Barrier
        /\ mb_qhead' = [mb_qhead EXCEPT ![obj[t]] = NULL]
        /\ mb_qtail' = [mb_qtail EXCEPT ![obj[t]] = NULL]
        /\ mb_ncount' = [mb_ncount EXCEPT ![obj[t]] = mb_ocount[obj[t]]]
        /\ mb_sem' = [mb_sem EXCEPT ![obj[t]] = NULL]
        /\ UNCHANGED mb_ocount
    BY <1>3 DEF Barriers!barsync_close, Barriers!EndOfWalk, Barriers!ForgetLocals
  <2>2. mt_state' \in [Task -> TaskState]
    BY <2>1 DEF DescriptorsTyped, TaskTypeOK
  <2>3. /\ DescriptorsTyped' /\ pc[t] # "user"
        /\ \A s \in Task : s # t => pc'[s] = pc[s]
    BY <2>1, <2>2, WakerTyped
  <2> QED
    BY <2>1, <2>3
<1> QED
  BY <1>1, <1>2, <1>3

LEMMA NamesStay ==
  ASSUME Typing, UNCHANGED <<name, allocated>>
  PROVE  NamesTyped'
BY DEF Typing, NamesTyped

LEMMA CallsStay ==
  ASSUME Typing, NEW t \in Task, UNCHANGED <<program, call, addr>>,
         pc[t] # "user" \/ UNCHANGED pc, \A s \in Task : s # t => pc'[s] = pc[s]
  PROVE  CallsTyped'
BY DEF Typing, CallsTyped, Calls

LEMMA InRuntimeTyped ==
  ASSUME Typing, NEW t \in Task, InRuntime(t)
  PROVE  Typing'
<1>1. UNCHANGED <<name, allocated>> /\ UNCHANGED <<program, call, addr>>
  BY DEF InRuntime, nameVars
<1>2. /\ DescriptorsTyped' /\ ObjectsTyped' /\ pc[t] # "user"
      /\ \A s \in Task : s # t => pc'[s] = pc[s]
  <2>1. CASE /\ \/ DEC_RUNNABLE_MACT_COUNT(t) \/ CHECK_FOR_MACT_DEADLOCK(t)
                \/ INC_RUNNABLE_MACT_COUNT(t) \/ FollowLink(t)
             /\ UNCHANGED objectVars
    <3>1. ObjectsTyped'
      BY <2>1 DEF objectVars, lockVars, eventVars, barrierVars, Typing, ObjectsTyped,
                  Locks!LockTypeOK, Events!EventTypeOK, Barriers!BarrierTypeOK
    <3> QED
      BY <2>1, <3>1, CountingTyped
  <2>2. CASE /\ Locks!lockon_return(t) \/ Locks!lockoff_wake(t)
             /\ UNCHANGED <<eventVars, barrierVars>>
    <3>1. Events!EventTypeOK' /\ Barriers!BarrierTypeOK'
      BY <2>2 DEF eventVars, barrierVars, Typing, ObjectsTyped, Events!EventTypeOK,
                  Barriers!BarrierTypeOK
    <3> QED
      BY <2>2, <3>1, InLocksTyped DEF ObjectsTyped
  <2>3. CASE /\ Events!evwait_return(t) \/ Events!evpost_wake(t) \/ Events!evpost_end(t)
             /\ UNCHANGED <<lockVars, barrierVars>>
    <3>1. Locks!LockTypeOK' /\ Barriers!BarrierTypeOK'
      BY <2>3 DEF lockVars, barrierVars, Typing, ObjectsTyped, Locks!LockTypeOK,
                  Barriers!BarrierTypeOK
    <3> QED
      BY <2>3, <3>1, InEventsTyped DEF ObjectsTyped
  <2>4. CASE /\ \/ Barriers!barsync_return(t) \/ Barriers!barsync_wake(t)
                \/ Barriers!barsync_close(t)
             /\ UNCHANGED <<lockVars, eventVars>>
    <3>1. Locks!LockTypeOK' /\ Events!EventTypeOK'
      BY <2>4 DEF lockVars, eventVars, Typing, ObjectsTyped, Locks!LockTypeOK,
                  Events!EventTypeOK
    <3> QED
      BY <2>4, <3>1, InBarriersTyped DEF ObjectsTyped
  <2> QED
    BY <2>1, <2>2, <2>3, <2>4 DEF InRuntime
<1>3. NamesTyped' /\ CallsTyped'
  BY <1>1, <1>2, NamesStay, CallsStay
<1> QED
  BY <1>2, <1>3 DEF Typing

(* A call on the object whose address was read: it is one of its kind.     *)
LEMMA AddressOfKind ==
  ASSUME Typing, NEW t \in Task
  PROVE  /\ call[t] \in OnLock => addr[t] \in Lock
         /\ call[t] \in OnEvent => addr[t] \in Event
         /\ call[t] \in OnBarrier => addr[t] \in Barrier
         /\ call[t] \in {"free", "refused"} =>
              addr[t] \in ObjectsOf(KindOf(Head(program[t])))
BY KindsOfCalls, KindsOfObjects DEF Typing, CallsTyped, Calls

LEMMA UseTyped ==
  ASSUME Typing, NEW t \in Task, UseLock(t) \/ UseEvent(t) \/ UseBarrier(t)
  PROVE  Typing'
<1>1. UNCHANGED <<name, allocated>> /\ Done(t) /\ call[t] # "none"
  BY DEF UseLock, UseEvent, UseBarrier
<1>2. /\ DescriptorsTyped' /\ ObjectsTyped'
      /\ \A s \in Task : s # t => pc'[s] = pc[s]
  <2>1. CASE UseLock(t)
    <3>1. Events!EventTypeOK' /\ Barriers!BarrierTypeOK'
      BY <2>1 DEF UseLock, eventVars, barrierVars, Typing, ObjectsTyped,
                  Events!EventTypeOK, Barriers!BarrierTypeOK
    <3>2. addr[t] \in Lock
      BY <2>1, AddressOfKind DEF UseLock, OnLock
    <3> QED
      BY <2>1, <3>1, <3>2, LockCallTyped DEF UseLock, ObjectsTyped
  <2>2. CASE UseEvent(t)
    <3>1. Locks!LockTypeOK' /\ Barriers!BarrierTypeOK'
      BY <2>2 DEF UseEvent, lockVars, barrierVars, Typing, ObjectsTyped,
                  Locks!LockTypeOK, Barriers!BarrierTypeOK
    <3>2. addr[t] \in Event
      BY <2>2, AddressOfKind DEF UseEvent, OnEvent
    <3> QED
      BY <2>2, <3>1, <3>2, EventCallTyped DEF UseEvent, ObjectsTyped
  <2>3. CASE UseBarrier(t)
    <3>1. Locks!LockTypeOK' /\ Events!EventTypeOK'
      BY <2>3 DEF UseBarrier, lockVars, eventVars, Typing, ObjectsTyped,
                  Locks!LockTypeOK, Events!EventTypeOK
    <3>2. addr[t] \in Barrier
      BY <2>3, AddressOfKind DEF UseBarrier, OnBarrier
    <3> QED
      BY <2>3, <3>1, <3>2, BarrierCallTyped DEF UseBarrier, ObjectsTyped
  <2> QED
    BY <2>1, <2>2, <2>3
<1>3. NamesTyped' /\ CallsTyped'
  BY <1>1, <1>2, NamesStay, DoneTyped
<1> QED
  BY <1>2, <1>3 DEF Typing

(* The program's own steps: reading its variables, creating and releasing. *)
LEMMA RestStays ==
  ASSUME Typing, UNCHANGED <<taskVars, objectVars>>
  PROVE  DescriptorsTyped' /\ ObjectsTyped'
BY DEF Typing, DescriptorsTyped, ObjectsTyped, TaskTypeOK, taskVars, objectVars, lockVars,
       eventVars, barrierVars, Locks!LockTypeOK, Events!EventTypeOK, Barriers!BarrierTypeOK

LEMMA BeginTyped ==
  ASSUME Typing, NEW t \in Task, UNCHANGED <<pc, program>>, pc[t] = "user",
         program[t] # <<>>,
         NEW c \in Use \cup {"create", "free", "refused"}, NEW a \in Object \cup {NULL},
         call' = [call EXCEPT ![t] = c], addr' = [addr EXCEPT ![t] = a],
         c \in Use => Head(program[t]) = c,
         c = "create" => Head(program[t]) \in Assign /\ a = NULL,
         c \in {"free", "refused"} => Head(program[t]) \in Release,
         c \in Use \cup {"free", "refused"} =>
           a \in ObjectsOf(KindOf(Head(program[t])))
  PROVE  CallsTyped'
<1> USE DEF Typing, CallsTyped
<1>1. c # "none"
  BY KindsOfCalls
<1>2. \A s \in Task : s # t => call'[s] = call[s] /\ addr'[s] = addr[s]
  OBVIOUS
<1>3. call'[t] = c /\ addr'[t] = a
  OBVIOUS
<1>4. Calls'
  BY <1>1, <1>2, <1>3 DEF Calls
<1> QED
  BY <1>4

LEMMA NameOfKind ==
  ASSUME Typing, NEW t \in Task, Head(program[t]) \in Use \cup Assign \cup Release
  PROVE  /\ ItsName(t) \in ObjectsOf(KindOf(Head(program[t]))) \cup {NULL}
         /\ ItsName(t) \in allocated \cup {NULL} /\ ItsName(t) \in Object \cup {NULL}
BY KindsOfCalls DEF Typing, NamesTyped, ItsName

LEMMA BeginningsTyped ==
  ASSUME Typing, NEW t \in Task, ReadName(t) \/ LookAtObject(t) \/ LookAtName(t)
  PROVE  Typing'
<1>1. UNCHANGED <<taskVars, objectVars>> /\ UNCHANGED <<name, allocated>>
      /\ pc[t] = "user" /\ program[t] # <<>>
  BY DEF ReadName, LookAtObject, LookAtName, Wants
<1>2. pc' = pc
  BY <1>1 DEF taskVars
<1>3. CASE ReadName(t)
  <2>1. /\ Head(program[t]) \in Use /\ ItsName(t) # NULL /\ UNCHANGED program
        /\ call' = [call EXCEPT ![t] = Head(program[t])]
        /\ addr' = [addr EXCEPT ![t] = ItsName(t)]
    BY <1>3 DEF ReadName, Wants
  <2>2. CallsTyped'
    BY <1>1, <1>2, <2>1, BeginTyped, NameOfKind, KindsOfCalls
  <2> QED
    BY <1>1, <2>2, RestStays, NamesStay DEF Typing
<1>4. CASE LookAtObject(t)
  <2>1. PICK c \in {"free", "refused"} : call' = [call EXCEPT ![t] = c]
    BY <1>4 DEF LookAtObject
  <2>2. /\ Head(program[t]) \in Release /\ ItsName(t) # NULL /\ UNCHANGED program
        /\ addr' = [addr EXCEPT ![t] = ItsName(t)]
    BY <1>4 DEF LookAtObject, Wants
  <2>3. CallsTyped'
    BY <1>1, <1>2, <2>1, <2>2, BeginTyped, NameOfKind, KindsOfCalls
  <2> QED
    BY <1>1, <2>3, RestStays, NamesStay DEF Typing
<1>5. CASE LookAtName(t)
  <2>1. Head(program[t]) \in Assign /\ call[t] = "none"
    BY <1>5 DEF LookAtName, Wants
  <2>2. CASE AlreadyAssigned(t)
    <3>1. CallsTyped'
      BY <1>1, <1>2, <1>5, <2>2, DoneTyped DEF LookAtName
    <3> QED
      BY <1>1, <3>1, RestStays, NamesStay DEF Typing
  <2>3. CASE ~AlreadyAssigned(t)
    <3>1. UNCHANGED program /\ UNCHANGED addr /\ call' = [call EXCEPT ![t] = "create"]
      BY <1>5, <2>3 DEF LookAtName
    <3>2. addr[t] = NULL /\ addr \in [Task -> Object \cup {NULL}]
      BY <2>1 DEF Typing, CallsTyped, Calls
    <3>3. addr' = [addr EXCEPT ![t] = NULL]
      BY <3>1, <3>2
    <3>4. CallsTyped'
      BY <1>1, <1>2, <2>1, <3>1, <3>3, BeginTyped, KindsOfCalls
    <3> QED
      BY <1>1, <3>4, RestStays, NamesStay DEF Typing
  <2> QED
    BY <2>2, <2>3
<1> QED
  BY <1>3, <1>4, <1>5

LEMMA SkipsTyped ==
  ASSUME Typing, NEW t \in Task, SkipUnlock(t) \/ Join(t)
  PROVE  Typing'
<1>1. /\ UNCHANGED <<taskVars, objectVars>> /\ UNCHANGED <<name, allocated>>
      /\ program[t] # <<>> /\ Done(t)
  BY DEF SkipUnlock, Join, Wants
<1>2. pc' = pc
  BY <1>1 DEF taskVars
<1> QED
  BY <1>1, <1>2, RestStays, NamesStay, DoneTyped DEF Typing

LEMMA StoreTyped ==
  ASSUME Typing, NEW t \in Task, NEW kind \in Kind, NEW o \in ObjectsOf(kind),
         StoreNew(t, kind, o)
  PROVE  DescriptorsTyped' /\ NamesTyped' /\ CallsTyped'
<1>1. /\ call[t] = "create" /\ allocated' = allocated \cup {o}
      /\ name' = [name EXCEPT ![kind] = o] /\ Done(t) /\ UNCHANGED taskVars
  BY DEF StoreNew
<1>2. pc' = pc
  BY <1>1 DEF taskVars
<1>3. CallsTyped'
  BY <1>1, <1>2, DoneTyped
<1>4. NamesTyped'
  BY <1>1, KindsOfObjects DEF Typing, NamesTyped
<1>5. DescriptorsTyped'
  BY <1>1 DEF taskVars, Typing, DescriptorsTyped, TaskTypeOK
<1> QED
  BY <1>3, <1>4, <1>5

LEMMA AssignsTyped ==
  ASSUME Typing, NEW t \in Task,
         \/ \E l \in Lock : _mact_vararg_lockasgn(t, l)
         \/ \E e \in Event : _mact_vararg_evasgn(t, e)
         \/ \E b \in Barrier : barasgn_(t, b)
  PROVE  Typing'
<1> USE KindsOfObjects, TasksInRange
<1>0. "lock" \in Kind /\ "event" \in Kind /\ "barrier" \in Kind
  BY DEF Kind
<1>1. ASSUME NEW l \in Lock, _mact_vararg_lockasgn(t, l) PROVE Typing'
  <2>1. DescriptorsTyped' /\ NamesTyped' /\ CallsTyped'
    BY <1>0, <1>1, StoreTyped DEF _mact_vararg_lockasgn
  <2>2. ObjectsTyped'
    BY <1>1 DEF _mact_vararg_lockasgn, eventVars, barrierVars, Typing, ObjectsTyped,
                Locks!LockTypeOK, Events!EventTypeOK, Barriers!BarrierTypeOK
  <2> QED
    BY <2>1, <2>2 DEF Typing
<1>2. ASSUME NEW e \in Event, _mact_vararg_evasgn(t, e) PROVE Typing'
  <2>1. DescriptorsTyped' /\ NamesTyped' /\ CallsTyped'
    BY <1>0, <1>2, StoreTyped DEF _mact_vararg_evasgn
  <2>2. ObjectsTyped'
    BY <1>2 DEF _mact_vararg_evasgn, lockVars, barrierVars, Typing, ObjectsTyped,
                Locks!LockTypeOK, Events!EventTypeOK, Barriers!BarrierTypeOK
  <2> QED
    BY <2>1, <2>2 DEF Typing
<1>3. ASSUME NEW b \in Barrier, barasgn_(t, b) PROVE Typing'
  <2>1. DescriptorsTyped' /\ NamesTyped' /\ CallsTyped'
    BY <1>0, <1>3, StoreTyped DEF barasgn_
  <2>2. PICK value \in Counts : /\ mb_ocount' = [mb_ocount EXCEPT ![b] = value]
                                /\ mb_ncount' = [mb_ncount EXCEPT ![b] = value]
    BY <1>3 DEF barasgn_
  <2>3. value \in 0 .. UINT_MAX
    BY ObjectAssumption
  <2>4. ObjectsTyped'
    BY <1>3, <2>2, <2>3 DEF barasgn_, lockVars, eventVars, Typing, ObjectsTyped,
                Locks!LockTypeOK, Events!EventTypeOK, Barriers!BarrierTypeOK
  <2> QED
    BY <2>1, <2>4 DEF Typing
<1> QED
  BY <1>1, <1>2, <1>3

(* A release takes from the allocated objects what it takes from the       *)
(* variables: the object of no other kind.                                 *)
LEMMA FreeTyped ==
  ASSUME Typing, NEW t \in Task, Free(t)
  PROVE  Typing'
<1> DEFINE kind == KindOf(Head(program[t]))
<1>1. /\ call[t] = "free" /\ Done(t) /\ UNCHANGED <<taskVars, objectVars>>
      /\ allocated' = allocated \ {name[kind]} /\ name' = [name EXCEPT ![kind] = NULL]
  BY DEF Free, ItsName, Cleared
<1>2. pc' = pc
  BY <1>1 DEF taskVars
<1>3. kind \in Kind
  BY <1>1, KindsOfCalls DEF Typing, CallsTyped, Calls
<1> HIDE DEF kind
<1>4. ASSUME NEW k \in Kind
      PROVE  name'[k] \in (allocated' \cup {NULL}) \cap (ObjectsOf(k) \cup {NULL})
  <2>1. name[k] \in allocated \cup {NULL} /\ name[k] \in ObjectsOf(k) \cup {NULL}
        /\ name[kind] \in ObjectsOf(kind) \cup {NULL}
    BY <1>3 DEF Typing, NamesTyped
  <2>2. CASE k = kind
    BY <1>1, <1>3, <2>2 DEF Typing, NamesTyped
  <2>3. CASE k # kind
    <3>1. name'[k] = name[k]
      BY <1>1, <2>3 DEF Typing, NamesTyped
    <3>2. name[k] = NULL \/ name[k] # name[kind]
      BY <1>3, <2>1, <2>3, KindsOfObjects
    <3> QED
      BY <1>1, <2>1, <3>1, <3>2
  <2> QED
    BY <2>2, <2>3
<1>5. NamesTyped'
  <2>1. DOMAIN name' = Kind /\ name' = [k \in Kind |-> name'[k]]
    BY <1>1 DEF Typing, NamesTyped
  <2> QED
    BY <1>1, <1>4, <2>1 DEF Typing, NamesTyped
<1> QED
  BY <1>1, <1>2, <1>5, RestStays, DoneTyped DEF Typing

LEMMA StepTyping == Typing /\ [Next]_vars => Typing'
<1> SUFFICES ASSUME Typing, [Next]_vars PROVE Typing'
  OBVIOUS
<1>1. CASE UNCHANGED vars
  <2>1. UNCHANGED <<taskVars, objectVars>> /\ UNCHANGED <<name, allocated>>
        /\ UNCHANGED <<program, call, addr>> /\ UNCHANGED pc
    BY <1>1 DEF vars, nameVars, taskVars
  <2>2. PICK t \in Task : TRUE
    BY TaskAssumption
  <2> QED
    BY <2>1, <2>2, RestStays, NamesStay, CallsStay DEF Typing
<1> QED
  BY <1>1, InRuntimeTyped, UseTyped, BeginningsTyped, SkipsTyped, AssignsTyped, FreeTyped
  DEF Next

LEMMA InitTyping == Init => Typing
<1> SUFFICES ASSUME Init PROVE Typing
  OBVIOUS
<1> USE TaskAssumption, ObjectAssumption, TasksInRange
<1>1. Cardinality(Task \ Autotask) \in 0 .. UINT_MAX
  <2>1. /\ Cardinality(Task \ Autotask) \in Nat
        /\ Cardinality(Task \ Autotask) <= Cardinality(Task)
    BY FS_Subset, FS_CardinalityType
  <2> QED
    BY <2>1, CountAssumption
<1>2. DescriptorsTyped
  <2>1. mt_state \in [Task -> TaskState]
    BY DEF Init, TaskInit, TaskState
  <2> QED
    BY <1>1, <2>1 DEF Init, TaskInit, TaskTypeOK, Pc, DescriptorsTyped
<1>3. ObjectsTyped
  BY DEF Init, ObjectsTyped, Locks!LockInit, Events!EventInit, Barriers!BarrierInit,
         Locks!LockTypeOK, Events!EventTypeOK, Barriers!BarrierTypeOK
<1>4. NamesTyped
  BY DEF Init, NamesTyped
<1>5. CallsTyped
  <2>1. /\ program \in [Task -> Seq(STRING)] /\ call = [t \in Task |-> "none"]
        /\ addr = [t \in Task |-> NULL]
    BY ProgramsAssumption DEF Init
  <2> QED
    BY <2>1, KindsOfCalls DEF CallsTyped, Calls
<1> QED
  BY <1>2, <1>3, <1>4, <1>5 DEF Typing

LEMMA TypingInvariant == Spec => []Typing
BY InitTyping, StepTyping, PTL DEF Spec

(* Whatever a program does with its objects, the state has its type, and a *)
(* variable of the program holds an object of its kind that malloc has     *)
(* handed out and that has not been given back, or zero: no release leaves *)
(* an address behind, however several of them and assignments interleave.  *)
THEOREM TypeCorrect == Spec => []TypeOK
BY TypingInvariant, TypingImplies, PTL

-----------------------------------------------------------------------------
(* One view of the three kinds of objects.                                 *)
QHead(o) ==
  IF o \in Lock THEN ml_qhead[o] ELSE IF o \in Event THEN me_qhead[o] ELSE mb_qhead[o]
QTail(o) ==
  IF o \in Lock THEN ml_qtail[o] ELSE IF o \in Event THEN me_qtail[o] ELSE mb_qtail[o]
Sem(o) ==
  IF o \in Lock THEN ml_sem[o] ELSE IF o \in Event THEN me_sem[o] ELSE mb_sem[o]
WaitStateOf(o) ==
  IF o \in Lock THEN "TS_Lock_Wait"
  ELSE IF o \in Event THEN "TS_Event_Wait" ELSE "TS_Bar_Wait"

WaitsAt(t, o) == Waiting(t) /\ mt_wait_obj[t] = o

(* A LOCKOFF of o in progress is going to wake t.                          *)
Chosen(t, o) ==
  o \in Lock /\ \E u \in Task : pc[u] \in WakePc /\ obj[u] = o /\ cur[u] = t

(* Who waits at o and is still to be woken, or chosen; who waits there no  *)
(* longer in vain.                                                         *)
Pending(o) ==
  {t \in Task : WaitsAt(t, o) /\ mt_state[t] # "TS_Running" /\ ~Chosen(t, o)}
Granted(o) == {t \in Task : WaitsAt(t, o)} \ Pending(o)

(* Where the queue of o begins: while it is being walked, where the rest   *)
(* of the walk begins.                                                     *)
First(o) ==
  IF o \in Lock \/ Sem(o) = NULL THEN QHead(o)
  ELSE LET u == Sem(o) IN IF pc[u] = "next" THEN mt_wait_link[cur[u]] ELSE cur[u]

IsQueue(q, o) ==
  /\ q \in Seq(Task)
  /\ IsList(q, First(o), mt_wait_link, NULL)
  /\ Nodes(q) = Pending(o)
  /\ (o \in Lock \/ Sem(o) = NULL) /\ q # <<>> => QTail(o) = q[Len(q)]

Queues == \A o \in Object : \E q \in Seq(Task) : IsQueue(q, o)

WaitersWait ==
  \A t \in Task : Waiting(t) =>
    /\ mt_wait_obj[t] \in Object
    /\ mt_state[t] \in {"TS_Running", WaitStateOf(mt_wait_obj[t])}

WakersWake ==
  /\ \A u \in Task : pc[u] \in WakePc =>
       /\ obj[u] \in Object /\ Sem(obj[u]) = u
       /\ pc[u] = "next" => obj[u] \notin Lock
       /\ obj[u] \in Lock =>
            /\ cur[u] \in Task /\ WaitsAt(cur[u], obj[u])
            /\ mt_state[cur[u]] # "TS_Running" /\ release_count[u] = 1
  /\ \A o \in Object : \A u \in Task : Sem(o) = u => pc[u] \in WakePc /\ obj[u] = o

(* What the words of the objects say of their queues and owners.           *)
Owners(l) == {t \in Task : l \in held[t]} \cup Granted(l)

LockWord(l) ==
  /\ ml_state[l] = "LS_Unlocked" => Owners(l) = {} /\ Pending(l) = {}
  /\ ml_state[l] = "LS_Locked" => Owners(l) # {}
  /\ \A t, u \in Owners(l) : t = u
  /\ ml_wcount[l] = Cardinality(Pending(l))

EventWord(e) ==
  /\ me_sem[e] # NULL => me_state[e] = "ES_Posted"
  /\ me_sem[e] = NULL => me_wcount[e] = Cardinality(Pending(e))
  /\ me_sem[e] = NULL /\ me_state[e] = "ES_Posted" => Pending(e) = {}

(* How many are still missing, of a count, when some have arrived.         *)
Missing(count, arrived) ==
  IF count # 0 THEN count - arrived
  ELSE IF arrived = 0 THEN 0 ELSE UINT_MAX + 1 - arrived

BarrierWord(b) ==
  mb_sem[b] = NULL =>
    /\ mb_ncount[b] = Missing(mb_ocount[b], Cardinality(Pending(b)))
    /\ mb_ocount[b] # 0 => mb_ncount[b] # 0

LockWords == \A l \in Lock : LockWord(l)
EventWords == \A e \in Event : EventWord(e)
BarrierWords == \A b \in Barrier : BarrierWord(b)

(* Nobody holds a lock whose memory has been given back, and a release     *)
(* that has found its object idle finds it so until it is through.         *)
HeldAreAllocated == \A t \in Task : held[t] \subseteq allocated
FreeAreIdle == \A t \in Task : call[t] = "free" => ~InUse(addr[t])

ObjectsInv ==
  /\ Queues /\ WaitersWait /\ WakersWake
  /\ LockWords /\ EventWords /\ BarrierWords

NamesInv == SameObject /\ HeldAreAllocated /\ FreeAreIdle /\ RefusedRightly

(* The runnable count is that of the tasks that are not asleep, and of     *)
(* those asleep that have been woken, or that a walk past its increment of *)
(* the count is yet to meet.  A waker that has yet to increment it has     *)
(* counted its waiters right, and the count is zero only while some task   *)
(* is about to look for a deadlock.                                        *)
Counted == {t \in Task : pc[t] \notin {"check", "spin"}}

PutBack ==
  {t \in Task :
     /\ Waiting(t)
     /\ \/ mt_state[t] = "TS_Running"
        \/ \E u \in Task :
             /\ pc[u] \in {"mark", "next"} /\ obj[u] = mt_wait_obj[t]
             /\ obj[u] \in Lock => cur[u] = t}

CountsItsWaiters ==
  \A u \in Task : pc[u] = "inc" /\ obj[u] \notin Lock =>
    release_count[u] = Cardinality(Pending(obj[u]))

CountInv ==
  /\ runnable_tasks = Cardinality(Counted) + Cardinality(PutBack)
  /\ CountsItsWaiters
  /\ runnable_tasks = 0 => aborted \/ \E t \in Task : pc[t] = "check"
  /\ NoFalseDeadlock

-----------------------------------------------------------------------------
(* What each kind of step does to the queues, whatever the object is.      *)
CoreInv == Queues /\ WaitersWait /\ WakersWake

Same(o) == Pending(o)' = Pending(o) /\ Granted(o)' = Granted(o)
Stay(S) == \A p \in S : Same(p)

LEMMA ViewTyped ==
  ASSUME Typing, NEW o \in Object
  PROVE  QHead(o) \in Task \cup {NULL} /\ QTail(o) \in Task \cup {NULL}
         /\ Sem(o) \in Task \cup {NULL}
BY DEF Typing, ObjectsTyped, Locks!LockTypeOK, Events!EventTypeOK, Barriers!BarrierTypeOK,
       QHead, QTail, Sem, Object

LEMMA WaitStates ==
  /\ \A o : WaitStateOf(o) \in TaskState /\ WaitStateOf(o) # "TS_Running"
  /\ WaitPc \cap WakePc = {} /\ "user" \notin WaitPc \cup WakePc
BY DEF WaitStateOf, TaskState, WaitPc, WakePc

(* A list without its first node, as a sequence of its own.                *)
LEMMA ListIsShortened ==
  ASSUME NEW Node, NEW null, null \notin Node, NEW q \in Seq(Node), NEW h, NEW next,
         IsList(q, h, next, null), q # <<>>,
         NEW k, k = next[h], NEW d, d = q[Len(q)]
  PROVE  \E r \in Seq(Node) :
           /\ IsList(r, k, next, null) /\ Nodes(r) = Nodes(q) \ {h}
           /\ r # <<>> => k # null /\ r[Len(r)] = d
<1>1. /\ Tail(q) \in Seq(Node) /\ IsList(Tail(q), next[h], next, null)
      /\ Nodes(Tail(q)) = Nodes(q) \ {h}
  BY ListLosesHead
<1>2. Tail(q) # <<>> => Tail(q)[Len(Tail(q))] = q[Len(q)]
  OBVIOUS
<1>3. PICK r \in Seq(Node) :
        /\ IsList(r, k, next, null) /\ Nodes(r) = Nodes(q) \ {h}
        /\ r # <<>> => r[Len(r)] = d
  BY <1>1, <1>2
<1>4. k = null <=> r = <<>>
  BY <1>3, EndsOfList
<1> QED
  BY <1>3, <1>4

LEMMA QueueEnds ==
  ASSUME NEW o \in Object, NEW q \in Seq(Task), IsQueue(q, o)
  PROVE  /\ First(o) = NULL <=> q = <<>>
         /\ First(o) = NULL <=> Pending(o) = {}
         /\ q # <<>> => First(o) \in Pending(o) /\ q[Len(q)] \in Pending(o)
         /\ IsFiniteSet(Pending(o)) /\ Cardinality(Pending(o)) = Len(q)
BY TaskAssumption, EndsOfList, NodesAreDistinct DEF IsQueue

(* What is behind h, the first of the queue of o.                          *)
Behind(r, o, h) ==
  /\ IsList(r, mt_wait_link[h], mt_wait_link, NULL)
  /\ Nodes(r) = Pending(o) \ {h}
  /\ (o \in Lock \/ Sem(o) = NULL) /\ r # <<>> =>
       mt_wait_link[h] # NULL /\ QTail(o) = r[Len(r)]

LEMMA BehindFirst ==
  ASSUME NEW o \in Object, CoreInv, NEW h \in Task, First(o) = h
  PROVE  h \in Pending(o) /\ \E r \in Seq(Task) : Behind(r, o, h)
<1>1. PICK q \in Seq(Task) : IsQueue(q, o)
  BY DEF CoreInv, Queues
<1>2. PICK g, k, d : g = mt_wait_link /\ k = g[h] /\ d = q[Len(q)]
  OBVIOUS
<1>3. IsList(q, h, g, NULL) /\ Nodes(q) = Pending(o) /\ NULL \notin Task
  BY <1>1, <1>2, TaskAssumption DEF IsQueue
<1>4. q # <<>> /\ h \in Pending(o)
  BY <1>1, QueueEnds, TaskAssumption
<1>5. PICK r \in Seq(Task) :
        /\ IsList(r, k, g, NULL) /\ Nodes(r) = Nodes(q) \ {h}
        /\ r # <<>> => k # NULL /\ r[Len(r)] = d
  BY <1>2, <1>3, <1>4, ListIsShortened
<1> QED
  BY <1>1, <1>2, <1>3, <1>4, <1>5 DEF IsQueue, Behind

(* A step that moves a task neither into nor out of a wait or a wake-up    *)
(* and writes no queue that somebody is in.                                *)
LEMMA QuietStep ==
  ASSUME Typing, CoreInv,
         UNCHANGED <<obj, cur, release_count, mt_state, mt_wait_obj, mt_wait_link>>,
         \A s \in Task : /\ pc'[s] \in WaitPc <=> pc[s] \in WaitPc
                         /\ pc'[s] \in WakePc <=> pc[s] \in WakePc
                         /\ pc'[s] = "next" <=> pc[s] = "next",
         \A p \in Object : /\ QHead(p)' = QHead(p) /\ Sem(p)' = Sem(p)
                           /\ QTail(p)' = QTail(p) \/ Pending(p) = {}
  PROVE  CoreInv' /\ Stay(Object)
<1>1. \A s \in Task : \A p : WaitsAt(s, p)' <=> WaitsAt(s, p)
  BY DEF WaitsAt, Waiting
<1>2. \A s \in Task : \A p : Chosen(s, p)' <=> Chosen(s, p)
  BY DEF Chosen
<1>3. Stay(Object)
  BY <1>1, <1>2 DEF Stay, Same, Pending, Granted
<1>4. ASSUME NEW p \in Object PROVE First(p)' = First(p)
  BY ViewTyped DEF First
<1>5. ASSUME NEW p \in Object PROVE \E q \in Seq(Task) : IsQueue(q, p)'
  <2>1. PICK q \in Seq(Task) : IsQueue(q, p)
    BY DEF CoreInv, Queues
  <2>2. q # <<>> => QTail(p)' = QTail(p)
    BY <2>1, QueueEnds
  <2>3. IsQueue(q, p)'
    BY <1>3, <1>4, <2>1, <2>2 DEF IsQueue, Stay, Same
  <2> QED
    BY <2>3
<1>6. WaitersWait'
  BY DEF CoreInv, WaitersWait, Waiting
<1>7. WakersWake'
  BY <1>1 DEF CoreInv, WakersWake
<1> QED
  BY <1>3, <1>5, <1>6, <1>7 DEF CoreInv, Queues

(* A task returns from its wait.                                           *)
LEMMA ReturnStep ==
  ASSUME Typing, CoreInv, NEW t \in Task,
         pc[t] = "spin", mt_state[t] = "TS_Running", pc' = [pc EXCEPT ![t] = "user"],
         UNCHANGED <<obj, cur, release_count, mt_state, mt_wait_obj, mt_wait_link>>,
         \A p \in Object : QHead(p)' = QHead(p) /\ Sem(p)' = Sem(p) /\ QTail(p)' = QTail(p)
  PROVE  /\ CoreInv'
         /\ t \in Granted(mt_wait_obj[t]) /\ mt_wait_obj[t] \in Object
         /\ \A p \in Object : Pending(p)' = Pending(p) /\ Granted(p)' = Granted(p) \ {t}
<1>0. pc \in [Task -> Pc]
  BY DEF Typing, DescriptorsTyped, TaskTypeOK
<1>1. \A s \in Task : \A p : WaitsAt(s, p)' <=> WaitsAt(s, p) /\ s # t
  BY <1>0 DEF WaitsAt, Waiting, WaitPc
<1>2. \A s \in Task : /\ pc'[s] \in WakePc <=> pc[s] \in WakePc
                      /\ pc'[s] = "next" <=> pc[s] = "next"
  BY <1>0 DEF WakePc
<1>3. \A s \in Task : \A p : Chosen(s, p)' <=> Chosen(s, p)
  BY <1>2 DEF Chosen
<1>4. /\ \A p \in Object : t \notin Pending(p)
      /\ t \in Granted(mt_wait_obj[t]) /\ mt_wait_obj[t] \in Object
  BY DEF Pending, Granted, WaitsAt, Waiting, WaitPc, CoreInv, WaitersWait
<1>5. \A p \in Object : Pending(p)' = Pending(p) /\ Granted(p)' = Granted(p) \ {t}
  BY <1>1, <1>3, <1>4 DEF Pending, Granted
<1>6. ASSUME NEW p \in Object PROVE First(p)' = First(p)
  BY <1>2, ViewTyped DEF First
<1>7. ASSUME NEW p \in Object PROVE \E q \in Seq(Task) : IsQueue(q, p)'
  <2>1. PICK q \in Seq(Task) : IsQueue(q, p)
    BY DEF CoreInv, Queues
  <2>2. IsQueue(q, p)'
    BY <1>5, <1>6, <2>1 DEF IsQueue
  <2> QED
    BY <2>2
<1>8. WaitersWait'
  BY <1>0 DEF CoreInv, WaitersWait, Waiting, WaitPc
<1>9. WakersWake'
  BY <1>1, <1>2 DEF CoreInv, WakersWake
<1> QED
  BY <1>4, <1>5, <1>7, <1>8, <1>9 DEF CoreInv, Queues

(* A task joins the queue of o and waits.  A walk that has just woken it   *)
(* stands on it: the link it is about to read is still that of a last task.*)
LEMMA ParkStep ==
  ASSUME Typing, CoreInv, LinksAreRead', NEW t \in Task, NEW o \in Object,
         Sem(o) = NULL, pc[t] = "user", pc' = [pc EXCEPT ![t] = "dec"],
         mt_wait_obj' = [mt_wait_obj EXCEPT ![t] = o],
         mt_wait_link' = LinkedAtTail(t, QHead(o), QTail(o)),
         mt_state' = [mt_state EXCEPT ![t] = WaitStateOf(o)],
         UNCHANGED <<obj, cur, release_count>>,
         \A p \in Object :
           /\ QHead(p)' = IF p = o /\ QHead(o) = NULL THEN t ELSE QHead(p)
           /\ QTail(p)' = IF p = o THEN t ELSE QTail(p)
           /\ Sem(p)' = Sem(p)
  PROVE  /\ CoreInv' /\ (\A p \in Object : p = o \/ Same(p))
         /\ t \notin Pending(o) /\ Pending(o)' = Pending(o) \cup {t}
         /\ Granted(o)' = Granted(o)
<1>0. /\ pc \in [Task -> Pc] /\ mt_wait_obj \in [Task -> Object \cup {NULL}]
      /\ mt_state \in [Task -> TaskState] /\ mt_wait_link \in [Task -> Task \cup {NULL}]
      /\ cur \in [Task -> Task \cup {NULL}]
      /\ \A u \in Task : pc[u] = "next" => cur[u] \in Task
  BY DEF Typing, DescriptorsTyped, TaskTypeOK
<1>1. /\ ~Waiting(t) /\ Waiting(t)'
      /\ \A s \in Task : s # t => (Waiting(s)' <=> Waiting(s))
  BY <1>0 DEF Waiting, WaitPc
<1>2. \A s \in Task : \A p : WaitsAt(s, p)' <=> IF s = t THEN p = o ELSE WaitsAt(s, p)
  BY <1>0, <1>1 DEF WaitsAt
<1>3. /\ \A s \in Task : /\ pc'[s] \in WakePc <=> pc[s] \in WakePc
                         /\ pc'[s] = "next" <=> pc[s] = "next"
      /\ \A s \in Task : pc[s] \in WakePc => s # t
  BY <1>0 DEF WakePc
<1>4. \A s \in Task : \A p : Chosen(s, p)' <=> Chosen(s, p)
  BY <1>3 DEF Chosen
<1>5. \A p \in Object : ~Chosen(t, p) /\ t \notin Pending(p) /\ t \notin Granted(p)
  BY <1>1 DEF Chosen, CoreInv, WakersWake, WaitsAt, Pending, Granted, Object
<1>6. mt_state'[t] = WaitStateOf(o) /\ \A s \in Task : s # t => mt_state'[s] = mt_state[s]
  BY <1>0
<1>7. ASSUME NEW p \in Object
      PROVE  /\ Pending(p)' = IF p = o THEN Pending(o) \cup {t} ELSE Pending(p)
             /\ Granted(p)' = Granted(p)
  <2>1. \A s \in Task : s \in Pending(p)' <=> IF s = t THEN p = o ELSE s \in Pending(p)
    BY <1>2, <1>4, <1>5, <1>6, WaitStates DEF Pending
  <2>2. Pending(p)' \subseteq Task /\ Pending(p) \subseteq Task
    BY DEF Pending
  <2>3. Pending(p)' = IF p = o THEN Pending(o) \cup {t} ELSE Pending(p)
    BY <1>5, <2>1, <2>2
  <2>4. \A s \in Task : s \in Granted(p)' <=> s \in Granted(p)
    BY <1>2, <1>5, <2>3 DEF Granted
  <2> QED
    BY <2>3, <2>4 DEF Granted
<1>8. WaitersWait'
  <2> SUFFICES ASSUME NEW s \in Task, Waiting(s)'
               PROVE  /\ mt_wait_obj'[s] \in Object
                      /\ mt_state'[s] \in {"TS_Running", WaitStateOf(mt_wait_obj'[s])}
    BY DEF WaitersWait, WaitStateOf
  <2>1. CASE s = t
    BY <1>0, <2>1
  <2>2. CASE s # t
    BY <1>0, <1>1, <2>2 DEF CoreInv, WaitersWait
  <2> QED
    BY <2>1, <2>2
<1>9. WakersWake'
  <2>1. ASSUME NEW u \in Task, pc'[u] \in WakePc
        PROVE  /\ obj'[u] \in Object /\ Sem(obj[u])' = u
               /\ pc'[u] = "next" => obj'[u] \notin Lock
               /\ obj'[u] \in Lock =>
                    /\ cur'[u] \in Task /\ WaitsAt(cur[u], obj[u])'
                    /\ mt_state'[cur'[u]] # "TS_Running" /\ release_count'[u] = 1
    <3>1. pc[u] \in WakePc
      BY <1>3, <2>1
    <3>2. /\ obj[u] \in Object /\ Sem(obj[u]) = u
          /\ pc[u] = "next" => obj[u] \notin Lock
          /\ obj[u] \in Lock =>
               /\ cur[u] \in Task /\ WaitsAt(cur[u], obj[u])
               /\ mt_state[cur[u]] # "TS_Running" /\ release_count[u] = 1
      BY <3>1 DEF CoreInv, WakersWake
    <3>3. obj[u] \in Lock => cur[u] # t
      BY <3>2, <1>1 DEF WaitsAt
    <3> QED
      BY <1>2, <1>3, <1>6, <3>2, <3>3
  <2>2. \A p \in Object : \A u \in Task : Sem(p)' = u => pc'[u] \in WakePc /\ obj'[u] = p
    BY <1>3 DEF CoreInv, WakersWake
  <2> QED
    BY <2>1, <2>2 DEF WakersWake
<1>10. PICK q \in Seq(Task) : IsQueue(q, o)
  BY DEF CoreInv, Queues
<1>11. /\ First(o) = QHead(o) /\ First(o)' = IF QHead(o) = NULL THEN t ELSE QHead(o)
       /\ Sem(o)' = NULL
  BY DEF First
<1>12. /\ QHead(o) # NULL => q # <<>> /\ QTail(o) = q[Len(q)] /\ QTail(o) \in Pending(o)
                             /\ QTail(o) # t /\ QTail(o) \in Task
       /\ QHead(o) = NULL <=> q = <<>>
  BY <1>5, <1>10, <1>11, QueueEnds DEF IsQueue, Pending
<1>13. /\ mt_wait_link'[t] = NULL
       /\ QHead(o) # NULL => mt_wait_link'[QTail(o)] = t
       /\ \A s \in Task : s = t \/ (QHead(o) # NULL /\ s = QTail(o))
                          \/ mt_wait_link'[s] = mt_wait_link[s]
  BY <1>0, <1>12 DEF LinkedAtTail
<1>14. IsQueue(Append(q, t), o)'
  <2>1. /\ IsList(q, QHead(o), mt_wait_link, NULL) /\ Nodes(q) = Pending(o)
        /\ t \in Task \ Nodes(q) /\ NULL \notin Task
        /\ \A d \in Nodes(q) : d \in Task
    BY <1>5, <1>10, <1>11, TaskAssumption DEF IsQueue, Pending
  <2>2. /\ mt_wait_link'[t] = NULL
        /\ q # <<>> => mt_wait_link'[q[Len(q)]] = t
        /\ \A d \in Nodes(q) : d = q[Len(q)] \/ mt_wait_link'[d] = mt_wait_link[d]
    BY <1>12, <1>13, <2>1
  <2>3. /\ Append(q, t) \in Seq(Task)
        /\ IsList(Append(q, t), IF QHead(o) = NULL THEN t ELSE QHead(o), mt_wait_link', NULL)
        /\ Nodes(Append(q, t)) = Nodes(q) \cup {t}
        /\ Append(q, t)[Len(Append(q, t))] = t
    <3> DEFINE h == QHead(o)
               link == mt_wait_link
               link2 == mt_wait_link'
    <3>1. /\ IsList(q, h, link, NULL) /\ link2[t] = NULL
          /\ q # <<>> => link2[q[Len(q)]] = t
          /\ \A d \in Nodes(q) : d = q[Len(q)] \/ link2[d] = link[d]
      BY <2>1, <2>2
    <3> HIDE DEF h, link, link2
    <3>2. /\ Append(q, t) \in Seq(Task)
          /\ IsList(Append(q, t), IF h = NULL THEN t ELSE h, link2, NULL)
          /\ Nodes(Append(q, t)) = Nodes(q) \cup {t}
          /\ Append(q, t)[Len(Append(q, t))] = t
      BY <2>1, <3>1, ListGrowsAtTail
    <3> QED
      BY <3>2 DEF h, link2
  <2>4. QTail(o)' = t /\ Pending(o)' = Pending(o) \cup {t}
    BY <1>7
  <2> QED
    BY <1>11, <2>1, <2>3, <2>4 DEF IsQueue
<1>15. ASSUME NEW p \in Object, p # o PROVE \E r \in Seq(Task) : IsQueue(r, p)'
  <2>1. PICK r \in Seq(Task) : IsQueue(r, p)
    BY DEF CoreInv, Queues
  <2>2. \A d \in Nodes(r) : d \in Pending(p) /\ mt_wait_link'[d] = mt_wait_link[d]
    <3> SUFFICES ASSUME NEW d \in Pending(p)
                 PROVE  mt_wait_link'[d] = mt_wait_link[d]
      BY <2>1 DEF IsQueue
    <3>1. d \in Task /\ d # t /\ ~(d \in Pending(o))
      BY <1>5, <1>15 DEF Pending, WaitsAt
    <3> QED
      BY <1>12, <1>13, <3>1
  <2>3. CASE First(p)' = First(p)
    <3>1. IsList(r, First(p), mt_wait_link', NULL)
      BY <2>1, <2>2, ListStays DEF IsQueue
    <3> QED
      BY <1>7, <1>15, <2>1, <2>3, <3>1 DEF IsQueue
  <2>4. CASE First(p)' # First(p)
    <3>1. PICK u \in Task : Sem(p) = u /\ pc[u] = "next" /\ p \notin Lock
      BY <1>3, <1>15, <2>4, ViewTyped DEF First
    <3>2. PICK c \in Task : cur[u] = c
      BY <1>0, <3>1
    <3>3. /\ First(p) = mt_wait_link[c] /\ First(p)' = mt_wait_link'[c]
          /\ pc'[u] = "next" /\ cur'[u] = c /\ obj'[u] = p
      BY <1>3, <3>1, <3>2, TaskAssumption DEF First, CoreInv, WakersWake
    <3>4. c = t \/ (QHead(o) # NULL /\ c = QTail(o))
      BY <1>13, <2>4, <3>3
    <3>5. Sleeps(c)'
      <4>1. CASE c = t
        BY <1>1, <1>6, <4>1, WaitStates DEF Sleeps
      <4>2. CASE c # t
        BY <1>1, <1>6, <1>12, <3>4, <4>2 DEF Sleeps, Pending, WaitsAt
      <4> QED
        BY <4>1, <4>2
    <3>6. mt_wait_link'[c] = NULL /\ \A s \in Task : Sleeps(s)' => mt_wait_obj'[s] # p
      BY <3>3, <3>5 DEF LinksAreRead
    <3>7. Pending(p)' = {}
      BY <3>6 DEF Pending, Sleeps, WaitsAt
    <3>8. IsQueue(<<>>, p)'
      <4>1. IsList(<<>>, NULL, mt_wait_link', NULL) /\ Nodes(<<>>) = {}
        BY EmptyList
      <4> QED
        BY <3>3, <3>6, <3>7, <4>1 DEF IsQueue
    <3>9. <<>> \in Seq(Task)
      OBVIOUS
    <3> QED
      BY <3>8, <3>9
  <2> QED
    BY <2>3, <2>4
<1>16. Queues'
  BY <1>10, <1>14, <1>15 DEF Queues, IsQueue
<1> QED
  BY <1>5, <1>7, <1>8, <1>9, <1>16 DEF CoreInv, Stay, Same

(* h leaves the pending tasks of o for the granted ones.                   *)
Passes(h, o) ==
  /\ h \in Pending(o) /\ Pending(o)' = Pending(o) \ {h}
  /\ Granted(o)' = Granted(o) \cup {h}
  /\ \A p \in Object : p = o \/ Same(p)

(* LOCKOFF takes the head h off the queue of l.                            *)
LEMMA TakeHeadStep ==
  ASSUME Typing, CoreInv, NEW t \in Task, NEW l \in Lock, NEW h \in Task,
         Sem(l) = NULL, pc[t] = "user", QHead(l) = h, pc' = [pc EXCEPT ![t] = "inc"],
         obj' = [obj EXCEPT ![t] = l], cur' = [cur EXCEPT ![t] = h],
         release_count' = [release_count EXCEPT ![t] = 1],
         UNCHANGED <<mt_state, mt_wait_obj, mt_wait_link>>,
         \A p \in Object :
           /\ QHead(p)' = IF p = l THEN mt_wait_link[h] ELSE QHead(p)
           /\ QTail(p)' = IF p = l /\ mt_wait_link[h] = NULL THEN NULL ELSE QTail(p)
           /\ Sem(p)' = IF p = l THEN t ELSE Sem(p)
  PROVE  CoreInv' /\ Passes(h, l)
<1>0. /\ pc \in [Task -> Pc] /\ l \in Object /\ cur \in [Task -> Task \cup {NULL}]
      /\ obj \in [Task -> Object \cup {NULL}] /\ release_count \in [Task -> 0 .. UINT_MAX]
  BY DEF Typing, DescriptorsTyped, TaskTypeOK, Object
<1>1. \A s \in Task : \A p : WaitsAt(s, p)' <=> WaitsAt(s, p)
  BY <1>0 DEF WaitsAt, Waiting, WaitPc
<1>2. /\ pc'[t] \in WakePc /\ pc[t] \notin WakePc /\ pc'[t] # "next"
      /\ obj'[t] = l /\ cur'[t] = h /\ release_count'[t] = 1
      /\ \A s \in Task : s # t => /\ pc'[s] = pc[s] /\ obj'[s] = obj[s]
                                  /\ cur'[s] = cur[s]
                                  /\ release_count'[s] = release_count[s]
  BY <1>0 DEF WakePc
<1>3. \A s \in Task : \A p : Chosen(s, p)' <=> Chosen(s, p) \/ (p = l /\ s = h)
  BY <1>2 DEF Chosen
<1>4. PICK q \in Seq(Task) : IsQueue(q, l)
  BY <1>0 DEF CoreInv, Queues
<1>5. First(l) = h /\ First(l)' = mt_wait_link[h]
  BY <1>0 DEF First
<1>6. q # <<>> /\ h \in Pending(l)
  BY <1>0, <1>4, <1>5, QueueEnds, TaskAssumption
<1>7. ASSUME NEW p \in Object
      PROVE  /\ Pending(p)' = IF p = l THEN Pending(l) \ {h} ELSE Pending(p)
             /\ Granted(p)' = IF p = l THEN Granted(l) \cup {h} ELSE Granted(p)
  <2>1. CASE p = l
    BY <1>1, <1>3, <1>6, <2>1 DEF Pending, Granted
  <2>2. CASE p # l
    BY <1>1, <1>3, <2>2 DEF Pending, Granted
  <2> QED
    BY <2>1, <2>2
<1>8. WaitersWait'
  BY <1>0 DEF CoreInv, WaitersWait, Waiting, WaitPc
<1>9. WakersWake'
  <2>1. WaitsAt(h, l) /\ mt_state[h] # "TS_Running"
    BY <1>6 DEF Pending
  <2>2. ASSUME NEW u \in Task, pc'[u] \in WakePc
        PROVE  /\ obj'[u] \in Object /\ Sem(obj[u])' = u
               /\ pc'[u] = "next" => obj'[u] \notin Lock
               /\ obj'[u] \in Lock =>
                    /\ cur'[u] \in Task /\ WaitsAt(cur[u], obj[u])'
                    /\ mt_state'[cur'[u]] # "TS_Running" /\ release_count'[u] = 1
    <3>1. CASE u = t
      BY <1>0, <1>1, <1>2, <2>1, <3>1
    <3>2. CASE u # t
      <4>1. /\ obj[u] \in Object /\ Sem(obj[u]) = u
            /\ pc[u] = "next" => obj[u] \notin Lock
            /\ obj[u] \in Lock =>
                 /\ cur[u] \in Task /\ WaitsAt(cur[u], obj[u])
                 /\ mt_state[cur[u]] # "TS_Running" /\ release_count[u] = 1
        BY <1>2, <2>2, <3>2 DEF CoreInv, WakersWake
      <4>2. obj[u] # l
        BY <4>1, TaskAssumption
      <4> QED
        BY <1>1, <1>2, <3>2, <4>1, <4>2
    <3> QED
      BY <3>1, <3>2
  <2>3. \A p \in Object : \A u \in Task : Sem(p)' = u => pc'[u] \in WakePc /\ obj'[u] = p
    BY <1>2 DEF CoreInv, WakersWake
  <2> QED
    BY <2>2, <2>3 DEF WakersWake
<1>10. \E r \in Seq(Task) : IsQueue(r, l)'
  <2>1. PICK r \in Seq(Task) : Behind(r, l, h)
    BY <1>0, <1>5, BehindFirst
  <2> QED
    BY <1>0, <1>5, <1>7, <2>1 DEF IsQueue, Behind
<1>11. ASSUME NEW p \in Object, p # l PROVE \E r \in Seq(Task) : IsQueue(r, p)'
  <2>1. PICK r \in Seq(Task) : IsQueue(r, p)
    BY DEF CoreInv, Queues
  <2>2. Sem(p) # t
    BY <1>2 DEF CoreInv, WakersWake
  <2>3. First(p)' = First(p)
    BY <1>2, <1>11, <2>2, ViewTyped DEF First
  <2>4. IsQueue(r, p)'
    BY <1>7, <1>11, <2>1, <2>3 DEF IsQueue
  <2> QED
    BY <2>4
<1>12. Queues'
  <2> SUFFICES ASSUME NEW p \in Object PROVE \E r \in Seq(Task) : IsQueue(r, p)'
    BY DEF Queues, IsQueue
  <2>1. CASE p = l
    BY <1>10, <2>1
  <2>2. CASE p # l
    BY <1>11, <2>2
  <2> QED
    BY <2>1, <2>2
<1> QED
  BY <1>0, <1>6, <1>7, <1>8, <1>9, <1>12 DEF CoreInv, Passes, Same

(* LOCKOFF lets the task it has chosen go.                                 *)
LEMMA LetGoStep ==
  ASSUME Typing, CoreInv, NEW t \in Task, NEW l \in Lock, NEW h \in Task,
         pc[t] = "mark", obj[t] = l, cur[t] = h, pc' = [pc EXCEPT ![t] = "user"],
         mt_state' = [mt_state EXCEPT ![h] = "TS_Running"],
         obj' = [obj EXCEPT ![t] = NULL], cur' = [cur EXCEPT ![t] = NULL],
         release_count' = [release_count EXCEPT ![t] = 0],
         UNCHANGED <<mt_wait_obj, mt_wait_link>>,
         \A p \in Object : /\ QHead(p)' = QHead(p) /\ QTail(p)' = QTail(p)
                           /\ Sem(p)' = IF p = l THEN NULL ELSE Sem(p)
  PROVE  CoreInv' /\ Stay(Object)
<1>0. /\ pc \in [Task -> Pc] /\ l \in Object /\ cur \in [Task -> Task \cup {NULL}]
      /\ obj \in [Task -> Object \cup {NULL}] /\ release_count \in [Task -> 0 .. UINT_MAX]
      /\ mt_state \in [Task -> TaskState]
  BY DEF Typing, DescriptorsTyped, TaskTypeOK, Object
<1>1. \A s \in Task : \A p : WaitsAt(s, p)' <=> WaitsAt(s, p)
  BY <1>0 DEF WaitsAt, Waiting, WaitPc
<1>2. /\ pc'[t] \notin WakePc /\ pc[t] \in WakePc
      /\ \A s \in Task : s # t => pc'[s] = pc[s] /\ obj'[s] = obj[s] /\ cur'[s] = cur[s]
                                  /\ release_count'[s] = release_count[s]
      /\ mt_state'[h] = "TS_Running"
      /\ \A s \in Task : s # h => mt_state'[s] = mt_state[s]
  BY <1>0 DEF WakePc
<1>3. /\ Sem(l) = t /\ WaitsAt(h, l)
      /\ \A u \in Task : pc[u] \in WakePc /\ obj[u] = l => u = t
      /\ \A p \in Object : p # l => Sem(p) # t
  BY <1>2 DEF CoreInv, WakersWake
<1>4. /\ Chosen(h, l)
      /\ \A s \in Task : \A p \in Object :
           ~(s = h /\ p = l) => (Chosen(s, p)' <=> Chosen(s, p))
  BY <1>2, <1>3 DEF Chosen
<1>5. ASSUME NEW p \in Object PROVE Pending(p)' = Pending(p) /\ Granted(p)' = Granted(p)
  <2>1. h \notin Pending(p) /\ h \notin Pending(p)'
    BY <1>2, <1>3, <1>4 DEF Pending, WaitsAt
  <2>2. \A s \in Task : s # h => (s \in Pending(p)' <=> s \in Pending(p))
    BY <1>1, <1>2, <1>4 DEF Pending
  <2>3. Pending(p)' = Pending(p)
    BY <2>1, <2>2 DEF Pending
  <2> QED
    BY <1>1, <2>3 DEF Granted
<1>6. WaitersWait'
  BY <1>0, <1>2 DEF CoreInv, WaitersWait, Waiting, WaitPc
<1>7. WakersWake'
  <2>1. ASSUME NEW u \in Task, pc'[u] \in WakePc
        PROVE  /\ obj'[u] \in Object /\ Sem(obj[u])' = u
               /\ pc'[u] = "next" => obj'[u] \notin Lock
               /\ obj'[u] \in Lock =>
                    /\ cur'[u] \in Task /\ WaitsAt(cur[u], obj[u])'
                    /\ mt_state'[cur'[u]] # "TS_Running" /\ release_count'[u] = 1
    <3>1. u # t /\ pc[u] \in WakePc
      BY <1>2, <2>1
    <3>2. /\ obj[u] \in Object /\ Sem(obj[u]) = u
          /\ pc[u] = "next" => obj[u] \notin Lock
          /\ obj[u] \in Lock =>
               /\ cur[u] \in Task /\ WaitsAt(cur[u], obj[u])
               /\ mt_state[cur[u]] # "TS_Running" /\ release_count[u] = 1
      BY <3>1 DEF CoreInv, WakersWake
    <3>3. obj[u] # l
      BY <1>3, <3>1
    <3>4. obj[u] \in Lock => cur[u] # h
      BY <1>3, <3>2, <3>3 DEF WaitsAt
    <3> QED
      BY <1>1, <1>2, <3>1, <3>2, <3>3, <3>4
  <2>2. \A p \in Object : \A u \in Task : Sem(p)' = u => pc'[u] \in WakePc /\ obj'[u] = p
    BY <1>2, <1>3, TaskAssumption DEF CoreInv, WakersWake
  <2> QED
    BY <2>1, <2>2 DEF WakersWake
<1>8. ASSUME NEW p \in Object PROVE \E r \in Seq(Task) : IsQueue(r, p)'
  <2>1. PICK r \in Seq(Task) : IsQueue(r, p)
    BY DEF CoreInv, Queues
  <2>2. First(p)' = First(p)
    BY <1>2, <1>3, ViewTyped DEF First
  <2>3. (p \in Lock \/ Sem(p)' = NULL) => (p \in Lock \/ Sem(p) = NULL)
    OBVIOUS
  <2>4. IsQueue(r, p)'
    BY <1>5, <2>1, <2>2, <2>3 DEF IsQueue
  <2> QED
    BY <2>4
<1> QED
  BY <1>5, <1>6, <1>7, <1>8 DEF CoreInv, Queues, Stay, Same

(* A post, or the last arrival at a barrier, begins to walk the queue of o.*)
LEMMA OpenWalkStep ==
  ASSUME Typing, CoreInv, NEW t \in Task, NEW o \in Object \ Lock, NEW n,
         Sem(o) = NULL, pc[t] = "user", pc' = [pc EXCEPT ![t] = "inc"],
         obj' = [obj EXCEPT ![t] = o], cur' = [cur EXCEPT ![t] = QHead(o)],
         release_count' = [release_count EXCEPT ![t] = n],
         UNCHANGED <<mt_state, mt_wait_obj, mt_wait_link>>,
         \A p \in Object : /\ QHead(p)' = QHead(p) /\ QTail(p)' = QTail(p)
                           /\ Sem(p)' = IF p = o THEN t ELSE Sem(p)
  PROVE  CoreInv' /\ Stay(Object)
<1>0. /\ pc \in [Task -> Pc] /\ cur \in [Task -> Task \cup {NULL}]
      /\ obj \in [Task -> Object \cup {NULL}] /\ release_count \in [Task -> 0 .. UINT_MAX]
  BY DEF Typing, DescriptorsTyped, TaskTypeOK
<1>1. \A s \in Task : \A p : WaitsAt(s, p)' <=> WaitsAt(s, p)
  BY <1>0 DEF WaitsAt, Waiting, WaitPc
<1>2. /\ pc'[t] = "inc" /\ pc'[t] \in WakePc /\ pc[t] \notin WakePc
      /\ obj'[t] = o /\ cur'[t] = QHead(o)
      /\ \A s \in Task : s # t => /\ pc'[s] = pc[s] /\ obj'[s] = obj[s]
                                  /\ cur'[s] = cur[s]
                                  /\ release_count'[s] = release_count[s]
  BY <1>0 DEF WakePc
<1>3. \A s \in Task : \A p : Chosen(s, p)' <=> Chosen(s, p)
  BY <1>2 DEF Chosen
<1>4. Stay(Object)
  BY <1>1, <1>3 DEF Stay, Same, Pending, Granted
<1>5. ASSUME NEW p \in Object PROVE \E q \in Seq(Task) : IsQueue(q, p)'
  <2>1. PICK q \in Seq(Task) : IsQueue(q, p)
    BY DEF CoreInv, Queues
  <2>2. Sem(p) # t
    BY <1>2 DEF CoreInv, WakersWake
  <2>3. First(p)' = First(p) /\ (Sem(p)' = NULL => Sem(p) = NULL)
    BY <1>2, <2>2, ViewTyped, TaskAssumption DEF First
  <2> QED
    BY <1>4, <2>1, <2>3 DEF IsQueue, Stay, Same
<1>6. WaitersWait'
  BY <1>1, <1>2 DEF CoreInv, WaitersWait, Waiting, WaitPc
<1>7. WakersWake'
  <2>1. ASSUME NEW u \in Task, pc'[u] \in WakePc
        PROVE  /\ obj'[u] \in Object /\ Sem(obj[u])' = u
               /\ pc'[u] = "next" => obj'[u] \notin Lock
               /\ obj'[u] \in Lock =>
                    /\ cur'[u] \in Task /\ WaitsAt(cur[u], obj[u])'
                    /\ mt_state'[cur'[u]] # "TS_Running" /\ release_count'[u] = 1
    <3>1. CASE u = t
      BY <1>2, <3>1
    <3>2. CASE u # t
      <4>1. /\ obj[u] \in Object /\ Sem(obj[u]) = u
            /\ pc[u] = "next" => obj[u] \notin Lock
            /\ obj[u] \in Lock =>
                 /\ cur[u] \in Task /\ WaitsAt(cur[u], obj[u])
                 /\ mt_state[cur[u]] # "TS_Running" /\ release_count[u] = 1
        BY <1>2, <2>1, <3>2 DEF CoreInv, WakersWake
      <4>2. obj[u] # o
        BY <4>1, TaskAssumption
      <4> QED
        BY <1>1, <1>2, <3>2, <4>1, <4>2
    <3> QED
      BY <3>1, <3>2
  <2>2. \A p \in Object : \A u \in Task : Sem(p)' = u => pc'[u] \in WakePc /\ obj'[u] = p
    BY <1>2 DEF CoreInv, WakersWake
  <2> QED
    BY <2>1, <2>2 DEF WakersWake
<1> QED
  BY <1>4, <1>5, <1>6, <1>7 DEF CoreInv, Queues, IsQueue

(* The walk lets the task go that it stands on.                            *)
LEMMA WakeInWalkStep ==
  ASSUME Typing, CoreInv, NEW t \in Task, NEW o \in Object \ Lock, NEW h \in Task,
         pc[t] = "mark", obj[t] = o, cur[t] = h, pc' = [pc EXCEPT ![t] = "next"],
         mt_state' = [mt_state EXCEPT ![h] = "TS_Running"],
         UNCHANGED <<obj, cur, release_count, mt_wait_obj, mt_wait_link>>,
         \A p \in Object : /\ QHead(p)' = QHead(p) /\ QTail(p)' = QTail(p)
                           /\ Sem(p)' = Sem(p)
  PROVE  CoreInv' /\ Passes(h, o)
<1>0. pc \in [Task -> Pc] /\ mt_state \in [Task -> TaskState]
  BY DEF Typing, DescriptorsTyped, TaskTypeOK
<1>1. \A s \in Task : \A p : WaitsAt(s, p)' <=> WaitsAt(s, p)
  BY <1>0 DEF WaitsAt, Waiting, WaitPc
<1>2. /\ pc'[t] = "next" /\ mt_state'[h] = "TS_Running"
      /\ \A s \in Task : /\ pc'[s] \in WakePc <=> pc[s] \in WakePc
                         /\ s # t => pc'[s] = pc[s]
                         /\ s # h => mt_state'[s] = mt_state[s]
      /\ pc[t] \in WakePc
  BY <1>0 DEF WakePc
<1>3. /\ Sem(o) = t /\ \A p \in Object : p # o => Sem(p) # t
  BY <1>2 DEF CoreInv, WakersWake
<1>4. \A s \in Task : \A p : Chosen(s, p)' <=> Chosen(s, p)
  BY <1>2 DEF Chosen
<1>5. First(o) = h /\ First(o)' = mt_wait_link[h]
  BY <1>2, <1>3, TaskAssumption DEF First
<1>6. h \in Pending(o) /\ WaitsAt(h, o)
  BY <1>5, BehindFirst DEF Pending
<1>7. ASSUME NEW p \in Object
      PROVE  /\ Pending(p)' = IF p = o THEN Pending(o) \ {h} ELSE Pending(p)
             /\ Granted(p)' = IF p = o THEN Granted(o) \cup {h} ELSE Granted(p)
  <2>1. p # o => ~WaitsAt(h, p)
    BY <1>6 DEF WaitsAt
  <2>2. CASE p = o
    BY <1>1, <1>2, <1>4, <1>6, <2>2 DEF Pending, Granted
  <2>3. CASE p # o
    <3>1. \A s \in Task : s \in Pending(p)' <=> s \in Pending(p)
      BY <1>1, <1>2, <1>4, <2>1, <2>3 DEF Pending
    <3>2. Pending(p)' = Pending(p)
      BY <3>1 DEF Pending
    <3> QED
      BY <1>1, <2>3, <3>2 DEF Granted
  <2> QED
    BY <2>2, <2>3
<1>8. WaitersWait'
  BY <1>0, <1>1, <1>2 DEF CoreInv, WaitersWait, Waiting, WaitPc
<1>9. WakersWake'
  <2>1. ASSUME NEW u \in Task, pc'[u] \in WakePc
        PROVE  /\ obj'[u] \in Object /\ Sem(obj[u])' = u
               /\ pc'[u] = "next" => obj'[u] \notin Lock
               /\ obj'[u] \in Lock =>
                    /\ cur'[u] \in Task /\ WaitsAt(cur[u], obj[u])'
                    /\ mt_state'[cur'[u]] # "TS_Running" /\ release_count'[u] = 1
    <3>1. /\ obj[u] \in Object /\ Sem(obj[u]) = u
          /\ pc[u] = "next" => obj[u] \notin Lock
          /\ obj[u] \in Lock =>
               /\ cur[u] \in Task /\ WaitsAt(cur[u], obj[u])
               /\ mt_state[cur[u]] # "TS_Running" /\ release_count[u] = 1
      BY <1>2, <2>1 DEF CoreInv, WakersWake
    <3>2. obj[u] \in Lock => u # t /\ cur[u] # h
      BY <1>6, <3>1 DEF WaitsAt
    <3> QED
      BY <1>1, <1>2, <3>1, <3>2
  <2>2. \A p \in Object : \A u \in Task : Sem(p)' = u => pc'[u] \in WakePc /\ obj'[u] = p
    BY <1>2 DEF CoreInv, WakersWake
  <2> QED
    BY <2>1, <2>2 DEF WakersWake
<1>10. \E r \in Seq(Task) : IsQueue(r, o)'
  <2>1. PICK r \in Seq(Task) : Behind(r, o, h)
    BY <1>5, BehindFirst
  <2>2. o \notin Lock /\ Sem(o)' # NULL
    BY <1>3, TaskAssumption
  <2> QED
    BY <1>5, <1>7, <2>1, <2>2 DEF IsQueue, Behind
<1>11. ASSUME NEW p \in Object, p # o PROVE \E r \in Seq(Task) : IsQueue(r, p)'
  <2>1. PICK r \in Seq(Task) : IsQueue(r, p)
    BY DEF CoreInv, Queues
  <2>2. First(p)' = First(p)
    BY <1>2, <1>3, <1>11, ViewTyped DEF First
  <2>3. IsQueue(r, p)'
    BY <1>7, <1>11, <2>1, <2>2 DEF IsQueue
  <2> QED
    BY <2>3
<1>12. Queues'
  <2> SUFFICES ASSUME NEW p \in Object PROVE \E r \in Seq(Task) : IsQueue(r, p)'
    BY DEF Queues, IsQueue
  <2>1. CASE p = o
    BY <1>10, <2>1
  <2>2. CASE p # o
    BY <1>11, <2>2
  <2> QED
    BY <2>1, <2>2
<1> QED
  BY <1>6, <1>7, <1>8, <1>9, <1>12 DEF CoreInv, Passes, Same

(* The walk goes on to the next descriptor.                                *)
LEMMA FollowStep ==
  ASSUME Typing, CoreInv, NEW t \in Task, pc[t] = "next",
         pc' = [pc EXCEPT ![t] = "mark"],
         cur' = [cur EXCEPT ![t] = mt_wait_link[cur[t]]],
         UNCHANGED <<obj, release_count, mt_state, mt_wait_obj, mt_wait_link>>,
         \A p \in Object : /\ QHead(p)' = QHead(p) /\ QTail(p)' = QTail(p)
                           /\ Sem(p)' = Sem(p)
  PROVE  CoreInv' /\ Stay(Object)
<1>0. pc \in [Task -> Pc] /\ cur \in [Task -> Task \cup {NULL}]
  BY DEF Typing, DescriptorsTyped, TaskTypeOK
<1>1. \A s \in Task : \A p : WaitsAt(s, p)' <=> WaitsAt(s, p)
  BY <1>0 DEF WaitsAt, Waiting, WaitPc
<1>2. /\ pc'[t] = "mark" /\ pc[t] \in WakePc /\ cur'[t] = mt_wait_link[cur[t]]
      /\ \A s \in Task : /\ pc'[s] \in WakePc <=> pc[s] \in WakePc
                         /\ s # t => pc'[s] = pc[s] /\ cur'[s] = cur[s]
  BY <1>0 DEF WakePc
<1>3. obj[t] \notin Lock /\ obj[t] \in Object /\ Sem(obj[t]) = t
  BY <1>2 DEF CoreInv, WakersWake
<1>4. \A s \in Task : \A p : Chosen(s, p)' <=> Chosen(s, p)
  BY <1>2, <1>3 DEF Chosen
<1>5. Stay(Object)
  BY <1>1, <1>4 DEF Stay, Same, Pending, Granted
<1>6. ASSUME NEW p \in Object PROVE \E q \in Seq(Task) : IsQueue(q, p)'
  <2>1. PICK q \in Seq(Task) : IsQueue(q, p)
    BY DEF CoreInv, Queues
  <2>2. First(p)' = First(p)
    BY <1>2, ViewTyped, TaskAssumption DEF First
  <2> QED
    BY <1>5, <2>1, <2>2 DEF IsQueue, Stay, Same
<1>7. WaitersWait'
  BY <1>1, <1>2 DEF CoreInv, WaitersWait, Waiting, WaitPc
<1>8. WakersWake'
  BY <1>1, <1>2, <1>3 DEF CoreInv, WakersWake
<1> QED
  BY <1>5, <1>6, <1>7, <1>8 DEF CoreInv, Queues, IsQueue

(* The walk is over, with nobody left, and the queue is emptied.           *)
LEMMA CloseWalkStep ==
  ASSUME Typing, CoreInv, NEW t \in Task, NEW o \in Object \ Lock,
         pc[t] = "mark", obj[t] = o, cur[t] = NULL, pc' = [pc EXCEPT ![t] = "user"],
         obj' = [obj EXCEPT ![t] = NULL], cur' = [cur EXCEPT ![t] = NULL],
         release_count' = [release_count EXCEPT ![t] = 0],
         UNCHANGED <<mt_state, mt_wait_obj, mt_wait_link>>,
         \A p \in Object : /\ QHead(p)' = IF p = o THEN NULL ELSE QHead(p)
                           /\ QTail(p)' = IF p = o THEN NULL ELSE QTail(p)
                           /\ Sem(p)' = IF p = o THEN NULL ELSE Sem(p)
  PROVE  CoreInv' /\ Stay(Object) /\ Pending(o) = {} /\ Sem(o) = t
<1>0. /\ pc \in [Task -> Pc] /\ cur \in [Task -> Task \cup {NULL}]
      /\ obj \in [Task -> Object \cup {NULL}] /\ release_count \in [Task -> 0 .. UINT_MAX]
  BY DEF Typing, DescriptorsTyped, TaskTypeOK
<1>1. \A s \in Task : \A p : WaitsAt(s, p)' <=> WaitsAt(s, p)
  BY <1>0 DEF WaitsAt, Waiting, WaitPc
<1>2. /\ pc'[t] \notin WakePc /\ pc[t] \in WakePc
      /\ \A s \in Task : s # t => pc'[s] = pc[s] /\ obj'[s] = obj[s] /\ cur'[s] = cur[s]
                                  /\ release_count'[s] = release_count[s]
  BY <1>0 DEF WakePc
<1>3. /\ Sem(o) = t /\ \A p \in Object : p # o => Sem(p) # t
      /\ \A u \in Task : pc[u] \in WakePc /\ obj[u] = o => u = t
  BY <1>2 DEF CoreInv, WakersWake
<1>4. \A s \in Task : \A p \in Object : Chosen(s, p)' <=> Chosen(s, p)
  BY <1>2 DEF Chosen
<1>5. Stay(Object)
  BY <1>1, <1>4 DEF Stay, Same, Pending, Granted
<1>6. First(o) = NULL /\ First(o)' = NULL
  BY <1>3, TaskAssumption DEF First
<1>7. Pending(o) = {}
  BY <1>6, QueueEnds DEF CoreInv, Queues
<1>8. ASSUME NEW p \in Object PROVE \E q \in Seq(Task) : IsQueue(q, p)'
  <2>1. CASE p = o
    <3>1. IsList(<<>>, NULL, mt_wait_link', NULL) /\ Nodes(<<>>) = {} /\ <<>> \in Seq(Task)
      BY EmptyList
    <3>2. IsQueue(<<>>, o)'
      BY <1>5, <1>6, <1>7, <3>1 DEF IsQueue, Stay, Same
    <3> QED
      BY <2>1, <3>1, <3>2
  <2>2. CASE p # o
    <3>1. PICK q \in Seq(Task) : IsQueue(q, p)
      BY DEF CoreInv, Queues
    <3>2. First(p)' = First(p)
      BY <1>2, <1>3, <2>2, ViewTyped DEF First
    <3> QED
      BY <1>5, <2>2, <3>1, <3>2 DEF IsQueue, Stay, Same
  <2> QED
    BY <2>1, <2>2
<1>9. WaitersWait'
  BY <1>1, <1>0, <1>2 DEF CoreInv, WaitersWait, Waiting, WaitPc
<1>10. WakersWake'
  <2>1. ASSUME NEW u \in Task, pc'[u] \in WakePc
        PROVE  /\ obj'[u] \in Object /\ Sem(obj[u])' = u
               /\ pc'[u] = "next" => obj'[u] \notin Lock
               /\ obj'[u] \in Lock =>
                    /\ cur'[u] \in Task /\ WaitsAt(cur[u], obj[u])'
                    /\ mt_state'[cur'[u]] # "TS_Running" /\ release_count'[u] = 1
    <3>1. u # t /\ pc[u] \in WakePc
      BY <1>2, <2>1
    <3>2. obj[u] # o
      BY <1>3, <3>1
    <3> QED
      BY <1>1, <1>2, <3>1, <3>2 DEF CoreInv, WakersWake
  <2>2. \A p \in Object : \A u \in Task : Sem(p)' = u => pc'[u] \in WakePc /\ obj'[u] = p
    BY <1>2, <1>3, TaskAssumption DEF CoreInv, WakersWake
  <2> QED
    BY <2>1, <2>2 DEF WakersWake
<1> QED
  BY <1>3, <1>5, <1>7, <1>8, <1>9, <1>10 DEF CoreInv, Queues, IsQueue

-----------------------------------------------------------------------------
(* A word that is not written, of an object whose tasks stay, stays true.  *)
LEMMA LockWordStays ==
  ASSUME NEW l \in Lock, LockWord(l), Same(l),
         ml_state'[l] = ml_state[l], ml_wcount'[l] = ml_wcount[l],
         \A s \in Task : l \in held'[s] <=> l \in held[s]
  PROVE  LockWord(l)' /\ Owners(l)' = Owners(l)
<1>1. Owners(l)' = Owners(l)
  BY DEF Owners, Same
<1> QED
  BY <1>1 DEF LockWord, Same

LEMMA EventWordStays ==
  ASSUME NEW e \in Event, EventWord(e), Same(e), me_state'[e] = me_state[e],
         me_wcount'[e] = me_wcount[e], me_sem'[e] = me_sem[e]
  PROVE  EventWord(e)'
BY DEF EventWord, Same

LEMMA BarrierWordStays ==
  ASSUME NEW b \in Barrier, BarrierWord(b), Same(b), mb_ncount'[b] = mb_ncount[b],
         mb_ocount'[b] = mb_ocount[b], mb_sem'[b] = mb_sem[b]
  PROVE  BarrierWord(b)'
BY DEF BarrierWord, Same, Missing

(* A step that leaves the words of a kind of objects alone.                *)
LEMMA OtherWordsStay ==
  ASSUME ObjectsInv
  PROVE  /\ UNCHANGED <<ml_state, ml_wcount, held>> /\ Stay(Lock) => LockWords'
         /\ UNCHANGED eventVars /\ Stay(Event) => EventWords'
         /\ UNCHANGED barrierVars /\ Stay(Barrier) => BarrierWords'
<1>1. ASSUME UNCHANGED <<ml_state, ml_wcount, held>>, Stay(Lock) PROVE LockWords'
  <2> SUFFICES ASSUME NEW l \in Lock PROVE LockWord(l)'
    BY DEF LockWords, LockWord, Owners
  <2>1. LockWord(l) /\ Same(l)
    BY <1>1 DEF ObjectsInv, LockWords, Stay, Same
  <2> QED
    BY <1>1, <2>1, LockWordStays
<1>2. ASSUME UNCHANGED eventVars, Stay(Event) PROVE EventWords'
  <2> SUFFICES ASSUME NEW e \in Event PROVE EventWord(e)'
    BY DEF EventWords, EventWord
  <2>1. EventWord(e) /\ Same(e)
    BY <1>2 DEF ObjectsInv, EventWords, Stay, Same
  <2> QED
    BY <1>2, <2>1, EventWordStays DEF eventVars
<1>3. ASSUME UNCHANGED barrierVars, Stay(Barrier) PROVE BarrierWords'
  <2> SUFFICES ASSUME NEW b \in Barrier PROVE BarrierWord(b)'
    BY DEF BarrierWords, BarrierWord, Missing
  <2>1. BarrierWord(b) /\ Same(b)
    BY <1>3 DEF ObjectsInv, BarrierWords, Stay, Same
  <2> QED
    BY <1>3, <2>1, BarrierWordStays DEF barrierVars
<1> QED
  BY <1>1, <1>2, <1>3

(* Nothing that the invariant speaks of changes, or only where a task is   *)
(* inside its wait or its wake-up.                                         *)
LEMMA ObjectsStay ==
  ASSUME Typing, ObjectsInv, UNCHANGED objectVars,
         UNCHANGED <<obj, cur, release_count, mt_state, mt_wait_obj, mt_wait_link>>,
         \A s \in Task : /\ pc'[s] \in WaitPc <=> pc[s] \in WaitPc
                         /\ pc'[s] \in WakePc <=> pc[s] \in WakePc
                         /\ pc'[s] = "next" <=> pc[s] = "next"
  PROVE  ObjectsInv' /\ Stay(Object)
<1>1. /\ UNCHANGED <<ml_state, ml_qhead, ml_qtail, ml_wcount, ml_sem, held>>
      /\ UNCHANGED eventVars /\ UNCHANGED barrierVars
  BY DEF objectVars, lockVars
<1>2. \A p \in Object : QHead(p)' = QHead(p) /\ Sem(p)' = Sem(p) /\ QTail(p)' = QTail(p)
  BY <1>1 DEF QHead, Sem, QTail, eventVars, barrierVars
<1>3. CoreInv' /\ Stay(Object)
  BY <1>2, QuietStep DEF ObjectsInv, CoreInv
<1>4. Stay(Lock) /\ Stay(Event) /\ Stay(Barrier)
  BY <1>3 DEF Stay, Same, Object
<1>5. LockWords' /\ EventWords' /\ BarrierWords'
  BY <1>1, <1>4, OtherWordsStay
<1> QED
  BY <1>3, <1>5 DEF ObjectsInv, CoreInv

(* The number of tasks in a queue, as it grows and shrinks.                *)
LEMMA QueueLength ==
  ASSUME NEW S \in SUBSET Task
  PROVE  /\ IsFiniteSet(S) /\ Cardinality(S) \in 0 .. Cardinality(Task)
         /\ Cardinality(S) = 0 <=> S = {}
         /\ \A t \in Task \ S : /\ Cardinality(S \cup {t}) = Cardinality(S) + 1
                                /\ Plus(Cardinality(S), 1) = Cardinality(S) + 1
                                /\ Cardinality(S) < Cardinality(Task)
         /\ \A t \in S : Cardinality(S \ {t}) = Minus1(Cardinality(S))
<1>1. ASSUME NEW T \in SUBSET Task
      PROVE  IsFiniteSet(T) /\ Cardinality(T) \in Nat /\ Cardinality(T) <= Cardinality(Task)
  BY TaskAssumption, FS_Subset, FS_CardinalityType
<1>2. Cardinality(S) = 0 <=> S = {}
  BY <1>1, FS_EmptySet
<1>3. ASSUME NEW t \in Task \ S
      PROVE  /\ Cardinality(S \cup {t}) = Cardinality(S) + 1
             /\ Plus(Cardinality(S), 1) = Cardinality(S) + 1
             /\ Cardinality(S) < Cardinality(Task)
  <2>1. Cardinality(S \cup {t}) = Cardinality(S) + 1
    BY <1>1, FS_AddElement
  <2>2. Cardinality(S \cup {t}) <= Cardinality(Task)
    BY <1>1
  <2> QED
    BY <1>1, <2>1, <2>2, TasksInRange, CountAssumption DEF Plus
<1>4. ASSUME NEW t \in S PROVE Cardinality(S \ {t}) = Minus1(Cardinality(S))
  BY <1>1, <1>2, FS_RemoveElement DEF Minus1
<1> QED
  BY <1>1, <1>2, <1>3, <1>4, TasksInRange

LEMMA PendingAre ==
  /\ \A o : Pending(o) \in SUBSET Task /\ Granted(o) \in SUBSET Task
  /\ \A o : \A t \in Task : ~Waiting(t) => t \notin Pending(o) /\ t \notin Granted(o)
  /\ \A o : \A t \in Pending(o) \cup Granted(o) : mt_wait_obj[t] = o
BY DEF Pending, Granted, WaitsAt

(* Taking the lock, by LOCKON or LOCKTEST.                                 *)
LEMMA TakeObjects ==
  ASSUME Typing, ObjectsInv, NEW t \in Task, NEW l \in Lock,
         pc[t] = "user", ml_state[l] = "LS_Unlocked",
         ml_state' = [ml_state EXCEPT ![l] = "LS_Locked"],
         held' = [held EXCEPT ![t] = @ \cup {l}],
         UNCHANGED <<pc, obj, cur, release_count, mt_state, mt_wait_obj, mt_wait_link>>,
         UNCHANGED <<ml_qhead, ml_qtail, ml_wcount, ml_sem, eventVars, barrierVars>>
  PROVE  ObjectsInv'
<1>0. /\ ml_state \in [Lock -> {"LS_Locked", "LS_Unlocked"}]
      /\ held \in [Task -> SUBSET Lock]
  BY DEF Typing, ObjectsTyped, Locks!LockTypeOK
<1>1. \A p \in Object : QHead(p)' = QHead(p) /\ Sem(p)' = Sem(p) /\ QTail(p)' = QTail(p)
  BY DEF QHead, Sem, QTail, eventVars, barrierVars
<1>2. CoreInv' /\ Stay(Object)
  BY <1>1, QuietStep DEF ObjectsInv, CoreInv
<1>3. Stay(Lock) /\ Stay(Event) /\ Stay(Barrier)
  BY <1>2 DEF Stay, Same, Object
<1>4. EventWords' /\ BarrierWords'
  BY <1>3, OtherWordsStay
<1>5. LockWords'
  <2> SUFFICES ASSUME NEW m \in Lock PROVE LockWord(m)'
    BY DEF LockWords, LockWord, Owners
  <2>1. LockWord(m) /\ Same(m)
    BY <1>3 DEF ObjectsInv, LockWords, Stay, Same
  <2>2. CASE m = l
    <3>1. Owners(l) = {} /\ Pending(l) = {} /\ Granted(l) = {}
      BY <2>1, <2>2 DEF LockWord, Owners
    <3>2. Owners(l)' = {t}
      BY <1>0, <2>1, <2>2, <3>1 DEF Owners, Same
    <3>3. ml_state'[l] = "LS_Locked" /\ Pending(l)' = {} /\ ml_wcount'[l] = ml_wcount[l]
      BY <1>0, <2>1, <2>2, <3>1 DEF Same
    <3> QED
      BY <2>1, <2>2, <3>1, <3>2, <3>3 DEF LockWord
  <2>3. CASE m # l
    BY <1>0, <2>1, <2>3, LockWordStays
  <2> QED
    BY <2>2, <2>3
<1> QED
  BY <1>2, <1>4, <1>5 DEF ObjectsInv, CoreInv

LEMMA LockonObjects ==
  ASSUME Typing, ObjectsInv, LinksAreRead', NEW t \in Task, NEW l \in Lock,
         Locks!lockon_(t, l), UNCHANGED <<eventVars, barrierVars>>
  PROVE  ObjectsInv'
<1>0. l \in Object /\ pc[t] = "user" /\ ml_sem[l] = NULL
  BY DEF Locks!lockon_, Locks!MakeCall, Locks!InUserCode, Object
<1>1. CASE ml_state[l] = "LS_Unlocked"
  BY <1>0, <1>1, TakeObjects DEF Locks!lockon_, Locks!TakeLock, Locks!EnqueueWaiter, Locks!ReturnAtOnce
<1>2. CASE ml_state[l] # "LS_Unlocked"
  <2>1. /\ pc' = [pc EXCEPT ![t] = "dec"] /\ mt_wait_obj' = [mt_wait_obj EXCEPT ![t] = l]
        /\ mt_wait_link' = LinkedAtTail(t, ml_qhead[l], ml_qtail[l])
        /\ mt_state' = [mt_state EXCEPT ![t] = "TS_Lock_Wait"]
        /\ UNCHANGED <<obj, cur, release_count>>
        /\ ml_qhead' = [ml_qhead EXCEPT ![l] = IF @ = NULL THEN t ELSE @]
        /\ ml_qtail' = [ml_qtail EXCEPT ![l] = t]
        /\ ml_wcount' = [ml_wcount EXCEPT ![l] = Plus(@, 1)]
        /\ UNCHANGED <<ml_state, held, ml_sem>>
    BY <1>2 DEF Locks!lockon_, Locks!EnqueueWaiter, Locks!Park, Locks!LinkedAtTail,
                LinkedAtTail, Locks!Plus, Plus
  <2>2. /\ QHead(l) = ml_qhead[l] /\ QTail(l) = ml_qtail[l] /\ Sem(l) = NULL
        /\ WaitStateOf(l) = "TS_Lock_Wait"
    BY <1>0 DEF QHead, QTail, Sem, WaitStateOf
  <2>3. \A p \in Object :
          /\ QHead(p)' = IF p = l /\ QHead(l) = NULL THEN t ELSE QHead(p)
          /\ QTail(p)' = IF p = l THEN t ELSE QTail(p)
          /\ Sem(p)' = Sem(p)
    BY <2>1 DEF QHead, QTail, Sem, eventVars, barrierVars, Typing, ObjectsTyped,
                Locks!LockTypeOK
  <2>4. /\ CoreInv' /\ (\A p \in Object : p = l \/ Same(p)) /\ t \notin Pending(l)
        /\ Pending(l)' = Pending(l) \cup {t} /\ Granted(l)' = Granted(l)
    BY <1>0, <2>1, <2>2, <2>3, ParkStep DEF ObjectsInv, CoreInv
  <2>5. Stay(Event) /\ Stay(Barrier)
    BY <2>4, ObjectAssumption DEF Stay, Same, Object
  <2>6. EventWords' /\ BarrierWords'
    BY <2>5, OtherWordsStay
  <2>7. LockWords'
    <3> SUFFICES ASSUME NEW m \in Lock PROVE LockWord(m)'
      BY DEF LockWords, LockWord, Owners
    <3>1. LockWord(m)
      BY DEF ObjectsInv, LockWords
    <3>2. CASE m = l
      <4>1. Owners(l)' = Owners(l)
        BY <2>1, <2>4 DEF Owners
      <4>2. ml_wcount'[l] = Cardinality(Pending(l)')
        BY <2>1, <2>4, <3>1, <3>2, PendingAre, QueueLength
        DEF LockWord, Typing, ObjectsTyped, Locks!LockTypeOK
      <4>3. ml_state'[l] = ml_state[l] /\ ml_state[l] # "LS_Unlocked"
        BY <1>2, <2>1
      <4> QED
        BY <3>1, <3>2, <4>1, <4>2, <4>3 DEF LockWord
    <3>3. CASE m # l
      <4>1. Same(m) /\ ml_wcount'[m] = ml_wcount[m]
        BY <2>1, <2>4, <3>3 DEF Stay, Same, Object, Typing, ObjectsTyped, Locks!LockTypeOK
      <4> QED
        BY <2>1, <3>1, <4>1, LockWordStays
    <3> QED
      BY <3>2, <3>3
  <2> QED
    BY <2>4, <2>6, <2>7 DEF ObjectsInv, CoreInv
<1> QED
  BY <1>1, <1>2

LEMMA LocktestObjects ==
  ASSUME Typing, ObjectsInv, NEW t \in Task, NEW l \in Lock,
         Locks!locktest_(t, l), UNCHANGED <<eventVars, barrierVars>>
  PROVE  ObjectsInv'
<1>0. pc[t] = "user"
  BY DEF Locks!locktest_, Locks!MakeCall, Locks!InUserCode
<1>1. CASE ml_state[l] = "LS_Unlocked"
  BY <1>0, <1>1, TakeObjects DEF Locks!locktest_, Locks!TakeLock, Locks!ReturnAtOnce
<1>2. CASE ml_state[l] # "LS_Unlocked"
  <2>1. UNCHANGED <<pc, obj, cur, release_count, mt_state, mt_wait_obj, mt_wait_link>>
        /\ UNCHANGED <<ml_state, held, ml_qhead, ml_qtail, ml_wcount, ml_sem>>
    BY <1>2 DEF Locks!locktest_, Locks!ReturnAtOnce
  <2>2. \A p \in Object : QHead(p)' = QHead(p) /\ Sem(p)' = Sem(p) /\ QTail(p)' = QTail(p)
    BY <2>1 DEF QHead, Sem, QTail, eventVars, barrierVars
  <2>3. CoreInv' /\ Stay(Object)
    BY <2>1, <2>2, QuietStep DEF ObjectsInv, CoreInv
  <2>4. Stay(Lock) /\ Stay(Event) /\ Stay(Barrier)
    BY <2>3 DEF Stay, Same, Object
  <2> QED
    BY <2>1, <2>3, <2>4, OtherWordsStay DEF ObjectsInv, CoreInv
<1> QED
  BY <1>1, <1>2

(* An owner that is not in a wait is the only one.                         *)
LEMMA SoleOwner ==
  ASSUME ObjectsInv, NEW t \in Task, NEW l \in Lock, l \in held[t], pc[t] = "user"
  PROVE  Owners(l) = {t} /\ Granted(l) = {} /\ ml_state[l] # "LS_Unlocked"
<1>1. t \in Owners(l) /\ LockWord(l)
  BY DEF Owners, ObjectsInv, LockWords
<1>2. Owners(l) = {t}
  BY <1>1 DEF LockWord
<1>3. t \notin Granted(l)
  BY PendingAre DEF Waiting, WaitPc
<1> QED
  BY <1>1, <1>2, <1>3 DEF Owners, LockWord

LEMMA LockoffObjects ==
  ASSUME Typing, ObjectsInv, NEW t \in Task, NEW l \in Lock,
         Locks!lockoff_(t, l), UNCHANGED <<eventVars, barrierVars>>
  PROVE  ObjectsInv'
<1>0. /\ l \in Object /\ pc[t] = "user" /\ ml_sem[l] = NULL /\ l \in held[t]
      /\ held' = [held EXCEPT ![t] = @ \ {l}]
      /\ QHead(l) = ml_qhead[l] /\ QTail(l) = ml_qtail[l] /\ Sem(l) = NULL
      /\ First(l) = ml_qhead[l]
  BY DEF Locks!lockoff_, Locks!InUserCode, Object, QHead, QTail, Sem, First
<1>1. /\ ml_state \in [Lock -> {"LS_Locked", "LS_Unlocked"}]
      /\ held \in [Task -> SUBSET Lock] /\ ml_qhead \in [Lock -> Task \cup {NULL}]
      /\ ml_qtail \in [Lock -> Task \cup {NULL}] /\ ml_sem \in [Lock -> Task \cup {NULL}]
      /\ ml_wcount \in [Lock -> 0 .. UINT_MAX]
  BY DEF Typing, ObjectsTyped, Locks!LockTypeOK
<1>2. Owners(l) = {t} /\ Granted(l) = {} /\ ml_state[l] # "LS_Unlocked"
  BY <1>0, SoleOwner
<1>3. \A s \in Task : /\ l \notin held'[s]
                      /\ \A m \in Lock : m # l => (m \in held'[s] <=> m \in held[s])
  BY <1>0, <1>1, <1>2 DEF Owners
<1>4. CASE ml_qhead[l] = NULL
  <2>1. /\ ml_state' = [ml_state EXCEPT ![l] = "LS_Unlocked"]
        /\ UNCHANGED <<pc, obj, cur, release_count, mt_state, mt_wait_obj, mt_wait_link>>
        /\ UNCHANGED <<ml_qhead, ml_qtail, ml_wcount, ml_sem>>
    BY <1>4 DEF Locks!lockoff_, Locks!ReturnAtOnce
  <2>2. \A p \in Object : QHead(p)' = QHead(p) /\ Sem(p)' = Sem(p) /\ QTail(p)' = QTail(p)
    BY <2>1 DEF QHead, Sem, QTail, eventVars, barrierVars
  <2>3. CoreInv' /\ Stay(Object)
    BY <2>1, <2>2, QuietStep DEF ObjectsInv, CoreInv
  <2>4. Stay(Lock) /\ Stay(Event) /\ Stay(Barrier)
    BY <2>3 DEF Stay, Same, Object
  <2>5. Pending(l) = {}
    BY <1>0, <1>4, QueueEnds DEF ObjectsInv, Queues
  <2>6. LockWords'
    <3> SUFFICES ASSUME NEW m \in Lock PROVE LockWord(m)'
      BY DEF LockWords, LockWord, Owners
    <3>1. LockWord(m) /\ Same(m)
      BY <2>4 DEF ObjectsInv, LockWords, Stay, Same
    <3>2. CASE m = l
      <4>1. Owners(l)' = {} /\ Pending(l)' = {} /\ ml_state'[l] = "LS_Unlocked"
        BY <1>1, <1>2, <1>3, <2>1, <2>5, <3>1, <3>2 DEF Owners, Same
      <4> QED
        BY <2>1, <2>5, <3>1, <3>2, <4>1 DEF LockWord
    <3>3. CASE m # l
      BY <1>1, <1>3, <2>1, <3>1, <3>3, LockWordStays
    <3> QED
      BY <3>2, <3>3
  <2> QED
    BY <2>3, <2>4, <2>6, OtherWordsStay DEF ObjectsInv, CoreInv
<1>5. CASE ml_qhead[l] # NULL
  <2>1. PICK h \in Task : ml_qhead[l] = h
    BY <1>1, <1>5
  <2>2. /\ ml_qhead' = [ml_qhead EXCEPT ![l] = mt_wait_link[h]]
        /\ ml_qtail' = [ml_qtail EXCEPT ![l] = IF mt_wait_link[h] = NULL THEN NULL ELSE @]
        /\ ml_wcount' = [ml_wcount EXCEPT ![l] = Minus1(@)]
        /\ ml_sem' = [ml_sem EXCEPT ![l] = t]
        /\ pc' = [pc EXCEPT ![t] = "inc"] /\ obj' = [obj EXCEPT ![t] = l]
        /\ cur' = [cur EXCEPT ![t] = h] /\ release_count' = [release_count EXCEPT ![t] = 1]
        /\ UNCHANGED <<mt_state, mt_wait_obj, mt_wait_link>> /\ ml_state' = ml_state
    BY <1>5, <2>1 DEF Locks!lockoff_, Locks!StartWaking, Locks!Minus1, Minus1
  <2>3. \A p \in Object :
          /\ QHead(p)' = IF p = l THEN mt_wait_link[h] ELSE QHead(p)
          /\ QTail(p)' = IF p = l /\ mt_wait_link[h] = NULL THEN NULL ELSE QTail(p)
          /\ Sem(p)' = IF p = l THEN t ELSE Sem(p)
    BY <1>1, <2>2 DEF QHead, QTail, Sem, eventVars, barrierVars
  <2>4. /\ CoreInv' /\ (\A p \in Object : p = l \/ Same(p)) /\ h \in Pending(l)
        /\ Pending(l)' = Pending(l) \ {h} /\ Granted(l)' = Granted(l) \cup {h}
    <3>1. CoreInv /\ QHead(l) = h /\ Sem(l) = NULL /\ pc[t] = "user"
      BY <1>0, <2>1 DEF ObjectsInv, CoreInv
    <3> QED
      <4>1. CoreInv' /\ Passes(h, l)
        BY <2>2, <2>3, <3>1, TakeHeadStep
      <4> QED
        BY <4>1 DEF Passes
  <2>5. Stay(Event) /\ Stay(Barrier)
    BY <2>4, ObjectAssumption DEF Stay, Same, Object
  <2>6. LockWords'
    <3> SUFFICES ASSUME NEW m \in Lock PROVE LockWord(m)'
      BY DEF LockWords, LockWord, Owners
    <3>1. LockWord(m)
      BY DEF ObjectsInv, LockWords
    <3>2. CASE m = l
      <4>1. Owners(l)' = {h}
        BY <1>2, <1>3, <2>4 DEF Owners
      <4>2. ml_wcount'[l] = Cardinality(Pending(l)')
        BY <1>1, <2>2, <2>4, <3>1, <3>2, PendingAre, QueueLength DEF LockWord
      <4>3. ml_state'[l] # "LS_Unlocked"
        BY <1>2, <2>2
      <4> QED
        BY <3>2, <4>1, <4>2, <4>3 DEF LockWord
    <3>3. CASE m # l
      <4>1. Same(m) /\ ml_wcount'[m] = ml_wcount[m] /\ ml_state'[m] = ml_state[m]
        BY <1>1, <2>2, <2>4, <3>3 DEF Stay, Same, Object
      <4> QED
        BY <1>3, <3>1, <3>3, <4>1, LockWordStays
    <3> QED
      BY <3>2, <3>3
  <2> QED
    BY <2>4, <2>5, <2>6, OtherWordsStay DEF ObjectsInv, CoreInv
<1> QED
  BY <1>4, <1>5

LEMMA LockoffWakeObjects ==
  ASSUME Typing, ObjectsInv, NEW t \in Task,
         Locks!lockoff_wake(t), UNCHANGED <<eventVars, barrierVars>>
  PROVE  ObjectsInv'
<1>1. PICK l \in Lock, h \in Task : obj[t] = l /\ cur[t] = h
  BY DEF Locks!lockoff_wake, Locks!Wake, Typing, DescriptorsTyped, TaskTypeOK
<1>2. /\ pc[t] = "mark" /\ pc' = [pc EXCEPT ![t] = "user"]
      /\ mt_state' = [mt_state EXCEPT ![h] = "TS_Running"]
      /\ obj' = [obj EXCEPT ![t] = NULL] /\ cur' = [cur EXCEPT ![t] = NULL]
      /\ release_count' = [release_count EXCEPT ![t] = 0]
      /\ ml_sem' = [ml_sem EXCEPT ![l] = NULL]
      /\ UNCHANGED <<mt_wait_obj, mt_wait_link>>
      /\ UNCHANGED <<ml_state, ml_qhead, ml_qtail, ml_wcount, held>>
  BY <1>1 DEF Locks!lockoff_wake, Locks!Wake, Locks!ForgetLocals
<1>3. \A p \in Object : /\ QHead(p)' = QHead(p) /\ QTail(p)' = QTail(p)
                        /\ Sem(p)' = IF p = l THEN NULL ELSE Sem(p)
  BY <1>2 DEF QHead, QTail, Sem, eventVars, barrierVars, Typing, ObjectsTyped,
              Locks!LockTypeOK
<1>4. CoreInv' /\ Stay(Object)
  BY <1>1, <1>2, <1>3, LetGoStep DEF ObjectsInv, CoreInv
<1>5. Stay(Lock) /\ Stay(Event) /\ Stay(Barrier)
  BY <1>4 DEF Stay, Same, Object
<1> QED
  BY <1>2, <1>4, <1>5, OtherWordsStay DEF ObjectsInv, CoreInv

(* The three returns from a wait.                                          *)
LEMMA ReturnCore ==
  ASSUME Typing, ObjectsInv, NEW t \in Task, pc[t] = "spin", mt_state[t] = "TS_Running",
         pc' = [pc EXCEPT ![t] = "user"],
         UNCHANGED <<obj, cur, release_count, mt_state, mt_wait_obj, mt_wait_link>>,
         UNCHANGED <<ml_qhead, ml_qtail, ml_sem, eventVars, barrierVars>>
  PROVE  /\ CoreInv' /\ t \in Granted(mt_wait_obj[t])
         /\ \A p \in Object : Pending(p)' = Pending(p) /\ Granted(p)' = Granted(p) \ {t}
         /\ EventWords' /\ BarrierWords'
<1>1. \A p \in Object : QHead(p)' = QHead(p) /\ Sem(p)' = Sem(p) /\ QTail(p)' = QTail(p)
  BY DEF QHead, Sem, QTail, eventVars, barrierVars
<1>2. /\ CoreInv' /\ t \in Granted(mt_wait_obj[t])
      /\ \A p \in Object : Pending(p)' = Pending(p) /\ Granted(p)' = Granted(p) \ {t}
  BY <1>1, ReturnStep DEF ObjectsInv, CoreInv
<1>3. EventWords'
  <2> SUFFICES ASSUME NEW e \in Event PROVE EventWord(e)'
    BY DEF EventWords, EventWord
  <2> QED
    BY <1>2 DEF ObjectsInv, EventWords, EventWord, eventVars, Object
<1>4. BarrierWords'
  <2> SUFFICES ASSUME NEW b \in Barrier PROVE BarrierWord(b)'
    BY DEF BarrierWords, BarrierWord, Missing
  <2>1. BarrierWord(b) /\ Pending(b)' = Pending(b)
    BY <1>2 DEF ObjectsInv, BarrierWords, Object
  <2>2. /\ mb_ncount'[b] = mb_ncount[b] /\ mb_ocount'[b] = mb_ocount[b]
        /\ mb_sem'[b] = mb_sem[b]
    BY DEF barrierVars
  <2> QED
    BY <2>1, <2>2 DEF BarrierWord, Missing
<1> QED
  BY <1>2, <1>3, <1>4

LEMMA LockonReturnObjects ==
  ASSUME Typing, ObjectsInv, NEW t \in Task,
         Locks!lockon_return(t), UNCHANGED <<eventVars, barrierVars>>
  PROVE  ObjectsInv'
<1>1. PICK l \in Lock : mt_wait_obj[t] = l
  BY DEF Locks!lockon_return
<1>2. /\ pc[t] = "spin" /\ mt_state[t] = "TS_Running" /\ pc' = [pc EXCEPT ![t] = "user"]
      /\ held' = [held EXCEPT ![t] = @ \cup {l}]
      /\ UNCHANGED <<obj, cur, release_count, mt_state, mt_wait_obj, mt_wait_link>>
      /\ UNCHANGED <<ml_state, ml_qhead, ml_qtail, ml_wcount, ml_sem>>
  BY <1>1 DEF Locks!lockon_return, Locks!SeesItselfRunning
<1>3. /\ CoreInv' /\ t \in Granted(l) /\ EventWords' /\ BarrierWords'
      /\ \A p \in Object : Pending(p)' = Pending(p) /\ Granted(p)' = Granted(p) \ {t}
  BY <1>1, <1>2, ReturnCore
<1>4. LockWords'
  <2> SUFFICES ASSUME NEW m \in Lock PROVE LockWord(m)'
    BY DEF LockWords, LockWord, Owners
  <2>1. LockWord(m) /\ Pending(m)' = Pending(m) /\ Granted(m)' = Granted(m) \ {t}
    BY <1>3 DEF ObjectsInv, LockWords, Object
  <2>2. Owners(m)' = Owners(m)
    <3>1. \A s \in Task : m \in held'[s] <=> m \in held[s] \/ (s = t /\ m = l)
      BY <1>2 DEF Typing, ObjectsTyped, Locks!LockTypeOK
    <3>2. m # l => t \notin Granted(m)
      BY <1>1, PendingAre
    <3> QED
      BY <1>3, <2>1, <3>1, <3>2 DEF Owners
  <2> QED
    BY <1>2, <2>1, <2>2 DEF LockWord
<1> QED
  BY <1>3, <1>4 DEF ObjectsInv, CoreInv

LEMMA EvwaitObjects ==
  ASSUME Typing, ObjectsInv, LinksAreRead', NEW t \in Task, NEW e \in Event,
         Events!evwait_(t, e), UNCHANGED <<lockVars, barrierVars>>
  PROVE  ObjectsInv'
<1>0. e \in Object /\ e \notin Lock /\ pc[t] = "user" /\ me_sem[e] = NULL
  BY ObjectAssumption DEF Events!evwait_, Events!MakeCall, Events!InUserCode, Object
<1>1. /\ me_qhead \in [Event -> Task \cup {NULL}] /\ me_qtail \in [Event -> Task \cup {NULL}]
      /\ me_wcount \in [Event -> 0 .. UINT_MAX]
      /\ me_state \in [Event -> {"ES_Posted", "ES_Cleared"}]
  BY DEF Typing, ObjectsTyped, Events!EventTypeOK
<1>2. CASE me_state[e] = "ES_Posted"
  <2>1. UNCHANGED <<pc, obj, cur, release_count, mt_state, mt_wait_obj, mt_wait_link>>
        /\ UNCHANGED objectVars
    BY <1>2 DEF Events!evwait_, Events!ReturnAtOnce, Events!eventVars, eventVars, objectVars
  <2> QED
    BY <2>1, ObjectsStay
<1>3. CASE me_state[e] # "ES_Posted"
  <2>1. /\ pc' = [pc EXCEPT ![t] = "dec"] /\ mt_wait_obj' = [mt_wait_obj EXCEPT ![t] = e]
        /\ mt_wait_link' = LinkedAtTail(t, me_qhead[e], me_qtail[e])
        /\ mt_state' = [mt_state EXCEPT ![t] = "TS_Event_Wait"]
        /\ UNCHANGED <<obj, cur, release_count>>
        /\ me_qhead' = [me_qhead EXCEPT ![e] = IF @ = NULL THEN t ELSE @]
        /\ me_qtail' = [me_qtail EXCEPT ![e] = t]
        /\ me_wcount' = [me_wcount EXCEPT ![e] = Plus(@, 1)]
        /\ UNCHANGED <<me_state, me_sem>>
    BY <1>3 DEF Events!evwait_, Events!Park, Events!LinkedAtTail,
                LinkedAtTail, Events!Plus, Plus
  <2>2. /\ QHead(e) = me_qhead[e] /\ QTail(e) = me_qtail[e] /\ Sem(e) = NULL
        /\ WaitStateOf(e) = "TS_Event_Wait"
    BY <1>0 DEF QHead, QTail, Sem, WaitStateOf
  <2>3. \A p \in Object :
          /\ QHead(p)' = IF p = e /\ QHead(e) = NULL THEN t ELSE QHead(p)
          /\ QTail(p)' = IF p = e THEN t ELSE QTail(p)
          /\ Sem(p)' = Sem(p)
    BY <1>0, <1>1, <2>1 DEF QHead, QTail, Sem, lockVars, barrierVars
  <2>4. /\ CoreInv' /\ (\A p \in Object : p = e \/ Same(p)) /\ t \notin Pending(e)
        /\ Pending(e)' = Pending(e) \cup {t} /\ Granted(e)' = Granted(e)
    BY <1>0, <2>1, <2>2, <2>3, ParkStep DEF ObjectsInv, CoreInv
  <2>5. Stay(Lock) /\ Stay(Barrier)
    BY <2>4, ObjectAssumption DEF Stay, Object
  <2>6. LockWords' /\ BarrierWords'
    BY <2>5, OtherWordsStay DEF lockVars
  <2>7. EventWords'
    <3> SUFFICES ASSUME NEW f \in Event PROVE EventWord(f)'
      BY DEF EventWords, EventWord
    <3>1. EventWord(f)
      BY DEF ObjectsInv, EventWords
    <3>2. CASE f = e
      <4>1. me_wcount'[e] = Cardinality(Pending(e)')
        BY <1>0, <1>1, <2>1, <2>4, <3>1, <3>2, PendingAre, QueueLength DEF EventWord
      <4> QED
        BY <1>0, <1>3, <2>1, <3>2, <4>1 DEF EventWord
    <3>3. CASE f # e
      <4>1. Same(f) /\ me_wcount'[f] = me_wcount[f]
        BY <1>1, <2>1, <2>4, <3>3 DEF Object
      <4> QED
        BY <2>1, <3>1, <4>1, EventWordStays
    <3> QED
      BY <3>2, <3>3
  <2> QED
    BY <2>4, <2>6, <2>7 DEF ObjectsInv, CoreInv
<1> QED
  BY <1>2, <1>3

LEMMA EvpostObjects ==
  ASSUME Typing, ObjectsInv, NEW t \in Task, NEW e \in Event,
         Events!evpost_(t, e), UNCHANGED <<lockVars, barrierVars>>
  PROVE  ObjectsInv'
<1>0. e \in Object \ Lock /\ pc[t] = "user" /\ me_sem[e] = NULL
  BY ObjectAssumption DEF Events!evpost_, Events!MakeCall, Events!InUserCode, Object
<1>1. me_sem \in [Event -> Task \cup {NULL}]
      /\ me_state \in [Event -> {"ES_Posted", "ES_Cleared"}]
  BY DEF Typing, ObjectsTyped, Events!EventTypeOK
<1>2. PICK n : n = Cardinality(Chain(me_qhead[e]))
  OBVIOUS
<1>3. /\ pc' = [pc EXCEPT ![t] = "inc"] /\ obj' = [obj EXCEPT ![t] = e]
      /\ cur' = [cur EXCEPT ![t] = me_qhead[e]]
      /\ release_count' = [release_count EXCEPT ![t] = n]
      /\ me_sem' = [me_sem EXCEPT ![e] = t]
      /\ me_state' = [me_state EXCEPT ![e] = "ES_Posted"]
      /\ UNCHANGED <<mt_state, mt_wait_obj, mt_wait_link>>
      /\ UNCHANGED <<me_qhead, me_qtail, me_wcount>>
  BY <1>2, SameChain, SameCardinality
  DEF Events!evpost_, Events!StartWaking, Events!MarkPosted
<1>4. QHead(e) = me_qhead[e] /\ Sem(e) = NULL
  BY <1>0 DEF QHead, Sem
<1>5. \A p \in Object : /\ QHead(p)' = QHead(p) /\ QTail(p)' = QTail(p)
                        /\ Sem(p)' = IF p = e THEN t ELSE Sem(p)
  BY <1>0, <1>1, <1>3 DEF QHead, QTail, Sem, lockVars, barrierVars
<1>6. CoreInv' /\ Stay(Object)
  BY <1>0, <1>3, <1>4, <1>5, OpenWalkStep DEF ObjectsInv, CoreInv
<1>7. Stay(Lock) /\ Stay(Event) /\ Stay(Barrier)
  BY <1>6 DEF Stay, Object
<1>8. EventWords'
  <2> SUFFICES ASSUME NEW f \in Event PROVE EventWord(f)'
    BY DEF EventWords, EventWord
  <2>1. EventWord(f) /\ Same(f)
    BY <1>7 DEF ObjectsInv, EventWords, Stay
  <2>2. CASE f = e
    BY <1>1, <1>3, <2>2, TaskAssumption DEF EventWord
  <2>3. CASE f # e
    BY <1>1, <1>3, <2>1, <2>3, EventWordStays
  <2> QED
    BY <2>2, <2>3
<1> QED
  BY <1>6, <1>7, <1>8, OtherWordsStay DEF ObjectsInv, CoreInv, lockVars

LEMMA EvclearObjects ==
  ASSUME Typing, ObjectsInv, NEW t \in Task, NEW e \in Event,
         Events!evclear_(t, e), UNCHANGED <<lockVars, barrierVars>>
  PROVE  ObjectsInv'
<1>1. /\ me_state' = [me_state EXCEPT ![e] = "ES_Cleared"] /\ me_sem[e] = NULL
      /\ UNCHANGED <<pc, obj, cur, release_count, mt_state, mt_wait_obj, mt_wait_link>>
      /\ UNCHANGED <<me_qhead, me_qtail, me_wcount, me_sem>>
  BY DEF Events!evclear_, Events!ReturnAtOnce
<1>2. \A p \in Object : QHead(p)' = QHead(p) /\ Sem(p)' = Sem(p) /\ QTail(p)' = QTail(p)
  BY <1>1 DEF QHead, Sem, QTail, lockVars, barrierVars
<1>3. CoreInv' /\ Stay(Object)
  BY <1>1, <1>2, QuietStep DEF ObjectsInv, CoreInv
<1>4. Stay(Lock) /\ Stay(Event) /\ Stay(Barrier)
  BY <1>3 DEF Stay, Object
<1>5. EventWords'
  <2> SUFFICES ASSUME NEW f \in Event PROVE EventWord(f)'
    BY DEF EventWords, EventWord
  <2>1. EventWord(f) /\ Same(f)
    BY <1>4 DEF ObjectsInv, EventWords, Stay
  <2>2. CASE f = e
    BY <1>1, <2>1, <2>2 DEF EventWord, Same, Typing, ObjectsTyped, Events!EventTypeOK
  <2>3. CASE f # e
    BY <1>1, <2>1, <2>3, EventWordStays DEF Typing, ObjectsTyped, Events!EventTypeOK
  <2> QED
    BY <2>2, <2>3
<1> QED
  BY <1>3, <1>4, <1>5, OtherWordsStay DEF ObjectsInv, CoreInv, lockVars

LEMMA EvpostEndObjects ==
  ASSUME Typing, ObjectsInv, NEW t \in Task,
         Events!evpost_end(t), UNCHANGED <<lockVars, barrierVars>>
  PROVE  ObjectsInv'
<1>0. PICK e \in Event : obj[t] = e
  BY DEF Events!evpost_end
<1>1. /\ e \in Object \ Lock /\ pc[t] = "mark" /\ cur[t] = NULL
      /\ pc' = [pc EXCEPT ![t] = "user"]
      /\ obj' = [obj EXCEPT ![t] = NULL] /\ cur' = [cur EXCEPT ![t] = NULL]
      /\ release_count' = [release_count EXCEPT ![t] = 0]
      /\ me_qhead' = [me_qhead EXCEPT ![e] = NULL] /\ me_qtail' = [me_qtail EXCEPT ![e] = NULL]
      /\ me_wcount' = [me_wcount EXCEPT ![e] = 0] /\ me_sem' = [me_sem EXCEPT ![e] = NULL]
      /\ UNCHANGED <<mt_state, mt_wait_obj, mt_wait_link>> /\ me_state' = me_state
  BY <1>0, ObjectAssumption DEF Events!evpost_end, Events!EndOfWalk, Events!ForgetLocals, Object
<1>2. /\ me_sem \in [Event -> Task \cup {NULL}] /\ me_wcount \in [Event -> 0 .. UINT_MAX]
      /\ me_qhead \in [Event -> Task \cup {NULL}] /\ me_qtail \in [Event -> Task \cup {NULL}]
  BY DEF Typing, ObjectsTyped, Events!EventTypeOK
<1>3. \A p \in Object : /\ QHead(p)' = IF p = e THEN NULL ELSE QHead(p)
                        /\ QTail(p)' = IF p = e THEN NULL ELSE QTail(p)
                        /\ Sem(p)' = IF p = e THEN NULL ELSE Sem(p)
  BY <1>1, <1>2 DEF QHead, QTail, Sem, lockVars, barrierVars
<1>4. CoreInv' /\ Stay(Object) /\ Pending(e) = {} /\ Sem(e) = t
  BY <1>0, <1>1, <1>3, CloseWalkStep DEF ObjectsInv, CoreInv
<1>5. Stay(Lock) /\ Stay(Event) /\ Stay(Barrier)
  BY <1>4 DEF Stay, Object
<1>6. EventWords'
  <2> SUFFICES ASSUME NEW f \in Event PROVE EventWord(f)'
    BY DEF EventWords, EventWord
  <2>1. EventWord(f) /\ Same(f)
    BY <1>5 DEF ObjectsInv, EventWords, Stay
  <2>2. CASE f = e
    <3>1. Pending(e)' = {} /\ Cardinality(Pending(e)') = 0 /\ me_wcount'[e] = 0
      BY <1>1, <1>2, <1>4, <2>1, <2>2, FS_EmptySet DEF Same
    <3> QED
      BY <1>1, <1>2, <2>2, <3>1 DEF EventWord
  <2>3. CASE f # e
    BY <1>1, <1>2, <2>1, <2>3, EventWordStays
  <2> QED
    BY <2>2, <2>3
<1> QED
  BY <1>4, <1>5, <1>6, OtherWordsStay DEF ObjectsInv, CoreInv, lockVars

(* EVPOST and BARSYNC let a task go.                                       *)
LEMMA WalkWakeObjects ==
  ASSUME Typing, ObjectsInv, NEW t \in Task, NEW o \in Object \ Lock, NEW h \in Task,
         pc[t] = "mark", obj[t] = o, cur[t] = h, pc' = [pc EXCEPT ![t] = "next"],
         mt_state' = [mt_state EXCEPT ![h] = "TS_Running"],
         UNCHANGED <<obj, cur, release_count, mt_wait_obj, mt_wait_link>>,
         UNCHANGED objectVars
  PROVE  ObjectsInv' /\ Passes(h, o)
<1>1. UNCHANGED lockVars /\ UNCHANGED eventVars /\ UNCHANGED barrierVars
  BY DEF objectVars
<1>2. \A p \in Object : QHead(p)' = QHead(p) /\ Sem(p)' = Sem(p) /\ QTail(p)' = QTail(p)
  BY <1>1 DEF QHead, Sem, QTail, lockVars, eventVars, barrierVars
<1>3. CoreInv' /\ Passes(h, o)
  BY <1>2, WakeInWalkStep DEF ObjectsInv, CoreInv
<1>4. \A p \in Object : p = o \/ Same(p)
  BY <1>3 DEF Passes
<1>5. Sem(o) = t /\ t # NULL
  BY TaskAssumption DEF ObjectsInv, WakersWake, WakePc
<1>6. LockWords'
  BY <1>1, <1>4, OtherWordsStay DEF Stay, Object, lockVars
<1>7. EventWords'
  <2> SUFFICES ASSUME NEW e \in Event PROVE EventWord(e)'
    BY DEF EventWords, EventWord
  <2>1. EventWord(e) /\ e \in Object
    BY DEF ObjectsInv, EventWords, Object
  <2>2. CASE e = o
    <3>1. me_sem[e] # NULL
      BY <1>5, <2>2, ObjectAssumption DEF Sem
    <3> QED
      BY <1>1, <2>1, <3>1 DEF EventWord, eventVars
  <2>3. CASE e # o
    BY <1>1, <1>4, <2>1, <2>3, EventWordStays DEF eventVars
  <2> QED
    BY <2>2, <2>3
<1>8. BarrierWords'
  <2> SUFFICES ASSUME NEW b \in Barrier PROVE BarrierWord(b)'
    BY DEF BarrierWords, BarrierWord, Missing
  <2>1. BarrierWord(b) /\ b \in Object
    BY DEF ObjectsInv, BarrierWords, Object
  <2>2. CASE b = o
    <3>1. mb_sem[b] # NULL /\ mb_sem' = mb_sem
      BY <1>1, <1>5, <2>2, ObjectAssumption DEF Sem, barrierVars
    <3> QED
      BY <3>1 DEF BarrierWord
  <2>3. CASE b # o
    BY <1>1, <1>4, <2>1, <2>3, BarrierWordStays DEF barrierVars
  <2> QED
    BY <2>2, <2>3
<1> QED
  BY <1>3, <1>6, <1>7, <1>8 DEF ObjectsInv, CoreInv

(* The missing arrivals, as one more arrives.                              *)
LEMMA OneLessMissing ==
  ASSUME NEW n \in 0 .. UINT_MAX, NEW k \in Nat, k < Cardinality(Task),
         NEW m, m = Missing(n, k), n # 0 => m # 0
  PROVE  /\ m # 1 => Minus1(m) = Missing(n, k + 1) /\ (n # 0 => Minus1(m) # 0)
         /\ Missing(n, 0) = n
         /\ m = n => k = 0
BY TasksInRange, CountAssumption DEF Missing, Minus1

LEMMA BarsyncObjects ==
  ASSUME Typing, ObjectsInv, LinksAreRead', NEW t \in Task, NEW b \in Barrier,
         Barriers!barsync_(t, b), UNCHANGED <<lockVars, eventVars>>
  PROVE  ObjectsInv'
<1>0. /\ b \in Object /\ b \notin Lock /\ b \notin Event
      /\ pc[t] = "user" /\ mb_sem[b] = NULL /\ mb_ncount[b] # 1
  BY ObjectAssumption DEF Barriers!barsync_, Barriers!MakeCall, Barriers!InUserCode,
                          Barriers!LastToArrive, Object
<1>1. /\ mb_qhead \in [Barrier -> Task \cup {NULL}] /\ mb_qtail \in [Barrier -> Task \cup {NULL}]
      /\ mb_ncount \in [Barrier -> 0 .. UINT_MAX] /\ mb_ocount \in [Barrier -> 0 .. UINT_MAX]
  BY DEF Typing, ObjectsTyped, Barriers!BarrierTypeOK
<1>2. /\ pc' = [pc EXCEPT ![t] = "dec"] /\ mt_wait_obj' = [mt_wait_obj EXCEPT ![t] = b]
      /\ mt_wait_link' = LinkedAtTail(t, mb_qhead[b], mb_qtail[b])
      /\ mt_state' = [mt_state EXCEPT ![t] = "TS_Bar_Wait"]
      /\ UNCHANGED <<obj, cur, release_count>>
      /\ mb_qhead' = [mb_qhead EXCEPT ![b] = IF @ = NULL THEN t ELSE @]
      /\ mb_qtail' = [mb_qtail EXCEPT ![b] = t]
      /\ mb_ncount' = [mb_ncount EXCEPT ![b] = Minus1(@)]
      /\ UNCHANGED <<mb_ocount, mb_sem>>
  BY DEF Barriers!barsync_, Barriers!Park, Barriers!LinkedAtTail, LinkedAtTail,
         Barriers!Minus1, Minus1
<1>3. /\ QHead(b) = mb_qhead[b] /\ QTail(b) = mb_qtail[b] /\ Sem(b) = NULL
      /\ WaitStateOf(b) = "TS_Bar_Wait"
  BY <1>0 DEF QHead, QTail, Sem, WaitStateOf
<1>4. \A p \in Object :
        /\ QHead(p)' = IF p = b /\ QHead(b) = NULL THEN t ELSE QHead(p)
        /\ QTail(p)' = IF p = b THEN t ELSE QTail(p)
        /\ Sem(p)' = Sem(p)
  <2> SUFFICES ASSUME NEW p \in Object
               PROVE  /\ QHead(p)' = IF p = b /\ QHead(b) = NULL THEN t ELSE QHead(p)
                      /\ QTail(p)' = IF p = b THEN t ELSE QTail(p)
                      /\ Sem(p)' = Sem(p)
    BY Zenon
  <2>1. CASE p \in Barrier
    BY <1>0, <1>1, <1>2, <2>1, ObjectAssumption DEF QHead, QTail, Sem
  <2>2. CASE p \notin Barrier
    BY <1>0, <2>2 DEF QHead, QTail, Sem, lockVars, eventVars, Object
  <2> QED
    BY <2>1, <2>2
<1>5. /\ CoreInv' /\ (\A p \in Object : p = b \/ Same(p)) /\ t \notin Pending(b)
      /\ Pending(b)' = Pending(b) \cup {t} /\ Granted(b)' = Granted(b)
  BY <1>0, <1>2, <1>3, <1>4, ParkStep DEF ObjectsInv, CoreInv
<1>6. Stay(Lock) /\ Stay(Event)
  BY <1>5, ObjectAssumption DEF Stay, Object
<1>7. LockWords' /\ EventWords'
  BY <1>6, OtherWordsStay DEF lockVars
<1>8. BarrierWords'
  <2> SUFFICES ASSUME NEW c \in Barrier PROVE BarrierWord(c)'
    BY DEF BarrierWords, BarrierWord, Missing
  <2>1. BarrierWord(c)
    BY DEF ObjectsInv, BarrierWords
  <2>2. CASE c = b
    <3>1. PICK n \in 0 .. UINT_MAX, m \in 0 .. UINT_MAX, k \in Nat :
            /\ n = mb_ocount[b] /\ m = mb_ncount[b] /\ k = Cardinality(Pending(b))
            /\ k < Cardinality(Task) /\ Cardinality(Pending(b)') = k + 1
      <4>1. Cardinality(Pending(b)) \in Nat /\ Cardinality(Pending(b)) < Cardinality(Task)
            /\ Cardinality(Pending(b)') = Cardinality(Pending(b)) + 1
        BY <1>5, PendingAre, QueueLength
      <4> QED
        BY <1>1, <4>1
    <3>2. m = Missing(n, k) /\ (n # 0 => m # 0) /\ m # 1
      BY <1>0, <2>1, <2>2, <3>1 DEF BarrierWord
    <3>3. Minus1(m) = Missing(n, k + 1) /\ (n # 0 => Minus1(m) # 0)
      BY <3>1, <3>2, OneLessMissing
    <3>4. mb_ncount'[b] = Minus1(m) /\ mb_ocount'[b] = n
      BY <1>1, <1>2, <3>1
    <3>5. mb_ncount'[b] = Missing(mb_ocount[b], Cardinality(Pending(b)))'
      BY <3>1, <3>3, <3>4 DEF Missing
    <3> QED
      BY <2>2, <3>3, <3>4, <3>5 DEF BarrierWord
  <2>3. CASE c # b
    <3>1. Same(c) /\ mb_ncount'[c] = mb_ncount[c]
      BY <1>1, <1>2, <1>5, <2>3 DEF Object
    <3> QED
      BY <1>2, <2>1, <3>1, BarrierWordStays
  <2> QED
    BY <2>2, <2>3
<1> QED
  BY <1>5, <1>7, <1>8 DEF ObjectsInv, CoreInv

LEMMA BarsyncOpenObjects ==
  ASSUME Typing, ObjectsInv, NEW t \in Task, NEW b \in Barrier,
         Barriers!barsync_open(t, b), UNCHANGED <<lockVars, eventVars>>
  PROVE  ObjectsInv'
<1>0. /\ b \in Object \ Lock /\ b \notin Event /\ pc[t] = "user" /\ mb_sem[b] = NULL
  BY ObjectAssumption DEF Barriers!barsync_open, Barriers!MakeCall, Barriers!InUserCode, Object
<1>1. mb_sem \in [Barrier -> Task \cup {NULL}]
  BY DEF Typing, ObjectsTyped, Barriers!BarrierTypeOK
<1>2. PICK n : n = Cardinality(Chain(mb_qhead[b]))
  OBVIOUS
<1>3. /\ pc' = [pc EXCEPT ![t] = "inc"] /\ obj' = [obj EXCEPT ![t] = b]
      /\ cur' = [cur EXCEPT ![t] = mb_qhead[b]]
      /\ release_count' = [release_count EXCEPT ![t] = n]
      /\ mb_sem' = [mb_sem EXCEPT ![b] = t]
      /\ UNCHANGED <<mt_state, mt_wait_obj, mt_wait_link>>
      /\ UNCHANGED <<mb_qhead, mb_qtail, mb_ncount, mb_ocount>>
  BY <1>2, SameChain, SameCardinality DEF Barriers!barsync_open, Barriers!StartWaking
<1>4. QHead(b) = mb_qhead[b] /\ Sem(b) = NULL
  BY <1>0 DEF QHead, Sem
<1>5. \A p \in Object : /\ QHead(p)' = QHead(p) /\ QTail(p)' = QTail(p)
                        /\ Sem(p)' = IF p = b THEN t ELSE Sem(p)
  BY <1>0, <1>1, <1>3 DEF QHead, QTail, Sem, lockVars, eventVars, Object
<1>6. CoreInv' /\ Stay(Object)
  BY <1>0, <1>3, <1>4, <1>5, OpenWalkStep DEF ObjectsInv, CoreInv
<1>7. Stay(Lock) /\ Stay(Event) /\ Stay(Barrier)
  BY <1>6 DEF Stay, Object
<1>8. BarrierWords'
  <2> SUFFICES ASSUME NEW c \in Barrier PROVE BarrierWord(c)'
    BY DEF BarrierWords, BarrierWord, Missing
  <2>1. BarrierWord(c) /\ Same(c)
    BY <1>7 DEF ObjectsInv, BarrierWords, Stay
  <2>2. CASE c = b
    BY <1>1, <1>3, <2>2, TaskAssumption DEF BarrierWord
  <2>3. CASE c # b
    BY <1>1, <1>3, <2>1, <2>3, BarrierWordStays
  <2> QED
    BY <2>2, <2>3
<1> QED
  BY <1>6, <1>7, <1>8, OtherWordsStay DEF ObjectsInv, CoreInv, lockVars

LEMMA BarsyncCloseObjects ==
  ASSUME Typing, ObjectsInv, NEW t \in Task,
         Barriers!barsync_close(t), UNCHANGED <<lockVars, eventVars>>
  PROVE  ObjectsInv'
<1>0. PICK b \in Barrier : obj[t] = b
  BY DEF Barriers!barsync_close
<1>1. /\ b \in Object \ Lock /\ b \notin Event /\ pc[t] = "mark" /\ cur[t] = NULL
      /\ pc' = [pc EXCEPT ![t] = "user"]
      /\ obj' = [obj EXCEPT ![t] = NULL] /\ cur' = [cur EXCEPT ![t] = NULL]
      /\ release_count' = [release_count EXCEPT ![t] = 0]
      /\ mb_qhead' = [mb_qhead EXCEPT ![b] = NULL] /\ mb_qtail' = [mb_qtail EXCEPT ![b] = NULL]
      /\ mb_ncount' = [mb_ncount EXCEPT ![b] = mb_ocount[b]]
      /\ mb_sem' = [mb_sem EXCEPT ![b] = NULL] /\ mb_ocount' = mb_ocount
      /\ UNCHANGED <<mt_state, mt_wait_obj, mt_wait_link>>
  BY <1>0, ObjectAssumption
  DEF Barriers!barsync_close, Barriers!EndOfWalk, Barriers!ForgetLocals, Object
<1>2. /\ mb_sem \in [Barrier -> Task \cup {NULL}]
      /\ mb_ncount \in [Barrier -> 0 .. UINT_MAX] /\ mb_ocount \in [Barrier -> 0 .. UINT_MAX]
      /\ mb_qhead \in [Barrier -> Task \cup {NULL}] /\ mb_qtail \in [Barrier -> Task \cup {NULL}]
  BY DEF Typing, ObjectsTyped, Barriers!BarrierTypeOK
<1>3. \A p \in Object : /\ QHead(p)' = IF p = b THEN NULL ELSE QHead(p)
                        /\ QTail(p)' = IF p = b THEN NULL ELSE QTail(p)
                        /\ Sem(p)' = IF p = b THEN NULL ELSE Sem(p)
  BY <1>1, <1>2 DEF QHead, QTail, Sem, lockVars, eventVars, Object
<1>4. CoreInv' /\ Stay(Object) /\ Pending(b) = {} /\ Sem(b) = t
  BY <1>0, <1>1, <1>3, CloseWalkStep DEF ObjectsInv, CoreInv
<1>5. Stay(Lock) /\ Stay(Event) /\ Stay(Barrier)
  BY <1>4 DEF Stay, Object
<1>6. BarrierWords'
  <2> SUFFICES ASSUME NEW c \in Barrier PROVE BarrierWord(c)'
    BY DEF BarrierWords, BarrierWord, Missing
  <2>1. BarrierWord(c) /\ Same(c)
    BY <1>5 DEF ObjectsInv, BarrierWords, Stay
  <2>2. CASE c = b
    <3>1. Pending(b)' = {} /\ Cardinality(Pending(b)') = 0
      BY <1>4, <2>1, <2>2, FS_EmptySet DEF Same
    <3>2. mb_ncount'[b] = mb_ocount[b] /\ mb_ocount'[b] = mb_ocount[b]
          /\ mb_ocount[b] \in 0 .. UINT_MAX
      BY <1>1, <1>2
    <3>3. mb_ncount'[b] = Missing(mb_ocount'[b], 0)
      BY <3>2 DEF Missing
    <3> QED
      BY <2>2, <3>1, <3>2, <3>3 DEF BarrierWord, Missing
  <2>3. CASE c # b
    BY <1>1, <1>2, <2>1, <2>3, BarrierWordStays
  <2> QED
    BY <2>2, <2>3
<1> QED
  BY <1>4, <1>5, <1>6, OtherWordsStay DEF ObjectsInv, CoreInv, lockVars

(* A return from EVWAIT or BARSYNC.                                        *)
LEMMA OtherReturnObjects ==
  ASSUME Typing, ObjectsInv, NEW t \in Task, mt_wait_obj[t] \notin Lock,
         pc[t] = "spin", mt_state[t] = "TS_Running", pc' = [pc EXCEPT ![t] = "user"],
         UNCHANGED <<obj, cur, release_count, mt_state, mt_wait_obj, mt_wait_link>>,
         UNCHANGED <<lockVars, eventVars, barrierVars>>
  PROVE  ObjectsInv'
<1>1. /\ CoreInv' /\ EventWords' /\ BarrierWords'
      /\ \A p \in Object : Pending(p)' = Pending(p) /\ Granted(p)' = Granted(p) \ {t}
  BY ReturnCore DEF lockVars
<1>2. Stay(Lock)
  <2> SUFFICES ASSUME NEW l \in Lock PROVE Pending(l)' = Pending(l) /\ Granted(l)' = Granted(l)
    BY DEF Stay, Same
  <2>1. t \notin Granted(l) /\ l \in Object
    BY PendingAre DEF Object
  <2> QED
    BY <1>1, <2>1
<1> QED
  BY <1>1, <1>2, OtherWordsStay DEF ObjectsInv, CoreInv, lockVars

(* All that a task does inside a call.                                     *)
LEMMA InRuntimeObjects ==
  ASSUME Typing, ObjectsInv, NEW t \in Task, InRuntime(t)
  PROVE  ObjectsInv'
<1>0. pc \in [Task -> Pc] /\ cur \in [Task -> Task \cup {NULL}]
  BY DEF Typing, DescriptorsTyped, TaskTypeOK
<1>1. CASE DEC_RUNNABLE_MACT_COUNT(t) /\ UNCHANGED objectVars
  <2>1. \A s \in Task : /\ pc'[s] \in WaitPc <=> pc[s] \in WaitPc
                        /\ pc'[s] \in WakePc <=> pc[s] \in WakePc
                        /\ pc'[s] = "next" <=> pc[s] = "next"
    BY <1>0, <1>1 DEF DEC_RUNNABLE_MACT_COUNT, WaitPc, WakePc
  <2> QED
    BY <1>1, <2>1, ObjectsStay DEF DEC_RUNNABLE_MACT_COUNT
<1>2. CASE CHECK_FOR_MACT_DEADLOCK(t) /\ UNCHANGED objectVars
  <2>1. \A s \in Task : /\ pc'[s] \in WaitPc <=> pc[s] \in WaitPc
                        /\ pc'[s] \in WakePc <=> pc[s] \in WakePc
                        /\ pc'[s] = "next" <=> pc[s] = "next"
    BY <1>0, <1>2 DEF CHECK_FOR_MACT_DEADLOCK, WaitPc, WakePc
  <2> QED
    BY <1>2, <2>1, ObjectsStay DEF CHECK_FOR_MACT_DEADLOCK
<1>3. CASE INC_RUNNABLE_MACT_COUNT(t) /\ UNCHANGED objectVars
  <2>1. \A s \in Task : /\ pc'[s] \in WaitPc <=> pc[s] \in WaitPc
                        /\ pc'[s] \in WakePc <=> pc[s] \in WakePc
                        /\ pc'[s] = "next" <=> pc[s] = "next"
    BY <1>0, <1>3 DEF INC_RUNNABLE_MACT_COUNT, WaitPc, WakePc
  <2> QED
    BY <1>3, <2>1, ObjectsStay DEF INC_RUNNABLE_MACT_COUNT
<1>4. CASE FollowLink(t) /\ UNCHANGED objectVars
  <2>1. /\ UNCHANGED <<ml_state, ml_wcount, held>> /\ UNCHANGED eventVars
        /\ UNCHANGED barrierVars
        /\ \A p \in Object : /\ QHead(p)' = QHead(p) /\ QTail(p)' = QTail(p)
                             /\ Sem(p)' = Sem(p)
    BY <1>4 DEF QHead, Sem, QTail, objectVars, lockVars, eventVars, barrierVars
  <2>2. CoreInv' /\ Stay(Object)
    BY <1>4, <2>1, FollowStep DEF ObjectsInv, CoreInv, FollowLink
  <2>3. Stay(Lock) /\ Stay(Event) /\ Stay(Barrier)
    BY <2>2 DEF Stay, Object
  <2> QED
    BY <2>1, <2>2, <2>3, OtherWordsStay DEF ObjectsInv, CoreInv
<1>5. CASE Locks!lockon_return(t) /\ UNCHANGED <<eventVars, barrierVars>>
  BY <1>5, LockonReturnObjects
<1>6. CASE Locks!lockoff_wake(t) /\ UNCHANGED <<eventVars, barrierVars>>
  BY <1>6, LockoffWakeObjects
<1>7. CASE Events!evwait_return(t) /\ UNCHANGED <<lockVars, barrierVars>>
  <2>1. /\ mt_wait_obj[t] \notin Lock /\ pc[t] = "spin" /\ mt_state[t] = "TS_Running"
        /\ pc' = [pc EXCEPT ![t] = "user"]
        /\ UNCHANGED <<obj, cur, release_count, mt_state, mt_wait_obj, mt_wait_link>>
        /\ UNCHANGED <<lockVars, eventVars, barrierVars>>
    BY <1>7, ObjectAssumption
    DEF Events!evwait_return, Events!SeesItselfRunning, Events!eventVars, eventVars
  <2> QED
    BY <2>1, OtherReturnObjects
<1>8. CASE Barriers!barsync_return(t) /\ UNCHANGED <<lockVars, eventVars>>
  <2>1. /\ mt_wait_obj[t] \notin Lock /\ pc[t] = "spin" /\ mt_state[t] = "TS_Running"
        /\ pc' = [pc EXCEPT ![t] = "user"]
        /\ UNCHANGED <<obj, cur, release_count, mt_state, mt_wait_obj, mt_wait_link>>
        /\ UNCHANGED <<lockVars, eventVars, barrierVars>>
    BY <1>8, ObjectAssumption
    DEF Barriers!barsync_return, Barriers!SeesItselfRunning, Barriers!barrierVars, barrierVars
  <2> QED
    BY <2>1, OtherReturnObjects
<1>9. CASE Events!evpost_wake(t) /\ UNCHANGED <<lockVars, barrierVars>>
  <2>1. PICK e \in Event, h \in Task : obj[t] = e /\ cur[t] = h
    BY <1>0, <1>9 DEF Events!evpost_wake, Events!Wake
  <2>2. /\ e \in Object \ Lock /\ pc[t] = "mark" /\ pc' = [pc EXCEPT ![t] = "next"]
        /\ mt_state' = [mt_state EXCEPT ![h] = "TS_Running"]
        /\ UNCHANGED <<obj, cur, release_count, mt_wait_obj, mt_wait_link>>
        /\ UNCHANGED objectVars
    BY <1>9, <2>1, ObjectAssumption
    DEF Events!evpost_wake, Events!Wake, Events!eventVars, eventVars, objectVars, Object
  <2> QED
    BY <2>1, <2>2, WalkWakeObjects
<1>10. CASE Barriers!barsync_wake(t) /\ UNCHANGED <<lockVars, eventVars>>
  <2>1. PICK b \in Barrier, h \in Task : obj[t] = b /\ cur[t] = h
    BY <1>0, <1>10 DEF Barriers!barsync_wake, Barriers!Wake
  <2>2. /\ b \in Object \ Lock /\ pc[t] = "mark" /\ pc' = [pc EXCEPT ![t] = "next"]
        /\ mt_state' = [mt_state EXCEPT ![h] = "TS_Running"]
        /\ UNCHANGED <<obj, cur, release_count, mt_wait_obj, mt_wait_link>>
        /\ UNCHANGED objectVars
    BY <1>10, <2>1, ObjectAssumption
    DEF Barriers!barsync_wake, Barriers!Wake, Barriers!barrierVars, barrierVars, objectVars,
        Object
  <2> QED
    BY <2>1, <2>2, WalkWakeObjects
<1>11. CASE Events!evpost_end(t) /\ UNCHANGED <<lockVars, barrierVars>>
  BY <1>11, EvpostEndObjects
<1>12. CASE Barriers!barsync_close(t) /\ UNCHANGED <<lockVars, eventVars>>
  BY <1>12, BarsyncCloseObjects
<1> QED
  BY <1>1, <1>2, <1>3, <1>4, <1>5, <1>6, <1>7, <1>8, <1>9, <1>10, <1>11, <1>12
  DEF InRuntime

-----------------------------------------------------------------------------
(* The objects that a program assigns and releases.                        *)
LEMMA InsideAllocated ==
  ASSUME Typing, SameObject, NEW t \in Task
  PROVE  Inside(t) \subseteq allocated \cup {NULL}
BY DEF Typing, NamesTyped, SameObject

(* Nobody has to do with memory that is not handed out.                    *)
LEMMA UnusedIdle ==
  ASSUME Typing, ObjectsInv, SameObject, HeldAreAllocated,
         NEW o \in Object, o \notin allocated
  PROVE  /\ Pending(o) = {} /\ Granted(o) = {} /\ Sem(o) = NULL /\ QHead(o) = NULL
         /\ o \in Lock => Owners(o) = {}
<1>1. o # NULL /\ \A t \in Task : o \notin Inside(t)
  BY InsideAllocated, KindsOfObjects
<1>2. \A t \in Task : ~WaitsAt(t, o)
  BY <1>1 DEF WaitsAt, Inside
<1>3. Pending(o) = {} /\ Granted(o) = {}
  BY <1>2 DEF Pending, Granted
<1>4. Sem(o) = NULL
  <2>1. \A u \in Task : Sem(o) = u => pc[u] \in WakePc /\ obj[u] = o
    BY DEF ObjectsInv, WakersWake
  <2>2. \A u \in Task : ~(pc[u] \in WakePc /\ obj[u] = o)
    BY <1>1 DEF Inside
  <2> QED
    BY <2>1, <2>2, ViewTyped
<1>5. First(o) = QHead(o)
  BY <1>4 DEF First
<1>6. QHead(o) = NULL
  BY <1>3, <1>5, QueueEnds DEF ObjectsInv, Queues
<1>7. \A t \in Task : o \notin held[t]
  BY DEF HeldAreAllocated
<1> QED
  BY <1>3, <1>4, <1>6, <1>7 DEF Owners

LEMMA LockasgnObjects ==
  ASSUME Typing, ObjectsInv, SameObject, HeldAreAllocated,
         NEW t \in Task, NEW l \in Lock, _mact_vararg_lockasgn(t, l)
  PROVE  ObjectsInv'
<1>1. /\ UNCHANGED <<pc, obj, cur, release_count, mt_state, mt_wait_obj, mt_wait_link>>
      /\ l \in Object /\ l \notin allocated
      /\ ml_state' = [ml_state EXCEPT ![l] = "LS_Unlocked"]
      /\ ml_qhead' = [ml_qhead EXCEPT ![l] = NULL] /\ ml_qtail' = [ml_qtail EXCEPT ![l] = NULL]
      /\ ml_wcount' = [ml_wcount EXCEPT ![l] = 0] /\ ml_sem' = [ml_sem EXCEPT ![l] = NULL]
      /\ UNCHANGED <<held, eventVars, barrierVars>>
  BY DEF _mact_vararg_lockasgn, StoreNew, taskVars, Object
<1>2. /\ Pending(l) = {} /\ Granted(l) = {} /\ Sem(l) = NULL /\ QHead(l) = NULL
      /\ Owners(l) = {}
  BY <1>1, UnusedIdle
<1>3. \A p \in Object : /\ QHead(p)' = QHead(p) /\ Sem(p)' = Sem(p)
                        /\ QTail(p)' = QTail(p) \/ Pending(p) = {}
  <2> SUFFICES ASSUME NEW p \in Object
               PROVE  /\ QHead(p)' = QHead(p) /\ Sem(p)' = Sem(p)
                      /\ QTail(p)' = QTail(p) \/ Pending(p) = {}
    BY Zenon
  <2>1. CASE p = l
    BY <1>1, <1>2, <2>1 DEF QHead, Sem, Typing, ObjectsTyped, Locks!LockTypeOK
  <2>2. CASE p # l
    BY <1>1, <2>2
    DEF QHead, QTail, Sem, eventVars, barrierVars, Typing, ObjectsTyped, Locks!LockTypeOK
  <2> QED
    BY <2>1, <2>2
<1>4. CoreInv' /\ Stay(Object)
  BY <1>1, <1>3, QuietStep DEF ObjectsInv, CoreInv
<1>5. Stay(Lock) /\ Stay(Event) /\ Stay(Barrier)
  BY <1>4 DEF Stay, Object
<1>6. LockWords'
  <2> SUFFICES ASSUME NEW m \in Lock PROVE LockWord(m)'
    BY DEF LockWords, LockWord, Owners
  <2>1. LockWord(m) /\ Same(m)
    BY <1>5 DEF ObjectsInv, LockWords, Stay
  <2>2. CASE m = l
    <3>1. ml_state'[l] = "LS_Unlocked" /\ ml_wcount'[l] = 0
      BY <1>1 DEF Typing, ObjectsTyped, Locks!LockTypeOK
    <3>2. Owners(l)' = {} /\ Pending(l)' = {} /\ Cardinality(Pending(l)') = 0
      BY <1>1, <1>2, <2>1, <2>2, FS_EmptySet DEF Owners, Same
    <3> QED
      BY <2>2, <3>1, <3>2 DEF LockWord
  <2>3. CASE m # l
    BY <1>1, <2>1, <2>3, LockWordStays DEF Typing, ObjectsTyped, Locks!LockTypeOK
  <2> QED
    BY <2>2, <2>3
<1> QED
  BY <1>1, <1>4, <1>5, <1>6, OtherWordsStay DEF ObjectsInv, CoreInv

LEMMA EvasgnObjects ==
  ASSUME Typing, ObjectsInv, SameObject, HeldAreAllocated,
         NEW t \in Task, NEW e \in Event, _mact_vararg_evasgn(t, e)
  PROVE  ObjectsInv'
<1>1. /\ UNCHANGED <<pc, obj, cur, release_count, mt_state, mt_wait_obj, mt_wait_link>>
      /\ e \in Object /\ e \notin Lock /\ e \notin allocated
      /\ me_state' = [me_state EXCEPT ![e] = "ES_Cleared"]
      /\ me_qhead' = [me_qhead EXCEPT ![e] = NULL] /\ me_qtail' = [me_qtail EXCEPT ![e] = NULL]
      /\ me_wcount' = [me_wcount EXCEPT ![e] = 0] /\ me_sem' = [me_sem EXCEPT ![e] = NULL]
      /\ UNCHANGED <<lockVars, barrierVars>>
  BY ObjectAssumption DEF _mact_vararg_evasgn, StoreNew, taskVars, Object
<1>2. Pending(e) = {} /\ Sem(e) = NULL /\ QHead(e) = NULL
  BY <1>1, UnusedIdle
<1>3. \A p \in Object : /\ QHead(p)' = QHead(p) /\ Sem(p)' = Sem(p)
                        /\ QTail(p)' = QTail(p) \/ Pending(p) = {}
  <2> SUFFICES ASSUME NEW p \in Object
               PROVE  /\ QHead(p)' = QHead(p) /\ Sem(p)' = Sem(p)
                      /\ QTail(p)' = QTail(p) \/ Pending(p) = {}
    BY Zenon
  <2>1. CASE p = e
    BY <1>1, <1>2, <2>1 DEF QHead, Sem, Typing, ObjectsTyped, Events!EventTypeOK
  <2>2. CASE p # e
    BY <1>1, <2>2
    DEF QHead, QTail, Sem, lockVars, barrierVars, Typing, ObjectsTyped, Events!EventTypeOK
  <2> QED
    BY <2>1, <2>2
<1>4. CoreInv' /\ Stay(Object)
  BY <1>1, <1>3, QuietStep DEF ObjectsInv, CoreInv
<1>5. Stay(Lock) /\ Stay(Event) /\ Stay(Barrier)
  BY <1>4 DEF Stay, Object
<1>6. EventWords'
  <2> SUFFICES ASSUME NEW f \in Event PROVE EventWord(f)'
    BY DEF EventWords, EventWord
  <2>1. EventWord(f) /\ Same(f)
    BY <1>5 DEF ObjectsInv, EventWords, Stay
  <2>2. CASE f = e
    <3>1. me_wcount'[e] = 0 /\ me_sem'[e] = NULL
      BY <1>1 DEF Typing, ObjectsTyped, Events!EventTypeOK
    <3>2. Pending(e)' = {} /\ Cardinality(Pending(e)') = 0
      BY <1>2, <2>1, <2>2, FS_EmptySet DEF Same
    <3> QED
      BY <2>2, <3>1, <3>2 DEF EventWord
  <2>3. CASE f # e
    BY <1>1, <2>1, <2>3, EventWordStays DEF Typing, ObjectsTyped, Events!EventTypeOK
  <2> QED
    BY <2>2, <2>3
<1> QED
  BY <1>1, <1>4, <1>5, <1>6, OtherWordsStay DEF ObjectsInv, CoreInv, lockVars

LEMMA BarasgnObjects ==
  ASSUME Typing, ObjectsInv, SameObject, HeldAreAllocated,
         NEW t \in Task, NEW b \in Barrier, barasgn_(t, b)
  PROVE  ObjectsInv'
<1>0. PICK value \in Counts : /\ mb_ocount' = [mb_ocount EXCEPT ![b] = value]
                              /\ mb_ncount' = [mb_ncount EXCEPT ![b] = value]
  BY DEF barasgn_
<1>1. /\ UNCHANGED <<pc, obj, cur, release_count, mt_state, mt_wait_obj, mt_wait_link>>
      /\ b \in Object /\ b \notin Lock /\ b \notin Event /\ b \notin allocated
      /\ mb_qhead' = [mb_qhead EXCEPT ![b] = NULL] /\ mb_qtail' = [mb_qtail EXCEPT ![b] = NULL]
      /\ mb_sem' = [mb_sem EXCEPT ![b] = NULL]
      /\ UNCHANGED <<lockVars, eventVars>> /\ value \in Nat
  BY ObjectAssumption DEF barasgn_, StoreNew, taskVars, Object
<1>2. Pending(b) = {} /\ Sem(b) = NULL /\ QHead(b) = NULL
  BY <1>1, UnusedIdle
<1>3. \A p \in Object : /\ QHead(p)' = QHead(p) /\ Sem(p)' = Sem(p)
                        /\ QTail(p)' = QTail(p) \/ Pending(p) = {}
  <2> SUFFICES ASSUME NEW p \in Object
               PROVE  /\ QHead(p)' = QHead(p) /\ Sem(p)' = Sem(p)
                      /\ QTail(p)' = QTail(p) \/ Pending(p) = {}
    BY Zenon
  <2>1. CASE p = b
    BY <1>1, <1>2, <2>1 DEF QHead, Sem, Typing, ObjectsTyped, Barriers!BarrierTypeOK
  <2>2. CASE p # b
    BY <1>1, <2>2
    DEF QHead, QTail, Sem, lockVars, eventVars, Typing, ObjectsTyped, Barriers!BarrierTypeOK
  <2> QED
    BY <2>1, <2>2
<1>4. CoreInv' /\ Stay(Object)
  BY <1>1, <1>3, QuietStep DEF ObjectsInv, CoreInv
<1>5. Stay(Lock) /\ Stay(Event) /\ Stay(Barrier)
  BY <1>4 DEF Stay, Object
<1>6. BarrierWords'
  <2> SUFFICES ASSUME NEW c \in Barrier PROVE BarrierWord(c)'
    BY DEF BarrierWords, BarrierWord, Missing
  <2>1. BarrierWord(c) /\ Same(c)
    BY <1>5 DEF ObjectsInv, BarrierWords, Stay
  <2>2. CASE c = b
    <3>1. mb_ncount'[b] = value /\ mb_ocount'[b] = value
      BY <1>0 DEF Typing, ObjectsTyped, Barriers!BarrierTypeOK
    <3>2. Pending(b)' = {} /\ Cardinality(Pending(b)') = 0
      BY <1>2, <2>1, <2>2, FS_EmptySet DEF Same
    <3>3. value = Missing(value, 0)
      BY <1>1 DEF Missing
    <3> QED
      BY <2>2, <3>1, <3>2, <3>3 DEF BarrierWord, Missing
  <2>3. CASE c # b
    BY <1>0, <1>1, <2>1, <2>3, BarrierWordStays
    DEF Typing, ObjectsTyped, Barriers!BarrierTypeOK
  <2> QED
    BY <2>2, <2>3
<1> QED
  BY <1>1, <1>4, <1>5, <1>6, OtherWordsStay DEF ObjectsInv, CoreInv, lockVars

(* All steps.                                                              *)
LEMMA StepObjects ==
  ASSUME Typing, ObjectsInv, SameObject, HeldAreAllocated, LinksAreRead', [Next]_vars
  PROVE  ObjectsInv'
<1>1. ASSUME UNCHANGED taskVars, UNCHANGED objectVars PROVE ObjectsInv'
  <2>1. UNCHANGED <<obj, cur, release_count, mt_state, mt_wait_obj, mt_wait_link>> /\ pc' = pc
    BY <1>1 DEF taskVars
  <2> QED
    BY <1>1, <2>1, ObjectsStay
<1>2. CASE UNCHANGED vars
  BY <1>1, <1>2 DEF vars
<1>3. ASSUME NEW t \in Task,
             LookAtName(t) \/ ReadName(t) \/ LookAtObject(t) \/ Free(t)
               \/ SkipUnlock(t) \/ Join(t)
      PROVE  ObjectsInv'
  BY <1>1, <1>3 DEF LookAtName, ReadName, LookAtObject, Free, SkipUnlock, Join
<1>4. ASSUME NEW t \in Task, UseLock(t) PROVE ObjectsInv'
  <2>1. PICK l \in Lock : addr[t] = l
    BY <1>4, AddressOfKind DEF UseLock, OnLock
  <2> QED
    BY <1>4, <2>1, LockonObjects, LockoffObjects, LocktestObjects DEF UseLock
<1>5. ASSUME NEW t \in Task, UseEvent(t) PROVE ObjectsInv'
  <2>1. PICK e \in Event : addr[t] = e
    BY <1>5, AddressOfKind DEF UseEvent, OnEvent
  <2> QED
    BY <1>5, <2>1, EvwaitObjects, EvpostObjects, EvclearObjects DEF UseEvent
<1>6. ASSUME NEW t \in Task, UseBarrier(t) PROVE ObjectsInv'
  <2>1. PICK b \in Barrier : addr[t] = b
    BY <1>6, AddressOfKind DEF UseBarrier, OnBarrier
  <2> QED
    BY <1>6, <2>1, BarsyncObjects, BarsyncOpenObjects DEF UseBarrier
<1> QED
  BY <1>2, <1>3, <1>4, <1>5, <1>6, InRuntimeObjects, LockasgnObjects, EvasgnObjects,
     BarasgnObjects
  DEF Next

(* What a call does to its task and to its object, and to no other.        *)
Effect(t, o) ==
  /\ \A s \in Task : s # t => /\ pc'[s] = pc[s] /\ obj'[s] = obj[s]
                              /\ mt_wait_obj'[s] = mt_wait_obj[s]
  /\ \/ pc'[t] = "user"
     \/ pc'[t] = "dec" /\ mt_wait_obj'[t] = o
     \/ pc'[t] = "inc" /\ obj'[t] = o
  /\ \A p \in Object : p # o => (InUse(p)' <=> InUse(p))
  /\ \A s \in Task : held'[s] \subseteq held[s] \cup {o}

LEMMA LockEffect ==
  ASSUME Typing, NEW t \in Task, NEW l \in Lock, UNCHANGED <<eventVars, barrierVars>>,
         Locks!lockon_(t, l) \/ Locks!lockoff_(t, l) \/ Locks!locktest_(t, l)
  PROVE  Effect(t, l) /\ pc[t] = "user"
<1>0. /\ pc \in [Task -> Pc] /\ obj \in [Task -> Object \cup {NULL}]
      /\ mt_wait_obj \in [Task -> Object \cup {NULL}]
      /\ ml_state \in [Lock -> {"LS_Locked", "LS_Unlocked"}]
      /\ held \in [Task -> SUBSET Lock]
  BY DEF Typing, DescriptorsTyped, TaskTypeOK, ObjectsTyped, Locks!LockTypeOK
<1>1. /\ pc[t] = "user"
      /\ \/ UNCHANGED <<pc, obj, mt_wait_obj>>
         \/ /\ pc' = [pc EXCEPT ![t] = "dec"] /\ obj' = obj
            /\ mt_wait_obj' = [mt_wait_obj EXCEPT ![t] = l]
         \/ /\ pc' = [pc EXCEPT ![t] = "inc"] /\ obj' = [obj EXCEPT ![t] = l]
            /\ mt_wait_obj' = mt_wait_obj
  BY DEF Locks!lockon_, Locks!lockoff_, Locks!locktest_, Locks!MakeCall, Locks!InUserCode,
         Locks!ReturnAtOnce, Locks!EnqueueWaiter, Locks!Park, Locks!StartWaking
<1>2. /\ \A p \in Lock : p # l => ml_state'[p] = ml_state[p]
      /\ \A s \in Task : held'[s] \subseteq held[s] \cup {l}
  BY <1>0 DEF Locks!lockon_, Locks!lockoff_, Locks!locktest_, Locks!TakeLock
<1>3. \A p \in Object : p # l => (InUse(p)' <=> InUse(p))
  BY <1>2 DEF InUse, eventVars, barrierVars
<1> QED
  BY <1>0, <1>1, <1>2, <1>3 DEF Effect

LEMMA EventEffect ==
  ASSUME Typing, NEW t \in Task, NEW e \in Event, UNCHANGED <<lockVars, barrierVars>>,
         Events!evwait_(t, e) \/ Events!evpost_(t, e) \/ Events!evclear_(t, e)
  PROVE  Effect(t, e) /\ pc[t] = "user"
<1>0. /\ pc \in [Task -> Pc] /\ obj \in [Task -> Object \cup {NULL}]
      /\ mt_wait_obj \in [Task -> Object \cup {NULL}]
      /\ me_state \in [Event -> {"ES_Posted", "ES_Cleared"}]
      /\ me_qhead \in [Event -> Task \cup {NULL}]
  BY DEF Typing, DescriptorsTyped, TaskTypeOK, ObjectsTyped, Events!EventTypeOK
<1>1. /\ pc[t] = "user"
      /\ \/ UNCHANGED <<pc, obj, mt_wait_obj>>
         \/ /\ pc' = [pc EXCEPT ![t] = "dec"] /\ obj' = obj
            /\ mt_wait_obj' = [mt_wait_obj EXCEPT ![t] = e]
         \/ /\ pc' = [pc EXCEPT ![t] = "inc"] /\ obj' = [obj EXCEPT ![t] = e]
            /\ mt_wait_obj' = mt_wait_obj
  BY DEF Events!evwait_, Events!evpost_, Events!evclear_, Events!MakeCall, Events!InUserCode,
         Events!ReturnAtOnce, Events!Park, Events!StartWaking
<1>2. \A p \in Event : p # e => me_state'[p] = me_state[p] /\ me_qhead'[p] = me_qhead[p]
  BY <1>0 DEF Events!evwait_, Events!evpost_, Events!evclear_, Events!MarkPosted,
              Events!eventVars
<1>3. \A p \in Object : p # e => (InUse(p)' <=> InUse(p))
  BY <1>2 DEF InUse, lockVars, barrierVars
<1> QED
  BY <1>0, <1>1, <1>3 DEF Effect, lockVars

LEMMA BarrierEffect ==
  ASSUME Typing, NEW t \in Task, NEW b \in Barrier, UNCHANGED <<lockVars, eventVars>>,
         Barriers!barsync_(t, b) \/ Barriers!barsync_open(t, b)
  PROVE  Effect(t, b) /\ pc[t] = "user"
<1>0. /\ pc \in [Task -> Pc] /\ obj \in [Task -> Object \cup {NULL}]
      /\ mt_wait_obj \in [Task -> Object \cup {NULL}]
      /\ mb_ncount \in [Barrier -> 0 .. UINT_MAX]
  BY DEF Typing, DescriptorsTyped, TaskTypeOK, ObjectsTyped, Barriers!BarrierTypeOK
<1>1. /\ pc[t] = "user"
      /\ \/ /\ pc' = [pc EXCEPT ![t] = "dec"] /\ obj' = obj
            /\ mt_wait_obj' = [mt_wait_obj EXCEPT ![t] = b]
         \/ /\ pc' = [pc EXCEPT ![t] = "inc"] /\ obj' = [obj EXCEPT ![t] = b]
            /\ mt_wait_obj' = mt_wait_obj
  BY DEF Barriers!barsync_, Barriers!barsync_open, Barriers!MakeCall, Barriers!InUserCode,
         Barriers!Park, Barriers!StartWaking
<1>2. \A p \in Barrier : p # b => mb_ncount'[p] = mb_ncount[p] /\ mb_ocount'[p] = mb_ocount[p]
  BY <1>0 DEF Barriers!barsync_, Barriers!barsync_open
<1>3. \A p \in Object : p # b => (InUse(p)' <=> InUse(p))
  BY <1>2 DEF InUse, lockVars, eventVars
<1> QED
  BY <1>0, <1>1, <1>3 DEF Effect, lockVars

LEMMA UseEffect ==
  ASSUME Typing, NEW t \in Task, UseLock(t) \/ UseEvent(t) \/ UseBarrier(t)
  PROVE  /\ Effect(t, addr[t]) /\ pc[t] = "user" /\ call[t] \in Use /\ addr[t] \in Object
         /\ Done(t) /\ UNCHANGED <<name, allocated>>
<1>1. CASE UseLock(t)
  <2>1. PICK l \in Lock : addr[t] = l
    BY <1>1, AddressOfKind DEF UseLock, OnLock
  <2>2. Effect(t, l) /\ pc[t] = "user"
    BY <1>1, <2>1, LockEffect DEF UseLock
  <2> QED
    BY <1>1, <2>1, <2>2 DEF UseLock, Use, OnLock, Object
<1>2. CASE UseEvent(t)
  <2>1. PICK e \in Event : addr[t] = e
    BY <1>2, AddressOfKind DEF UseEvent, OnEvent
  <2>2. Effect(t, e) /\ pc[t] = "user"
    BY <1>2, <2>1, EventEffect DEF UseEvent
  <2> QED
    BY <1>2, <2>1, <2>2 DEF UseEvent, Use, OnEvent, Object
<1>3. CASE UseBarrier(t)
  <2>1. PICK b \in Barrier : addr[t] = b
    BY <1>3, AddressOfKind DEF UseBarrier, OnBarrier
  <2>2. Effect(t, b) /\ pc[t] = "user"
    BY <1>3, <2>1, BarrierEffect DEF UseBarrier
  <2> QED
    BY <1>3, <2>1, <2>2 DEF UseBarrier, Use, OnBarrier, Object
<1> QED
  BY <1>1, <1>2, <1>3

(* What a step inside a call does: it stays where it is, or leaves.        *)
LEMMA RuntimeEffect ==
  ASSUME Typing, NEW t \in Task, InRuntime(t)
  PROVE  /\ pc[t] # "user"
         /\ \A s \in Task : s # t => /\ pc'[s] = pc[s] /\ obj'[s] = obj[s]
                                     /\ mt_wait_obj'[s] = mt_wait_obj[s]
         /\ pc'[t] \in WakePc => pc[t] \in WakePc /\ obj'[t] = obj[t]
         /\ pc'[t] \in WaitPc => pc[t] \in WaitPc /\ mt_wait_obj'[t] = mt_wait_obj[t]
         /\ \A p \in Object : (InUse(p)' <=> InUse(p)) \/ (pc[t] \in WakePc /\ p = obj[t])
         /\ \A s \in Task : held'[s] = held[s]
              \/ (s = t /\ pc[t] \in WaitPc /\ held'[s] = held[s] \cup {mt_wait_obj[t]})
<1>0. /\ pc \in [Task -> Pc] /\ obj \in [Task -> Object \cup {NULL}]
      /\ me_qhead \in [Event -> Task \cup {NULL}] /\ mb_ncount \in [Barrier -> 0 .. UINT_MAX]
      /\ held \in [Task -> SUBSET Lock]
  BY DEF Typing, DescriptorsTyped, TaskTypeOK, ObjectsTyped, Locks!LockTypeOK,
         Events!EventTypeOK, Barriers!BarrierTypeOK
<1>1. /\ mt_wait_obj' = mt_wait_obj
      /\ \/ pc[t] \in {"dec", "check"} /\ UNCHANGED <<pc, obj>>
         \/ pc[t] = "dec" /\ pc' = [pc EXCEPT ![t] = "check"] /\ obj' = obj
         \/ pc[t] = "check" /\ pc' = [pc EXCEPT ![t] = "spin"] /\ obj' = obj
         \/ pc[t] = "inc" /\ pc' = [pc EXCEPT ![t] = "mark"] /\ obj' = obj
         \/ pc[t] = "next" /\ pc' = [pc EXCEPT ![t] = "mark"] /\ obj' = obj
         \/ pc[t] = "mark" /\ pc' = [pc EXCEPT ![t] = "next"] /\ obj' = obj
         \/ pc[t] = "spin" /\ pc' = [pc EXCEPT ![t] = "user"] /\ obj' = obj
         \/ /\ pc[t] = "mark" /\ pc' = [pc EXCEPT ![t] = "user"]
            /\ obj' = [obj EXCEPT ![t] = NULL]
  BY DEF InRuntime, DEC_RUNNABLE_MACT_COUNT, CHECK_FOR_MACT_DEADLOCK, INC_RUNNABLE_MACT_COUNT,
         FollowLink, Locks!lockon_return, Locks!SeesItselfRunning, Locks!lockoff_wake,
         Locks!Wake, Locks!ForgetLocals,
         Events!evwait_return, Events!SeesItselfRunning, Events!evpost_wake, Events!Wake,
         Events!evpost_end, Events!EndOfWalk, Events!ForgetLocals,
         Barriers!barsync_return, Barriers!SeesItselfRunning, Barriers!barsync_wake,
         Barriers!Wake, Barriers!barsync_close, Barriers!EndOfWalk, Barriers!ForgetLocals
<1>2. \/ UNCHANGED objectVars
      \/ pc[t] = "spin" /\ held' = [held EXCEPT ![t] = @ \cup {mt_wait_obj[t]}]
           /\ UNCHANGED <<ml_state, eventVars, barrierVars>>
      \/ UNCHANGED <<ml_state, held, eventVars, barrierVars>>
      \/ pc[t] = "mark" /\ obj[t] \in Event /\ me_qhead' = [me_qhead EXCEPT ![obj[t]] = NULL]
           /\ UNCHANGED <<me_state, lockVars, barrierVars>>
      \/ pc[t] = "mark" /\ obj[t] \in Barrier
           /\ mb_ncount' = [mb_ncount EXCEPT ![obj[t]] = mb_ocount[obj[t]]]
           /\ UNCHANGED <<mb_ocount, lockVars, eventVars>>
  BY DEF InRuntime, Locks!lockon_return, Locks!SeesItselfRunning, Locks!lockoff_wake,
         Events!evwait_return, Events!evpost_wake, Events!evpost_end, Events!EndOfWalk,
         Events!eventVars, Barriers!barsync_return, Barriers!barsync_wake,
         Barriers!barsync_close, Barriers!EndOfWalk, Barriers!barrierVars,
         objectVars, eventVars, barrierVars
<1>3. \A p \in Object : (InUse(p)' <=> InUse(p)) \/ (pc[t] \in WakePc /\ p = obj[t])
  BY <1>0, <1>2 DEF InUse, objectVars, lockVars, eventVars, barrierVars, WakePc
<1>4. \A s \in Task : held'[s] = held[s]
        \/ (s = t /\ pc[t] \in WaitPc /\ held'[s] = held[s] \cup {mt_wait_obj[t]})
  BY <1>0, <1>2 DEF objectVars, lockVars, WaitPc
<1>5. /\ pc[t] # "user"
      /\ \A s \in Task : s # t => /\ pc'[s] = pc[s] /\ obj'[s] = obj[s]
                                  /\ mt_wait_obj'[s] = mt_wait_obj[s]
      /\ pc'[t] \in WakePc => pc[t] \in WakePc /\ obj'[t] = obj[t]
      /\ pc'[t] \in WaitPc => pc[t] \in WaitPc /\ mt_wait_obj'[t] = mt_wait_obj[t]
  BY <1>0, <1>1 DEF WakePc, WaitPc
<1> QED
  BY <1>3, <1>4, <1>5

-----------------------------------------------------------------------------
(* Who is inside of what.  A task that waits at an object, or wakes tasks  *)
(* there, is inside of it.                                                 *)
LEMMA InsideOf ==
  ASSUME NEW u \in Task, NEW o \in Object
  PROVE  /\ call[u] # "none" /\ addr[u] = o => o \in Inside(u)
         /\ pc[u] \in WakePc /\ obj[u] = o => o \in Inside(u) /\ ~Sleeps(u)
         /\ WaitsAt(u, o) => o \in Inside(u)
         /\ pc[u] = "user" => ~Sleeps(u)
         /\ Sleeps(u) /\ call[u] = "none" /\ o \in Inside(u) => WaitsAt(u, o)
BY DEF Inside, Sleeps, WaitsAt, Waiting, WaitPc, WakePc

(* Inside a call a task gets nowhere but out.                              *)
LEMMA NobodyGoesElsewhere ==
  ASSUME Typing, NEW t \in Task, InRuntime(t) \/ UseLock(t) \/ UseEvent(t) \/ UseBarrier(t)
  PROVE  UNCHANGED <<name, allocated>> /\ \A u \in Task : Inside(u)' \subseteq Inside(u)
<1>0. call \in [Task -> Use \cup {"none", "create", "free", "refused"}]
      /\ addr \in [Task -> Object \cup {NULL}]
  BY DEF Typing, CallsTyped
<1>1. CASE InRuntime(t)
  <2>1. UNCHANGED <<name, allocated>> /\ UNCHANGED <<call, addr>>
    BY <1>1 DEF InRuntime, nameVars
  <2>2. ASSUME NEW u \in Task PROVE Inside(u)' \subseteq Inside(u)
    <3>1. /\ pc'[u] \in WakePc => pc[u] \in WakePc /\ obj'[u] = obj[u]
          /\ pc'[u] \in WaitPc => pc[u] \in WaitPc /\ mt_wait_obj'[u] = mt_wait_obj[u]
      BY <1>1, RuntimeEffect
    <3> QED
      BY <2>1, <3>1 DEF Inside, Waiting
  <2> QED
    BY <2>1, <2>2
<1>2. CASE UseLock(t) \/ UseEvent(t) \/ UseBarrier(t)
  <2>1. /\ Effect(t, addr[t]) /\ call[t] \in Use /\ Done(t) /\ UNCHANGED <<name, allocated>>
    BY <1>2, UseEffect
  <2>2. ASSUME NEW u \in Task PROVE Inside(u)' \subseteq Inside(u)
    <3>1. CASE u = t
      <4>1. addr[t] \in Inside(t) /\ call'[t] = "none"
        BY <1>0, <2>1, KindsOfCalls DEF Inside, Done
      <4> QED
        BY <2>1, <3>1, <4>1 DEF Inside, Waiting, Effect, WaitPc, WakePc
    <3>2. CASE u # t
      <4>1. call'[u] = call[u] /\ addr'[u] = addr[u]
        BY <1>0, <2>1, <3>2 DEF Done
      <4> QED
        BY <2>1, <3>2, <4>1 DEF Inside, Waiting, Effect
    <3> QED
      BY <3>1, <3>2
  <2> QED
    BY <2>1, <2>2
<1> QED
  BY <1>1, <1>2

(* A step of the program's own takes a task inside of what a variable that *)
(* it reads stands for, or out of it.                                      *)
LEMMA BeginningsInside ==
  ASSUME Typing, NEW t \in Task,
         \/ LookAtName(t) \/ ReadName(t) \/ LookAtObject(t)
         \/ SkipUnlock(t) \/ Join(t) \/ (UNCHANGED taskVars /\ Done(t))
  PROVE  /\ \A u \in Task \ {t} : Inside(u)' = Inside(u)
         /\ Inside(t)' \subseteq Inside(t) \cup
              (IF ReadName(t) \/ LookAtObject(t) THEN {ItsName(t)} ELSE {NULL})
<1>0. /\ call \in [Task -> Use \cup {"none", "create", "free", "refused"}]
      /\ addr \in [Task -> Object \cup {NULL}]
      /\ \A s \in Task : call[s] = "none" => addr[s] = NULL
  BY DEF Typing, CallsTyped, Calls
<1>1. pc' = pc /\ obj' = obj /\ mt_wait_obj' = mt_wait_obj
  BY DEF LookAtName, ReadName, LookAtObject, SkipUnlock, Join, taskVars
<1>2. \/ call'[t] = "none"
      \/ addr'[t] = ItsName(t) /\ (ReadName(t) \/ LookAtObject(t))
      \/ addr'[t] = NULL /\ ~(ReadName(t) \/ LookAtObject(t))
  <2>1. CASE ReadName(t) \/ LookAtObject(t)
    BY <1>0, <2>1 DEF ReadName, LookAtObject
  <2>2. CASE ~(ReadName(t) \/ LookAtObject(t))
    BY <1>0, <2>2 DEF LookAtName, SkipUnlock, Join, Done, Wants
  <2> QED
    BY <2>1, <2>2
<1>3. \A u \in Task \ {t} : call'[u] = call[u] /\ addr'[u] = addr[u]
  BY <1>0 DEF LookAtName, ReadName, LookAtObject, SkipUnlock, Join, Done
<1> QED
  BY <1>1, <1>2, <1>3 DEF Inside, Waiting

-----------------------------------------------------------------------------
(* What the words tell a release, which reads them without the semaphore,  *)
(* as long as nobody is walking the queue.                                 *)
LEMMA IdleObjects ==
  ASSUME Typing, ObjectsInv, NEW o \in Object, ~InUse(o), Sem(o) = NULL
  PROVE  Pending(o) = {} /\ (o \in Lock => Owners(o) = {})
<1>1. CASE o \in Lock
  BY <1>1 DEF InUse, ObjectsInv, LockWords, LockWord, Typing, ObjectsTyped, Locks!LockTypeOK
<1>2. CASE o \in Event
  <2>1. o \notin Lock /\ me_sem[o] = NULL /\ First(o) = me_qhead[o]
    BY <1>2, ObjectAssumption DEF Sem, First, QHead
  <2>2. me_state[o] = "ES_Posted" \/ First(o) = NULL
    BY <1>2, <2>1 DEF InUse, Typing, ObjectsTyped, Events!EventTypeOK
  <2>3. EventWord(o)
    BY <1>2 DEF ObjectsInv, EventWords
  <2> QED
    BY <2>1, <2>2, <2>3, QueueEnds DEF ObjectsInv, Queues, EventWord
<1>3. CASE o \in Barrier
  <2>1. o \notin Lock /\ mb_sem[o] = NULL /\ mb_ncount[o] = mb_ocount[o] /\ BarrierWord(o)
        /\ mb_ocount[o] \in 0 .. UINT_MAX
    BY <1>3, ObjectAssumption
    DEF Sem, InUse, ObjectsInv, BarrierWords, Typing, ObjectsTyped, Barriers!BarrierTypeOK
  <2>2. /\ Cardinality(Pending(o)) \in 0 .. Cardinality(Task)
        /\ Cardinality(Pending(o)) = 0 <=> Pending(o) = {}
    BY QueueLength, PendingAre
  <2>3. mb_ncount[o] = Missing(mb_ocount[o], Cardinality(Pending(o)))
    BY <2>1 DEF BarrierWord
  <2>4. Cardinality(Pending(o)) = 0
    BY <2>1, <2>2, <2>3, TasksInRange, CountAssumption DEF Missing
  <2> QED
    BY <2>1, <2>2, <2>4
<1> QED
  BY <1>1, <1>2, <1>3 DEF Object

LEMMA NeedsAre ==
  ASSUME Typing, ObjectsInv, NEW o \in Object, NEW u \in Task
  PROVE  /\ u \in Pending(o) => Needs(u, o)
         /\ o \in Lock /\ u \in Owners(o) => Needs(u, o)
         /\ Needs(u, o) => WaitsAt(u, o) \/ (o \in Lock /\ o \in held[u])
<1>0. Waiting(u) /\ mt_wait_obj[u] = o => mt_state[u] \in {"TS_Running", WaitStateOf(o)}
  BY DEF ObjectsInv, WaitersWait
<1>1. CASE o \in Lock
  <2>1. o \notin Event /\ o \notin Barrier
    BY <1>1, ObjectAssumption
  <2> QED
    BY <1>1, <2>1
    DEF Pending, Owners, Granted, Chosen, WaitsAt, Waiting, WaitPc, WakePc, Needs, Locks!Owns,
        Locks!Queued, Locks!Granted, Locks!Chosen, Locks!Waiting, Locks!WaitPc, Locks!WakePc
<1>2. CASE o \in Event
  <2>1. o \notin Lock /\ o \notin Barrier /\ WaitStateOf(o) = "TS_Event_Wait"
    BY <1>2, ObjectAssumption DEF WaitStateOf
  <2> QED
    BY <1>0, <1>2, <2>1
    DEF Pending, Chosen, WaitsAt, Waiting, WaitPc, Needs, Events!Asleep, Events!Waiting,
        Events!WaitPc
<1>3. CASE o \in Barrier
  <2>1. o \notin Lock /\ o \notin Event /\ WaitStateOf(o) = "TS_Bar_Wait"
    BY <1>3, ObjectAssumption DEF WaitStateOf
  <2> QED
    BY <1>0, <1>3, <2>1
    DEF Pending, Chosen, WaitsAt, Waiting, WaitPc, Needs, Barriers!Asleep, Barriers!Waiting,
        Barriers!WaitPc
<1> QED
  BY <1>1, <1>2, <1>3 DEF Object

LEMMA BusyObjects ==
  ASSUME Typing, ObjectsInv, NEW o \in Object, InUse(o), o \in Barrier => Sem(o) = NULL
  PROVE  \E u \in Task : Needs(u, o)
<1>1. CASE o \in Lock
  <2>1. ml_state[o] = "LS_Locked"
    BY <1>1, ObjectAssumption DEF InUse
  <2>2. PICK u \in Owners(o) : TRUE
    BY <1>1, <2>1 DEF ObjectsInv, LockWords, LockWord
  <2>3. u \in Task
    BY DEF Owners, Granted
  <2> QED
    BY <1>1, <2>2, <2>3, NeedsAre
<1>2. CASE o \in Event
  <2>1. o \notin Lock /\ me_state[o] = "ES_Cleared" /\ me_qhead[o] # NULL /\ EventWord(o)
    BY <1>2, ObjectAssumption DEF InUse, ObjectsInv, EventWords
  <2>2. Sem(o) = NULL /\ First(o) # NULL
    BY <1>2, <2>1 DEF EventWord, Sem, First, QHead
  <2>3. PICK u \in Pending(o) : TRUE
    BY <2>2, QueueEnds DEF ObjectsInv, Queues
  <2> QED
    BY <2>3, NeedsAre, PendingAre
<1>3. CASE o \in Barrier
  <2>1. o \notin Lock /\ o \notin Event /\ mb_sem[o] = NULL /\ mb_ncount[o] # mb_ocount[o]
        /\ mb_ocount[o] \in 0 .. UINT_MAX /\ BarrierWord(o)
    BY <1>3, ObjectAssumption
    DEF Sem, InUse, ObjectsInv, BarrierWords, Typing, ObjectsTyped, Barriers!BarrierTypeOK
  <2>2. Pending(o) # {}
    <3>1. ASSUME Cardinality(Pending(o)) = 0 PROVE FALSE
      BY <2>1, <3>1 DEF BarrierWord, Missing
    <3> QED
      BY <3>1, QueueLength, PendingAre
  <2>3. PICK u \in Pending(o) : TRUE
    BY <2>2
  <2> QED
    BY <2>3, NeedsAre, PendingAre
<1> QED
  BY <1>1, <1>2, <1>3 DEF Object

(* Nobody wakes tasks at an object that tasks are inside of only asleep.   *)
LEMMA NobodyWalks ==
  ASSUME Typing, ObjectsInv, NEW t \in Task, pc[t] = "user", NEW o \in Object,
         \A u \in Task \ {t} : o \in Inside(u) => Sleeps(u)
  PROVE  Sem(o) = NULL
<1>1. ASSUME NEW u \in Task, Sem(o) = u PROVE FALSE
  <2>1. pc[u] \in WakePc /\ obj[u] = o
    BY <1>1 DEF ObjectsInv, WakersWake
  <2>2. u # t
    BY <2>1, WaitStates
  <2> QED
    BY <2>1, <2>2, InsideOf
<1> QED
  BY <1>1, ViewTyped

(* When a release gives the memory of an object back, nobody waits there,  *)
(* nobody has it locked, nobody else is inside of it.                      *)
LEMMA FreeIsAlone ==
  ASSUME Typing, ObjectsInv, NamesInv, ReleasesAlone, NEW t \in Task, call[t] = "free"
  PROVE  /\ addr[t] \in Object /\ addr[t] = ItsName(t)
         /\ pc[t] = "user" /\ KindOf(Head(program[t])) \in Kind
         /\ \A u \in Task : ~WaitsAt(u, addr[t]) /\ addr[t] \notin held[u]
                            /\ ~Needs(u, addr[t])
         /\ \A u \in Task \ {t} : addr[t] \notin Inside(u)
<1> DEFINE kind == KindOf(Head(program[t]))
<1>1. PICK o : o = addr[t]
  OBVIOUS
<1>2. /\ pc[t] = "user" /\ Head(program[t]) \in Release /\ kind \in Kind
      /\ o \in ObjectsOf(kind) /\ o \in Object
  BY <1>1, KindsOfCalls, KindsOfObjects DEF Typing, CallsTyped, Calls
<1>3. o = ItsName(t)
  <2>1. o \in Inside(t)
    BY <1>1, <1>2, InsideOf
  <2>2. PICK k \in Kind : name[k] = o
    BY <1>2, <2>1, KindsOfObjects DEF NamesInv, SameObject
  <2>3. o \in ObjectsOf(k) \cup {NULL}
    BY <2>2 DEF Typing, NamesTyped
  <2>4. k = kind
    BY <1>2, <2>3, KindsOfObjects
  <2> QED
    BY <2>2, <2>4 DEF ItsName
<1>4. \A u \in Task \ {t} : o \in Inside(u) => Sleeps(u)
  BY <1>1 DEF ReleasesAlone
<1>5. Sem(o) = NULL /\ ~InUse(o)
  BY <1>1, <1>2, <1>4, NobodyWalks DEF NamesInv, FreeAreIdle
<1>6. Pending(o) = {} /\ (o \in Lock => Owners(o) = {})
  BY <1>2, <1>5, IdleObjects
<1>7. ASSUME NEW u \in Task PROVE ~WaitsAt(u, o)
  <2>1. ASSUME WaitsAt(u, o) PROVE FALSE
    <3>1. u # t
      BY <1>2, <2>1, WaitStates DEF WaitsAt, Waiting
    <3>2. Sleeps(u)
      BY <1>2, <1>4, <2>1, <3>1, InsideOf
    <3>3. u \in Pending(o) \cup Granted(o)
      BY <2>1 DEF Granted
    <3>4. CASE o \in Lock
      BY <1>6, <3>3, <3>4 DEF Owners
    <3>5. CASE o \notin Lock
      BY <1>6, <2>1, <3>2, <3>5 DEF Pending, Chosen, Sleeps
    <3> QED
      BY <3>4, <3>5
  <2> QED
    BY <2>1
<1>8. ASSUME NEW u \in Task PROVE o \notin held[u]
  <2>1. held[u] \subseteq Lock
    BY DEF Typing, ObjectsTyped, Locks!LockTypeOK
  <2> QED
    BY <1>6, <2>1 DEF Owners
<1>9. ASSUME NEW u \in Task \ {t} PROVE o \notin Inside(u)
  <2>1. Sleeps(u) => call[u] = "none"
    BY WaitStates DEF Sleeps, Waiting, Typing, CallsTyped, Calls
  <2> QED
    BY <1>2, <1>4, <1>7, <2>1, InsideOf
<1> QED
  BY <1>1, <1>2, <1>3, <1>7, <1>8, <1>9, NeedsAre

(* Inside a call, from which a release or an assignment is far.            *)
LEMMA CallNames ==
  ASSUME Typing, ObjectsInv, NamesInv, ReleasesAlone, NEW t \in Task,
         InRuntime(t) \/ UseLock(t) \/ UseEvent(t) \/ UseBarrier(t)
  PROVE  NamesInv'
<1>0. /\ held \in [Task -> SUBSET Lock] /\ NULL \notin Lock
      /\ call \in [Task -> Use \cup {"none", "create", "free", "refused"}]
      /\ addr \in [Task -> Object \cup {NULL}]
      /\ obj \in [Task -> Object \cup {NULL}]
  BY ObjectAssumption
  DEF Typing, ObjectsTyped, Locks!LockTypeOK, CallsTyped, DescriptorsTyped, TaskTypeOK
<1>1. UNCHANGED <<name, allocated>> /\ \A u \in Task : Inside(u)' \subseteq Inside(u)
  BY NobodyGoesElsewhere
<1>2. SameObject'
  BY <1>1 DEF NamesInv, SameObject
<1>3. \A s \in Task : held'[s] \subseteq held[s] \cup Inside(t)
  <2>1. CASE InRuntime(t)
    BY <2>1, RuntimeEffect DEF Inside, Waiting
  <2>2. CASE UseLock(t) \/ UseEvent(t) \/ UseBarrier(t)
    <3>1. Effect(t, addr[t]) /\ call[t] # "none"
      BY <2>2, UseEffect, KindsOfCalls
    <3> QED
      BY <3>1 DEF Effect, Inside
  <2> QED
    BY <2>1, <2>2
<1>4. HeldAreAllocated'
  <2>1. held' \in [Task -> SUBSET Lock]
    BY UseTyped, InRuntimeTyped DEF Typing, ObjectsTyped, Locks!LockTypeOK
  <2> QED
    BY <1>0, <1>1, <1>3, <2>1, InsideAllocated DEF NamesInv, HeldAreAllocated
<1>5. \A s \in Task : call'[s] # "none" => call'[s] = call[s] /\ addr'[s] = addr[s]
  <2>1. CASE InRuntime(t)
    BY <2>1 DEF InRuntime, nameVars
  <2>2. CASE UseLock(t) \/ UseEvent(t) \/ UseBarrier(t)
    BY <1>0, <2>2, UseEffect DEF Done
  <2> QED
    BY <2>1, <2>2
<1>6. FreeAreIdle'
  <2> SUFFICES ASSUME NEW s \in Task, call'[s] = "free" PROVE (~InUse(addr[s]))'
    BY Zenon DEF FreeAreIdle
  <2>1. PICK o : o = addr[s]
    OBVIOUS
  <2>2. call[s] = "free" /\ addr'[s] = o /\ ~InUse(o)
    BY <1>5, <2>1 DEF NamesInv, FreeAreIdle
  <2>3. /\ o \in Object /\ pc[s] = "user"
        /\ \A u \in Task \ {s} : o \notin Inside(u)
    BY <2>1, <2>2, FreeIsAlone
  <2>4. InUse(o)' <=> InUse(o)
    <3>1. CASE InRuntime(t)
      <4>1. (InUse(o)' <=> InUse(o)) \/ (pc[t] \in WakePc /\ obj[t] = o)
        BY <2>3, <3>1, RuntimeEffect
      <4>2. t # s
        BY <2>3, <3>1, RuntimeEffect
      <4> QED
        BY <2>3, <4>1, <4>2, InsideOf
    <3>2. CASE UseLock(t) \/ UseEvent(t) \/ UseBarrier(t)
      <4>1. Effect(t, addr[t]) /\ call[t] \in Use /\ addr[t] \in Object
        BY <3>2, UseEffect
      <4>2. t # s /\ call[t] # "none"
        BY <2>2, <4>1, KindsOfCalls
      <4>3. addr[t] # o
        BY <2>3, <4>2, InsideOf
      <4> QED
        BY <2>3, <4>1, <4>3 DEF Effect
    <3> QED
      BY <3>1, <3>2
  <2> QED
    BY <2>2, <2>4 DEF InUse
<1>7. RefusedRightly'
  <2>1. \A s \in Task : ~Refused(s)
    BY DEF InRuntime, UseLock, UseEvent, UseBarrier, Running
  <2> QED
    BY <1>5, <2>1 DEF RefusedRightly, Refused
<1> QED
  BY <1>2, <1>4, <1>6, <1>7 DEF NamesInv

(* The program's own steps but those that assign and give back.            *)
LEMMA BeginningNames ==
  ASSUME Typing, ObjectsInv, NamesInv, ReleasesAlone', NEW t \in Task,
         LookAtName(t) \/ ReadName(t) \/ LookAtObject(t) \/ SkipUnlock(t) \/ Join(t)
  PROVE  NamesInv'
<1>0. /\ call \in [Task -> Use \cup {"none", "create", "free", "refused"}]
      /\ addr \in [Task -> Object \cup {NULL}]
  BY DEF Typing, CallsTyped
<1>1. UNCHANGED <<taskVars, objectVars, name, allocated>> /\ pc[t] = "user" /\ call[t] = "none"
      /\ \A s \in Task : ~Refused(s)
  BY DEF LookAtName, ReadName, LookAtObject, SkipUnlock, Join, Wants, Running
<1>2. /\ \A u \in Task \ {t} : Inside(u)' = Inside(u)
      /\ Inside(t)' \subseteq Inside(t) \cup
           (IF ReadName(t) \/ LookAtObject(t) THEN {ItsName(t)} ELSE {NULL})
  BY BeginningsInside
<1>3. ReadName(t) \/ LookAtObject(t) =>
        /\ ItsName(t) \in {name[k] : k \in Kind} /\ ItsName(t) \in Object
        /\ KindOf(Head(program[t])) \in Kind
  <2> SUFFICES ASSUME ReadName(t) \/ LookAtObject(t)
               PROVE  /\ ItsName(t) \in {name[k] : k \in Kind} /\ ItsName(t) \in Object
                      /\ KindOf(Head(program[t])) \in Kind
    OBVIOUS
  <2>1. Head(program[t]) \in Use \cup Release /\ ItsName(t) # NULL
    BY DEF ReadName, LookAtObject, Wants
  <2> QED
    BY <2>1, KindsOfCalls, NameOfKind DEF ItsName
<1>4. SameObject'
  BY <1>1, <1>2, <1>3 DEF NamesInv, SameObject
<1>5. HeldAreAllocated' /\ \A o : InUse(o)' <=> InUse(o)
  BY <1>1 DEF NamesInv, HeldAreAllocated, InUse, objectVars, lockVars, eventVars, barrierVars
<1>6. /\ \A s \in Task \ {t} : call'[s] = call[s] /\ addr'[s] = addr[s]
      /\ call'[t] \in {"free", "refused"} =>
           /\ LookAtObject(t) /\ addr'[t] = ItsName(t)
           /\ InUse(ItsName(t)) <=> call'[t] = "refused"
  <2>1. CASE LookAtObject(t)
    BY <1>0, <2>1 DEF LookAtObject
  <2>2. CASE ReadName(t)
    BY <1>0, <2>2, KindsOfCalls DEF ReadName, Wants
  <2>3. CASE LookAtName(t) \/ SkipUnlock(t) \/ Join(t)
    BY <1>0, <2>3 DEF LookAtName, SkipUnlock, Join, Done
  <2> QED
    BY <2>1, <2>2, <2>3
<1>7. FreeAreIdle'
  BY <1>5, <1>6 DEF NamesInv, FreeAreIdle
<1>8. RefusedRightly'
  <2>1. \A s \in Task : \A o \in Object : Needs(s, o)' <=> Needs(s, o)
    BY <1>1
    DEF Needs, objectVars, lockVars, taskVars, Locks!Owns, Locks!Queued, Locks!Granted,
        Locks!Chosen, Locks!Waiting, Events!Asleep, Events!Waiting, Barriers!Asleep,
        Barriers!Waiting
  <2> SUFFICES ASSUME NEW s \in Task, Refused(s)' PROVE \E u \in Task : Needs(u, addr[s])'
    BY Zenon DEF RefusedRightly
  <2>2. s = t /\ call'[t] = "refused"
    BY <1>1, <1>6 DEF Refused
  <2>3. PICK o \in Object : o = ItsName(t)
    BY <1>3, <1>6, <2>2
  <2>4. addr'[t] = o /\ InUse(o)
    BY <1>6, <2>2, <2>3
  <2>5. o \in Barrier => Sem(o) = NULL
    <3> SUFFICES ASSUME o \in Barrier PROVE Sem(o) = NULL
      OBVIOUS
    <3>1. \A u \in Task \ {t} : o \in Inside(u)' => Sleeps(u)'
      BY <2>2, <2>4 DEF ReleasesAlone, Refused
    <3>2. \A u \in Task \ {t} : o \in Inside(u) => Sleeps(u)
      BY <1>1, <1>2, <3>1 DEF Sleeps, Waiting, taskVars
    <3> QED
      BY <1>1, <3>2, NobodyWalks
  <2>6. \E u \in Task : Needs(u, o)
    BY <2>4, <2>5, BusyObjects
  <2> QED
    BY <2>1, <2>2, <2>4, <2>6
<1> QED
  BY <1>4, <1>5, <1>7, <1>8 DEF NamesInv

(* An assignment, which nobody is inside of what its variable stood for to *)
(* notice.                                                                 *)
LEMMA AssignNames ==
  ASSUME Typing, ObjectsInv, NamesInv, AssignsAlone, NEW t \in Task,
         NEW kind \in Kind, NEW o \in ObjectsOf(kind), StoreNew(t, kind, o),
         UNCHANGED held, \A p \in Object \ {o} : InUse(p)' <=> InUse(p)
  PROVE  NamesInv'
<1>0. /\ call \in [Task -> Use \cup {"none", "create", "free", "refused"}]
      /\ addr \in [Task -> Object \cup {NULL}] /\ name \in [Kind -> allocated \cup {NULL}]
  BY DEF Typing, CallsTyped, NamesTyped
<1>1. /\ UNCHANGED taskVars /\ Done(t) /\ call[t] = "create" /\ o \notin allocated
      /\ allocated' = allocated \cup {o} /\ name' = [name EXCEPT ![kind] = o]
      /\ ItsName(t) = name[kind] /\ \A s \in Task : ~Refused(s)
  BY DEF StoreNew, ItsName, Running
<1>2. ASSUME NEW u \in Task PROVE Inside(u)' \subseteq Inside(u) \cup {NULL}
  <2>1. /\ \A s \in Task \ {t} : Inside(s)' = Inside(s)
        /\ Inside(t)' \subseteq Inside(t) \cup
             (IF ReadName(t) \/ LookAtObject(t) THEN {ItsName(t)} ELSE {NULL})
    BY <1>1, BeginningsInside
  <2>2. ~ReadName(t) /\ ~LookAtObject(t)
    BY <1>1 DEF ReadName, LookAtObject, Wants
  <2> QED
    BY <2>1, <2>2
<1>3. ASSUME NEW u \in Task, NEW p \in Inside(u)
      PROVE  p \in {name'[k] : k \in Kind} \cup {NULL}
  <2>1. p \in {name[k] : k \in Kind} \cup {NULL}
    BY DEF NamesInv, SameObject
  <2>2. name[kind] = NULL \/ p # name[kind]
    BY <1>1 DEF AssignsAlone
  <2>3. \A k \in Kind \ {kind} : name'[k] = name[k]
    BY <1>0, <1>1
  <2> QED
    BY <2>1, <2>2, <2>3
<1>4. SameObject'
  BY <1>2, <1>3 DEF SameObject
<1>5. HeldAreAllocated'
  BY <1>1 DEF NamesInv, HeldAreAllocated
<1>6. \A s \in Task : call'[s] # "none" => call'[s] = call[s] /\ addr'[s] = addr[s]
  BY <1>0, <1>1 DEF Done
<1>7. FreeAreIdle'
  <2> SUFFICES ASSUME NEW s \in Task, call'[s] = "free" PROVE (~InUse(addr[s]))'
    BY Zenon DEF FreeAreIdle
  <2>1. PICK p : p = addr[s]
    OBVIOUS
  <2>2. call[s] = "free" /\ addr'[s] = p /\ ~InUse(p)
    BY <1>6, <2>1 DEF NamesInv, FreeAreIdle
  <2>3. p \in Object /\ p \in Inside(s)
    BY <2>1, <2>2, KindsOfObjects, AddressOfKind, KindsOfCalls, InsideOf
    DEF Typing, CallsTyped, Calls
  <2>4. p # o
    BY <1>1, <2>3, InsideAllocated, KindsOfObjects DEF NamesInv
  <2> QED
    BY <2>2, <2>3, <2>4 DEF InUse
<1>8. RefusedRightly'
  BY <1>1, <1>6 DEF RefusedRightly, Refused
<1> QED
  BY <1>4, <1>5, <1>7, <1>8 DEF NamesInv

LEMMA AssignsNames ==
  ASSUME Typing, ObjectsInv, NamesInv, AssignsAlone, NEW t \in Task,
         \/ \E l \in Lock : _mact_vararg_lockasgn(t, l)
         \/ \E e \in Event : _mact_vararg_evasgn(t, e)
         \/ \E b \in Barrier : barasgn_(t, b)
  PROVE  NamesInv'
<1>0. /\ "lock" \in Kind /\ "event" \in Kind /\ "barrier" \in Kind
      /\ ObjectsOf("lock") = Lock /\ ObjectsOf("event") = Event
      /\ ObjectsOf("barrier") = Barrier
  BY DEF Kind, ObjectsOf
<1>1. ASSUME NEW l \in Lock, _mact_vararg_lockasgn(t, l) PROVE NamesInv'
  <2>1. StoreNew(t, "lock", l) /\ UNCHANGED held
    BY <1>1 DEF _mact_vararg_lockasgn
  <2>2. \A p \in Object \ {l} : InUse(p)' <=> InUse(p)
    BY <1>1 DEF _mact_vararg_lockasgn, InUse, eventVars, barrierVars, Typing, ObjectsTyped,
                Locks!LockTypeOK
  <2> QED
    BY <1>0, <2>1, <2>2, AssignNames
<1>2. ASSUME NEW e \in Event, _mact_vararg_evasgn(t, e) PROVE NamesInv'
  <2>1. StoreNew(t, "event", e) /\ UNCHANGED held
    BY <1>2 DEF _mact_vararg_evasgn, lockVars
  <2>2. \A p \in Object \ {e} : InUse(p)' <=> InUse(p)
    BY <1>2 DEF _mact_vararg_evasgn, InUse, lockVars, barrierVars, Typing, ObjectsTyped,
                Events!EventTypeOK
  <2> QED
    BY <1>0, <2>1, <2>2, AssignNames
<1>3. ASSUME NEW b \in Barrier, barasgn_(t, b) PROVE NamesInv'
  <2>1. StoreNew(t, "barrier", b) /\ UNCHANGED held
    BY <1>3 DEF barasgn_, lockVars
  <2>2. \A p \in Object \ {b} : InUse(p)' <=> InUse(p)
    BY <1>3 DEF barasgn_, InUse, lockVars, eventVars, Typing, ObjectsTyped,
                Barriers!BarrierTypeOK
  <2> QED
    BY <1>0, <2>1, <2>2, AssignNames
<1> QED
  BY <1>1, <1>2, <1>3

LEMMA FreeNames ==
  ASSUME Typing, ObjectsInv, NamesInv, ReleasesAlone, NEW t \in Task, Free(t)
  PROVE  NamesInv'
<1>0. /\ call \in [Task -> Use \cup {"none", "create", "free", "refused"}]
      /\ addr \in [Task -> Object \cup {NULL}] /\ name \in [Kind -> allocated \cup {NULL}]
  BY DEF Typing, CallsTyped, NamesTyped
<1>1. PICK o, kind : o = addr[t] /\ kind = KindOf(Head(program[t]))
  OBVIOUS
<1>2. /\ call[t] = "free" /\ \A s \in Task : ~Refused(s)
      /\ UNCHANGED <<taskVars, objectVars>> /\ Done(t)
  BY DEF Free, Running
<1>3. /\ o \in Object /\ o = name[kind] /\ kind \in Kind /\ o = ItsName(t)
      /\ \A u \in Task : o \notin held[u]
      /\ \A u \in Task \ {t} : o \notin Inside(u)
  BY <1>1, <1>2, FreeIsAlone DEF ItsName
<1>4. allocated' = allocated \ {o} /\ name' = [name EXCEPT ![kind] = NULL]
  BY <1>1, <1>3 DEF Free, Cleared
<1>5. \A u \in Task : Inside(u)' \subseteq (Inside(u) \ {o}) \cup {NULL}
  <2>1. /\ \A s \in Task \ {t} : Inside(s)' = Inside(s)
        /\ Inside(t)' \subseteq Inside(t) \cup
             (IF ReadName(t) \/ LookAtObject(t) THEN {ItsName(t)} ELSE {NULL})
    BY <1>2, BeginningsInside
  <2>2. pc[t] = "user" /\ pc' = pc /\ call'[t] = "none"
    BY <1>0, <1>2, FreeIsAlone DEF taskVars, Done
  <2>3. Inside(t)' = {}
    BY <2>2, WaitStates DEF Inside, Waiting, WaitPc, WakePc
  <2> QED
    BY <1>3, <2>1, <2>3
<1>6. SameObject'
  <2>1. \A k \in Kind : name[k] # o => name'[k] = name[k]
    BY <1>0, <1>3, <1>4
  <2> QED
    BY <1>5, <2>1 DEF NamesInv, SameObject
<1>7. HeldAreAllocated' /\ \A p : InUse(p)' <=> InUse(p)
  BY <1>2, <1>3, <1>4
  DEF NamesInv, HeldAreAllocated, InUse, objectVars, lockVars, eventVars, barrierVars
<1>8. \A s \in Task : call'[s] # "none" => call'[s] = call[s] /\ addr'[s] = addr[s]
  BY <1>0, <1>2 DEF Done
<1>9. FreeAreIdle' /\ RefusedRightly'
  BY <1>2, <1>7, <1>8 DEF NamesInv, FreeAreIdle, RefusedRightly, Refused
<1> QED
  BY <1>6, <1>7, <1>9 DEF NamesInv

(* All steps.                                                              *)
LEMMA StepNames ==
  ASSUME Typing, ObjectsInv, NamesInv, Orderly, Orderly', [Next]_vars
  PROVE  NamesInv'
<1>0. ReleasesAlone /\ AssignsAlone /\ ReleasesAlone'
  BY DEF Orderly
<1>1. CASE UNCHANGED vars
  BY <1>1
  DEF vars, taskVars, objectVars, nameVars, lockVars, eventVars, barrierVars, NamesInv,
      SameObject, Inside, Waiting, HeldAreAllocated, FreeAreIdle, InUse, RefusedRightly,
      Refused, Needs, Locks!Owns, Locks!Queued, Locks!Granted, Locks!Chosen, Locks!Waiting,
      Events!Asleep, Events!Waiting, Barriers!Asleep, Barriers!Waiting
<1>2. CASE Next
  BY <1>0, <1>2, CallNames, BeginningNames, AssignsNames, FreeNames DEF Next
<1> QED
  BY <1>1, <1>2

-----------------------------------------------------------------------------
(* The invariant of programs that keep the discipline.                     *)
Inv == Typing /\ ObjectsInv /\ NamesInv

LEMMA InitInv == Init => Inv
<1> SUFFICES ASSUME Init PROVE Inv
  OBVIOUS
<1> USE TaskAssumption, ObjectAssumption
<1>1. Typing
  BY InitTyping
<1>2. /\ \A t \in Task : pc[t] = "user" /\ held[t] = {} /\ call[t] = "none"
      /\ ml_state = [l \in Lock |-> "LS_Unlocked"] /\ ml_wcount = [l \in Lock |-> 0]
      /\ me_state = [e \in Event |-> "ES_Cleared"] /\ me_wcount = [e \in Event |-> 0]
      /\ me_sem = [e \in Event |-> NULL]
      /\ mb_ncount = mb_ocount /\ mb_ocount \in [Barrier -> Counts]
  BY DEF Init, TaskInit, Locks!LockInit, Events!EventInit, Barriers!BarrierInit
<1>3. \A o \in Object : Sem(o) = NULL /\ QHead(o) = NULL
  BY DEF Init, Locks!LockInit, Events!EventInit, Barriers!BarrierInit, Sem, QHead, Object
<1>4. \A o : Pending(o) = {} /\ Granted(o) = {}
  BY <1>2, WaitStates DEF Pending, Granted, WaitsAt, Waiting
<1>5. Queues
  <2> SUFFICES ASSUME NEW o \in Object PROVE \E q \in Seq(Task) : IsQueue(q, o)
    BY DEF Queues
  <2>1. First(o) = NULL
    BY <1>3 DEF First
  <2>2. IsList(<<>>, NULL, mt_wait_link, NULL) /\ Nodes(<<>>) = {}
    BY EmptyList
  <2>3. <<>> \in Seq(Task) /\ IsQueue(<<>>, o)
    BY <1>4, <2>1, <2>2 DEF IsQueue
  <2> QED
    BY <2>3
<1>6. WaitersWait /\ WakersWake
  BY <1>2, <1>3, WaitStates DEF WaitersWait, WakersWake, Waiting
<1>7. LockWords /\ EventWords /\ BarrierWords
  <2>1. Cardinality({}) = 0
    BY FS_EmptySet
  <2>2. LockWords
    BY <1>2, <1>4, <2>1 DEF LockWords, LockWord, Owners
  <2>3. EventWords
    BY <1>2, <1>4, <2>1 DEF EventWords, EventWord
  <2>4. BarrierWords
    <3> SUFFICES ASSUME NEW b \in Barrier PROVE BarrierWord(b)
      BY DEF BarrierWords
    <3>1. mb_ncount[b] = mb_ocount[b] /\ mb_ocount[b] \in 0 .. UINT_MAX
      BY <1>2
    <3> QED
      BY <1>4, <2>1, <3>1, TasksInRange, CountAssumption DEF BarrierWord, Missing
  <2> QED
    BY <2>2, <2>3, <2>4
<1>8. NamesInv
  BY <1>2, WaitStates
  DEF NamesInv, SameObject, Inside, Waiting, HeldAreAllocated, FreeAreIdle, RefusedRightly,
      Refused
<1> QED
  BY <1>1, <1>5, <1>6, <1>7, <1>8 DEF Inv, ObjectsInv

LEMMA StepInv == Inv /\ Orderly /\ Orderly' /\ [Next]_vars => Inv'
BY StepTyping, StepObjects, StepNames DEF Inv, Orderly, NamesInv

LEMMA OrderlyInvariant == Spec /\ []Orderly => []Inv
BY InitInv, StepInv, PTL DEF Spec

(* Tasks that share a variable share an object: a call never works on      *)
(* memory that has been given back, or on an object other than the one the *)
(* others use, though the variables are read, assigned and cleared without *)
(* a semaphore.                                                            *)
THEOREM NobodyIsLeftBehind == Spec /\ []Orderly => []SameObject
BY OrderlyInvariant, PTL DEF Inv, NamesInv

(* LOCKREL, EVREL and BARREL call abort() only for an object that some     *)
(* task has locked or waits for, though they look without the semaphore.   *)
THEOREM RefusalsAreRight == Spec /\ []Orderly => []RefusedRightly
BY OrderlyInvariant, PTL DEF Inv, NamesInv

(* And what they let pass is idle when its memory is given back, however   *)
(* many steps of other tasks come between the look and the release.        *)
THEOREM ReleasesAreIdle == Spec /\ []Orderly => ReleasedIdle
<1> DEFINE Step == \A o \in allocated \ allocated' : \A t \in Task : ~Needs(t, o)
<1>1. Inv /\ Orderly /\ [Next]_vars => [Step]_vars
  <2> SUFFICES ASSUME Inv, Orderly, Next,
                      NEW o \in allocated, o \notin allocated', NEW u \in Task
               PROVE  ~Needs(u, o)
    BY Zenon
  <2>1. PICK t \in Task : Free(t)
    <3>1. ASSUME NEW t \in Task,
                 LookAtName(t) \/ ReadName(t) \/ LookAtObject(t) \/ SkipUnlock(t) \/ Join(t)
          PROVE  FALSE
      BY <3>1 DEF LookAtName, ReadName, LookAtObject, SkipUnlock, Join
    <3>2. ASSUME NEW t \in Task,
                 InRuntime(t) \/ UseLock(t) \/ UseEvent(t) \/ UseBarrier(t)
          PROVE  FALSE
      BY <3>2, NobodyGoesElsewhere DEF Inv
    <3>3. ASSUME NEW t \in Task,
                 \/ \E l \in Lock : _mact_vararg_lockasgn(t, l)
                 \/ \E e \in Event : _mact_vararg_evasgn(t, e)
                 \/ \E b \in Barrier : barasgn_(t, b)
          PROVE  FALSE
      BY <3>3 DEF _mact_vararg_lockasgn, _mact_vararg_evasgn, barasgn_, StoreNew
    <3> QED
      BY <3>1, <3>2, <3>3 DEF Next
  <2>2. o = addr[t] /\ call[t] = "free"
    BY <2>1, FreeIsAlone DEF Free, Inv, Orderly
  <2> QED
    BY <2>2, FreeIsAlone DEF Inv, Orderly
<1> HIDE DEF Step
<1>2. Spec /\ []Orderly => [][Step]_vars
  BY <1>1, OrderlyInvariant, PTL DEF Spec
<1> QED
  BY <1>2 DEF Step, ReleasedIdle

-----------------------------------------------------------------------------
(* The promises of the three kinds of objects, in such programs.           *)
LEMMA QueueIsFound ==
  ASSUME ObjectsInv, NEW o \in Object
  PROVE  /\ WalkEnds(First(o)) /\ Chain(First(o)) = Pending(o)
         /\ o \in Lock \/ Sem(o) = NULL =>
              /\ First(o) = QHead(o)
              /\ First(o) # NULL => QTail(o) # NULL /\ mt_wait_link[QTail(o)] = NULL
<1>1. PICK q \in Seq(Task) : IsQueue(q, o)
  BY DEF ObjectsInv, Queues
<1>2. /\ NULL \in Reached(First(o)) /\ Reached(First(o)) \ {NULL} = Nodes(q)
  BY <1>1, ListIsFound, TaskAssumption DEF IsQueue, Reached
<1>3. ASSUME o \in Lock \/ Sem(o) = NULL, First(o) # NULL
      PROVE  QTail(o) # NULL /\ mt_wait_link[QTail(o)] = NULL
  <2>1. q # <<>> /\ QTail(o) = q[Len(q)]
    BY <1>1, <1>3, QueueEnds DEF IsQueue
  <2>2. q[Len(q)] \in Task /\ mt_wait_link[q[Len(q)]] = NULL
    BY <1>1, <2>1, EndsOfList, TaskAssumption DEF IsQueue
  <2> QED
    BY <2>1, <2>2, TaskAssumption
<1> QED
  BY <1>1, <1>2, <1>3 DEF IsQueue, WalkEnds, Chain, First

LEMMA PendingOf ==
  ASSUME ObjectsInv, NEW t \in Task
  PROVE  /\ \A l \in Lock : /\ Locks!Queued(t, l) <=> t \in Pending(l)
                            /\ Locks!Owns(t, l) <=> t \in Owners(l)
         /\ \A e \in Event : Events!Asleep(t, e) <=> t \in Pending(e)
         /\ \A b \in Barrier : Barriers!Asleep(t, b) <=> t \in Pending(b)
<1>1. \A l \in Lock : /\ Locks!Queued(t, l) <=> t \in Pending(l)
                      /\ Locks!Owns(t, l) <=> t \in Owners(l)
  BY DEF Pending, Owners, Granted, Chosen, WaitsAt, Waiting, WaitPc, WakePc, Locks!Owns,
         Locks!Queued, Locks!Granted, Locks!Chosen, Locks!Waiting, Locks!WaitPc, Locks!WakePc
<1>2. \A o \in Object : Waiting(t) /\ mt_wait_obj[t] = o =>
        mt_state[t] \in {"TS_Running", WaitStateOf(o)}
  BY DEF ObjectsInv, WaitersWait
<1>3. ASSUME NEW e \in Event PROVE Events!Asleep(t, e) <=> t \in Pending(e)
  <2>1. e \in Object /\ e \notin Lock /\ WaitStateOf(e) = "TS_Event_Wait"
    BY ObjectAssumption DEF WaitStateOf, Object
  <2> QED
    BY <1>2, <2>1
    DEF Pending, Chosen, WaitsAt, Waiting, WaitPc, Events!Asleep, Events!Waiting,
        Events!WaitPc
<1>4. ASSUME NEW b \in Barrier PROVE Barriers!Asleep(t, b) <=> t \in Pending(b)
  <2>1. b \in Object /\ b \notin Lock /\ WaitStateOf(b) = "TS_Bar_Wait"
    BY ObjectAssumption DEF WaitStateOf, Object
  <2> QED
    BY <1>2, <2>1
    DEF Pending, Chosen, WaitsAt, Waiting, WaitPc, Barriers!Asleep, Barriers!Waiting,
        Barriers!WaitPc
<1> QED
  BY <1>1, <1>3, <1>4

(* A lock has one owner at most, whatever else its tasks wait for, and     *)
(* however often its memory is given back and handed out again.            *)
THEOREM LocksExclude == Spec /\ []Orderly => []Locks!MutualExclusion
<1>1. Inv => Locks!MutualExclusion
  BY PendingOf DEF Inv, ObjectsInv, LockWords, LockWord, Locks!MutualExclusion
<1> QED
  BY <1>1, OrderlyInvariant, PTL

LEMMA LockQueueIntact == Typing /\ ObjectsInv => Locks!QueueIntact
<1> SUFFICES ASSUME Typing, ObjectsInv, NEW l \in Lock
             PROVE  /\ Locks!WalkEnds(ml_qhead[l])
                    /\ Locks!Chain(ml_qhead[l]) = {t \in Task : Locks!Queued(t, l)}
                    /\ ml_wcount[l] = Locks!Cardinality(Locks!Chain(ml_qhead[l]))
                    /\ ml_qhead[l] # NULL =>
                         ml_qtail[l] # NULL /\ mt_wait_link[ml_qtail[l]] = NULL
                    /\ ml_state[l] = "LS_Locked" <=> \E t \in Task : Locks!Owns(t, l)
  BY SameCardinality DEF Locks!QueueIntact
<1>1. l \in Object /\ First(l) = ml_qhead[l] /\ QTail(l) = ml_qtail[l]
  BY DEF Object, First, QHead, QTail
<1>2. /\ WalkEnds(ml_qhead[l]) /\ Chain(ml_qhead[l]) = Pending(l)
      /\ ml_qhead[l] # NULL => ml_qtail[l] # NULL /\ mt_wait_link[ml_qtail[l]] = NULL
  BY <1>1, QueueIsFound
<1>3. Pending(l) = {t \in Task : Locks!Queued(t, l)}
  BY PendingOf, PendingAre
<1>4. LockWord(l) /\ ml_state[l] \in {"LS_Locked", "LS_Unlocked"}
  BY DEF ObjectsInv, LockWords, Typing, ObjectsTyped, Locks!LockTypeOK
<1>5. ml_state[l] = "LS_Locked" <=> \E t \in Task : Locks!Owns(t, l)
  BY <1>4, PendingOf DEF LockWord, Owners, Granted
<1>6. ml_wcount[l] = Cardinality(Pending(l))
  BY <1>4 DEF LockWord
<1> QED
  BY <1>2, <1>3, <1>5, <1>6, SameChain, SameCardinality

LEMMA EventQueueIntact == Typing /\ ObjectsInv => Events!QueueIntact
<1> SUFFICES ASSUME Typing, ObjectsInv, NEW e \in Event, me_sem[e] = NULL
             PROVE  /\ Events!WalkEnds(me_qhead[e])
                    /\ Events!Chain(me_qhead[e]) = {t \in Task : Events!Asleep(t, e)}
                    /\ me_wcount[e] = Events!Cardinality(Events!Chain(me_qhead[e]))
                    /\ me_state[e] = "ES_Posted" => me_qhead[e] = NULL
  BY SameCardinality DEF Events!QueueIntact, Events!Posting
<1>1. e \in Object /\ Sem(e) = NULL /\ First(e) = me_qhead[e]
  BY ObjectAssumption DEF Object, First, QHead, Sem
<1>2. WalkEnds(me_qhead[e]) /\ Chain(me_qhead[e]) = Pending(e)
  BY <1>1, QueueIsFound
<1>3. Pending(e) = {t \in Task : Events!Asleep(t, e)}
  BY PendingOf, PendingAre
<1>4. EventWord(e)
  BY DEF ObjectsInv, EventWords
<1>5. me_qhead[e] = NULL <=> Pending(e) = {}
  BY <1>1, QueueEnds DEF ObjectsInv, Queues
<1> QED
  BY <1>2, <1>3, <1>4, <1>5, SameChain, SameCardinality DEF EventWord

LEMMA BarrierQueueIntact == Typing /\ ObjectsInv => Barriers!QueueIntact
<1> SUFFICES ASSUME Typing, ObjectsInv, NEW b \in Barrier, mb_sem[b] = NULL
             PROVE  /\ Barriers!WalkEnds(mb_qhead[b])
                    /\ Barriers!Chain(mb_qhead[b]) = {t \in Task : Barriers!Asleep(t, b)}
                    /\ mb_ocount[b] # 0 =>
                         mb_ncount[b] + Barriers!Cardinality(Barriers!Chain(mb_qhead[b]))
                           = mb_ocount[b]
  BY SameCardinality DEF Barriers!QueueIntact, Barriers!Opening
<1>1. b \in Object /\ Sem(b) = NULL /\ First(b) = mb_qhead[b]
  BY ObjectAssumption DEF Object, First, QHead, Sem
<1>2. WalkEnds(mb_qhead[b]) /\ Chain(mb_qhead[b]) = Pending(b)
  BY <1>1, QueueIsFound
<1>3. Pending(b) = {t \in Task : Barriers!Asleep(t, b)}
  BY PendingOf, PendingAre
<1>4. BarrierWord(b) /\ mb_ocount[b] \in 0 .. UINT_MAX
  BY DEF ObjectsInv, BarrierWords, Typing, ObjectsTyped, Barriers!BarrierTypeOK
<1>5. PICK k \in 0 .. Cardinality(Task) : k = Cardinality(Pending(b))
  BY QueueLength, PendingAre
<1>6. mb_ocount[b] # 0 => mb_ncount[b] + k = mb_ocount[b]
  BY <1>4, <1>5, TasksInRange, CountAssumption DEF BarrierWord, Missing
<1> QED
  BY <1>2, <1>3, <1>5, <1>6, SameChain, SameCardinality

(* Each queue holds exactly the tasks that wait at its object, and counts  *)
(* and words agree with it, though tasks pass from one object's queue to   *)
(* another's with one link for all, and though the object was created in   *)
(* memory that another has used.                                           *)
THEOREM QueuesIntact ==
  Spec /\ []Orderly => [](Locks!QueueIntact /\ Events!QueueIntact /\ Barriers!QueueIntact)
BY LockQueueIntact, EventQueueIntact, BarrierQueueIntact, OrderlyInvariant, PTL DEF Inv

-----------------------------------------------------------------------------
(* The runnable count, when the runtime has met every task.                *)
LEMMA Sums ==
  ASSUME NEW S \in SUBSET Task, NEW T \in SUBSET Task
  PROVE  /\ Cardinality(S) + Cardinality(T) \in 0 .. UINT_MAX
         /\ Cardinality(S) \in Nat /\ Cardinality(T) \in Nat
         /\ Cardinality(S) + Cardinality(T) = 0 <=> S = {} /\ T = {}
BY QueueLength, TasksInRange, CountAssumption

LEMMA CountedAre == Counted \in SUBSET Task /\ PutBack \in SUBSET Task
BY DEF Counted, PutBack

(* A step that changes neither the count nor who is counted.               *)
LEMMA CountKept ==
  ASSUME CountInv, ~aborted, UNCHANGED <<runnable_tasks, aborted>>,
         Counted' = Counted, PutBack' = PutBack, CountsItsWaiters',
         \A t \in Task : pc[t] = "check" => pc'[t] = "check"
  PROVE  CountInv'
BY DEF CountInv, CountsItsWaiters, NoFalseDeadlock

LEMMA CountStays ==
  ASSUME CountInv, UNCHANGED <<pc, obj, cur, release_count, mt_state, mt_wait_obj>>,
         UNCHANGED <<runnable_tasks, aborted>>
  PROVE  CountInv'
<1>1. \A p : Pending(p)' = Pending(p)
  BY DEF Pending, WaitsAt, Waiting, Chosen
<1> QED
  BY <1>1 DEF CountInv, CountsItsWaiters, Counted, PutBack, Waiting, NoFalseDeadlock, Stuck

(* Who wakes tasks at an object is the task that has its semaphore.        *)
LEMMA WakerIsSem ==
  ASSUME ObjectsInv, NEW u \in Task, pc[u] \in WakePc
  PROVE  obj[u] \in Object /\ Sem(obj[u]) = u
BY DEF ObjectsInv, WakersWake

LEMMA PendingAtWalk ==
  ASSUME NEW o, o \notin Lock
  PROVE  Pending(o) = {t \in Task : WaitsAt(t, o) /\ mt_state[t] # "TS_Running"}
BY DEF Pending, Chosen

LEMMA ParkCount ==
  ASSUME Typing, ObjectsInv, CountInv, ~aborted, NEW t \in Task, NEW o \in Object,
         Sem(o) = NULL, pc[t] = "user", pc' = [pc EXCEPT ![t] = "dec"],
         mt_wait_obj' = [mt_wait_obj EXCEPT ![t] = o], NEW state, state # "TS_Running",
         mt_state' = [mt_state EXCEPT ![t] = state],
         UNCHANGED <<obj, cur, release_count, runnable_tasks, aborted>>
  PROVE  CountInv'
<1>0. /\ pc \in [Task -> Pc] /\ mt_state \in [Task -> TaskState]
      /\ mt_wait_obj \in [Task -> Object \cup {NULL}]
  BY DEF Typing, DescriptorsTyped, TaskTypeOK
<1>1. \A u \in Task : pc[u] \in WakePc => obj[u] # o /\ u # t
  BY WakerIsSem, TaskAssumption, WaitStates
<1>2. Counted' = Counted
  BY <1>0 DEF Counted
<1>3. \A s \in Task : s # t => /\ pc'[s] = pc[s] /\ mt_wait_obj'[s] = mt_wait_obj[s]
                               /\ mt_state'[s] = mt_state[s]
  BY <1>0
<1>4. pc'[t] = "dec" /\ mt_wait_obj'[t] = o /\ mt_state'[t] = state
  BY <1>0
<1>5. PutBack' = PutBack
  <2> SUFFICES ASSUME NEW s \in Task PROVE s \in PutBack' <=> s \in PutBack
    BY DEF PutBack
  <2>1. CASE s = t
    <3>1. s \notin PutBack
      BY <2>1 DEF PutBack, Waiting, WaitPc
    <3>2. \A u \in Task : pc'[u] \in {"mark", "next"} => obj'[u] # o
      BY <1>1, <1>3, <1>4 DEF WakePc
    <3>3. s \notin PutBack'
      BY <1>4, <2>1, <3>2 DEF PutBack
    <3> QED
      BY <3>1, <3>3
  <2>2. CASE s # t
    <3>1. \A u \in Task : pc'[u] \in {"mark", "next"} <=> pc[u] \in {"mark", "next"}
      BY <1>3, <1>4
    <3> QED
      BY <1>3, <2>2, <3>1 DEF PutBack, Waiting
  <2> QED
    BY <2>1, <2>2
<1>6. CountsItsWaiters'
  <2> SUFFICES ASSUME NEW u \in Task, pc'[u] = "inc", obj'[u] \notin Lock
               PROVE  release_count'[u] = Cardinality(Pending(obj[u])')
    BY DEF CountsItsWaiters
  <2>1. pc[u] = "inc" /\ obj[u] # o /\ obj[u] \notin Lock
    BY <1>1, <1>3, <1>4 DEF WakePc
  <2>2. Pending(obj[u])' = Pending(obj[u])
    BY <1>3, <1>4, <2>1, WaitStates DEF Pending, Chosen, WaitsAt, Waiting
  <2> QED
    BY <2>1, <2>2 DEF CountInv, CountsItsWaiters
<1> QED
  BY <1>2, <1>3, <1>4, <1>5, <1>6, CountKept

LEMMA StartWakingCount ==
  ASSUME Typing, ObjectsInv, CountInv, ~aborted, NEW t \in Task, NEW o \in Object,
         pc[t] = "user", pc' = [pc EXCEPT ![t] = "inc"], obj' = [obj EXCEPT ![t] = o],
         NEW first, cur' = [cur EXCEPT ![t] = first],
         NEW count, release_count' = [release_count EXCEPT ![t] = count],
         o \notin Lock => count = Cardinality(Pending(o)),
         UNCHANGED <<mt_state, mt_wait_obj, runnable_tasks, aborted>>
  PROVE  CountInv'
<1>0. /\ pc \in [Task -> Pc] /\ obj \in [Task -> Object \cup {NULL}]
      /\ cur \in [Task -> Task \cup {NULL}] /\ release_count \in [Task -> 0 .. UINT_MAX]
  BY DEF Typing, DescriptorsTyped, TaskTypeOK
<1>1. \A s \in Task : s # t => /\ pc'[s] = pc[s] /\ obj'[s] = obj[s] /\ cur'[s] = cur[s]
                               /\ release_count'[s] = release_count[s]
  BY <1>0
<1>2. pc'[t] = "inc" /\ obj'[t] = o /\ release_count'[t] = count
  BY <1>0
<1>3. Counted' = Counted
  BY <1>1, <1>2 DEF Counted
<1>4. PutBack' = PutBack
  <2>1. \A s \in Task : Waiting(s)' <=> Waiting(s)
    BY <1>1, <1>2 DEF Waiting, WaitPc
  <2>2. \A u \in Task : /\ pc'[u] \in {"mark", "next"} <=> pc[u] \in {"mark", "next"}
                        /\ pc[u] \in {"mark", "next"} => obj'[u] = obj[u] /\ cur'[u] = cur[u]
    BY <1>1, <1>2
  <2> QED
    BY <2>1, <2>2 DEF PutBack
<1>5. CountsItsWaiters'
  <2> SUFFICES ASSUME NEW u \in Task, pc'[u] = "inc", obj'[u] \notin Lock
               PROVE  release_count'[u] = Cardinality(Pending(obj[u])')
    BY DEF CountsItsWaiters
  <2>1. PICK p : p = obj'[u]
    OBVIOUS
  <2>2. Pending(p)' = Pending(p) /\ Pending(obj[u])' = Pending(p)'
    BY <1>1, <1>2, <2>1 DEF Pending, Chosen, WaitsAt, Waiting, WaitPc
  <2> QED
    BY <1>1, <1>2, <2>1, <2>2 DEF CountInv, CountsItsWaiters
<1> QED
  BY <1>1, <1>2, <1>3, <1>4, <1>5, CountKept

(* The waiter's half: off the count, the look at it, and the return.       *)
LEMMA DecCount ==
  ASSUME Typing, ObjectsInv, CountInv, NEW t \in Task, DEC_RUNNABLE_MACT_COUNT(t)
  PROVE  CountInv'
<1>0. /\ pc \in [Task -> Pc] /\ pc[t] = "dec" /\ pc' = [pc EXCEPT ![t] = "check"]
      /\ runnable_tasks' = Minus1(runnable_tasks) /\ ~aborted
      /\ UNCHANGED <<obj, cur, release_count, mt_state, mt_wait_obj, aborted>>
  BY DEF DEC_RUNNABLE_MACT_COUNT, Typing, DescriptorsTyped, TaskTypeOK
<1>1. /\ \A s \in Task : s # t => pc'[s] = pc[s]
      /\ pc'[t] = "check"
  BY <1>0
<1>2. t \in Counted /\ Counted' = Counted \ {t}
  BY <1>0, <1>1 DEF Counted
<1>3. \A s \in Task : /\ Waiting(s)' <=> Waiting(s)
                      /\ pc'[s] \in {"mark", "next"} <=> pc[s] \in {"mark", "next"}
                      /\ pc'[s] = "inc" <=> pc[s] = "inc"
                      /\ pc'[s] \in WakePc <=> pc[s] \in WakePc
  BY <1>0, <1>1 DEF Waiting, WaitPc, WakePc
<1>4. PutBack' = PutBack
  BY <1>0, <1>3 DEF PutBack
<1>5. Minus1(Cardinality(Counted)) = Cardinality(Counted)' /\ Cardinality(Counted) # 0
  BY <1>2, CountedAre, QueueLength
<1>6. runnable_tasks' = Cardinality(Counted)' + Cardinality(PutBack)'
  BY <1>0, <1>4, <1>5, Sums, CountedAre DEF CountInv, CountsItsWaiters, Minus1
<1>7. \A p : Pending(p)' = Pending(p)
  BY <1>0, <1>3 DEF Pending, WaitsAt, Chosen
<1> QED
  BY <1>0, <1>1, <1>3, <1>6, <1>7 DEF CountInv, CountsItsWaiters, NoFalseDeadlock

LEMMA CheckCount ==
  ASSUME Typing, ObjectsInv, CountInv, NEW t \in Task, CHECK_FOR_MACT_DEADLOCK(t)
  PROVE  CountInv'
<1>0. /\ pc \in [Task -> Pc] /\ pc[t] = "check" /\ ~aborted
      /\ UNCHANGED <<obj, cur, release_count, mt_state, mt_wait_obj, runnable_tasks>>
  BY DEF CHECK_FOR_MACT_DEADLOCK, Typing, DescriptorsTyped, TaskTypeOK
<1>1. CASE runnable_tasks = 0
  <2>1. aborted' = TRUE /\ pc' = pc
    BY <1>1 DEF CHECK_FOR_MACT_DEADLOCK
  <2>2. Counted = {} /\ PutBack = {}
    BY <1>1, Sums, CountedAre DEF CountInv, CountsItsWaiters
  <2>3. Stuck'
    BY <1>0, <2>1, <2>2 DEF Stuck, Counted, PutBack, Waiting, WaitPc
  <2>4. Counted' = Counted /\ PutBack' = PutBack /\ \A p : Pending(p)' = Pending(p)
    BY <1>0, <2>1 DEF Counted, PutBack, Waiting, Pending, WaitsAt, Chosen
  <2> QED
    BY <1>0, <2>1, <2>3, <2>4 DEF CountInv, CountsItsWaiters, NoFalseDeadlock
<1>2. CASE runnable_tasks # 0
  <2>1. pc' = [pc EXCEPT ![t] = "spin"] /\ aborted' = aborted
    BY <1>2 DEF CHECK_FOR_MACT_DEADLOCK
  <2>2. /\ \A s \in Task : s # t => pc'[s] = pc[s]
        /\ pc'[t] = "spin"
    BY <1>0, <2>1
  <2>3. \A s \in Task : /\ Waiting(s)' <=> Waiting(s)
                        /\ pc'[s] \in {"mark", "next"} <=> pc[s] \in {"mark", "next"}
                        /\ pc'[s] = "inc" <=> pc[s] = "inc"
                        /\ pc'[s] \in WakePc <=> pc[s] \in WakePc
                        /\ pc'[s] \in {"check", "spin"} <=> pc[s] \in {"check", "spin"}
    BY <1>0, <2>2 DEF Waiting, WaitPc, WakePc
  <2>4. Counted' = Counted /\ PutBack' = PutBack /\ \A p : Pending(p)' = Pending(p)
    BY <1>0, <2>3 DEF Counted, PutBack, Pending, WaitsAt, Chosen
  <2> QED
    BY <1>0, <1>2, <2>1, <2>3, <2>4 DEF CountInv, CountsItsWaiters, NoFalseDeadlock
<1> QED
  BY <1>1, <1>2

LEMMA ReturnCount ==
  ASSUME Typing, ObjectsInv, CountInv, ~aborted, NEW t \in Task,
         pc[t] = "spin", mt_state[t] = "TS_Running", pc' = [pc EXCEPT ![t] = "user"],
         UNCHANGED <<obj, cur, release_count, mt_state, mt_wait_obj>>,
         UNCHANGED <<runnable_tasks, aborted>>
  PROVE  CountInv'
<1>0. pc \in [Task -> Pc]
  BY DEF Typing, DescriptorsTyped, TaskTypeOK
<1>1. /\ \A s \in Task : s # t => pc'[s] = pc[s]
      /\ pc'[t] = "user"
  BY <1>0
<1>2. Counted' = Counted \cup {t} /\ t \notin Counted
  BY <1>1 DEF Counted
<1>3. t \in PutBack /\ PutBack' = PutBack \ {t}
  <2>1. t \in PutBack /\ t \notin PutBack'
    BY <1>1 DEF PutBack, Waiting, WaitPc
  <2>2. ASSUME NEW s \in Task \ {t} PROVE s \in PutBack' <=> s \in PutBack
    <3>1. \A u \in Task : pc'[u] \in {"mark", "next"} <=> pc[u] \in {"mark", "next"}
      BY <1>1
    <3> QED
      BY <1>1, <3>1 DEF PutBack, Waiting
  <2> QED
    BY <2>1, <2>2 DEF PutBack
<1>4. /\ Cardinality(Counted)' = Cardinality(Counted) + 1
      /\ Cardinality(PutBack)' = Minus1(Cardinality(PutBack)) /\ Cardinality(PutBack) # 0
  BY <1>2, <1>3, CountedAre, QueueLength
<1>5. runnable_tasks' = Cardinality(Counted)' + Cardinality(PutBack)' /\ runnable_tasks' # 0
  BY <1>4, Sums, CountedAre DEF CountInv, CountsItsWaiters, Minus1
<1>6. CountsItsWaiters'
  <2>1. \A p : Pending(p)' = Pending(p)
    <3>1. \A u \in Task : pc'[u] \in WakePc <=> pc[u] \in WakePc
      BY <1>1 DEF WakePc
    <3>2. \A s \in Task \ {t} : Waiting(s)' <=> Waiting(s)
      BY <1>1 DEF Waiting
    <3> QED
      BY <3>1, <3>2 DEF Pending, WaitsAt, Chosen
  <2> QED
    BY <1>1, <2>1 DEF CountInv, CountsItsWaiters
<1> QED
  BY <1>5, <1>6 DEF CountInv, CountsItsWaiters, NoFalseDeadlock

(* The waker's half.  The increment is by as many as the waker puts back.  *)
LEMMA PutBackByInc ==
  ASSUME Typing, ObjectsInv, CountInv, NEW t \in Task, INC_RUNNABLE_MACT_COUNT(t)
  PROVE  \E S \in SUBSET Task :
           /\ PutBack' = PutBack \cup S /\ PutBack \cap S = {}
           /\ release_count[t] = Cardinality(S)
<1>0. /\ pc \in [Task -> Pc] /\ pc[t] = "inc" /\ pc' = [pc EXCEPT ![t] = "mark"]
      /\ UNCHANGED <<obj, cur, release_count, mt_state, mt_wait_obj>>
  BY DEF INC_RUNNABLE_MACT_COUNT, Typing, DescriptorsTyped, TaskTypeOK
<1>1. /\ \A s \in Task : s # t => pc'[s] = pc[s]
      /\ pc'[t] = "mark"
  BY <1>0
<1>2. PICK o \in Object : o = obj[t] /\ Sem(o) = t
  BY <1>0, WakerIsSem DEF WakePc
<1>3. \A u \in Task : pc[u] \in WakePc /\ obj[u] = o => u = t
  BY <1>2, WakerIsSem
<1>4. \A s \in Task : Waiting(s)' <=> Waiting(s)
  BY <1>0, <1>1 DEF Waiting, WaitPc
<1>5. CASE o \in Lock
  <2>1. PICK h \in Task : /\ h = cur[t] /\ WaitsAt(h, o) /\ mt_state[h] # "TS_Running"
                          /\ release_count[t] = 1
    BY <1>0, <1>2, <1>5 DEF ObjectsInv, WakersWake, WakePc
  <2>2. ASSUME NEW s \in Task PROVE s \in PutBack' <=> s \in PutBack \/ s = h
    <3>1. CASE Waiting(s) /\ mt_wait_obj[s] = o
      <4>1. s \in PutBack => mt_state[s] = "TS_Running"
        BY <1>0, <1>3, <3>1 DEF PutBack, WakePc
      <4>2. s \in PutBack' <=> mt_state[s] = "TS_Running" \/ s = h
        BY <1>0, <1>1, <1>2, <1>3, <1>4, <1>5, <2>1, <3>1 DEF PutBack, WakePc
      <4> QED
        BY <3>1, <4>1, <4>2 DEF PutBack
    <3>2. CASE ~(Waiting(s) /\ mt_wait_obj[s] = o)
      <4>1. s # h
        BY <2>1, <3>2 DEF WaitsAt
      <4>2. s \in PutBack' <=> s \in PutBack
        BY <1>0, <1>1, <1>2, <1>4, <3>2 DEF PutBack
      <4> QED
        BY <4>1, <4>2
    <3> QED
      BY <3>1, <3>2
  <2>3. PutBack' = PutBack \cup {h}
    BY <2>2 DEF PutBack
  <2>4. h \notin PutBack
    BY <1>0, <1>3, <2>1 DEF PutBack, WaitsAt, WakePc
  <2>5. Cardinality({h}) = 1
    BY FS_Singleton
  <2> QED
    BY <2>1, <2>3, <2>4, <2>5
<1>6. CASE o \notin Lock
  <2>1. release_count[t] = Cardinality(Pending(o)) /\ Pending(o) \in SUBSET Task
    BY <1>0, <1>2, <1>6, PendingAre DEF CountInv, CountsItsWaiters
  <2>2. Pending(o) = {s \in Task : WaitsAt(s, o) /\ mt_state[s] # "TS_Running"}
    BY <1>6, PendingAtWalk
  <2>3. ASSUME NEW s \in Task PROVE s \in PutBack' <=> s \in PutBack \/ s \in Pending(o)
    <3>1. CASE Waiting(s) /\ mt_wait_obj[s] = o
      <4>1. s \in PutBack'
        BY <1>0, <1>1, <1>2, <1>4, <1>6, <3>1 DEF PutBack
      <4> QED
        BY <2>2, <3>1, <4>1 DEF PutBack, WaitsAt
    <3>2. CASE ~(Waiting(s) /\ mt_wait_obj[s] = o)
      <4>1. s \in PutBack' <=> s \in PutBack
        BY <1>0, <1>1, <1>2, <1>4, <3>2 DEF PutBack
      <4> QED
        BY <2>2, <3>2, <4>1 DEF WaitsAt
    <3> QED
      BY <3>1, <3>2
  <2>4. PutBack' = PutBack \cup Pending(o)
    BY <2>1, <2>3 DEF PutBack
  <2>5. PutBack \cap Pending(o) = {}
    BY <1>0, <1>3, <2>2 DEF PutBack, WaitsAt, WakePc
  <2> QED
    BY <2>1, <2>4, <2>5
<1> QED
  BY <1>5, <1>6

LEMMA IncCount ==
  ASSUME Typing, ObjectsInv, CountInv, NEW t \in Task, INC_RUNNABLE_MACT_COUNT(t)
  PROVE  CountInv'
<1>0. /\ pc \in [Task -> Pc] /\ pc[t] = "inc" /\ pc' = [pc EXCEPT ![t] = "mark"] /\ ~aborted
      /\ runnable_tasks' = Plus(runnable_tasks, release_count[t])
      /\ UNCHANGED <<obj, cur, release_count, mt_state, mt_wait_obj, aborted>>
  BY DEF INC_RUNNABLE_MACT_COUNT, Typing, DescriptorsTyped, TaskTypeOK
<1>1. /\ \A s \in Task : s # t => pc'[s] = pc[s]
      /\ pc'[t] = "mark"
  BY <1>0
<1>2. PICK S \in SUBSET Task : /\ PutBack' = PutBack \cup S /\ PutBack \cap S = {}
                               /\ release_count[t] = Cardinality(S)
  BY PutBackByInc
<1>3. Cardinality(PutBack)' = Cardinality(PutBack) + Cardinality(S)
  <2>1. IsFiniteSet(PutBack) /\ IsFiniteSet(S)
    BY CountedAre, QueueLength
  <2>2. Cardinality(PutBack \cup S)
          = Cardinality(PutBack) + Cardinality(S) - Cardinality(PutBack \cap S)
    BY <2>1, FS_Union
  <2>3. Cardinality(PutBack \cap S) = 0
    BY <1>2, FS_EmptySet
  <2> QED
    BY <1>2, <2>2, <2>3, Sums, CountedAre
<1>4. Counted' = Counted /\ t \in Counted
  BY <1>0, <1>1 DEF Counted
<1>5. /\ Cardinality(Counted) + Cardinality(PutBack)' \in 0 .. UINT_MAX
      /\ Cardinality(Counted) + Cardinality(PutBack)' # 0
  BY <1>2, <1>4, CountedAre, Sums
<1>6. PICK c, p, k \in Nat : /\ c = Cardinality(Counted) /\ p = Cardinality(PutBack)
                             /\ k = Cardinality(S)
  BY Sums, CountedAre
<1>7. runnable_tasks = c + p /\ c + (p + k) \in 0 .. UINT_MAX /\ c + (p + k) # 0
      /\ runnable_tasks' = Plus(runnable_tasks, k)
  BY <1>0, <1>2, <1>3, <1>5, <1>6 DEF CountInv, CountsItsWaiters
<1>8. runnable_tasks' = Cardinality(Counted)' + Cardinality(PutBack)' /\ runnable_tasks' # 0
  <2>1. runnable_tasks' = c + (p + k)
    BY <1>7, CountAssumption DEF Plus
  <2> QED
    BY <1>3, <1>4, <1>6, <1>7, <2>1
<1>9. CountsItsWaiters'
  <2>1. \A s \in Task : /\ Waiting(s)' <=> Waiting(s)
                        /\ pc'[s] \in WakePc <=> pc[s] \in WakePc
                        /\ pc'[s] = "inc" => pc[s] = "inc"
    BY <1>0, <1>1 DEF Waiting, WaitPc, WakePc
  <2>2. \A p1 : Pending(p1)' = Pending(p1)
    BY <1>0, <2>1 DEF Pending, WaitsAt, Chosen
  <2> QED
    BY <1>0, <2>1, <2>2 DEF CountInv, CountsItsWaiters
<1> QED
  BY <1>0, <1>8, <1>9 DEF CountInv, CountsItsWaiters, NoFalseDeadlock

LEMMA FollowCount ==
  ASSUME Typing, ObjectsInv, CountInv, NEW t \in Task, FollowLink(t)
  PROVE  CountInv'
<1>0. /\ pc \in [Task -> Pc] /\ pc[t] = "next" /\ pc' = [pc EXCEPT ![t] = "mark"] /\ ~aborted
      /\ cur \in [Task -> Task \cup {NULL}]
      /\ cur' = [cur EXCEPT ![t] = mt_wait_link[cur[t]]]
      /\ UNCHANGED <<obj, release_count, mt_state, mt_wait_obj, runnable_tasks, aborted>>
  BY DEF FollowLink, Typing, DescriptorsTyped, TaskTypeOK
<1>1. /\ \A s \in Task : s # t => pc'[s] = pc[s] /\ cur'[s] = cur[s]
      /\ pc'[t] = "mark"
  BY <1>0
<1>2. obj[t] \notin Lock
  BY <1>0 DEF ObjectsInv, WakersWake, WakePc
<1>3. \A s \in Task : /\ Waiting(s)' <=> Waiting(s)
                      /\ pc'[s] \in {"mark", "next"} <=> pc[s] \in {"mark", "next"}
                      /\ pc'[s] = "inc" <=> pc[s] = "inc"
                      /\ pc'[s] \in {"check", "spin"} <=> pc[s] \in {"check", "spin"}
                      /\ pc[s] = "check" => pc'[s] = "check"
                      /\ obj[s] \in Lock => cur'[s] = cur[s]
  BY <1>0, <1>1, <1>2 DEF Waiting, WaitPc
<1>4. Counted' = Counted /\ PutBack' = PutBack
  BY <1>0, <1>3 DEF Counted, PutBack
<1>5. \A p : p \notin Lock => Pending(p)' = Pending(p)
  BY <1>0, <1>3 DEF Pending, WaitsAt, Chosen
<1>6. CountsItsWaiters'
  BY <1>0, <1>3, <1>5 DEF CountInv, CountsItsWaiters
<1> QED
  BY <1>0, <1>3, <1>4, <1>6, CountKept

(* A task that is let go has been put back before.                         *)
LEMMA WakeCount ==
  ASSUME Typing, ObjectsInv, CountInv, ~aborted, NEW t \in Task, NEW o \in Object,
         NEW h \in Task, o = obj[t], h = cur[t], pc[t] = "mark",
         mt_state' = [mt_state EXCEPT ![h] = "TS_Running"],
         \/ o \notin Lock /\ pc' = [pc EXCEPT ![t] = "next"] /\ UNCHANGED <<obj, cur>>
         \/ /\ o \in Lock /\ pc' = [pc EXCEPT ![t] = "user"]
            /\ obj' = [obj EXCEPT ![t] = NULL] /\ cur' = [cur EXCEPT ![t] = NULL],
         \A u \in Task \ {t} : release_count'[u] = release_count[u],
         UNCHANGED <<mt_wait_obj, runnable_tasks, aborted>>
  PROVE  CountInv'
<1>0. /\ pc \in [Task -> Pc] /\ obj \in [Task -> Object \cup {NULL}]
      /\ cur \in [Task -> Task \cup {NULL}] /\ mt_state \in [Task -> TaskState]
  BY DEF Typing, DescriptorsTyped, TaskTypeOK
<1>1. /\ \A s \in Task : s # t => pc'[s] = pc[s] /\ obj'[s] = obj[s] /\ cur'[s] = cur[s]
      /\ \A s \in Task : s # h => mt_state'[s] = mt_state[s]
      /\ mt_state'[h] = "TS_Running" /\ pc'[t] \in {"user", "next"}
  BY <1>0
<1>2. WaitsAt(h, o) /\ mt_state[h] # "TS_Running" /\ Sem(o) = t
  <2>1. Sem(o) = t
    BY WakerIsSem DEF WakePc
  <2>2. CASE o \in Lock
    BY <2>1, <2>2 DEF ObjectsInv, WakersWake, WakePc
  <2>3. CASE o \notin Lock
    <3>1. First(o) = h
      BY <2>1, <2>3, KindsOfObjects DEF First
    <3>2. h \in Pending(o)
      BY <3>1, BehindFirst DEF ObjectsInv, CoreInv
    <3> QED
      BY <2>1, <3>2 DEF Pending
  <2> QED
    BY <2>2, <2>3
<1>3. \A u \in Task : pc[u] \in WakePc /\ obj[u] = o => u = t
  BY <1>2, WakerIsSem
<1>4. h # t /\ \A s \in Task : Waiting(s)' <=> Waiting(s)
  BY <1>1, <1>2 DEF Waiting, WaitsAt, WaitPc
<1>5. Counted' = Counted
  BY <1>1 DEF Counted
<1>6. PutBack' = PutBack
  <2> SUFFICES ASSUME NEW s \in Task, Waiting(s) PROVE s \in PutBack' <=> s \in PutBack
    BY <1>4 DEF PutBack
  <2>1. CASE s = h
    <3>1. s \in PutBack
      BY <1>2, <2>1 DEF PutBack, WaitsAt
    <3>2. s \in PutBack'
      BY <1>1, <1>4, <2>1 DEF PutBack
    <3> QED
      BY <3>1, <3>2
  <2>2. CASE s # h /\ mt_wait_obj[s] # o
    <3>1. \A u \in Task : obj'[u] = mt_wait_obj[s] \/ obj[u] = mt_wait_obj[s] =>
            \/ pc'[u] = pc[u] /\ obj'[u] = obj[u] /\ cur'[u] = cur[u]
            \/ u = t /\ obj'[u] = NULL /\ obj[u] # mt_wait_obj[s]
      BY <1>0, <1>1, <2>2
    <3>2. mt_wait_obj[s] \in Object /\ NULL \notin Object
      BY KindsOfObjects DEF ObjectsInv, WaitersWait
    <3>3. \A u \in Task : obj'[u] = mt_wait_obj[s] \/ obj[u] = mt_wait_obj[s] =>
            pc'[u] = pc[u] /\ obj'[u] = obj[u] /\ cur'[u] = cur[u]
      BY <3>1, <3>2
    <3> QED
      BY <1>1, <1>4, <2>2, <3>3 DEF PutBack
  <2>3. CASE s # h /\ mt_wait_obj[s] = o
    <3>1. CASE o \in Lock
      <4>1. s \in PutBack <=> mt_state[s] = "TS_Running"
        BY <1>3, <2>3, <3>1 DEF PutBack, WakePc
      <4>2. \A u \in Task : ~(pc'[u] \in {"mark", "next"} /\ obj'[u] = o)
        BY <1>0, <1>1, <1>3, <3>1 DEF WakePc
      <4>3. s \in PutBack' <=> mt_state[s] = "TS_Running"
        BY <1>1, <1>4, <2>3, <4>2 DEF PutBack
      <4> QED
        BY <4>1, <4>3
    <3>2. CASE o \notin Lock
      <4>1. pc'[t] = "next" /\ obj'[t] = o
        BY <1>0, <3>2
      <4>2. s \in PutBack
        BY <2>3, <3>2 DEF PutBack
      <4>3. s \in PutBack'
        BY <1>4, <2>3, <3>2, <4>1 DEF PutBack
      <4> QED
        BY <4>2, <4>3
    <3> QED
      BY <3>1, <3>2
  <2> QED
    BY <2>1, <2>2, <2>3
<1>7. CountsItsWaiters'
  <2> SUFFICES ASSUME NEW u \in Task, pc'[u] = "inc", obj'[u] \notin Lock
               PROVE  release_count'[u] = Cardinality(Pending(obj[u])')
    BY DEF CountsItsWaiters
  <2>1. u # t /\ pc[u] = "inc" /\ obj'[u] = obj[u] /\ obj[u] # o
    BY <1>1, <1>3 DEF WakePc
  <2>2. PICK p : p = obj[u]
    OBVIOUS
  <2>3. Pending(p) = {s \in Task : WaitsAt(s, p) /\ mt_state[s] # "TS_Running"}
        /\ Pending(p)' = {s \in Task : WaitsAt(s, p)' /\ mt_state'[s] # "TS_Running"}
    BY <2>1, <2>2 DEF Pending, Chosen
  <2>4. Pending(p)' = Pending(p)
    BY <1>1, <1>2, <1>4, <2>1, <2>2, <2>3 DEF WaitsAt
  <2>5. Pending(obj[u])' = Pending(p)'
    BY <2>1, <2>2 DEF Pending, Chosen, WaitsAt
  <2> QED
    BY <2>1, <2>2, <2>4, <2>5 DEF CountInv, CountsItsWaiters
<1>8. \A u \in Task : pc[u] = "check" => pc'[u] = "check"
  BY <1>1
<1> QED
  BY <1>5, <1>6, <1>7, <1>8, CountKept

(* The walk has met everyone that waited, and put everyone back.           *)
LEMMA EndCount ==
  ASSUME Typing, ObjectsInv, CountInv, ~aborted, NEW t \in Task, NEW o \in Object \ Lock,
         o = obj[t], cur[t] = NULL, pc[t] = "mark", pc' = [pc EXCEPT ![t] = "user"],
         obj' = [obj EXCEPT ![t] = NULL], cur' = [cur EXCEPT ![t] = NULL],
         release_count' = [release_count EXCEPT ![t] = 0],
         UNCHANGED <<mt_state, mt_wait_obj, runnable_tasks, aborted>>
  PROVE  CountInv'
<1>0. /\ pc \in [Task -> Pc] /\ obj \in [Task -> Object \cup {NULL}]
      /\ cur \in [Task -> Task \cup {NULL}] /\ release_count \in [Task -> 0 .. UINT_MAX]
  BY DEF Typing, DescriptorsTyped, TaskTypeOK
<1>1. /\ \A s \in Task : s # t => /\ pc'[s] = pc[s] /\ obj'[s] = obj[s] /\ cur'[s] = cur[s]
                                  /\ release_count'[s] = release_count[s]
      /\ pc'[t] = "user"
  BY <1>0
<1>2. Sem(o) = t
  BY WakerIsSem DEF WakePc
<1>3. Pending(o) = {}
  <2>1. First(o) = NULL
    BY <1>2, KindsOfObjects DEF First
  <2> QED
    BY <2>1, QueueEnds DEF ObjectsInv, Queues
<1>4. \A u \in Task : pc[u] \in WakePc /\ obj[u] = o => u = t
  BY <1>2, WakerIsSem
<1>5. \A s \in Task : Waiting(s)' <=> Waiting(s)
  BY <1>1 DEF Waiting, WaitPc
<1>6. Counted' = Counted
  BY <1>1 DEF Counted
<1>7. PutBack' = PutBack
  <2> SUFFICES ASSUME NEW s \in Task, Waiting(s) PROVE s \in PutBack' <=> s \in PutBack
    BY <1>5 DEF PutBack
  <2>1. CASE mt_wait_obj[s] = o
    <3>1. mt_state[s] = "TS_Running"
      BY <1>3, <2>1, PendingAtWalk DEF WaitsAt
    <3> QED
      BY <1>5, <3>1 DEF PutBack
  <2>2. CASE mt_wait_obj[s] # o
    <3>1. mt_wait_obj[s] \in Object /\ NULL \notin Object
      BY KindsOfObjects DEF ObjectsInv, WaitersWait
    <3>2. \A u \in Task : obj'[u] = mt_wait_obj[s] \/ obj[u] = mt_wait_obj[s] =>
            pc'[u] = pc[u] /\ obj'[u] = obj[u] /\ cur'[u] = cur[u]
      BY <1>0, <1>1, <2>2, <3>1
    <3> QED
      BY <1>1, <1>5, <2>2, <3>2 DEF PutBack
  <2> QED
    BY <2>1, <2>2
<1>8. CountsItsWaiters'
  <2> SUFFICES ASSUME NEW u \in Task, pc'[u] = "inc", obj'[u] \notin Lock
               PROVE  release_count'[u] = Cardinality(Pending(obj[u])')
    BY DEF CountsItsWaiters
  <2>1. u # t /\ pc[u] = "inc" /\ obj'[u] = obj[u]
    BY <1>1
  <2>2. PICK p : p = obj[u]
    OBVIOUS
  <2>3. Pending(p)' = Pending(p) /\ Pending(obj[u])' = Pending(p)'
    BY <1>5, <2>1, <2>2 DEF Pending, Chosen, WaitsAt
  <2> QED
    BY <1>1, <2>1, <2>2, <2>3 DEF CountInv, CountsItsWaiters
<1> QED
  BY <1>1, <1>6, <1>7, <1>8, CountKept

LEMMA LockCallCount ==
  ASSUME Typing, ObjectsInv, CountInv, ~aborted, NEW t \in Task, NEW l \in Lock,
         Locks!lockon_(t, l) \/ Locks!lockoff_(t, l) \/ Locks!locktest_(t, l)
  PROVE  CountInv'
<1>1. /\ l \in Object /\ pc[t] = "user" /\ Sem(l) = NULL
  BY DEF Locks!lockon_, Locks!lockoff_, Locks!locktest_, Locks!MakeCall, Locks!InUserCode,
         Object, Sem
<1>2. CASE Locks!ReturnAtOnce
  BY <1>2, CountStays DEF Locks!ReturnAtOnce
<1>3. CASE Locks!lockon_(t, l) /\ ~Locks!ReturnAtOnce
  <2>1. /\ pc' = [pc EXCEPT ![t] = "dec"] /\ mt_wait_obj' = [mt_wait_obj EXCEPT ![t] = l]
        /\ mt_state' = [mt_state EXCEPT ![t] = "TS_Lock_Wait"]
        /\ UNCHANGED <<obj, cur, release_count, runnable_tasks, aborted>>
    BY <1>3 DEF Locks!lockon_, Locks!EnqueueWaiter, Locks!Park
  <2> QED
    BY <1>1, <2>1, ParkCount
<1>4. CASE Locks!lockoff_(t, l) /\ ~Locks!ReturnAtOnce
  <2>1. /\ pc' = [pc EXCEPT ![t] = "inc"] /\ obj' = [obj EXCEPT ![t] = l]
        /\ cur' = [cur EXCEPT ![t] = ml_qhead[l]]
        /\ release_count' = [release_count EXCEPT ![t] = 1]
        /\ UNCHANGED <<mt_state, mt_wait_obj, runnable_tasks, aborted>>
    BY <1>4 DEF Locks!lockoff_, Locks!StartWaking
  <2> QED
    BY <1>1, <2>1, StartWakingCount
<1> QED
  BY <1>2, <1>3, <1>4 DEF Locks!locktest_

LEMMA EventCallCount ==
  ASSUME Typing, ObjectsInv, CountInv, ~aborted, NEW t \in Task, NEW e \in Event,
         Events!evwait_(t, e) \/ Events!evpost_(t, e) \/ Events!evclear_(t, e)
  PROVE  CountInv'
<1>1. e \in Object /\ e \notin Lock /\ pc[t] = "user"
  BY ObjectAssumption
  DEF Events!evwait_, Events!evpost_, Events!evclear_, Events!MakeCall, Events!InUserCode,
      Object
<1>2. CASE Events!ReturnAtOnce
  BY <1>2, CountStays DEF Events!ReturnAtOnce
<1>3. CASE Events!evwait_(t, e) /\ ~Events!ReturnAtOnce
  <2>1. /\ pc' = [pc EXCEPT ![t] = "dec"] /\ mt_wait_obj' = [mt_wait_obj EXCEPT ![t] = e]
        /\ mt_state' = [mt_state EXCEPT ![t] = "TS_Event_Wait"] /\ me_sem[e] = NULL
        /\ UNCHANGED <<obj, cur, release_count, runnable_tasks, aborted>>
    BY <1>3 DEF Events!evwait_, Events!Park
  <2>2. Sem(e) = NULL
    BY <1>1, <2>1 DEF Sem
  <2> QED
    BY <1>1, <2>1, <2>2, ParkCount
<1>4. CASE Events!evpost_(t, e)
  <2>1. PICK n : n = Cardinality(Chain(me_qhead[e]))
    OBVIOUS
  <2>2. /\ pc' = [pc EXCEPT ![t] = "inc"] /\ obj' = [obj EXCEPT ![t] = e]
        /\ cur' = [cur EXCEPT ![t] = me_qhead[e]] /\ me_sem[e] = NULL
        /\ release_count' = [release_count EXCEPT ![t] = n]
        /\ UNCHANGED <<mt_state, mt_wait_obj, runnable_tasks, aborted>>
    BY <1>4, <2>1, SameChain, SameCardinality DEF Events!evpost_, Events!StartWaking
  <2>3. Sem(e) = NULL /\ QHead(e) = me_qhead[e]
    BY <1>1, <2>2 DEF Sem, QHead
  <2>4. n = Cardinality(Pending(e))
    BY <1>1, <2>1, <2>3, QueueIsFound
  <2> QED
    BY <1>1, <2>2, <2>4, StartWakingCount
<1> QED
  BY <1>2, <1>3, <1>4 DEF Events!evclear_

LEMMA BarrierCallCount ==
  ASSUME Typing, ObjectsInv, CountInv, ~aborted, NEW t \in Task, NEW b \in Barrier,
         Barriers!barsync_(t, b) \/ Barriers!barsync_open(t, b)
  PROVE  CountInv'
<1>1. /\ b \in Object /\ b \notin Lock /\ pc[t] = "user" /\ Sem(b) = NULL
      /\ QHead(b) = mb_qhead[b]
  BY ObjectAssumption
  DEF Barriers!barsync_, Barriers!barsync_open, Barriers!MakeCall, Barriers!InUserCode,
      Object, Sem, QHead
<1>2. CASE Barriers!barsync_(t, b)
  <2>1. /\ pc' = [pc EXCEPT ![t] = "dec"] /\ mt_wait_obj' = [mt_wait_obj EXCEPT ![t] = b]
        /\ mt_state' = [mt_state EXCEPT ![t] = "TS_Bar_Wait"]
        /\ UNCHANGED <<obj, cur, release_count, runnable_tasks, aborted>>
    BY <1>2 DEF Barriers!barsync_, Barriers!Park
  <2> QED
    BY <1>1, <2>1, ParkCount
<1>3. CASE Barriers!barsync_open(t, b)
  <2>1. PICK n : n = Cardinality(Chain(mb_qhead[b]))
    OBVIOUS
  <2>2. /\ pc' = [pc EXCEPT ![t] = "inc"] /\ obj' = [obj EXCEPT ![t] = b]
        /\ cur' = [cur EXCEPT ![t] = mb_qhead[b]]
        /\ release_count' = [release_count EXCEPT ![t] = n]
        /\ UNCHANGED <<mt_state, mt_wait_obj, runnable_tasks, aborted>>
    BY <1>3, <2>1, SameChain, SameCardinality DEF Barriers!barsync_open, Barriers!StartWaking
  <2>3. n = Cardinality(Pending(b))
    BY <1>1, <2>1, QueueIsFound
  <2> QED
    BY <1>1, <2>2, <2>3, StartWakingCount
<1> QED
  BY <1>2, <1>3

LEMMA InRuntimeCount ==
  ASSUME Typing, ObjectsInv, CountInv, NEW t \in Task, InRuntime(t)
  PROVE  CountInv'
<1>0. /\ obj \in [Task -> Object \cup {NULL}] /\ cur \in [Task -> Task \cup {NULL}]
      /\ release_count \in [Task -> 0 .. UINT_MAX] /\ ~aborted
  BY DEF Typing, DescriptorsTyped, TaskTypeOK, InRuntime, Running
<1>1. CASE Locks!lockon_return(t) \/ Events!evwait_return(t) \/ Barriers!barsync_return(t)
  <2>1. /\ pc[t] = "spin" /\ mt_state[t] = "TS_Running" /\ pc' = [pc EXCEPT ![t] = "user"]
        /\ UNCHANGED <<obj, cur, release_count, mt_state, mt_wait_obj>>
        /\ UNCHANGED <<runnable_tasks, aborted>>
    BY <1>1
    DEF Locks!lockon_return, Locks!SeesItselfRunning, Events!evwait_return,
        Events!SeesItselfRunning, Barriers!barsync_return, Barriers!SeesItselfRunning
  <2> QED
    BY <1>0, <2>1, ReturnCount
<1>2. CASE Events!evpost_wake(t) \/ Barriers!barsync_wake(t)
  <2>1. /\ obj[t] \in Object \ Lock /\ cur[t] \in Task /\ pc[t] = "mark"
        /\ pc' = [pc EXCEPT ![t] = "next"]
        /\ mt_state' = [mt_state EXCEPT ![cur[t]] = "TS_Running"]
        /\ UNCHANGED <<obj, cur, release_count, mt_wait_obj, runnable_tasks, aborted>>
    BY <1>0, <1>2, ObjectAssumption
    DEF Events!evpost_wake, Events!Wake, Barriers!barsync_wake, Barriers!Wake, Object
  <2>2. PICK o \in Object, h \in Task : o = obj[t] /\ h = cur[t]
    BY <2>1
  <2> QED
    BY <1>0, <2>1, <2>2, WakeCount
<1>3. CASE Locks!lockoff_wake(t)
  <2>1. /\ obj[t] \in Lock /\ cur[t] \in Task /\ pc[t] = "mark"
        /\ pc' = [pc EXCEPT ![t] = "user"]
        /\ mt_state' = [mt_state EXCEPT ![cur[t]] = "TS_Running"]
        /\ obj' = [obj EXCEPT ![t] = NULL] /\ cur' = [cur EXCEPT ![t] = NULL]
        /\ release_count' = [release_count EXCEPT ![t] = 0]
        /\ UNCHANGED <<mt_wait_obj, runnable_tasks, aborted>>
    BY <1>0, <1>3 DEF Locks!lockoff_wake, Locks!Wake, Locks!ForgetLocals
  <2>2. PICK o \in Object, h \in Task : o = obj[t] /\ h = cur[t]
    BY <2>1 DEF Object
  <2>3. \A u \in Task \ {t} : release_count'[u] = release_count[u]
    BY <1>0, <2>1
  <2> QED
    BY <1>0, <2>1, <2>2, <2>3, WakeCount
<1>4. CASE Events!evpost_end(t) \/ Barriers!barsync_close(t)
  <2>1. /\ obj[t] \in Object \ Lock /\ cur[t] = NULL /\ pc[t] = "mark"
        /\ pc' = [pc EXCEPT ![t] = "user"]
        /\ obj' = [obj EXCEPT ![t] = NULL] /\ cur' = [cur EXCEPT ![t] = NULL]
        /\ release_count' = [release_count EXCEPT ![t] = 0]
        /\ UNCHANGED <<mt_state, mt_wait_obj, runnable_tasks, aborted>>
    BY <1>4, ObjectAssumption
    DEF Events!evpost_end, Events!EndOfWalk, Events!ForgetLocals, Barriers!barsync_close,
        Barriers!EndOfWalk, Barriers!ForgetLocals, Object
  <2>2. PICK o \in Object \ Lock : o = obj[t]
    BY <2>1
  <2> QED
    BY <1>0, <2>1, <2>2, EndCount
<1> QED
  BY <1>1, <1>2, <1>3, <1>4, DecCount, CheckCount, IncCount, FollowCount DEF InRuntime

LEMMA StepCount ==
  ASSUME Typing, ObjectsInv, CountInv, [Next]_vars
  PROVE  CountInv'
<1>1. CASE UNCHANGED taskVars
  BY <1>1, CountStays DEF taskVars
<1>2. ASSUME NEW t \in Task,
             UseLock(t) \/ UseEvent(t) \/ UseBarrier(t)
      PROVE  CountInv'
  <2>1. ~aborted
    BY <1>2 DEF UseLock, UseEvent, UseBarrier, Running
  <2>2. CASE UseLock(t)
    <3>1. PICK l \in Lock : addr[t] = l
      BY <2>2, AddressOfKind DEF UseLock, OnLock
    <3> QED
      BY <2>1, <2>2, <3>1, LockCallCount DEF UseLock
  <2>3. CASE UseEvent(t)
    <3>1. PICK e \in Event : addr[t] = e
      BY <2>3, AddressOfKind DEF UseEvent, OnEvent
    <3> QED
      BY <2>1, <2>3, <3>1, EventCallCount DEF UseEvent
  <2>4. CASE UseBarrier(t)
    <3>1. PICK b \in Barrier : addr[t] = b
      BY <2>4, AddressOfKind DEF UseBarrier, OnBarrier
    <3> QED
      BY <2>1, <2>4, <3>1, BarrierCallCount DEF UseBarrier
  <2> QED
    BY <1>2, <2>2, <2>3, <2>4
<1>3. ASSUME NEW t \in Task,
             \/ LookAtName(t) \/ ReadName(t) \/ LookAtObject(t) \/ Free(t)
             \/ SkipUnlock(t) \/ Join(t)
             \/ \E l \in Lock : _mact_vararg_lockasgn(t, l)
             \/ \E e \in Event : _mact_vararg_evasgn(t, e)
             \/ \E b \in Barrier : barasgn_(t, b)
      PROVE  UNCHANGED taskVars
  BY <1>3
  DEF LookAtName, ReadName, LookAtObject, Free, SkipUnlock, Join, StoreNew,
      _mact_vararg_lockasgn, _mact_vararg_evasgn, barasgn_
<1>4. UNCHANGED vars => UNCHANGED taskVars
  BY DEF vars
<1> QED
  BY <1>1, <1>2, <1>3, <1>4, InRuntimeCount DEF Next

LEMMA InitCountInv == ASSUME Autotask = {} PROVE Init => CountInv
<1> SUFFICES ASSUME Init PROVE CountInv
  OBVIOUS
<1>1. /\ \A t \in Task : pc[t] = "user"
      /\ runnable_tasks = Cardinality(Task) /\ aborted = FALSE
  BY DEF Init, TaskInit
<1>2. Counted = Task /\ PutBack = {}
  BY <1>1 DEF Counted, PutBack, Waiting, WaitPc
<1>3. Cardinality(PutBack) = 0
  BY <1>2, FS_EmptySet
<1> QED
  BY <1>1, <1>2, <1>3, TasksInRange DEF CountInv, CountsItsWaiters, NoFalseDeadlock

LEMMA CountInvariant ==
  ASSUME Autotask = {} PROVE Spec /\ []Orderly => [](Inv /\ CountInv)
<1>1. Init => Inv /\ CountInv
  BY InitInv, InitCountInv
<1>2. Inv /\ CountInv /\ Orderly /\ Orderly' /\ [Next]_vars => (Inv /\ CountInv)'
  BY StepInv, StepCount DEF Inv
<1> QED
  BY <1>1, <1>2, PTL DEF Spec

(* The runtime gives up no program of macrotasks that could go on, however *)
(* it mixes locks, events and barriers, whose operations change the one    *)
(* count outside the semaphores that protect them.                         *)
THEOREM NoFalseAlarm ==
  ASSUME Autotask = {} PROVE Spec /\ []Orderly => []NoFalseDeadlock
<1>1. CountInv => NoFalseDeadlock
  BY DEF CountInv, CountsItsWaiters
<1> QED
  BY <1>1, CountInvariant, PTL

(* And it lets no such program whose tasks all sleep, on whatever objects, *)
(* spin for ever without a report.                                         *)
THEOREM HangsReported ==
  ASSUME Autotask = {} PROVE Spec /\ []Orderly => []HangIsReported
<1>1. ASSUME CountInv, \A t \in Task : pc[t] = "spin" /\ mt_state[t] # "TS_Running"
      PROVE  aborted
  <2>1. Counted = {} /\ PutBack = {}
    BY <1>1 DEF Counted, PutBack
  <2>2. runnable_tasks = 0
    BY <1>1, <2>1, FS_EmptySet DEF CountInv, CountsItsWaiters
  <2> QED
    BY <1>1, <2>2 DEF CountInv, CountsItsWaiters
<1>2. CountInv => HangIsReported
  BY <1>1 DEF HangIsReported
<1> QED
  BY <1>2, CountInvariant, PTL

=============================================================================
