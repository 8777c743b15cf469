------------------------- MODULE MactBarrierProofs --------------------------
(***************************************************************************)
(* Proofs about one barrier of the macrotasking runtime, for any set of    *)
(* tasks and any count the barrier is assigned with.                       *)
(***************************************************************************)
EXTENDS MactBarrier, ChainProofs, TLAPS

-----------------------------------------------------------------------------
(* The inductive invariant behind these properties, for one barrier: who   *)
(* waits, who opens, and that the queue, or what is left of it, is a list  *)
(* of exactly the tasks that sleep.                                        *)
WaitersWait ==
  \A t \in Task : Waiting(t) =>
    mt_wait_obj[t] \in Barrier /\ mt_state[t] \in {"TS_Running", "TS_Bar_Wait"}

OpenersOpen ==
  /\ \A u \in Task : pc[u] \in WakePc =>
       /\ obj[u] \in Barrier /\ mb_sem[obj[u]] = u
       /\ pc[u] = "next" => cur[u] \in Task
  /\ \A b \in Barrier : \A u \in Task : mb_sem[b] = u => pc[u] \in WakePc /\ obj[u] = b

Sleepers(b) == ListFrom(First(b), mt_wait_link, NULL, Cardinality(Task))

QueuesAreLists ==
  \A b \in Barrier :
    /\ Sleepers(b) \in Seq(Task)
    /\ IsList(Sleepers(b), First(b), mt_wait_link, NULL)
    /\ Nodes(Sleepers(b)) = {t \in Task : Asleep(t, b)}
    /\ ~Opening(b) /\ Sleepers(b) # <<>> =>
         mb_qtail[b] = Sleepers(b)[Len(Sleepers(b))]

(* How many are still missing, of a count, when some have arrived.  A      *)
(* count of zero is missing as many as an unsigned int can hold.           *)
Missing(count, arrived) ==
  IF count # 0 THEN count - arrived
  ELSE IF arrived = 0 THEN 0 ELSE UINT_MAX + 1 - arrived

Arrivals ==
  \A b \in Barrier : ~Opening(b) =>
    /\ mb_ncount[b] = Missing(mb_ocount[b], Len(Sleepers(b)))
    /\ mb_ocount[b] # 0 => mb_ncount[b] # 0

BarrierInv ==
  /\ TypeOK
  /\ WaitersWait
  /\ OpenersOpen
  /\ QueuesAreLists
  /\ Arrivals

(* And the one behind InStep: all tasks have made as many calls, but for   *)
(* those that have arrived.                                                *)
RoundInv ==
  \A b \in Barrier : Barrier = {b} /\ mb_ocount[b] = Cardinality(Task) =>
    \E k \in Nat : \A t \in Task :
      calls[t] = IF ~Opening(b) /\ Asleep(t, b) THEN k + 1 ELSE k

(* All waiting is at one barrier.  With a second one a task that has been  *)
(* let go can link itself into another queue before the opener has read    *)
(* its link, and the theorems below are false.                             *)
OneBarrier == \A a, b \in Barrier : a = b

-----------------------------------------------------------------------------
(* The numbers stay within an unsigned int.                                *)
LEMMA CountInRange ==
  ASSUME NEW n \in 0 .. UINT_MAX, NEW k \in 0 .. UINT_MAX
  PROVE  Plus(n, k) \in 0 .. UINT_MAX /\ Minus1(n) \in 0 .. UINT_MAX
BY CountAssumption DEF Plus, Minus1

LEMMA TasksInRange ==
  /\ Cardinality(Task) \in Nat \ {0}
  /\ 2 * Cardinality(Task) <= UINT_MAX
  /\ 0 \in 0 .. UINT_MAX /\ 0 \in 0 .. MaxCalls
<1>1. Cardinality(Task) \in Nat /\ Cardinality(Task) # 0
  BY TaskAssumption, FS_CardinalityType, FS_EmptySet
<1> QED
  BY <1>1, CountAssumption

(* One more arrival is one less to wait for, and one is missing before the *)
(* last arrival only.                                                      *)
LEMMA OneLessMissing ==
  ASSUME NEW count \in 0 .. UINT_MAX, NEW n \in 0 .. UINT_MAX, NEW arrived \in Nat,
         arrived < Cardinality(Task), n = Missing(count, arrived),
         count # 0 => n # 0, n # 1
  PROVE  /\ Minus1(n) = Missing(count, arrived + 1)
         /\ count # 0 => Minus1(n) # 0
BY TasksInRange, CountAssumption DEF Missing, Minus1

LEMMA OneIsMissing ==
  ASSUME NEW count \in 0 .. UINT_MAX, NEW n \in 0 .. UINT_MAX, NEW arrived \in Nat,
         arrived <= Cardinality(Task), n = Missing(count, arrived)
  PROVE  n = 1 <=> arrived + 1 = count
BY TasksInRange, CountAssumption DEF Missing

-----------------------------------------------------------------------------
(* The parts of the invariant that a step has to re-establish.             *)
Shape == WaitersWait /\ OpenersOpen

(* What the list of b has to be after a step.                              *)
IsNext(q, b) ==
  /\ q \in Seq(Task)
  /\ IsList(q, First(b)', mt_wait_link', NULL)
  /\ Nodes(q) = {t \in Task : Asleep(t, b)'}
  /\ ~Opening(b)' =>
       /\ q # <<>> => mb_qtail'[b] = q[Len(q)]
       /\ mb_ncount'[b] = Missing(mb_ocount'[b], Len(q))
       /\ mb_ocount'[b] # 0 => mb_ncount'[b] # 0

(* What a step does to the barrier b: nothing; a task arrives and sleeps;  *)
(* the last one arrives and begins to open; one that sleeps is let go; the *)
(* barrier is closed again.                                                *)
Stays(b) ==
  /\ Opening(b)' <=> Opening(b)
  /\ \A s \in Task : Asleep(s, b)' <=> Asleep(s, b)
  /\ UNCHANGED calls
  /\ IsNext(Sleepers(b), b)

Arrives(t, b) ==
  /\ pc[t] = "user" /\ ~LastToArrive(b)
  /\ ~Opening(b) /\ ~Opening(b)'
  /\ \A s \in Task : Asleep(s, b)' <=> Asleep(s, b) \/ s = t
  /\ calls' = [calls EXCEPT ![t] = @ + 1]
  /\ IsNext(Append(Sleepers(b), t), b)

Opens(t, b) ==
  /\ pc[t] = "user" /\ LastToArrive(b)
  /\ ~Opening(b) /\ Opening(b)'
  /\ \A s \in Task : Asleep(s, b)' <=> Asleep(s, b)
  /\ calls' = [calls EXCEPT ![t] = @ + 1]
  /\ IsNext(Sleepers(b), b)

LetsGo(h, b) ==
  /\ Opening(b) /\ Opening(b)'
  /\ \A s \in Task : Asleep(s, b)' <=> Asleep(s, b) /\ s # h
  /\ UNCHANGED calls
  /\ IsNext(Tail(Sleepers(b)), b)

Closes(b) ==
  /\ Opening(b) /\ ~Opening(b)'
  /\ \A s \in Task : ~Asleep(s, b) /\ ~Asleep(s, b)'
  /\ UNCHANGED calls
  /\ IsNext(<<>>, b)

Effect(b) ==
  /\ UNCHANGED mb_ocount
  /\ \/ Stays(b)
     \/ \E t \in Task : Arrives(t, b) \/ Opens(t, b) \/ LetsGo(t, b)
     \/ Closes(b)

LEMMA WalkOfList ==
  ASSUME NEW q \in Seq(Task), NEW h, IsList(q, h, mt_wait_link, NULL)
  PROVE  /\ WalkEnds(h) /\ Chain(h) = Nodes(q)
         /\ Cardinality(Nodes(q)) = Len(q) /\ Len(q) \in 0 .. Cardinality(Task)
         /\ ListFrom(h, mt_wait_link, NULL, Cardinality(Task)) = q
BY ListIsFound, TaskAssumption DEF Reached, WalkEnds, Chain

LEMMA SleepersAre ==
  ASSUME BarrierInv, NEW b \in Barrier
  PROVE  /\ Sleepers(b) \in Seq(Task)
         /\ IsList(Sleepers(b), First(b), mt_wait_link, NULL)
         /\ Nodes(Sleepers(b)) = {t \in Task : Asleep(t, b)}
         /\ Len(Sleepers(b)) \in 0 .. Cardinality(Task)
         /\ Cardinality(Nodes(Sleepers(b))) = Len(Sleepers(b))
         /\ WalkEnds(First(b)) /\ Chain(First(b)) = Nodes(Sleepers(b))
<1> DEFINE q == Sleepers(b)
<1>1. /\ q \in Seq(Task) /\ IsList(q, First(b), mt_wait_link, NULL)
      /\ Nodes(q) = {t \in Task : Asleep(t, b)}
  BY DEF BarrierInv, QueuesAreLists
<1> HIDE DEF q
<1>2. /\ WalkEnds(First(b)) /\ Chain(First(b)) = Nodes(q)
      /\ Cardinality(Nodes(q)) = Len(q) /\ Len(q) \in 0 .. Cardinality(Task)
  BY <1>1, WalkOfList
<1> QED
  BY <1>1, <1>2 DEF q

LEMMA NextSleepers ==
  ASSUME NEW b \in Barrier, NEW q, IsNext(q, b)
  PROVE  Sleepers(b)' = q
BY ListIsFound, TaskAssumption DEF IsNext, Sleepers

-----------------------------------------------------------------------------
(* A step that leaves the barrier and the descriptors alone and moves a    *)
(* task neither into nor out of a wait or an opening disturbs nothing.     *)
LEMMA QuietStep ==
  ASSUME BarrierInv,
         UNCHANGED <<calls, obj, cur, mt_state, mt_wait_obj, mt_wait_link, barrierVars>>,
         \A t \in Task : /\ pc'[t] \in WaitPc <=> pc[t] \in WaitPc
                         /\ pc'[t] \in WakePc <=> pc[t] \in WakePc
                         /\ pc'[t] = "next" <=> pc[t] = "next"
  PROVE  Shape' /\ \A b \in Barrier : Effect(b)
<1> USE DEF barrierVars
<1>1. \A t \in Task : Waiting(t)' <=> Waiting(t)
  BY DEF Waiting
<1>2. Shape'
  BY <1>1 DEF BarrierInv, Shape, WaitersWait, OpenersOpen
<1>3. ASSUME NEW b \in Barrier PROVE Effect(b)
  <2>1. \A s \in Task : Asleep(s, b)' <=> Asleep(s, b)
    BY <1>1 DEF Asleep
  <2>2. First(b)' = First(b) /\ (Opening(b)' <=> Opening(b))
    BY DEF First, Opening, BarrierInv, TypeOK, BarrierTypeOK
  <2>3. IsNext(Sleepers(b), b)
    BY <2>1, <2>2 DEF IsNext, BarrierInv, QueuesAreLists, Arrivals
  <2> QED
    BY <2>1, <2>2, <2>3 DEF Effect, Stays
<1> QED
  BY <1>2, <1>3

(* A task sees that it is running, and BARSYNC returns.                    *)
LEMMA ReturnStep ==
  ASSUME BarrierInv, NEW t \in Task, barsync_return(t)
  PROVE  Shape' /\ \A b \in Barrier : Effect(b)
<1> USE DEF BarrierInv, TypeOK, TaskTypeOK, BarrierTypeOK
<1>1. /\ pc[t] = "spin" /\ mt_state[t] = "TS_Running"
      /\ pc' = [pc EXCEPT ![t] = "user"]
      /\ UNCHANGED <<calls, obj, cur, mt_state, mt_wait_obj, mt_wait_link>>
      /\ UNCHANGED <<mb_ocount, mb_ncount, mb_qhead, mb_qtail, mb_sem>>
  BY DEF barsync_return, SeesItselfRunning, barrierVars
<1>2. \A s \in Task : Waiting(s)' <=> Waiting(s) /\ s # t
  BY <1>1 DEF Waiting, WaitPc
<1>3. \A s \in Task : /\ pc'[s] \in WakePc <=> pc[s] \in WakePc
                      /\ pc'[s] = "next" <=> pc[s] = "next"
  BY <1>1 DEF WakePc
<1>4. Shape'
  BY <1>1, <1>2, <1>3 DEF Shape, WaitersWait, OpenersOpen
<1>5. ASSUME NEW b \in Barrier PROVE Effect(b)
  <2>1. \A s \in Task : Asleep(s, b)' <=> Asleep(s, b)
    BY <1>1, <1>2 DEF Asleep
  <2>2. First(b)' = First(b) /\ (Opening(b)' <=> Opening(b))
    BY <1>1, <1>3 DEF First, Opening
  <2>3. IsNext(Sleepers(b), b)
    BY <1>1, <2>1, <2>2 DEF IsNext, QueuesAreLists, Arrivals
  <2> QED
    BY <1>1, <2>1, <2>2, <2>3 DEF Effect, Stays
<1> QED
  BY <1>4, <1>5

(* A task that is not the last to arrive goes to the tail of the queue.    *)
LEMMA ArriveStep ==
  ASSUME OneBarrier, BarrierInv, NEW t \in Task, NEW b \in Barrier, barsync_(t, b)
  PROVE  Shape' /\ Effect(b)
<1> USE DEF BarrierInv, TypeOK, TaskTypeOK, BarrierTypeOK, OneBarrier
<1> DEFINE q == Sleepers(b)
<1>1. /\ pc[t] = "user" /\ mb_sem[b] = NULL /\ ~LastToArrive(b)
      /\ calls' = [calls EXCEPT ![t] = @ + 1]
      /\ mt_wait_obj' = [mt_wait_obj EXCEPT ![t] = b]
      /\ mt_wait_link' = LinkedAtTail(t, mb_qhead[b], mb_qtail[b])
      /\ mt_state' = [mt_state EXCEPT ![t] = "TS_Bar_Wait"]
      /\ pc' = [pc EXCEPT ![t] = "dec"]
      /\ UNCHANGED <<obj, cur, mb_sem, mb_ocount>>
      /\ mb_qhead' = [mb_qhead EXCEPT ![b] = IF @ = NULL THEN t ELSE @]
      /\ mb_qtail' = [mb_qtail EXCEPT ![b] = t]
      /\ mb_ncount' = [mb_ncount EXCEPT ![b] = Minus1(@)]
  BY DEF barsync_, MakeCall, InUserCode, Park
<1>2. \A s \in Task : Waiting(s)' <=> Waiting(s) \/ s = t
  BY <1>1 DEF Waiting, WaitPc
<1>3. /\ ~Asleep(t, b)
      /\ \A s \in Task : Asleep(s, b)' <=> Asleep(s, b) \/ s = t
  BY <1>1, <1>2 DEF Asleep, Waiting, WaitPc
<1>4. Shape'
  <2>1. WaitersWait'
    BY <1>1, <1>2 DEF WaitersWait
  <2>2. \A s \in Task : pc'[s] \in WakePc => s # t /\ pc'[s] = pc[s]
    BY <1>1 DEF WakePc
  <2>3. OpenersOpen'
    BY <1>1, <2>2 DEF OpenersOpen, WakePc
  <2> QED
    BY <2>1, <2>3 DEF Shape
<1>5. ~Opening(b) /\ ~Opening(b)' /\ First(b) = mb_qhead[b] /\ First(b)' = mb_qhead'[b]
  BY <1>1 DEF Opening, First
<1>6. /\ q \in Seq(Task) /\ IsList(q, mb_qhead[b], mt_wait_link, NULL)
      /\ Nodes(q) = {s \in Task : Asleep(s, b)}
      /\ Len(q) \in 0 .. Cardinality(Task) /\ Cardinality(Nodes(q)) = Len(q)
      /\ q # <<>> => mb_qtail[b] = q[Len(q)]
  BY <1>5, SleepersAre DEF QueuesAreLists
<1>7. t \in Task \ Nodes(q)
  BY <1>3, <1>6
<1> HIDE DEF q
<1>8. /\ q = <<>> <=> mb_qhead[b] = NULL
      /\ q # <<>> => mb_qtail[b] \in Nodes(q) /\ mb_qtail[b] # t
  BY <1>6, <1>7, EndsOfList, TaskAssumption
<1>9. /\ mt_wait_link'[t] = NULL
      /\ q # <<>> => mt_wait_link'[q[Len(q)]] = t
      /\ \A d \in Nodes(q) : d = q[Len(q)] \/ mt_wait_link'[d] = mt_wait_link[d]
  BY <1>1, <1>6, <1>7, <1>8 DEF LinkedAtTail
<1>10. /\ Append(q, t) \in Seq(Task)
       /\ IsList(Append(q, t), IF mb_qhead[b] = NULL THEN t ELSE mb_qhead[b],
                 mt_wait_link', NULL)
       /\ Nodes(Append(q, t)) = Nodes(q) \cup {t}
       /\ Append(q, t)[Len(Append(q, t))] = t
  <2> HIDE DEF BarrierInv, TypeOK, TaskTypeOK, BarrierTypeOK, OneBarrier
  <2>1. NULL \notin Task
    BY TaskAssumption
  <2> QED
    BY <1>6, <1>7, <1>9, <2>1, ListGrowsAtTail
<1>11. Len(q) < Cardinality(Task)
  <2>1. Nodes(q) \subseteq Task /\ Nodes(q) # Task
    BY <1>6, <1>7
  <2> HIDE DEF BarrierInv, TypeOK, TaskTypeOK, BarrierTypeOK, OneBarrier
  <2>2. Cardinality(Nodes(q)) <= Cardinality(Task) /\ Cardinality(Nodes(q)) # Cardinality(Task)
    BY <2>1, TaskAssumption, FS_Subset
  <2> QED
    BY <2>2, <1>6, TasksInRange
<1>12. /\ mb_ncount'[b] = Missing(mb_ocount'[b], Len(Append(q, t)))
       /\ mb_ocount'[b] # 0 => mb_ncount'[b] # 0
  <2>1. mb_ncount[b] = Missing(mb_ocount[b], Len(q)) /\ (mb_ocount[b] # 0 => mb_ncount[b] # 0)
    BY <1>5 DEF Arrivals, q
  <2>2. mb_ncount[b] # 1 /\ Len(q) \in Nat
    BY <1>1, <1>6 DEF LastToArrive
  <2>3. /\ Minus1(mb_ncount[b]) = Missing(mb_ocount[b], Len(q) + 1)
        /\ mb_ocount[b] # 0 => Minus1(mb_ncount[b]) # 0
    BY <1>11, <2>1, <2>2, OneLessMissing
  <2>4. Len(Append(q, t)) = Len(q) + 1
    BY <1>6
  <2> QED
    BY <1>1, <2>3, <2>4
<1>13. IsNext(Append(q, t), b)
  <2>1. mb_qhead'[b] = IF mb_qhead[b] = NULL THEN t ELSE mb_qhead[b]
    BY <1>1
  <2>2. Nodes(Append(q, t)) = {s \in Task : Asleep(s, b)'}
    BY <1>3, <1>6, <1>10
  <2>3. mb_qtail'[b] = t
    BY <1>1
  <2> QED
    BY <1>5, <1>10, <1>12, <2>1, <2>2, <2>3 DEF IsNext
<1> QED
  BY <1>1, <1>3, <1>4, <1>5, <1>13 DEF Effect, Arrives, q

(* The last task to arrive takes the queue's head and keeps the semaphore. *)
LEMMA OpenStep ==
  ASSUME OneBarrier, BarrierInv, NEW t \in Task, NEW b \in Barrier, barsync_open(t, b)
  PROVE  Shape' /\ Effect(b)
<1> USE DEF BarrierInv, TypeOK, TaskTypeOK, BarrierTypeOK, OneBarrier
<1>1. /\ pc[t] = "user" /\ mb_sem[b] = NULL /\ LastToArrive(b)
      /\ calls' = [calls EXCEPT ![t] = @ + 1]
      /\ obj' = [obj EXCEPT ![t] = b]
      /\ cur' = [cur EXCEPT ![t] = mb_qhead[b]]
      /\ pc' = [pc EXCEPT ![t] = "inc"]
      /\ UNCHANGED <<mt_state, mt_wait_obj, mt_wait_link>>
      /\ mb_sem' = [mb_sem EXCEPT ![b] = t]
      /\ UNCHANGED <<mb_ocount, mb_ncount, mb_qhead, mb_qtail>>
  BY DEF barsync_open, MakeCall, InUserCode, StartWaking
<1>2. \A s \in Task : Waiting(s)' <=> Waiting(s)
  BY <1>1 DEF Waiting, WaitPc
<1>3. \A s \in Task : Asleep(s, b)' <=> Asleep(s, b)
  BY <1>1, <1>2 DEF Asleep
<1>4. \A s \in Task : pc[s] \notin WakePc
  BY <1>1, TaskAssumption DEF OpenersOpen
<1>5. Shape'
  <2>1. WaitersWait'
    BY <1>1, <1>2 DEF WaitersWait
  <2>2. \A s \in Task : pc'[s] \in WakePc => s = t /\ pc'[s] = "inc"
    BY <1>1, <1>4
  <2>3. OpenersOpen'
    BY <1>1, <2>2 DEF OpenersOpen, WakePc
  <2> QED
    BY <2>1, <2>3 DEF Shape
<1>6. /\ ~Opening(b) /\ Opening(b)' /\ First(b)' = First(b)
  BY <1>1, TaskAssumption DEF Opening, First
<1>7. IsNext(Sleepers(b), b)
  BY <1>1, <1>3, <1>6 DEF IsNext, QueuesAreLists
<1> QED
  BY <1>1, <1>3, <1>5, <1>6, <1>7 DEF Effect, Opens

(* The opener lets one task go, the first that still sleeps.               *)
LEMMA WakeStep ==
  ASSUME OneBarrier, BarrierInv, NEW t \in Task, NEW b \in Barrier, barsync_wake(t)
  PROVE  Shape' /\ Effect(b)
<1> USE DEF BarrierInv, TypeOK, TaskTypeOK, BarrierTypeOK, OneBarrier
<1> DEFINE q == Sleepers(b)
<1>1. PICK h \in Task : cur[t] = h
  BY DEF barsync_wake, Wake
<1>2. /\ pc[t] = "mark" /\ obj[t] = b
      /\ mt_state' = [mt_state EXCEPT ![h] = "TS_Running"]
      /\ pc' = [pc EXCEPT ![t] = "next"]
      /\ UNCHANGED <<calls, mt_wait_obj, mt_wait_link, obj, cur>>
      /\ UNCHANGED <<mb_ocount, mb_ncount, mb_qhead, mb_qtail, mb_sem>>
  BY <1>1 DEF barsync_wake, Wake, barrierVars
<1>3. mb_sem[b] = t
  BY <1>2 DEF OpenersOpen, WakePc
<1>4. /\ Opening(b) /\ Opening(b)'
      /\ First(b) = h /\ First(b)' = mt_wait_link[h]
  BY <1>1, <1>2, <1>3, TaskAssumption DEF Opening, First
<1>5. \A s \in Task : Waiting(s)' <=> Waiting(s)
  BY <1>2 DEF Waiting, WaitPc
<1>6. \A s \in Task : Asleep(s, b)' <=> Asleep(s, b) /\ s # h
  BY <1>2, <1>5 DEF Asleep
<1>7. Shape'
  <2>1. WaitersWait'
    BY <1>2, <1>5 DEF WaitersWait
  <2>2. OpenersOpen'
    BY <1>1, <1>2, <1>3 DEF OpenersOpen, WakePc
  <2> QED
    BY <2>1, <2>2 DEF Shape
<1>8. q \in Seq(Task) /\ IsList(q, h, mt_wait_link, NULL)
      /\ Nodes(q) = {s \in Task : Asleep(s, b)}
  BY <1>4, SleepersAre
<1> HIDE DEF q
<1>9. /\ Tail(q) \in Seq(Task) /\ IsList(Tail(q), mt_wait_link[h], mt_wait_link, NULL)
      /\ Nodes(Tail(q)) = Nodes(q) \ {h}
  <2>1. q # <<>>
    BY <1>8, EndsOfList, TaskAssumption
  <2> QED
    BY <1>8, <2>1, ListLosesHead, TaskAssumption
<1>10. IsNext(Tail(q), b)
  BY <1>2, <1>4, <1>6, <1>8, <1>9 DEF IsNext
<1> QED
  BY <1>2, <1>4, <1>6, <1>7, <1>10 DEF Effect, LetsGo, q

(* The opener goes on to the next descriptor: the link is still the one of *)
(* the wait that is over.                                                  *)
LEMMA FollowStep ==
  ASSUME OneBarrier, BarrierInv, NEW t \in Task, NEW b \in Barrier,
         FollowLink(t), UNCHANGED barrierVars
  PROVE  Shape' /\ Effect(b)
<1> USE DEF BarrierInv, TypeOK, TaskTypeOK, BarrierTypeOK, OneBarrier
<1>1. /\ pc[t] = "next"
      /\ cur' = [cur EXCEPT ![t] = mt_wait_link[cur[t]]]
      /\ pc' = [pc EXCEPT ![t] = "mark"]
      /\ UNCHANGED <<calls, obj, mt_state, mt_wait_obj, mt_wait_link>>
      /\ UNCHANGED <<mb_ocount, mb_ncount, mb_qhead, mb_qtail, mb_sem>>
  BY DEF FollowLink, barrierVars
<1>2. obj[t] = b /\ mb_sem[b] = t /\ cur[t] \in Task
  BY <1>1 DEF OpenersOpen, WakePc
<1>3. \A s \in Task : Waiting(s)' <=> Waiting(s)
  BY <1>1 DEF Waiting, WaitPc
<1>4. \A s \in Task : Asleep(s, b)' <=> Asleep(s, b)
  BY <1>1, <1>3 DEF Asleep
<1>5. Shape'
  <2>1. WaitersWait'
    BY <1>1, <1>3 DEF WaitersWait
  <2>2. OpenersOpen'
    BY <1>1, <1>2 DEF OpenersOpen, WakePc
  <2> QED
    BY <2>1, <2>2 DEF Shape
<1>6. Opening(b) /\ Opening(b)' /\ First(b)' = First(b)
  BY <1>1, <1>2, TaskAssumption DEF Opening, First
<1>7. IsNext(Sleepers(b), b)
  BY <1>1, <1>4, <1>6 DEF IsNext, QueuesAreLists
<1> QED
  BY <1>1, <1>4, <1>5, <1>6, <1>7 DEF Effect, Stays

(* The walk has come to its end: everybody has been let go.                *)
LEMMA CloseStep ==
  ASSUME OneBarrier, BarrierInv, NEW t \in Task, NEW b \in Barrier, barsync_close(t)
  PROVE  Shape' /\ Effect(b)
<1> USE DEF BarrierInv, TypeOK, TaskTypeOK, BarrierTypeOK, OneBarrier
<1>1. /\ pc[t] = "mark" /\ cur[t] = NULL /\ obj[t] = b
      /\ pc' = [pc EXCEPT ![t] = "user"]
      /\ obj' = [obj EXCEPT ![t] = NULL]
      /\ cur' = [cur EXCEPT ![t] = NULL]
      /\ UNCHANGED <<calls, mt_state, mt_wait_obj, mt_wait_link>>
      /\ mb_qhead' = [mb_qhead EXCEPT ![b] = NULL]
      /\ mb_qtail' = [mb_qtail EXCEPT ![b] = NULL]
      /\ mb_ncount' = [mb_ncount EXCEPT ![b] = mb_ocount[b]]
      /\ mb_sem' = [mb_sem EXCEPT ![b] = NULL]
      /\ UNCHANGED mb_ocount
  BY DEF barsync_close, EndOfWalk, ForgetLocals
<1>2. mb_sem[b] = t
  BY <1>1 DEF OpenersOpen, WakePc
<1>3. \A s \in Task : Waiting(s)' <=> Waiting(s)
  BY <1>1 DEF Waiting, WaitPc
<1>4. First(b) = NULL /\ Opening(b) /\ ~Opening(b)' /\ First(b)' = NULL
  BY <1>1, <1>2, TaskAssumption DEF Opening, First
<1>5. Nodes(Sleepers(b)) = {}
  BY <1>4, SleepersAre, EndsOfList, TaskAssumption
<1>6. \A s \in Task : ~Asleep(s, b) /\ ~Asleep(s, b)'
  <2>1. \A s \in Task : ~Asleep(s, b)
    BY <1>5, SleepersAre
  <2> QED
    BY <1>1, <1>3, <2>1 DEF Asleep
<1>7. Shape'
  <2>1. WaitersWait'
    BY <1>1, <1>3 DEF WaitersWait
  <2>2. \A s \in Task : pc'[s] \notin WakePc
    BY <1>1, <1>2 DEF OpenersOpen, WakePc
  <2>3. OpenersOpen'
    BY <1>1, <2>2, TaskAssumption DEF OpenersOpen
  <2> QED
    BY <2>1, <2>3 DEF Shape
<1>8. IsNext(<<>>, b)
  <2>1. /\ <<>> \in Seq(Task) /\ Len(<<>>) = 0 /\ Nodes(<<>>) = {}
        /\ IsList(<<>>, NULL, mt_wait_link', NULL)
    <3>1. <<>> \in Seq(Task) /\ Len(<<>>) = 0
      OBVIOUS
    <3>2. Nodes(<<>>) = {}
      BY EmptyList
    <3> QED
      BY <3>1, <3>2 DEF IsList
  <2>2. mb_ocount[b] = Missing(mb_ocount[b], 0)
    BY DEF Missing
  <2> QED
    BY <1>1, <1>4, <1>6, <2>1, <2>2 DEF IsNext
<1> QED
  BY <1>1, <1>4, <1>6, <1>7, <1>8 DEF Effect, Closes

-----------------------------------------------------------------------------
(* Every step is one of these.                                             *)
LEMMA StepTypeOK == BarrierInv /\ [Next]_vars => TypeOK'
<1> SUFFICES ASSUME BarrierInv, [Next]_vars PROVE TypeOK'
  OBVIOUS
<1> USE TaskAssumption, BarrierAssumption
<1> USE DEF BarrierInv, TypeOK, TaskTypeOK, BarrierTypeOK, Pc, TaskState
<1>1. ASSUME NEW t \in Task, NEW b \in Barrier, barsync_(t, b) PROVE TypeOK'
  <2>1. Minus1(mb_ncount[b]) \in 0 .. UINT_MAX
    BY TasksInRange, CountInRange
  <2>2. LinkedAtTail(t, mb_qhead[b], mb_qtail[b]) \in [Task -> Task \cup {NULL}]
    BY DEF LinkedAtTail
  <2>3. calls' \in [Task -> 0 .. MaxCalls]
    BY <1>1, CountAssumption DEF barsync_, MakeCall
  <2>4. TaskTypeOK(Barrier)'
    BY <1>1, <2>2, <2>3 DEF barsync_, Park
  <2>5. BarrierTypeOK'
    BY <1>1, <2>1 DEF barsync_
  <2> QED
    BY <2>4, <2>5
<1>2. ASSUME NEW t \in Task, NEW b \in Barrier, barsync_open(t, b) PROVE TypeOK'
  <2>1. Cardinality(Chain(mb_qhead[b])) \in 0 .. UINT_MAX
    <3>1. mb_sem[b] = NULL
      BY <1>2 DEF barsync_open
    <3>2. First(b) = mb_qhead[b]
      BY <3>1 DEF First, Opening
    <3>3. /\ Chain(First(b)) = Nodes(Sleepers(b))
          /\ Cardinality(Nodes(Sleepers(b))) \in 0 .. Cardinality(Task)
      BY SleepersAre
    <3> QED
      BY <3>2, <3>3, TasksInRange, CountAssumption
  <2>2. calls' \in [Task -> 0 .. MaxCalls]
    BY <1>2, CountAssumption DEF barsync_open, MakeCall
  <2> QED
    BY <1>2, <2>1, <2>2 DEF barsync_open, StartWaking
<1>3. ASSUME NEW t \in Task, DEC_RUNNABLE_MACT_COUNT(t), UNCHANGED barrierVars
      PROVE  TypeOK'
  <2>1. Minus1(runnable_tasks) \in 0 .. UINT_MAX
    BY TasksInRange, CountInRange
  <2> QED
    BY <1>3, <2>1 DEF DEC_RUNNABLE_MACT_COUNT, barrierVars
<1>4. ASSUME NEW t \in Task, CHECK_FOR_MACT_DEADLOCK(t), UNCHANGED barrierVars
      PROVE  TypeOK'
  BY <1>4 DEF CHECK_FOR_MACT_DEADLOCK, barrierVars
<1>5. ASSUME NEW t \in Task, barsync_return(t) PROVE TypeOK'
  BY <1>5 DEF barsync_return, SeesItselfRunning, barrierVars
<1>6. ASSUME NEW t \in Task, INC_RUNNABLE_MACT_COUNT(t), UNCHANGED barrierVars
      PROVE  TypeOK'
  <2>1. Plus(runnable_tasks, release_count[t]) \in 0 .. UINT_MAX
    BY CountInRange
  <2> QED
    BY <1>6, <2>1 DEF INC_RUNNABLE_MACT_COUNT, barrierVars
<1>7. ASSUME NEW t \in Task, barsync_wake(t) PROVE TypeOK'
  BY <1>7 DEF barsync_wake, Wake, barrierVars
<1>8. ASSUME NEW t \in Task, FollowLink(t), UNCHANGED barrierVars PROVE TypeOK'
  <2>1. cur[t] \in Task
    BY <1>8 DEF FollowLink, OpenersOpen, WakePc
  <2> QED
    BY <1>8, <2>1 DEF FollowLink, barrierVars
<1>9. ASSUME NEW t \in Task, barsync_close(t) PROVE TypeOK'
  BY <1>9, TasksInRange DEF barsync_close, EndOfWalk, ForgetLocals
<1>10. CASE UNCHANGED vars
  BY <1>10 DEF vars, taskVars, barrierVars
<1> QED
  BY <1>1, <1>2, <1>3, <1>4, <1>5, <1>6, <1>7, <1>8, <1>9, <1>10 DEF Next, InRuntime

LEMMA StepEffect ==
  ASSUME OneBarrier
  PROVE  BarrierInv /\ [Next]_vars => Shape' /\ \A b \in Barrier : Effect(b)
<1> SUFFICES ASSUME BarrierInv, [Next]_vars
             PROVE  Shape' /\ \A b \in Barrier : Effect(b)
  OBVIOUS
<1>1. pc \in [Task -> Pc]
  BY DEF BarrierInv, TypeOK, TaskTypeOK
<1>2. ASSUME NEW t \in Task, NEW c \in Barrier, barsync_(t, c) \/ barsync_open(t, c)
      PROVE  Shape' /\ \A b \in Barrier : Effect(b)
  BY <1>2, ArriveStep, OpenStep DEF OneBarrier
<1>3. ASSUME NEW t \in Task, DEC_RUNNABLE_MACT_COUNT(t), UNCHANGED barrierVars
      PROVE  Shape' /\ \A b \in Barrier : Effect(b)
  BY <1>1, <1>3, QuietStep DEF DEC_RUNNABLE_MACT_COUNT, WaitPc, WakePc
<1>4. ASSUME NEW t \in Task, CHECK_FOR_MACT_DEADLOCK(t), UNCHANGED barrierVars
      PROVE  Shape' /\ \A b \in Barrier : Effect(b)
  <2>1. pc' \in {pc, [pc EXCEPT ![t] = "spin"]} /\ pc[t] = "check"
    BY <1>4 DEF CHECK_FOR_MACT_DEADLOCK
  <2> QED
    BY <1>1, <1>4, <2>1, QuietStep DEF CHECK_FOR_MACT_DEADLOCK, WaitPc, WakePc
<1>5. ASSUME NEW t \in Task, barsync_return(t)
      PROVE  Shape' /\ \A b \in Barrier : Effect(b)
  BY <1>5, ReturnStep
<1>6. ASSUME NEW t \in Task, INC_RUNNABLE_MACT_COUNT(t), UNCHANGED barrierVars
      PROVE  Shape' /\ \A b \in Barrier : Effect(b)
  BY <1>1, <1>6, QuietStep DEF INC_RUNNABLE_MACT_COUNT, WaitPc, WakePc
<1>7. ASSUME NEW t \in Task, barsync_wake(t)
      PROVE  Shape' /\ \A b \in Barrier : Effect(b)
  <2>1. obj[t] \in Barrier
    BY <1>7 DEF barsync_wake
  <2> QED
    BY <1>7, <2>1, WakeStep
<1>8. ASSUME NEW t \in Task, FollowLink(t), UNCHANGED barrierVars
      PROVE  Shape' /\ \A b \in Barrier : Effect(b)
  <2>1. obj[t] \in Barrier
    BY <1>8 DEF FollowLink, BarrierInv, OpenersOpen, WakePc
  <2> QED
    BY <1>8, <2>1, FollowStep
<1>9. ASSUME NEW t \in Task, barsync_close(t)
      PROVE  Shape' /\ \A b \in Barrier : Effect(b)
  <2>1. obj[t] \in Barrier
    BY <1>9 DEF barsync_close
  <2> QED
    BY <1>9, <2>1, CloseStep
<1>10. CASE UNCHANGED vars
  BY <1>10, QuietStep DEF vars, taskVars, barrierVars
<1> QED
  BY <1>2, <1>3, <1>4, <1>5, <1>6, <1>7, <1>8, <1>9, <1>10 DEF Next, InRuntime

LEMMA StepBarrierInv == ASSUME OneBarrier PROVE BarrierInv /\ [Next]_vars => BarrierInv'
<1> SUFFICES ASSUME BarrierInv, [Next]_vars PROVE BarrierInv'
  OBVIOUS
<1>1. TypeOK' /\ WaitersWait' /\ OpenersOpen' /\ \A b \in Barrier : Effect(b)
  BY StepTypeOK, StepEffect DEF Shape
<1>2. ASSUME NEW b \in Barrier PROVE \E q : IsNext(q, b)
  BY <1>1 DEF Effect, Stays, Arrives, Opens, LetsGo, Closes
<1>3. ASSUME NEW b \in Barrier, NEW q, IsNext(q, b)
      PROVE  /\ Sleepers(b)' \in Seq(Task)
             /\ IsList(Sleepers(b), First(b), mt_wait_link, NULL)'
             /\ Nodes(Sleepers(b))' = {t \in Task : Asleep(t, b)'}
             /\ ~Opening(b)' =>
                  /\ Sleepers(b)' # <<>> => mb_qtail'[b] = Sleepers(b)'[Len(Sleepers(b)')]
                  /\ mb_ncount'[b] = Missing(mb_ocount'[b], Len(Sleepers(b)'))
                  /\ mb_ocount'[b] # 0 => mb_ncount'[b] # 0
  <2>1. Sleepers(b)' = q
    BY <1>3, NextSleepers
  <2>2. Nodes(Sleepers(b))' = Nodes(q)
    BY <2>1 DEF Nodes
  <2>3. IsList(Sleepers(b), First(b), mt_wait_link, NULL)'
    BY <1>3, <2>1 DEF IsNext, IsList
  <2> QED
    BY <1>3, <2>1, <2>2, <2>3 DEF IsNext
<1>4. QueuesAreLists'
  BY <1>2, <1>3 DEF QueuesAreLists
<1>5. Arrivals'
  BY <1>2, <1>3 DEF Arrivals
<1> QED
  BY <1>1, <1>4, <1>5 DEF BarrierInv

LEMMA InitBarrierInv ==
  Init => BarrierInv /\ \A b \in Barrier : ~Opening(b) /\ \A t \in Task : ~Asleep(t, b)
<1> SUFFICES ASSUME Init
             PROVE  /\ BarrierInv
                    /\ \A b \in Barrier : ~Opening(b) /\ \A t \in Task : ~Asleep(t, b)
  OBVIOUS
<1> USE TaskAssumption, BarrierAssumption
<1>1. Cardinality(Task \ Autotask) \in 0 .. UINT_MAX
  <2>1. /\ Cardinality(Task \ Autotask) \in Nat
        /\ Cardinality(Task \ Autotask) <= Cardinality(Task)
    BY FS_Subset, FS_CardinalityType
  <2> QED
    BY <2>1, TasksInRange, CountAssumption
<1>2. TypeOK
  <2>1. mt_state \in [Task -> TaskState]
    BY DEF Init, TaskInit, TaskState
  <2>2. TaskTypeOK(Barrier)
    BY <1>1, <2>1, TasksInRange DEF Init, TaskInit, TaskTypeOK, Pc
  <2>3. BarrierTypeOK
    BY DEF Init, BarrierInit, BarrierTypeOK
  <2> QED
    BY <2>2, <2>3 DEF TypeOK
<1>3. /\ \A t \in Task : pc[t] = "user"
      /\ \A b \in Barrier : /\ mb_qhead[b] = NULL /\ mb_sem[b] = NULL
                            /\ mb_ncount[b] = mb_ocount[b]
  BY DEF Init, TaskInit, BarrierInit
<1>4. WaitersWait /\ OpenersOpen
  BY <1>3 DEF WaitersWait, OpenersOpen, Waiting, WaitPc, WakePc
<1>5. ASSUME NEW b \in Barrier
      PROVE  /\ ~Opening(b) /\ \A t \in Task : ~Asleep(t, b)
             /\ First(b) = NULL
  BY <1>3 DEF Opening, Asleep, Waiting, WaitPc, First
<1>6. /\ <<>> \in Seq(Task) /\ Len(<<>>) = 0 /\ Nodes(<<>>) = {}
      /\ IsList(<<>>, NULL, mt_wait_link, NULL)
  BY EmptyList
<1>7. ASSUME NEW b \in Barrier PROVE Sleepers(b) = <<>>
  BY <1>5, <1>6, WalkOfList DEF Sleepers
<1>8. QueuesAreLists
  BY <1>5, <1>6, <1>7 DEF QueuesAreLists
<1>9. Arrivals
  <2> SUFFICES ASSUME NEW b \in Barrier
               PROVE  /\ mb_ncount[b] = Missing(mb_ocount[b], Len(Sleepers(b)))
                      /\ mb_ocount[b] # 0 => mb_ncount[b] # 0
    BY DEF Arrivals
  <2>1. mb_ocount[b] \in Nat /\ Len(Sleepers(b)) = 0
    BY <1>2, <1>6, <1>7 DEF TypeOK, BarrierTypeOK
  <2> QED
    BY <1>3, <2>1 DEF Missing
<1> QED
  BY <1>2, <1>4, <1>5, <1>8, <1>9 DEF BarrierInv

LEMMA BarrierInvariant == ASSUME OneBarrier PROVE Spec => []BarrierInv
BY InitBarrierInv, StepBarrierInv, PTL DEF Spec

-----------------------------------------------------------------------------
(* Between two calls the queue is a list of exactly the tasks that sleep,  *)
(* and the count says how many are missing: however the tasks' arrivals,   *)
(* an opener's walk and the returns of those it has let go interleave, an  *)
(* opening strands no waiter and counts none for the next round.           *)
THEOREM QueueStaysIntact == ASSUME OneBarrier PROVE Spec => []QueueIntact
<1>1. ASSUME BarrierInv PROVE QueueIntact
  <2> USE <1>1
  <2> SUFFICES ASSUME NEW b \in Barrier, ~Opening(b)
               PROVE  /\ WalkEnds(mb_qhead[b])
                      /\ Chain(mb_qhead[b]) = {t \in Task : Asleep(t, b)}
                      /\ mb_ocount[b] # 0 =>
                           mb_ncount[b] + Cardinality(Chain(mb_qhead[b])) = mb_ocount[b]
    BY DEF QueueIntact
  <2>1. First(b) = mb_qhead[b]
    BY DEF First
  <2>2. /\ mb_ncount[b] = Missing(mb_ocount[b], Len(Sleepers(b)))
        /\ mb_ocount[b] \in Nat
    BY DEF BarrierInv, Arrivals, TypeOK, BarrierTypeOK
  <2>3. Len(Sleepers(b)) \in Nat
    BY SleepersAre
  <2>4. mb_ocount[b] # 0 => mb_ncount[b] + Len(Sleepers(b)) = mb_ocount[b]
    BY <2>2, <2>3 DEF Missing
  <2> QED
    BY <2>1, <2>4, SleepersAre
<1>2. BarrierInv => QueueIntact
  BY <1>1
<1> QED
  BY <1>2, BarrierInvariant, PTL

(* Whoever sleeps at the barrier is in its queue, or still ahead of the    *)
(* task that walks the queue: BARSYNC loses no waiter as long as all       *)
(* waiting is at one barrier.                                              *)
THEOREM OneBarrierStrandsNobody == ASSUME OneBarrier PROVE Spec => []NobodyStranded
<1>1. BarrierInv => NobodyStranded
  BY SleepersAre DEF NobodyStranded
<1> QED
  BY <1>1, BarrierInvariant, PTL

-----------------------------------------------------------------------------
(* Rounds.                                                                 *)
LEMMA AllOthersSleep ==
  ASSUME BarrierInv, NEW b \in Barrier, NEW t \in Task, ~Opening(b), ~Asleep(t, b),
         LastToArrive(b), mb_ocount[b] = Cardinality(Task)
  PROVE  \A s \in Task : s # t => Asleep(s, b)
<1> DEFINE N == Nodes(Sleepers(b))
<1>1. /\ N = {s \in Task : Asleep(s, b)} /\ Cardinality(N) = Len(Sleepers(b))
      /\ Len(Sleepers(b)) \in 0 .. Cardinality(Task)
  BY SleepersAre
<1>2. Cardinality(N) + 1 = Cardinality(Task)
  <2>1. /\ mb_ncount[b] = Missing(mb_ocount[b], Len(Sleepers(b))) /\ mb_ncount[b] = 1
        /\ mb_ncount[b] \in 0 .. UINT_MAX /\ mb_ocount[b] \in 0 .. UINT_MAX
    BY DEF BarrierInv, Arrivals, TypeOK, BarrierTypeOK, LastToArrive
  <2>2. Len(Sleepers(b)) \in Nat /\ Len(Sleepers(b)) <= Cardinality(Task)
    BY <1>1, TasksInRange
  <2>3. Len(Sleepers(b)) + 1 = mb_ocount[b]
    BY <2>1, <2>2, OneIsMissing
  <2> QED
    BY <1>1, <2>3
<1>3. /\ N \in SUBSET (Task \ {t}) /\ IsFiniteSet(Task \ {t})
      /\ Cardinality(Task \ {t}) = Cardinality(Task) - 1
  BY <1>1, TaskAssumption, FS_RemoveElement
<1>4. Cardinality(N) \in Nat
  BY <1>1
<1> HIDE DEF N
<1>5. Cardinality(Task \ {t}) = Cardinality(N)
  BY <1>2, <1>3, <1>4, TasksInRange
<1>6. N = Task \ {t}
  BY <1>3, <1>5, FS_Subset
<1> QED
  BY <1>1, <1>6

LEMMA StepRoundInv == ASSUME OneBarrier PROVE BarrierInv /\ RoundInv /\ [Next]_vars => RoundInv'
<1> SUFFICES ASSUME BarrierInv, RoundInv, [Next]_vars, NEW b \in Barrier,
                    Barrier = {b}, mb_ocount'[b] = Cardinality(Task)
             PROVE  \E k \in Nat : \A t \in Task :
                      calls'[t] = IF ~Opening(b)' /\ Asleep(t, b)' THEN k + 1 ELSE k
  BY DEF RoundInv
<1> USE DEF BarrierInv, TypeOK, TaskTypeOK
<1>1. Effect(b) /\ mb_ocount[b] = Cardinality(Task)
  BY StepEffect DEF Effect
<1>2. PICK k \in Nat : \A t \in Task :
        calls[t] = IF ~Opening(b) /\ Asleep(t, b) THEN k + 1 ELSE k
  BY <1>1 DEF RoundInv
<1>3. CASE Stays(b)
  BY <1>2, <1>3 DEF Stays
<1>4. ASSUME NEW t \in Task, Arrives(t, b)
      PROVE  \A s \in Task :
               calls'[s] = IF ~Opening(b)' /\ Asleep(s, b)' THEN k + 1 ELSE k
  <2>1. ~Asleep(t, b)
    BY <1>4 DEF Arrives, Asleep, Waiting, WaitPc
  <2> QED
    BY <1>2, <1>4, <2>1 DEF Arrives
<1>5. ASSUME NEW t \in Task, Opens(t, b)
      PROVE  \A s \in Task :
               calls'[s] = IF ~Opening(b)' /\ Asleep(s, b)' THEN k + 2 ELSE k + 1
  <2>1. ~Asleep(t, b)
    BY <1>5 DEF Opens, Asleep, Waiting, WaitPc
  <2>2. \A s \in Task : s # t => Asleep(s, b)
    BY <1>1, <1>5, <2>1, AllOthersSleep DEF Opens
  <2> QED
    BY <1>2, <1>5, <2>1, <2>2 DEF Opens
<1>6. ASSUME NEW t \in Task, LetsGo(t, b)
      PROVE  \A s \in Task :
               calls'[s] = IF ~Opening(b)' /\ Asleep(s, b)' THEN k + 1 ELSE k
  BY <1>2, <1>6 DEF LetsGo
<1>7. CASE Closes(b)
  BY <1>2, <1>7 DEF Closes
<1> QED
  <2>1. CASE \E t \in Task : Opens(t, b)
    BY <1>5, <2>1
  <2> QED
    BY <1>1, <1>3, <1>4, <1>6, <1>7, <2>1 DEF Effect

(* When one barrier synchronises all tasks, they go round by round:        *)
(* nobody returns from a call of BARSYNC before everybody has made it.     *)
THEOREM RoundsInStep == ASSUME OneBarrier PROVE Spec => []InStep
<1>1. Init => RoundInv
  BY InitBarrierInv DEF Init, TaskInit, RoundInv
<1>2. BarrierInv /\ RoundInv => InStep
  <2> SUFFICES ASSUME BarrierInv, RoundInv, NEW b \in Barrier,
                      Barrier = {b}, mb_ocount[b] = Cardinality(Task),
                      NEW t \in Task, NEW u \in Task
               PROVE  Left(t) <= calls[u]
    BY DEF InStep
  <2>1. PICK k \in Nat : \A s \in Task :
          calls[s] = IF ~Opening(b) /\ Asleep(s, b) THEN k + 1 ELSE k
    BY DEF RoundInv
  <2>2. Asleep(t, b) => pc[t] # "user"
    BY DEF Asleep, Waiting, WaitPc
  <2> QED
    BY <2>1, <2>2 DEF Left
<1> QED
  BY <1>1, <1>2, StepRoundInv, BarrierInvariant, PTL DEF Spec

-----------------------------------------------------------------------------
(* The barrier implements BarrierPromise.                                  *)
LEMMA SameCardinality == \A S : Promise!Cardinality(S) = Cardinality(S)
BY DEF Promise!Cardinality, Cardinality

LEMMA StepCount == [Next]_vars => UNCHANGED mb_ocount
BY DEF Next, InRuntime, barsync_, barsync_open, barsync_return, barsync_wake,
       barsync_close, vars, barrierVars

LEMMA StepPromise ==
  ASSUME OneBarrier
  PROVE  BarrierInv /\ [Next]_vars
           => [Promise!Next]_<<mb_ocount, [b \in Barrier |-> SleepingAt(b)]>>
<1> DEFINE waiting == [b \in Barrier |-> SleepingAt(b)]
<1> SUFFICES ASSUME BarrierInv, [Next]_vars
             PROVE  [Promise!Next]_<<mb_ocount, waiting>>
  OBVIOUS
<1>1. UNCHANGED mb_ocount
  BY StepCount
<1>2. CASE Barrier = {}
  BY <1>1, <1>2
<1>3. ASSUME NEW b \in Barrier, Barrier = {b} PROVE [Promise!Next]_<<mb_ocount, waiting>>
  <2>1. Effect(b)
    BY StepEffect
  <2>2. ASSUME SleepingAt(b)' = SleepingAt(b) PROVE UNCHANGED <<mb_ocount, waiting>>
    BY <1>1, <1>3, <2>2
  <2>3. CASE Stays(b) \/ Closes(b) \/ \E h \in Task : LetsGo(h, b)
    <3>1. SleepingAt(b)' = SleepingAt(b)
      BY <2>3 DEF SleepingAt, Stays, Closes, LetsGo
    <3> QED
      BY <2>2, <3>1
  <2>4. /\ ~Opening(b) => waiting[b] = Nodes(Sleepers(b))
        /\ Cardinality(Nodes(Sleepers(b))) = Len(Sleepers(b))
    BY SleepersAre DEF SleepingAt
  <2>5. ~Opening(b) => (LastToArrive(b) <=> Len(Sleepers(b)) + 1 = mb_ocount[b])
    <3> SUFFICES ASSUME ~Opening(b)
                 PROVE  LastToArrive(b) <=> Len(Sleepers(b)) + 1 = mb_ocount[b]
      OBVIOUS
    <3>1. /\ mb_ncount[b] = Missing(mb_ocount[b], Len(Sleepers(b)))
          /\ mb_ncount[b] \in 0 .. UINT_MAX /\ mb_ocount[b] \in 0 .. UINT_MAX
      BY DEF BarrierInv, Arrivals, TypeOK, BarrierTypeOK
    <3>2. Len(Sleepers(b)) \in Nat /\ Len(Sleepers(b)) <= Cardinality(Task)
      BY SleepersAre, TasksInRange
    <3> QED
      BY <3>1, <3>2, OneIsMissing DEF LastToArrive
  <2>6. ASSUME NEW t \in Task, Arrives(t, b) PROVE Promise!Arrive(t, b)
    <3>1. ~Promise!Complete(b)
      BY <2>4, <2>5, <2>6, SameCardinality DEF Arrives, Promise!Complete
    <3>2. t \notin waiting[b]
      BY <2>6 DEF Arrives, SleepingAt, Asleep, Waiting, WaitPc
    <3>3. SleepingAt(b)' = SleepingAt(b) \cup {t}
      BY <2>6 DEF Arrives, SleepingAt
    <3>4. waiting' = [waiting EXCEPT ![b] = @ \cup {t}]
      BY <1>3, <3>3
    <3> QED
      BY <1>1, <3>1, <3>2, <3>4 DEF Promise!Arrive
  <2>7. ASSUME NEW t \in Task, Opens(t, b) PROVE Promise!Open(b)
    <3>1. Promise!Complete(b)
      BY <2>4, <2>5, <2>7, SameCardinality DEF Opens, Promise!Complete
    <3>2. SleepingAt(b)' = {}
      BY <2>7 DEF Opens, SleepingAt
    <3>3. waiting' = [waiting EXCEPT ![b] = {}]
      BY <1>3, <3>2
    <3> QED
      BY <1>1, <3>1, <3>3 DEF Promise!Open
  <2> QED
    BY <2>1, <2>3, <2>6, <2>7 DEF Effect, Promise!Next
<1> QED
  BY <1>2, <1>3 DEF OneBarrier

(* The barrier keeps its promise: a call of BARSYNC takes effect in one    *)
(* step, and the arrival that completes the count, and no other, releases  *)
(* all that wait.                                                          *)
THEOREM BarrierKeepsPromise == ASSUME OneBarrier PROVE Spec => IsBarrier
<1>1. Init => Promise!Init
  <2> SUFFICES ASSUME Init PROVE Promise!Init
    OBVIOUS
  <2>1. \A b \in Barrier : SleepingAt(b) = {}
    BY InitBarrierInv DEF SleepingAt
  <2> QED
    BY <2>1 DEF Promise!Init, Init, BarrierInit, SleepingAt
<1>2. BarrierInv /\ [Next]_vars
        => [Promise!Next]_<<mb_ocount, [b \in Barrier |-> SleepingAt(b)]>>
  BY StepPromise
<1> QED
  BY <1>1, <1>2, BarrierInvariant, PTL
  DEF Spec, IsBarrier, Promise!Spec, Promise!vars, SleepingAt
=============================================================================
