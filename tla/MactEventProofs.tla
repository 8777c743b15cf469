-------------------------- MODULE MactEventProofs ---------------------------
(***************************************************************************)
(* Proofs about one event of the macrotasking runtime, for any set of      *)
(* tasks.                                                                  *)
(***************************************************************************)
EXTENDS MactEvent, ChainProofs, TLAPS

-----------------------------------------------------------------------------
(* The inductive invariant behind these properties, for one event: who     *)
(* waits, who posts, and that the queue, or the rest of it that the poster *)
(* is still to walk, is a list of exactly the tasks that sleep.            *)
WaitersWait ==
  \A t \in Task : Waiting(t) =>
    mt_wait_obj[t] \in Event /\ mt_state[t] \in {"TS_Running", "TS_Event_Wait"}

PostersPost ==
  /\ \A u \in Task : pc[u] \in WakePc =>
       /\ obj[u] \in Event /\ me_sem[obj[u]] = u
       /\ pc[u] = "next" => cur[u] \in Task
  /\ \A e \in Event : \A u \in Task : me_sem[e] = u => pc[u] \in WakePc /\ obj[u] = e

First(e) ==
  IF ~Posting(e) THEN me_qhead[e]
  ELSE LET u == me_sem[e] IN IF pc[u] = "next" THEN mt_wait_link[cur[u]] ELSE cur[u]

Sleepers(e) == ListFrom(First(e), mt_wait_link, NULL, Cardinality(Task))

QueuesAreLists ==
  \A e \in Event :
    /\ Sleepers(e) \in Seq(Task)
    /\ IsList(Sleepers(e), First(e), mt_wait_link, NULL)
    /\ Nodes(Sleepers(e)) = {t \in Task : Asleep(t, e)}

QueuesCounted ==
  \A e \in Event : ~Posting(e) =>
    /\ Sleepers(e) # <<>> => me_qtail[e] = Sleepers(e)[Len(Sleepers(e))]
    /\ me_wcount[e] = Len(Sleepers(e))
    /\ me_state[e] = "ES_Posted" => Sleepers(e) = <<>>

EventInv ==
  /\ TypeOK
  /\ WaitersWait
  /\ PostersPost
  /\ QueuesAreLists
  /\ QueuesCounted

(* All waiting is on one event.  With a second one a task that has been    *)
(* let go can link itself into another queue before the poster has read    *)
(* its link.                                                               *)
OneEvent == \A a, e \in Event : a = e

-----------------------------------------------------------------------------
(* The numbers stay within an unsigned int.                                *)
LEMMA CountInRange ==
  ASSUME NEW n \in 0 .. UINT_MAX, NEW k \in 0 .. UINT_MAX
  PROVE  Plus(n, k) \in 0 .. UINT_MAX /\ Minus1(n) \in 0 .. UINT_MAX
BY CountAssumption DEF Plus, Minus1

LEMMA TasksInRange ==
  /\ Cardinality(Task) \in Nat \ {0}
  /\ 2 * Cardinality(Task) <= UINT_MAX
  /\ 0 \in 0 .. UINT_MAX /\ 1 \in 0 .. UINT_MAX /\ 0 \in 0 .. MaxCalls
<1>1. Cardinality(Task) \in Nat /\ Cardinality(Task) # 0
  BY TaskAssumption, FS_CardinalityType, FS_EmptySet
<1> QED
  BY <1>1, CountAssumption

-----------------------------------------------------------------------------
(* The parts of the invariant that a step has to re-establish.             *)
Shape == WaitersWait /\ PostersPost

(* What the list of e has to be after a step.                              *)
IsNext(q, e) ==
  /\ q \in Seq(Task)
  /\ IsList(q, First(e)', mt_wait_link', NULL)
  /\ Nodes(q) = {t \in Task : Asleep(t, e)'}
  /\ ~Posting(e)' =>
       /\ q # <<>> => me_qtail'[e] = q[Len(q)]
       /\ me_wcount'[e] = Len(q)
       /\ me_state'[e] = "ES_Posted" => q = <<>>

(* What a step does to the event e: nothing; a task goes to sleep; one     *)
(* begins to post; one that sleeps is let go; the post is over; the event  *)
(* is cleared.                                                             *)
Stays(e) ==
  /\ Posting(e)' <=> Posting(e)
  /\ \A s \in Task : Asleep(s, e)' <=> Asleep(s, e)
  /\ UNCHANGED me_state
  /\ IsNext(Sleepers(e), e)

Joins(t, e) ==
  /\ pc[t] = "user" /\ me_state[e] = "ES_Cleared"
  /\ ~Posting(e) /\ ~Posting(e)'
  /\ \A s \in Task : Asleep(s, e)' <=> Asleep(s, e) \/ s = t
  /\ UNCHANGED me_state
  /\ IsNext(Append(Sleepers(e), t), e)

Posts(e) ==
  /\ ~Posting(e) /\ Posting(e)'
  /\ \A s \in Task : Asleep(s, e)' <=> Asleep(s, e)
  /\ me_state' = [me_state EXCEPT ![e] = "ES_Posted"]
  /\ IsNext(Sleepers(e), e)

LetsGo(h, e) ==
  /\ Posting(e) /\ Posting(e)'
  /\ \A s \in Task : Asleep(s, e)' <=> Asleep(s, e) /\ s # h
  /\ UNCHANGED me_state
  /\ IsNext(Tail(Sleepers(e)), e)

EndsPost(e) ==
  /\ Posting(e) /\ ~Posting(e)'
  /\ \A s \in Task : ~Asleep(s, e) /\ ~Asleep(s, e)'
  /\ UNCHANGED me_state
  /\ IsNext(<<>>, e)

Clears(e) ==
  /\ ~Posting(e) /\ ~Posting(e)'
  /\ \A s \in Task : Asleep(s, e)' <=> Asleep(s, e)
  /\ me_state' = [me_state EXCEPT ![e] = "ES_Cleared"]
  /\ IsNext(Sleepers(e), e)

Effect(e) ==
  \/ Stays(e)
  \/ \E t \in Task : Joins(t, e) \/ LetsGo(t, e)
  \/ Posts(e) \/ EndsPost(e) \/ Clears(e)

LEMMA WalkOfList ==
  ASSUME NEW q \in Seq(Task), NEW h, IsList(q, h, mt_wait_link, NULL)
  PROVE  /\ WalkEnds(h) /\ Chain(h) = Nodes(q)
         /\ Cardinality(Nodes(q)) = Len(q) /\ Len(q) \in 0 .. Cardinality(Task)
         /\ ListFrom(h, mt_wait_link, NULL, Cardinality(Task)) = q
BY ListIsFound, TaskAssumption DEF Reached, WalkEnds, Chain

LEMMA SleepersAre ==
  ASSUME EventInv, NEW e \in Event
  PROVE  /\ Sleepers(e) \in Seq(Task)
         /\ IsList(Sleepers(e), First(e), mt_wait_link, NULL)
         /\ Nodes(Sleepers(e)) = {t \in Task : Asleep(t, e)}
         /\ Len(Sleepers(e)) \in 0 .. Cardinality(Task)
         /\ Cardinality(Nodes(Sleepers(e))) = Len(Sleepers(e))
         /\ WalkEnds(First(e)) /\ Chain(First(e)) = Nodes(Sleepers(e))
<1> DEFINE q == Sleepers(e)
<1>1. /\ q \in Seq(Task) /\ IsList(q, First(e), mt_wait_link, NULL)
      /\ Nodes(q) = {t \in Task : Asleep(t, e)}
  BY DEF EventInv, QueuesAreLists
<1> HIDE DEF q
<1>2. /\ WalkEnds(First(e)) /\ Chain(First(e)) = Nodes(q)
      /\ Cardinality(Nodes(q)) = Len(q) /\ Len(q) \in 0 .. Cardinality(Task)
  BY <1>1, WalkOfList
<1> QED
  BY <1>1, <1>2 DEF q

LEMMA NextSleepers ==
  ASSUME NEW e \in Event, NEW q, IsNext(q, e)
  PROVE  Sleepers(e)' = q
BY ListIsFound, TaskAssumption DEF IsNext, Sleepers

-----------------------------------------------------------------------------
(* A step that leaves the event and the descriptors alone and moves a task *)
(* neither into nor out of a wait or a post disturbs nothing.              *)
LEMMA QuietStep ==
  ASSUME EventInv,
         UNCHANGED <<obj, cur, mt_state, mt_wait_obj, mt_wait_link, eventVars>>,
         \A t \in Task : /\ pc'[t] \in WaitPc <=> pc[t] \in WaitPc
                         /\ pc'[t] \in WakePc <=> pc[t] \in WakePc
                         /\ pc'[t] = "next" <=> pc[t] = "next"
  PROVE  Shape' /\ \A e \in Event : Effect(e)
<1> USE DEF eventVars
<1>1. \A t \in Task : Waiting(t)' <=> Waiting(t)
  BY DEF Waiting
<1>2. Shape'
  BY <1>1 DEF EventInv, Shape, WaitersWait, PostersPost
<1>3. ASSUME NEW e \in Event PROVE Effect(e)
  <2>1. \A s \in Task : Asleep(s, e)' <=> Asleep(s, e)
    BY <1>1 DEF Asleep
  <2>2. First(e)' = First(e) /\ (Posting(e)' <=> Posting(e))
    BY DEF First, Posting, EventInv, TypeOK, EventTypeOK
  <2>3. IsNext(Sleepers(e), e)
    BY <2>1, <2>2 DEF IsNext, EventInv, QueuesAreLists, QueuesCounted
  <2> QED
    BY <2>1, <2>2, <2>3 DEF Effect, Stays
<1> QED
  BY <1>2, <1>3

(* A task sees that it is running, and EVWAIT returns.                     *)
LEMMA ReturnStep ==
  ASSUME EventInv, NEW t \in Task, evwait_return(t)
  PROVE  Shape' /\ \A e \in Event : Effect(e)
<1> USE DEF EventInv, TypeOK, TaskTypeOK, EventTypeOK
<1>1. /\ pc[t] = "spin" /\ mt_state[t] = "TS_Running"
      /\ pc' = [pc EXCEPT ![t] = "user"]
      /\ UNCHANGED <<calls, obj, cur, mt_state, mt_wait_obj, mt_wait_link>>
      /\ UNCHANGED <<me_state, me_wcount, me_qhead, me_qtail, me_sem>>
  BY DEF evwait_return, SeesItselfRunning, eventVars
<1>2. \A s \in Task : Waiting(s)' <=> Waiting(s) /\ s # t
  BY <1>1 DEF Waiting, WaitPc
<1>3. \A s \in Task : /\ pc'[s] \in WakePc <=> pc[s] \in WakePc
                      /\ pc'[s] = "next" <=> pc[s] = "next"
  BY <1>1 DEF WakePc
<1>4. Shape'
  BY <1>1, <1>2, <1>3 DEF Shape, WaitersWait, PostersPost
<1>5. ASSUME NEW e \in Event PROVE Effect(e)
  <2>1. \A s \in Task : Asleep(s, e)' <=> Asleep(s, e)
    BY <1>1, <1>2 DEF Asleep
  <2>2. First(e)' = First(e) /\ (Posting(e)' <=> Posting(e))
    BY <1>1, <1>3 DEF First, Posting
  <2>3. IsNext(Sleepers(e), e)
    BY <1>1, <2>1, <2>2 DEF IsNext, QueuesAreLists, QueuesCounted
  <2> QED
    BY <1>1, <2>1, <2>2, <2>3 DEF Effect, Stays
<1> QED
  BY <1>4, <1>5

(* A task that finds the event cleared goes to the tail of the queue.      *)
LEMMA JoinStep ==
  ASSUME OneEvent, EventInv, NEW t \in Task, NEW e \in Event, evwait_(t, e), me_state[e] = "ES_Cleared"
  PROVE  Shape' /\ Effect(e)
<1> USE DEF EventInv, TypeOK, TaskTypeOK, EventTypeOK, OneEvent
<1> DEFINE q == Sleepers(e)
<1>1. /\ pc[t] = "user" /\ me_sem[e] = NULL /\ me_state[e] = "ES_Cleared"
      /\ calls' = [calls EXCEPT ![t] = @ + 1]
      /\ mt_wait_obj' = [mt_wait_obj EXCEPT ![t] = e]
      /\ mt_wait_link' = LinkedAtTail(t, me_qhead[e], me_qtail[e])
      /\ mt_state' = [mt_state EXCEPT ![t] = "TS_Event_Wait"]
      /\ pc' = [pc EXCEPT ![t] = "dec"]
      /\ UNCHANGED <<obj, cur, me_sem, me_state>>
      /\ me_qhead' = [me_qhead EXCEPT ![e] = IF @ = NULL THEN t ELSE @]
      /\ me_qtail' = [me_qtail EXCEPT ![e] = t]
      /\ me_wcount' = [me_wcount EXCEPT ![e] = Plus(@, 1)]
  BY DEF evwait_, MakeCall, InUserCode, Park
<1>2. \A s \in Task : Waiting(s)' <=> Waiting(s) \/ s = t
  BY <1>1 DEF Waiting, WaitPc
<1>3. /\ ~Asleep(t, e)
      /\ \A s \in Task : Asleep(s, e)' <=> Asleep(s, e) \/ s = t
  BY <1>1, <1>2 DEF Asleep, Waiting, WaitPc
<1>4. Shape'
  <2>1. WaitersWait'
    BY <1>1, <1>2 DEF WaitersWait
  <2>2. \A s \in Task : pc'[s] \in WakePc => s # t /\ pc'[s] = pc[s]
    BY <1>1 DEF WakePc
  <2>3. PostersPost'
    BY <1>1, <2>2 DEF PostersPost, WakePc
  <2> QED
    BY <2>1, <2>3 DEF Shape
<1>5. ~Posting(e) /\ ~Posting(e)' /\ First(e) = me_qhead[e] /\ First(e)' = me_qhead'[e]
  BY <1>1 DEF Posting, First
<1>6. /\ q \in Seq(Task) /\ IsList(q, me_qhead[e], mt_wait_link, NULL)
      /\ Nodes(q) = {s \in Task : Asleep(s, e)}
      /\ Len(q) \in 0 .. Cardinality(Task) /\ Cardinality(Nodes(q)) = Len(q)
      /\ q # <<>> => me_qtail[e] = q[Len(q)]
  BY <1>5, SleepersAre DEF QueuesCounted
<1>7. t \in Task \ Nodes(q)
  BY <1>3, <1>6
<1> HIDE DEF q
<1>8. /\ q = <<>> <=> me_qhead[e] = NULL
      /\ q # <<>> => me_qtail[e] \in Nodes(q) /\ me_qtail[e] # t
  BY <1>6, <1>7, EndsOfList, TaskAssumption
<1>9. /\ mt_wait_link'[t] = NULL
      /\ q # <<>> => mt_wait_link'[q[Len(q)]] = t
      /\ \A d \in Nodes(q) : d = q[Len(q)] \/ mt_wait_link'[d] = mt_wait_link[d]
  BY <1>1, <1>6, <1>7, <1>8 DEF LinkedAtTail
<1>10. /\ Append(q, t) \in Seq(Task)
       /\ IsList(Append(q, t), IF me_qhead[e] = NULL THEN t ELSE me_qhead[e],
                 mt_wait_link', NULL)
       /\ Nodes(Append(q, t)) = Nodes(q) \cup {t}
       /\ Append(q, t)[Len(Append(q, t))] = t
  <2> HIDE DEF EventInv, TypeOK, TaskTypeOK, EventTypeOK, OneEvent
  <2>1. NULL \notin Task
    BY TaskAssumption
  <2> QED
    BY <1>6, <1>7, <1>9, <2>1, ListGrowsAtTail
<1>11. Len(q) < Cardinality(Task)
  <2>1. Nodes(q) \subseteq Task /\ Nodes(q) # Task
    BY <1>6, <1>7
  <2> HIDE DEF EventInv, TypeOK, TaskTypeOK, EventTypeOK, OneEvent
  <2>2. Cardinality(Nodes(q)) <= Cardinality(Task) /\ Cardinality(Nodes(q)) # Cardinality(Task)
    BY <2>1, TaskAssumption, FS_Subset
  <2> QED
    BY <2>2, <1>6, TasksInRange
<1>12. me_wcount'[e] = Len(Append(q, t)) /\ me_state'[e] # "ES_Posted"
  <2>1. me_wcount[e] = Len(q)
    BY <1>5 DEF QueuesCounted, q
  <2>2. Len(q) + 1 <= UINT_MAX /\ Len(q) \in Nat
    BY <1>6, <1>11, TasksInRange, CountAssumption
  <2>3. Len(Append(q, t)) = Len(q) + 1
    BY <1>6
  <2> QED
    BY <1>1, <2>1, <2>2, <2>3, CountAssumption DEF Plus
<1>13. IsNext(Append(q, t), e)
  <2>1. me_qhead'[e] = IF me_qhead[e] = NULL THEN t ELSE me_qhead[e]
    BY <1>1
  <2>2. Nodes(Append(q, t)) = {s \in Task : Asleep(s, e)'}
    BY <1>3, <1>6, <1>10
  <2>3. me_qtail'[e] = t
    BY <1>1
  <2> QED
    BY <1>5, <1>10, <1>12, <2>1, <2>2, <2>3 DEF IsNext
<1> QED
  BY <1>1, <1>3, <1>4, <1>5, <1>13 DEF Effect, Joins, q

(* EVPOST marks the event, takes the queue's head and keeps the semaphore. *)
LEMMA PostStep ==
  ASSUME OneEvent, EventInv, NEW t \in Task, NEW e \in Event, evpost_(t, e)
  PROVE  Shape' /\ Effect(e)
<1> USE DEF EventInv, TypeOK, TaskTypeOK, EventTypeOK, OneEvent
<1>1. /\ pc[t] = "user" /\ me_sem[e] = NULL
      /\ obj' = [obj EXCEPT ![t] = e]
      /\ cur' = [cur EXCEPT ![t] = me_qhead[e]]
      /\ pc' = [pc EXCEPT ![t] = "inc"]
      /\ UNCHANGED <<mt_state, mt_wait_obj, mt_wait_link>>
      /\ me_sem' = [me_sem EXCEPT ![e] = t]
      /\ UNCHANGED <<me_wcount, me_qhead, me_qtail>>
      /\ me_state' = [me_state EXCEPT ![e] = "ES_Posted"]
  BY DEF evpost_, MakeCall, InUserCode, StartWaking, MarkPosted
<1>2. \A s \in Task : Waiting(s)' <=> Waiting(s)
  BY <1>1 DEF Waiting, WaitPc
<1>3. \A s \in Task : Asleep(s, e)' <=> Asleep(s, e)
  BY <1>1, <1>2 DEF Asleep
<1>4. \A s \in Task : pc[s] \notin WakePc
  BY <1>1, TaskAssumption DEF PostersPost
<1>5. Shape'
  <2>1. WaitersWait'
    BY <1>1, <1>2 DEF WaitersWait
  <2>2. \A s \in Task : pc'[s] \in WakePc => s = t /\ pc'[s] = "inc"
    BY <1>1, <1>4
  <2>3. PostersPost'
    BY <1>1, <2>2 DEF PostersPost, WakePc
  <2> QED
    BY <2>1, <2>3 DEF Shape
<1>6. /\ ~Posting(e) /\ Posting(e)' /\ First(e)' = First(e)
  BY <1>1, TaskAssumption DEF Posting, First
<1>7. IsNext(Sleepers(e), e)
  BY <1>1, <1>3, <1>6 DEF IsNext, QueuesAreLists
<1> QED
  BY <1>1, <1>3, <1>5, <1>6, <1>7 DEF Effect, Posts

(* EVCLEAR.                                                                *)
LEMMA ClearStep ==
  ASSUME OneEvent, EventInv, NEW t \in Task, NEW e \in Event, evclear_(t, e)
  PROVE  Shape' /\ Effect(e)
<1> USE DEF EventInv, TypeOK, TaskTypeOK, EventTypeOK, OneEvent
<1>1. /\ me_sem[e] = NULL
      /\ UNCHANGED <<pc, obj, cur, mt_state, mt_wait_obj, mt_wait_link>>
      /\ UNCHANGED <<me_qhead, me_qtail, me_wcount, me_sem>>
      /\ me_state' = [me_state EXCEPT ![e] = "ES_Cleared"]
  BY DEF evclear_, ReturnAtOnce
<1>2. \A s \in Task : Waiting(s)' <=> Waiting(s)
  BY <1>1 DEF Waiting
<1>3. \A s \in Task : Asleep(s, e)' <=> Asleep(s, e)
  BY <1>1, <1>2 DEF Asleep
<1>4. Shape'
  BY <1>1, <1>2 DEF Shape, WaitersWait, PostersPost
<1>5. ~Posting(e) /\ ~Posting(e)' /\ First(e)' = First(e)
  BY <1>1 DEF Posting, First
<1>6. IsNext(Sleepers(e), e)
  BY <1>1, <1>3, <1>5 DEF IsNext, QueuesAreLists, QueuesCounted
<1> QED
  BY <1>1, <1>3, <1>4, <1>5, <1>6 DEF Effect, Clears

(* The poster lets one task go, the first that still sleeps.               *)
LEMMA WakeStep ==
  ASSUME OneEvent, EventInv, NEW t \in Task, NEW e \in Event, evpost_wake(t)
  PROVE  Shape' /\ Effect(e)
<1> USE DEF EventInv, TypeOK, TaskTypeOK, EventTypeOK, OneEvent
<1> DEFINE q == Sleepers(e)
<1>1. PICK h \in Task : cur[t] = h
  BY DEF evpost_wake, Wake
<1>2. /\ pc[t] = "mark" /\ obj[t] = e
      /\ mt_state' = [mt_state EXCEPT ![h] = "TS_Running"]
      /\ pc' = [pc EXCEPT ![t] = "next"]
      /\ UNCHANGED <<calls, mt_wait_obj, mt_wait_link, obj, cur>>
      /\ UNCHANGED <<me_state, me_wcount, me_qhead, me_qtail, me_sem>>
  BY <1>1 DEF evpost_wake, Wake, eventVars
<1>3. me_sem[e] = t
  BY <1>2 DEF PostersPost, WakePc
<1>4. /\ Posting(e) /\ Posting(e)'
      /\ First(e) = h /\ First(e)' = mt_wait_link[h]
  BY <1>1, <1>2, <1>3, TaskAssumption DEF Posting, First
<1>5. \A s \in Task : Waiting(s)' <=> Waiting(s)
  BY <1>2 DEF Waiting, WaitPc
<1>6. \A s \in Task : Asleep(s, e)' <=> Asleep(s, e) /\ s # h
  BY <1>2, <1>5 DEF Asleep
<1>7. Shape'
  <2>1. WaitersWait'
    BY <1>2, <1>5 DEF WaitersWait
  <2>2. PostersPost'
    BY <1>1, <1>2, <1>3 DEF PostersPost, WakePc
  <2> QED
    BY <2>1, <2>2 DEF Shape
<1>8. q \in Seq(Task) /\ IsList(q, h, mt_wait_link, NULL)
      /\ Nodes(q) = {s \in Task : Asleep(s, e)}
  BY <1>4, SleepersAre
<1> HIDE DEF q
<1>9. /\ Tail(q) \in Seq(Task) /\ IsList(Tail(q), mt_wait_link[h], mt_wait_link, NULL)
      /\ Nodes(Tail(q)) = Nodes(q) \ {h}
  <2>1. q # <<>>
    BY <1>8, EndsOfList, TaskAssumption
  <2> QED
    BY <1>8, <2>1, ListLosesHead, TaskAssumption
<1>10. IsNext(Tail(q), e)
  BY <1>2, <1>4, <1>6, <1>8, <1>9 DEF IsNext
<1> QED
  BY <1>2, <1>4, <1>6, <1>7, <1>10 DEF Effect, LetsGo, q

(* The poster goes on to the next descriptor: the link is still the one of *)
(* the wait that is over.                                                  *)
LEMMA FollowStep ==
  ASSUME OneEvent, EventInv, NEW t \in Task, NEW e \in Event,
         FollowLink(t), UNCHANGED eventVars
  PROVE  Shape' /\ Effect(e)
<1> USE DEF EventInv, TypeOK, TaskTypeOK, EventTypeOK, OneEvent
<1>1. /\ pc[t] = "next"
      /\ cur' = [cur EXCEPT ![t] = mt_wait_link[cur[t]]]
      /\ pc' = [pc EXCEPT ![t] = "mark"]
      /\ UNCHANGED <<calls, obj, mt_state, mt_wait_obj, mt_wait_link>>
      /\ UNCHANGED <<me_state, me_wcount, me_qhead, me_qtail, me_sem>>
  BY DEF FollowLink, eventVars
<1>2. obj[t] = e /\ me_sem[e] = t /\ cur[t] \in Task
  BY <1>1 DEF PostersPost, WakePc
<1>3. \A s \in Task : Waiting(s)' <=> Waiting(s)
  BY <1>1 DEF Waiting, WaitPc
<1>4. \A s \in Task : Asleep(s, e)' <=> Asleep(s, e)
  BY <1>1, <1>3 DEF Asleep
<1>5. Shape'
  <2>1. WaitersWait'
    BY <1>1, <1>3 DEF WaitersWait
  <2>2. PostersPost'
    BY <1>1, <1>2 DEF PostersPost, WakePc
  <2> QED
    BY <2>1, <2>2 DEF Shape
<1>6. Posting(e) /\ Posting(e)' /\ First(e)' = First(e)
  BY <1>1, <1>2, TaskAssumption DEF Posting, First
<1>7. IsNext(Sleepers(e), e)
  BY <1>1, <1>4, <1>6 DEF IsNext, QueuesAreLists
<1> QED
  BY <1>1, <1>4, <1>5, <1>6, <1>7 DEF Effect, Stays

(* The walk has come to its end: everybody has been let go.                *)
LEMMA CloseStep ==
  ASSUME OneEvent, EventInv, NEW t \in Task, NEW e \in Event, evpost_end(t)
  PROVE  Shape' /\ Effect(e)
<1> USE DEF EventInv, TypeOK, TaskTypeOK, EventTypeOK, OneEvent
<1>1. /\ pc[t] = "mark" /\ cur[t] = NULL /\ obj[t] = e
      /\ pc' = [pc EXCEPT ![t] = "user"]
      /\ obj' = [obj EXCEPT ![t] = NULL]
      /\ cur' = [cur EXCEPT ![t] = NULL]
      /\ UNCHANGED <<calls, mt_state, mt_wait_obj, mt_wait_link>>
      /\ me_qhead' = [me_qhead EXCEPT ![e] = NULL]
      /\ me_qtail' = [me_qtail EXCEPT ![e] = NULL]
      /\ me_wcount' = [me_wcount EXCEPT ![e] = 0]
      /\ me_sem' = [me_sem EXCEPT ![e] = NULL]
      /\ UNCHANGED me_state
  BY DEF evpost_end, EndOfWalk, ForgetLocals
<1>2. me_sem[e] = t
  BY <1>1 DEF PostersPost, WakePc
<1>3. \A s \in Task : Waiting(s)' <=> Waiting(s)
  BY <1>1 DEF Waiting, WaitPc
<1>4. First(e) = NULL /\ Posting(e) /\ ~Posting(e)' /\ First(e)' = NULL
  BY <1>1, <1>2, TaskAssumption DEF Posting, First
<1>5. Nodes(Sleepers(e)) = {}
  BY <1>4, SleepersAre, EndsOfList, TaskAssumption
<1>6. \A s \in Task : ~Asleep(s, e) /\ ~Asleep(s, e)'
  <2>1. \A s \in Task : ~Asleep(s, e)
    BY <1>5, SleepersAre
  <2> QED
    BY <1>1, <1>3, <2>1 DEF Asleep
<1>7. Shape'
  <2>1. WaitersWait'
    BY <1>1, <1>3 DEF WaitersWait
  <2>2. \A s \in Task : pc'[s] \notin WakePc
    BY <1>1, <1>2 DEF PostersPost, WakePc
  <2>3. PostersPost'
    BY <1>1, <2>2, TaskAssumption DEF PostersPost
  <2> QED
    BY <2>1, <2>3 DEF Shape
<1>8. IsNext(<<>>, e)
  <2>1. /\ <<>> \in Seq(Task) /\ Len(<<>>) = 0 /\ Nodes(<<>>) = {}
        /\ IsList(<<>>, NULL, mt_wait_link', NULL)
    <3>1. <<>> \in Seq(Task) /\ Len(<<>>) = 0
      OBVIOUS
    <3>2. Nodes(<<>>) = {}
      BY EmptyList
    <3> QED
      BY <3>1, <3>2 DEF IsList
  <2> QED
    BY <1>1, <1>4, <1>6, <2>1 DEF IsNext
<1> QED
  BY <1>1, <1>4, <1>6, <1>7, <1>8 DEF Effect, EndsPost

-----------------------------------------------------------------------------
(* Every step is one of these.                                             *)
LEMMA StepTypeOK == EventInv /\ [Next]_vars => TypeOK'
<1> SUFFICES ASSUME EventInv, [Next]_vars PROVE TypeOK'
  OBVIOUS
<1> USE TaskAssumption, EventAssumption
<1> USE DEF EventInv, TypeOK, TaskTypeOK, EventTypeOK, Pc, TaskState
<1>1. ASSUME NEW t \in Task, NEW e \in Event, evwait_(t, e) PROVE TypeOK'
  <2>1. Plus(me_wcount[e], 1) \in 0 .. UINT_MAX
    BY TasksInRange, CountInRange
  <2>2. LinkedAtTail(t, me_qhead[e], me_qtail[e]) \in [Task -> Task \cup {NULL}]
    BY DEF LinkedAtTail
  <2>3. calls' \in [Task -> 0 .. MaxCalls]
    BY <1>1, CountAssumption DEF evwait_, MakeCall
  <2>4. CASE me_state[e] = "ES_Posted"
    BY <1>1, <2>3, <2>4 DEF evwait_, ReturnAtOnce, eventVars
  <2>5. CASE me_state[e] = "ES_Cleared"
    <3>0. Park(t, e, "TS_Event_Wait", me_qhead[e], me_qtail[e])
      BY <1>1, <2>5 DEF evwait_
    <3>1. TaskTypeOK(Event)'
      BY <2>2, <2>3, <3>0 DEF Park
    <3>2. EventTypeOK'
      BY <1>1, <2>1, <2>5 DEF evwait_
    <3> QED
      BY <3>1, <3>2
  <2> QED
    BY <2>4, <2>5
<1>2. ASSUME NEW t \in Task, NEW e \in Event, evpost_(t, e) PROVE TypeOK'
  <2>1. Cardinality(Chain(me_qhead[e])) \in 0 .. UINT_MAX
    <3>1. me_sem[e] = NULL
      BY <1>2 DEF evpost_
    <3>2. First(e) = me_qhead[e]
      BY <3>1 DEF First, Posting
    <3>3. /\ Chain(First(e)) = Nodes(Sleepers(e))
          /\ Cardinality(Nodes(Sleepers(e))) \in 0 .. Cardinality(Task)
      BY SleepersAre
    <3> QED
      BY <3>2, <3>3, TasksInRange, CountAssumption
  <2>2. calls' \in [Task -> 0 .. MaxCalls]
    BY <1>2, CountAssumption DEF evpost_, MakeCall
  <2> QED
    BY <1>2, <2>1, <2>2 DEF evpost_, StartWaking, MarkPosted
<1>11. ASSUME NEW t \in Task, NEW e \in Event, evclear_(t, e) PROVE TypeOK'
  <2>1. calls' \in [Task -> 0 .. MaxCalls]
    BY <1>11, CountAssumption DEF evclear_, MakeCall
  <2> QED
    BY <1>11, <2>1 DEF evclear_, ReturnAtOnce
<1>3. ASSUME NEW t \in Task, DEC_RUNNABLE_MACT_COUNT(t), UNCHANGED eventVars
      PROVE  TypeOK'
  <2>1. Minus1(runnable_tasks) \in 0 .. UINT_MAX
    BY TasksInRange, CountInRange
  <2> QED
    BY <1>3, <2>1 DEF DEC_RUNNABLE_MACT_COUNT, eventVars
<1>4. ASSUME NEW t \in Task, CHECK_FOR_MACT_DEADLOCK(t), UNCHANGED eventVars
      PROVE  TypeOK'
  BY <1>4 DEF CHECK_FOR_MACT_DEADLOCK, eventVars
<1>5. ASSUME NEW t \in Task, evwait_return(t) PROVE TypeOK'
  BY <1>5 DEF evwait_return, SeesItselfRunning, eventVars
<1>6. ASSUME NEW t \in Task, INC_RUNNABLE_MACT_COUNT(t), UNCHANGED eventVars
      PROVE  TypeOK'
  <2>1. Plus(runnable_tasks, release_count[t]) \in 0 .. UINT_MAX
    BY CountInRange
  <2> QED
    BY <1>6, <2>1 DEF INC_RUNNABLE_MACT_COUNT, eventVars
<1>7. ASSUME NEW t \in Task, evpost_wake(t) PROVE TypeOK'
  BY <1>7 DEF evpost_wake, Wake, eventVars
<1>8. ASSUME NEW t \in Task, FollowLink(t), UNCHANGED eventVars PROVE TypeOK'
  <2>1. cur[t] \in Task
    BY <1>8 DEF FollowLink, PostersPost, WakePc
  <2> QED
    BY <1>8, <2>1 DEF FollowLink, eventVars
<1>9. ASSUME NEW t \in Task, evpost_end(t) PROVE TypeOK'
  BY <1>9, TasksInRange DEF evpost_end, EndOfWalk, ForgetLocals
<1>10. CASE UNCHANGED vars
  BY <1>10 DEF vars, taskVars, eventVars
<1> QED
  BY <1>1, <1>2, <1>3, <1>4, <1>5, <1>6, <1>7, <1>8, <1>9, <1>10, <1>11 DEF Next, InRuntime

LEMMA StepEffect ==
  ASSUME OneEvent
  PROVE  EventInv /\ [Next]_vars => Shape' /\ \A e \in Event : Effect(e)
<1> SUFFICES ASSUME EventInv, [Next]_vars
             PROVE  Shape' /\ \A e \in Event : Effect(e)
  OBVIOUS
<1>1. pc \in [Task -> Pc]
  BY DEF EventInv, TypeOK, TaskTypeOK
<1>2. ASSUME NEW t \in Task, NEW c \in Event,
             evwait_(t, c) \/ evpost_(t, c) \/ evclear_(t, c)
      PROVE  Shape' /\ \A e \in Event : Effect(e)
  <2>1. CASE evwait_(t, c) /\ me_state[c] = "ES_Posted"
    BY <2>1, QuietStep DEF evwait_, ReturnAtOnce, eventVars
  <2>2. CASE evwait_(t, c) /\ me_state[c] = "ES_Cleared"
    BY <2>2, JoinStep DEF OneEvent
  <2>3. CASE evpost_(t, c) \/ evclear_(t, c)
    BY <2>3, PostStep, ClearStep DEF OneEvent
  <2> QED
    BY <1>2, <2>1, <2>2, <2>3 DEF evwait_
<1>3. ASSUME NEW t \in Task, DEC_RUNNABLE_MACT_COUNT(t), UNCHANGED eventVars
      PROVE  Shape' /\ \A e \in Event : Effect(e)
  BY <1>1, <1>3, QuietStep DEF DEC_RUNNABLE_MACT_COUNT, WaitPc, WakePc
<1>4. ASSUME NEW t \in Task, CHECK_FOR_MACT_DEADLOCK(t), UNCHANGED eventVars
      PROVE  Shape' /\ \A e \in Event : Effect(e)
  <2>1. pc' \in {pc, [pc EXCEPT ![t] = "spin"]} /\ pc[t] = "check"
    BY <1>4 DEF CHECK_FOR_MACT_DEADLOCK
  <2> QED
    BY <1>1, <1>4, <2>1, QuietStep DEF CHECK_FOR_MACT_DEADLOCK, WaitPc, WakePc
<1>5. ASSUME NEW t \in Task, evwait_return(t)
      PROVE  Shape' /\ \A e \in Event : Effect(e)
  BY <1>5, ReturnStep
<1>6. ASSUME NEW t \in Task, INC_RUNNABLE_MACT_COUNT(t), UNCHANGED eventVars
      PROVE  Shape' /\ \A e \in Event : Effect(e)
  BY <1>1, <1>6, QuietStep DEF INC_RUNNABLE_MACT_COUNT, WaitPc, WakePc
<1>7. ASSUME NEW t \in Task, evpost_wake(t)
      PROVE  Shape' /\ \A e \in Event : Effect(e)
  <2>1. obj[t] \in Event
    BY <1>7 DEF evpost_wake
  <2> QED
    BY <1>7, <2>1, WakeStep
<1>8. ASSUME NEW t \in Task, FollowLink(t), UNCHANGED eventVars
      PROVE  Shape' /\ \A e \in Event : Effect(e)
  <2>1. obj[t] \in Event
    BY <1>8 DEF FollowLink, EventInv, PostersPost, WakePc
  <2> QED
    BY <1>8, <2>1, FollowStep
<1>9. ASSUME NEW t \in Task, evpost_end(t)
      PROVE  Shape' /\ \A e \in Event : Effect(e)
  <2>1. obj[t] \in Event
    BY <1>9 DEF evpost_end
  <2> QED
    BY <1>9, <2>1, CloseStep
<1>10. CASE UNCHANGED vars
  BY <1>10, QuietStep DEF vars, taskVars, eventVars
<1> QED
  BY <1>2, <1>3, <1>4, <1>5, <1>6, <1>7, <1>8, <1>9, <1>10 DEF Next, InRuntime

LEMMA StepEventInv == ASSUME OneEvent PROVE EventInv /\ [Next]_vars => EventInv'
<1> SUFFICES ASSUME EventInv, [Next]_vars PROVE EventInv'
  OBVIOUS
<1>1. TypeOK' /\ WaitersWait' /\ PostersPost' /\ \A e \in Event : Effect(e)
  BY StepTypeOK, StepEffect DEF Shape
<1>2. ASSUME NEW e \in Event PROVE \E q : IsNext(q, e)
  BY <1>1 DEF Effect, Stays, Joins, Posts, LetsGo, EndsPost, Clears
<1>3. ASSUME NEW e \in Event, NEW q, IsNext(q, e)
      PROVE  /\ Sleepers(e)' \in Seq(Task)
             /\ IsList(Sleepers(e), First(e), mt_wait_link, NULL)'
             /\ Nodes(Sleepers(e))' = {t \in Task : Asleep(t, e)'}
             /\ ~Posting(e)' =>
                  /\ Sleepers(e)' # <<>> => me_qtail'[e] = Sleepers(e)'[Len(Sleepers(e)')]
                  /\ me_wcount'[e] = Len(Sleepers(e)')
                  /\ me_state'[e] = "ES_Posted" => Sleepers(e)' = <<>>
  <2>1. Sleepers(e)' = q
    BY <1>3, NextSleepers
  <2>2. Nodes(Sleepers(e))' = Nodes(q)
    BY <2>1 DEF Nodes
  <2>3. IsList(Sleepers(e), First(e), mt_wait_link, NULL)'
    BY <1>3, <2>1 DEF IsNext, IsList
  <2> QED
    BY <1>3, <2>1, <2>2, <2>3 DEF IsNext
<1>4. QueuesAreLists'
  BY <1>2, <1>3 DEF QueuesAreLists
<1>5. QueuesCounted'
  BY <1>2, <1>3 DEF QueuesCounted
<1> QED
  BY <1>1, <1>4, <1>5 DEF EventInv

LEMMA InitEventInv ==
  Init => EventInv /\ \A e \in Event : ~Posting(e) /\ \A t \in Task : ~Asleep(t, e)
<1> SUFFICES ASSUME Init
             PROVE  /\ EventInv
                    /\ \A e \in Event : ~Posting(e) /\ \A t \in Task : ~Asleep(t, e)
  OBVIOUS
<1> USE TaskAssumption, EventAssumption
<1>1. Cardinality(Task \ Autotask) \in 0 .. UINT_MAX
  <2>1. /\ Cardinality(Task \ Autotask) \in Nat
        /\ Cardinality(Task \ Autotask) <= Cardinality(Task)
    BY FS_Subset, FS_CardinalityType
  <2> QED
    BY <2>1, TasksInRange, CountAssumption
<1>2. TypeOK
  <2>1. mt_state \in [Task -> TaskState]
    BY DEF Init, TaskInit, TaskState
  <2>2. TaskTypeOK(Event)
    BY <1>1, <2>1, TasksInRange DEF Init, TaskInit, TaskTypeOK, Pc
  <2>3. EventTypeOK
    BY TasksInRange DEF Init, EventInit, EventTypeOK
  <2> QED
    BY <2>2, <2>3 DEF TypeOK
<1>3. /\ \A t \in Task : pc[t] = "user"
      /\ \A e \in Event : /\ me_qhead[e] = NULL /\ me_sem[e] = NULL
                            /\ me_wcount[e] = 0
  BY DEF Init, TaskInit, EventInit
<1>4. WaitersWait /\ PostersPost
  BY <1>3 DEF WaitersWait, PostersPost, Waiting, WaitPc, WakePc
<1>5. ASSUME NEW e \in Event
      PROVE  /\ ~Posting(e) /\ \A t \in Task : ~Asleep(t, e)
             /\ First(e) = NULL
  BY <1>3 DEF Posting, Asleep, Waiting, WaitPc, First
<1>6. /\ <<>> \in Seq(Task) /\ Len(<<>>) = 0 /\ Nodes(<<>>) = {}
      /\ IsList(<<>>, NULL, mt_wait_link, NULL)
  BY EmptyList
<1>7. ASSUME NEW e \in Event PROVE Sleepers(e) = <<>>
  BY <1>5, <1>6, WalkOfList DEF Sleepers
<1>8. QueuesAreLists
  BY <1>5, <1>6, <1>7 DEF QueuesAreLists
<1>9. QueuesCounted
  BY <1>3, <1>6, <1>7 DEF QueuesCounted
<1> QED
  BY <1>2, <1>4, <1>5, <1>8, <1>9 DEF EventInv

LEMMA EventInvariant == ASSUME OneEvent PROVE Spec => []EventInv
BY InitEventInv, StepEventInv, PTL DEF Spec

-----------------------------------------------------------------------------
(* Between two calls the queue is a list of exactly the tasks that sleep,  *)
(* as long as me_wcount says, and empty when the event is posted: however  *)
(* waits, a poster's walk, clears and the returns of those who have been   *)
(* let go interleave.                                                      *)
THEOREM QueueStaysIntact == ASSUME OneEvent PROVE Spec => []QueueIntact
<1>1. ASSUME EventInv PROVE QueueIntact
  <2> USE <1>1
  <2> SUFFICES ASSUME NEW e \in Event, ~Posting(e)
               PROVE  /\ WalkEnds(me_qhead[e])
                      /\ Chain(me_qhead[e]) = {t \in Task : Asleep(t, e)}
                      /\ me_wcount[e] = Cardinality(Chain(me_qhead[e]))
                      /\ me_state[e] = "ES_Posted" => me_qhead[e] = NULL
    BY DEF QueueIntact
  <2>1. First(e) = me_qhead[e]
    BY DEF First
  <2>2. /\ me_wcount[e] = Len(Sleepers(e))
        /\ me_state[e] = "ES_Posted" => Sleepers(e) = <<>>
    BY DEF EventInv, QueuesCounted
  <2>3. Sleepers(e) = <<>> => me_qhead[e] = NULL
    BY <2>1, SleepersAre DEF IsList
  <2> QED
    BY <2>1, <2>2, <2>3, SleepersAre
<1>2. EventInv => QueueIntact
  BY <1>1
<1> QED
  BY <1>2, EventInvariant, PTL

-----------------------------------------------------------------------------
(* The event implements EventPromise.                                      *)
LEMMA StepPromise ==
  ASSUME OneEvent
  PROVE  EventInv /\ [Next]_vars
           => [Promise!Next]_<<[e \in Event |-> me_state[e] = "ES_Posted"],
                               [e \in Event |-> SleepingOn(e)]>>
<1> DEFINE posted == [e \in Event |-> me_state[e] = "ES_Posted"]
           waiting == [e \in Event |-> SleepingOn(e)]
<1> SUFFICES ASSUME EventInv, [Next]_vars
             PROVE  [Promise!Next]_<<posted, waiting>>
  OBVIOUS
<1>1. CASE Event = {}
  BY <1>1
<1>2. ASSUME NEW e \in Event, Event = {e} PROVE [Promise!Next]_<<posted, waiting>>
  <2>1. Effect(e) /\ me_state \in [Event -> {"ES_Posted", "ES_Cleared"}]
    BY StepEffect DEF EventInv, TypeOK, EventTypeOK
  <2>2. UNCHANGED me_state => UNCHANGED posted
    OBVIOUS
  <2>3. SleepingOn(e)' = SleepingOn(e) => UNCHANGED waiting
    BY <1>2
  <2>4. CASE Stays(e) \/ EndsPost(e) \/ \E h \in Task : LetsGo(h, e)
    <3>1. SleepingOn(e)' = SleepingOn(e) /\ UNCHANGED me_state
      BY <2>4 DEF SleepingOn, Stays, EndsPost, LetsGo
    <3> QED
      BY <2>2, <2>3, <3>1
  <2>5. ASSUME NEW t \in Task, Joins(t, e) PROVE Promise!Wait(t, e)
    <3>1. UNCHANGED posted /\ ~posted[e]
      BY <2>2, <2>5 DEF Joins
    <3>2. t \notin waiting[e]
      BY <2>5 DEF Joins, SleepingOn, Asleep, Waiting, WaitPc
    <3>3. SleepingOn(e)' = SleepingOn(e) \cup {t}
      BY <2>5 DEF Joins, SleepingOn
    <3>4. waiting' = [waiting EXCEPT ![e] = @ \cup {t}]
      BY <1>2, <3>3
    <3> QED
      BY <3>1, <3>2, <3>4 DEF Promise!Wait
  <2>6. CASE Posts(e)
    <3>1. me_state'[e] = "ES_Posted" /\ SleepingOn(e)' = {}
      BY <2>1, <2>6 DEF Posts, SleepingOn
    <3>2. posted' = [posted EXCEPT ![e] = TRUE] /\ waiting' = [waiting EXCEPT ![e] = {}]
      BY <1>2, <3>1
    <3> QED
      BY <3>2 DEF Promise!Post, Promise!Next
  <2>7. CASE Clears(e)
    <3>1. me_state'[e] = "ES_Cleared" /\ SleepingOn(e)' = SleepingOn(e)
      BY <2>1, <2>7 DEF Clears, SleepingOn
    <3>2. posted' = [posted EXCEPT ![e] = FALSE] /\ waiting' = waiting
      BY <1>2, <2>3, <3>1
    <3> QED
      BY <3>2 DEF Promise!Clear, Promise!Next
  <2> QED
    BY <2>1, <2>4, <2>5, <2>6, <2>7 DEF Effect, Promise!Next
<1> QED
  BY <1>1, <1>2 DEF OneEvent

(* The event keeps its promise: EVWAIT, EVPOST and EVCLEAR each take       *)
(* effect in one step, a post releases all that wait and a posted event    *)
(* stops nobody, even if it is cleared before they have run.               *)
THEOREM EventKeepsPromise == ASSUME OneEvent PROVE Spec => IsEvent
<1>1. Init => Promise!Init
  <2> SUFFICES ASSUME Init PROVE Promise!Init
    OBVIOUS
  <2>1. \A e \in Event : SleepingOn(e) = {} /\ me_state[e] # "ES_Posted"
    BY InitEventInv DEF SleepingOn, Init, EventInit
  <2> QED
    BY <2>1 DEF Promise!Init
<1>2. EventInv /\ [Next]_vars
        => [Promise!Next]_<<[e \in Event |-> me_state[e] = "ES_Posted"],
                            [e \in Event |-> SleepingOn(e)]>>
  BY StepPromise
<1> QED
  BY <1>1, <1>2, EventInvariant, PTL
  DEF Spec, IsEvent, Promise!Spec, Promise!vars
=============================================================================
