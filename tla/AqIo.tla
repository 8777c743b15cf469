-------------------------------- MODULE AqIo --------------------------------
(***************************************************************************)
(* Asynchronous queued I/O on one file (libu/aqio): a ring of requests     *)
(* that tasks fill with AQREAD and AQWRITE (_aqenq), start in batches with *)
(* the system's listio (_aqcall), and recall with AQWAIT, AQRECALL, AQSTAT *)
(* and AQCLOSE (_aqrcl waits for one).  Four spin locks, taken in the      *)
(* order of LockName, guard the ring's four pointers; most pointers are    *)
(* also read without their lock.                                           *)
(*                                                                         *)
(* The file is one of the system's own (aq_ffio is NO) on a system with    *)
(* compound listio.  A request's identifier is its number in the order of  *)
(* acceptance: programs do not use one twice.  What listio and the device  *)
(* do is external: a request that was started completes later, well or     *)
(* not; a signal makes listio leave out the rest of its list, and mark it  *)
(* EINTR and done.                                                         *)
(*                                                                         *)
(* History variables say what has become of each request, whatever its     *)
(* slot holds by now.                                                      *)
(***************************************************************************)
EXTENDS Integers, FiniteSets

CONSTANTS
  Queuer,       \* the tasks that call AQREAD and AQWRITE
  Asker,        \* the tasks that call AQWAIT, AQRECALL, AQSTAT
  Closer,       \* the task that calls AQCLOSE, or nobody
  Signalled,    \* the tasks whose listio a signal may interrupt
  NoTask,
  Max,          \* slots of the ring: one more than AQOPEN's aqpsize
  AskAgain,     \* whether programs ask about requests that have been recalled
  MaxRequest, MaxAsks, MaxSignals  \* bounds: requests, calls that ask, signals

Task == Queuer \cup Asker \cup Closer

ASSUME AqAssumption ==
  /\ Max \in Nat /\ Max >= 2
  /\ MaxRequest \in Nat /\ MaxAsks \in Nat /\ MaxSignals \in Nat
  /\ NoTask \notin Task
  /\ AskAgain \in BOOLEAN

VARIABLES
  aq_busy, aq_ptr, aq_nxtq, aq_fird,  \* the ring's pointers, as slot numbers
  lock,                               \* aq_lknxtq, aq_lkbusy, aq_lkptr, aq_lkfird
  aq_reqid, aq_told,                  \* per slot: the request's id; the user knows
  sw,        \* per slot, its status word: "busy" while sw_flag is 0
  inio,      \* external: the slots whose transfer the system is doing
  file,      \* "open", "closing", "closed"
  pc, op,    \* per task: where it is, and the call it is in
  then,      \* where _aqcall returns to
  reqid,     \* the request AQRECALL or AQSTAT was asked about
  p, q,      \* _aqcall's ptr and nxtq (p is also _aqrcl's copy of aq_fird)
  eptr,      \* the slot _aqrcl is to recall
  stop,      \* _aqwait's ptr: where it stops
  asks, signals,                      \* for the bounds
  accepted,  \* history: the requests accepted so far,
  fate,      \* what has become of each,
  over,      \* those whose outcome a call has acted on,
  heard,     \* how often the user was told of each one's error,
  since      \* and, per task, the last request its AQWAIT or AQRECALL waits for

ringVars == <<aq_busy, aq_ptr, aq_nxtq, aq_fird>>
slotVars == <<aq_reqid, aq_told, sw, inio>>
localVars == <<pc, op, then, reqid, p, q, eptr, stop>>
pastVars == <<accepted, fate, over, heard, since>>
vars == <<ringVars, lock, slotVars, file, localVars, asks, signals, pastVars>>

Slot == 0 .. Max - 1
NULL == -1   \* compares as a pointer below every slot
Request == 1 .. MaxRequest
LockName == {"lknxtq", "lkbusy", "lkptr", "lkfird"}
Fate == {"none", "queued", "started", "interrupted", "done", "failed"}
Call == {"none", "enq", "enq_start", "AQWAIT", "AQRECALL", "AQSTAT",
         "AQSTAT_wait", "AQCLOSE"}
Pc == {"user", "enq_busy", "enq_fill", "enq_inc", "call", "fire", "listio",
       "restart", "fired", "rcl", "rcl_ptr", "rcl_fird", "recall", "wait_idle",
       "wait_lock", "wait_loop", "recall_lock", "recall_inside", "stat_lock",
       "stat_busy", "close_lock"}

TypeOK ==
  /\ aq_busy \in Slot /\ aq_ptr \in Slot /\ aq_nxtq \in Slot
  /\ aq_fird \in Slot \cup {NULL}
  /\ lock \in [LockName -> Task \cup {NoTask}]
  /\ aq_reqid \in [Slot -> Request \cup {0}]
  /\ aq_told \in [Slot -> BOOLEAN]
  /\ sw \in [Slot -> {"busy", "done", "error", "EINTR"}]
  /\ inio \subseteq Slot
  /\ file \in {"open", "closing", "closed"}
  /\ pc \in [Task -> Pc] /\ op \in [Task -> Call]
  /\ then \in [Task -> {"user", "rcl", "wait_loop", "close_lock"}]
  /\ reqid \in [Task -> 0 .. MaxRequest]
  /\ p \in [Task -> Slot \cup {NULL}] /\ q \in [Task -> Slot]
  /\ eptr \in [Task -> Slot] /\ stop \in [Task -> Slot]
  /\ asks \in 0 .. MaxAsks /\ signals \in 0 .. MaxSignals
  /\ accepted \in 0 .. MaxRequest
  /\ fate \in [Request -> Fate]
  /\ over \subseteq Request
  /\ heard \in [Request -> 0 .. 2]
  /\ since \in [Task -> 0 .. MaxRequest]

(* AQOPEN: an empty ring, every slot's status done.  It does not set       *)
(* aq_fird, which is NULL until the first batch was issued.                *)
Init ==
  /\ aq_busy = 0 /\ aq_ptr = 0 /\ aq_nxtq = 0 /\ aq_fird = NULL
  /\ lock = [k \in LockName |-> NoTask]
  /\ aq_reqid = [s \in Slot |-> 0]
  /\ aq_told = [s \in Slot |-> FALSE]
  /\ sw = [s \in Slot |-> "done"]
  /\ inio = {}
  /\ file = "open"
  /\ pc = [t \in Task |-> "user"] /\ op = [t \in Task |-> "none"]
  /\ then = [t \in Task |-> "user"]
  /\ reqid = [t \in Task |-> 0]
  /\ p = [t \in Task |-> 0] /\ q = [t \in Task |-> 0]
  /\ eptr = [t \in Task |-> 0] /\ stop = [t \in Task |-> 0]
  /\ asks = 0 /\ signals = 0
  /\ accepted = 0
  /\ fate = [r \in Request |-> "none"]
  /\ over = {}
  /\ heard = [r \in Request |-> 0]
  /\ since = [t \in Task |-> 0]

-----------------------------------------------------------------------------
(* INC_QP, COUNT_QE, and "from first up to, not including, last" as the    *)
(* code tests it: when the two are equal AQRECALL and AQSTAT differ.       *)
INC_QP(i) == IF i + 1 = Max THEN 0 ELSE i + 1
COUNT_QE(end, begin) == IF end >= begin THEN end - begin ELSE end - begin + Max
Between(first, e, last) == IF first <= last THEN first <= e /\ e < last
                                            ELSE first <= e \/ e < last
Inside(first, e, last) == IF first < last THEN first <= e /\ e < last
                                          ELSE first <= e \/ e < last

Free(k) == lock[k] = NoTask
Go(t, next) == pc' = [pc EXCEPT ![t] = next]
Failed(s) == sw[s] \in {"error", "EINTR"}

(* The call returns, and its locals are gone.                              *)
Return(t) ==
  /\ pc' = [pc EXCEPT ![t] = "user"]
  /\ op' = [op EXCEPT ![t] = "none"]
  /\ then' = [then EXCEPT ![t] = "user"]
  /\ reqid' = [reqid EXCEPT ![t] = 0]
  /\ p' = [p EXCEPT ![t] = 0]
  /\ q' = [q EXCEPT ![t] = 0]
  /\ eptr' = [eptr EXCEPT ![t] = 0]
  /\ stop' = [stop EXCEPT ![t] = 0]
  /\ since' = [since EXCEPT ![t] = 0]

(* The user learns that request r failed, or (AQSTAT) how it ended.        *)
Tell(r) == heard' = [heard EXCEPT ![r] = IF @ < 2 THEN @ + 1 ELSE 2]
Answer(r) == heard' = [heard EXCEPT ![r] = IF @ = 0 THEN 1 ELSE @]

-----------------------------------------------------------------------------
(* AQREAD and AQWRITE.  Holding lknxtq, look for a free slot; one is       *)
(* always kept empty, so that a full ring has Max - 1 requests.            *)
_aqenq(t, start) ==
  /\ t \in Queuer
  /\ file = "open" /\ pc[t] = "user"
  /\ accepted < MaxRequest
  /\ Free("lknxtq")
  /\ lock' = [lock EXCEPT !["lknxtq"] = t]
  /\ op' = [op EXCEPT ![t] = IF start THEN "enq_start" ELSE "enq"]
  /\ Go(t, "enq_busy")
  /\ UNCHANGED <<ringVars, slotVars, file, then, reqid, p, q, eptr, stop, asks, signals,
                 pastVars>>

enq_busy_FillsLastSlot(t) ==
  /\ pc[t] = "enq_busy"
  /\ Free("lkbusy")
  /\ IF Max - COUNT_QE(aq_nxtq, aq_busy) < 1
       THEN /\ lock' = [lock EXCEPT !["lkbusy"] = t]
            /\ eptr' = [eptr EXCEPT ![t] = aq_busy]
            /\ IF aq_busy = aq_ptr
                 THEN Go(t, "call") /\ then' = [then EXCEPT ![t] = "rcl"]
                 ELSE Go(t, "rcl") /\ UNCHANGED then
       ELSE Go(t, "enq_fill") /\ UNCHANGED <<lock, eptr, then>>
  /\ UNCHANGED <<ringVars, slotVars, file, op, reqid, p, q, stop, asks, signals, pastVars>>

(* The ring is full: the oldest request is to be recalled, and has to be   *)
(* started first if it was not.  aq_ptr is read without its lock.          *)
enq_busy(t) ==
  /\ pc[t] = "enq_busy"
  /\ Free("lkbusy")
  /\ IF Max - COUNT_QE(aq_nxtq, aq_busy) <= 1
       THEN /\ lock' = [lock EXCEPT !["lkbusy"] = t]
            /\ eptr' = [eptr EXCEPT ![t] = aq_busy]
            /\ IF aq_busy = aq_ptr
                 THEN Go(t, "call") /\ then' = [then EXCEPT ![t] = "rcl"]
                 ELSE Go(t, "rcl") /\ UNCHANGED then
       ELSE Go(t, "enq_fill") /\ UNCHANGED <<lock, eptr, then>>
  /\ UNCHANGED <<ringVars, slotVars, file, op, reqid, p, q, stop, asks, signals, pastVars>>

(* The oldest request is complete, and leaves the ring.  If it failed and  *)
(* the user does not know, this call tells him, and does nothing else.     *)
enq_recalled(t) ==
  /\ pc[t] = "recall" /\ op[t] \in {"enq", "enq_start"}
  /\ sw[eptr[t]] # "busy"
  /\ aq_busy' = INC_QP(aq_busy)
  /\ over' = over \cup ({aq_reqid[eptr[t]]} \ {0})
  /\ IF Failed(eptr[t]) /\ ~aq_told[eptr[t]]
       THEN /\ lock' = [lock EXCEPT !["lkbusy"] = NoTask, !["lknxtq"] = NoTask]
            /\ Tell(aq_reqid[eptr[t]])
            /\ Return(t)
       ELSE /\ lock' = [lock EXCEPT !["lkbusy"] = NoTask]
            /\ Go(t, "enq_fill")
            /\ UNCHANGED <<heard, op, then, reqid, p, q, eptr, stop, since>>
  /\ UNCHANGED <<aq_ptr, aq_nxtq, aq_fird, slotVars, file, asks, signals, accepted, fate>>

enq_fill(t) ==
  /\ pc[t] = "enq_fill"
  /\ aq_reqid' = [aq_reqid EXCEPT ![aq_nxtq] = accepted + 1]
  /\ aq_told' = [aq_told EXCEPT ![aq_nxtq] = FALSE]
  /\ sw' = [sw EXCEPT ![aq_nxtq] = "busy"]
  /\ Go(t, "enq_inc")
  /\ UNCHANGED <<ringVars, lock, inio, file, op, then, reqid, p, q, eptr, stop, asks,
                 signals, pastVars>>

(* The request is in the ring.  It is started at once if the caller wants, *)
(* or the ring is full of requests that were not.                          *)
enq_inc(t) ==
  /\ pc[t] = "enq_inc"
  /\ aq_nxtq' = INC_QP(aq_nxtq)
  /\ lock' = [lock EXCEPT !["lknxtq"] = NoTask]
  /\ accepted' = accepted + 1
  /\ fate' = [fate EXCEPT ![accepted + 1] = "queued"]
  /\ IF op[t] = "enq_start" \/ COUNT_QE(aq_nxtq', aq_ptr) >= Max - 1
       THEN /\ Go(t, "call")
            /\ then' = [then EXCEPT ![t] = "user"]
            /\ UNCHANGED <<op, reqid, p, q, eptr, stop, since>>
       ELSE Return(t)
  /\ UNCHANGED <<aq_busy, aq_ptr, aq_fird, slotVars, file, asks, signals, over, heard>>

-----------------------------------------------------------------------------
(* _aqcall: take all that was not started yet, under lkptr, and start it   *)
(* under lkfird.                                                           *)
EndCall(t) ==
  IF then[t] = "user"
    THEN Return(t)
    ELSE /\ Go(t, then[t])
         /\ p' = [p EXCEPT ![t] = 0] /\ q' = [q EXCEPT ![t] = 0]
         /\ UNCHANGED <<op, then, reqid, eptr, stop, since>>

(* aq_nxtq is read without its lock.                                       *)
_aqcall(t) ==
  /\ pc[t] = "call"
  /\ Free("lkptr")
  /\ IF aq_ptr = aq_nxtq
       THEN EndCall(t) /\ UNCHANGED lock
       ELSE /\ lock' = [lock EXCEPT !["lkptr"] = t]
            /\ p' = [p EXCEPT ![t] = aq_ptr]
            /\ q' = [q EXCEPT ![t] = aq_nxtq]
            /\ Go(t, "fire")
            /\ UNCHANGED <<op, then, reqid, eptr, stop, since>>
  /\ UNCHANGED <<ringVars, slotVars, file, asks, signals, accepted, fate, over, heard>>

call_fire_ReadsNxtqAgain(t) ==
  /\ pc[t] = "fire"
  /\ Free("lkfird")
  /\ lock' = [lock EXCEPT !["lkfird"] = t, !["lkptr"] = NoTask]
  /\ aq_ptr' = aq_nxtq
  /\ Go(t, "listio")
  /\ UNCHANGED <<aq_busy, aq_nxtq, aq_fird, slotVars, file, op, then, reqid, p, q, eptr,
                 stop, asks, signals, pastVars>>

call_fire_KeepsLock(t) ==
  /\ pc[t] = "fire"
  /\ Free("lkfird")
  /\ lock' = [lock EXCEPT !["lkfird"] = t]
  /\ aq_ptr' = q[t]
  /\ Go(t, "listio")
  /\ UNCHANGED <<aq_busy, aq_nxtq, aq_fird, slotVars, file, op, then, reqid, p, q, eptr,
                 stop, asks, signals, pastVars>>

call_fire(t) ==
  /\ pc[t] = "fire"
  /\ Free("lkfird")
  /\ lock' = [lock EXCEPT !["lkfird"] = t, !["lkptr"] = NoTask]
  /\ aq_ptr' = q[t]
  /\ Go(t, "listio")
  /\ UNCHANGED <<aq_busy, aq_nxtq, aq_fird, slotVars, file, op, then, reqid, p, q, eptr,
                 stop, asks, signals, pastVars>>

(* One batch goes to the system, as far as the ring does not wrap around.  *)
BatchEnd(t) == IF p[t] < q[t] THEN q[t] ELSE Max
Batch(t) == p[t] .. BatchEnd(t) - 1
Wrapped(i) == IF i = Max THEN 0 ELSE i

BecomeOf(S, what) ==
  [r \in Request |-> IF \E s \in S : aq_reqid[s] = r THEN what ELSE fate[r]]

call_listio(t) ==
  /\ pc[t] = "listio"
  /\ sw' = [s \in Slot |-> IF s \in Batch(t) THEN "busy" ELSE sw[s]]
  /\ inio' = inio \cup Batch(t)
  /\ fate' = BecomeOf(Batch(t), "started")
  /\ p' = [p EXCEPT ![t] = Wrapped(BatchEnd(t))]
  /\ Go(t, "fired")
  /\ UNCHANGED <<ringVars, lock, aq_reqid, aq_told, file, op, then, reqid, q, eptr, stop,
                 asks, signals, accepted, over, heard, since>>

(* listio fails altogether: all of the batch is marked as done, in error.  *)
call_listio_fails(t) ==
  /\ pc[t] = "listio"
  /\ sw' = [s \in Slot |-> IF s \in Batch(t) THEN "error" ELSE sw[s]]
  /\ fate' = BecomeOf(Batch(t), "failed")
  /\ p' = [p EXCEPT ![t] = Wrapped(BatchEnd(t))]
  /\ Go(t, "fired")
  /\ UNCHANGED <<ringVars, lock, aq_reqid, aq_told, inio, file, op, then, reqid, q, eptr,
                 stop, asks, signals, accepted, over, heard, since>>

(* A signal: the requests from slot k on are not started, and marked.      *)
call_listio_interrupted(t) ==
  /\ pc[t] = "listio"
  /\ t \in Signalled /\ signals < MaxSignals
  /\ signals' = signals + 1
  /\ \E k \in Batch(t) :
       /\ sw' = [s \in Slot |-> IF s \notin Batch(t) THEN sw[s]
                                ELSE IF s < k THEN "busy" ELSE "EINTR"]
       /\ inio' = inio \cup {s \in Batch(t) : s < k}
       /\ fate' = [r \in Request |->
                     IF \E s \in Batch(t) : aq_reqid[s] = r /\ s < k THEN "started"
                     ELSE IF \E s \in Batch(t) : aq_reqid[s] = r THEN "interrupted"
                     ELSE fate[r]]
  /\ Go(t, "restart")
  /\ UNCHANGED <<ringVars, lock, aq_reqid, aq_told, file, op, then, reqid, p, q, eptr,
                 stop, asks, accepted, over, heard, since>>

(* If nothing but EINTR follows the first error, go on from there;         *)
(* otherwise the batch is left as it is.                                   *)
StartAgainAt(t) ==
  {s \in Batch(t) :
     /\ Failed(s)
     /\ \A u \in Batch(t) : IF u < s THEN ~Failed(u) ELSE sw[u] = "EINTR"}

call_restart(t) ==
  /\ pc[t] = "restart"
  /\ \/ \E s \in StartAgainAt(t) : p' = [p EXCEPT ![t] = s]
     \/ StartAgainAt(t) = {} /\ p' = [p EXCEPT ![t] = Wrapped(BatchEnd(t))]
  /\ Go(t, "fired")
  /\ UNCHANGED <<ringVars, lock, slotVars, file, op, then, reqid, q, eptr, stop, asks,
                 signals, pastVars>>

call_fired(t) ==
  /\ pc[t] = "fired"
  /\ aq_fird' = p[t]
  /\ IF p[t] = q[t]
       THEN lock' = [lock EXCEPT !["lkfird"] = NoTask] /\ EndCall(t)
       ELSE Go(t, "listio") /\ UNCHANGED <<lock, op, then, reqid, p, q, eptr, stop, since>>
  /\ UNCHANGED <<aq_busy, aq_ptr, aq_nxtq, slotVars, file, asks, signals, accepted, fate,
                 over, heard>>

-----------------------------------------------------------------------------
(* _aqrcl, called with lkbusy held: if the slot is being started, wait     *)
(* until it was, by way of lkfird; then wait until it is complete (the     *)
(* step "recall", which each caller goes on from in its own way).          *)
_aqrcl(t) ==
  /\ pc[t] = "rcl"
  /\ p' = [p EXCEPT ![t] = aq_fird]
  /\ Go(t, "rcl_ptr")
  /\ UNCHANGED <<ringVars, lock, slotVars, file, op, then, reqid, q, eptr, stop, asks,
                 signals, pastVars>>

rcl_ptr_Never(t) ==
  /\ pc[t] = "rcl_ptr"
  /\ Go(t, "recall")
  /\ p' = [p EXCEPT ![t] = 0]
  /\ UNCHANGED <<ringVars, lock, slotVars, file, op, then, reqid, q, eptr, stop, asks,
                 signals, pastVars>>

rcl_ptr(t) ==
  /\ pc[t] = "rcl_ptr"
  /\ Go(t, IF Between(p[t], eptr[t], aq_ptr) /\ sw[eptr[t]] = "busy"
             THEN "rcl_fird" ELSE "recall")
  /\ p' = [p EXCEPT ![t] = 0]
  /\ UNCHANGED <<ringVars, lock, slotVars, file, op, then, reqid, q, eptr, stop, asks,
                 signals, pastVars>>

rcl_fird(t) ==
  /\ pc[t] = "rcl_fird"
  /\ Free("lkfird")
  /\ Go(t, "recall")
  /\ UNCHANGED <<ringVars, lock, slotVars, file, op, then, reqid, p, q, eptr, stop, asks,
                 signals, pastVars>>

-----------------------------------------------------------------------------
(* AQWAIT: an unlocked look whether the ring is empty (two reads), then    *)
(* everything accepted so far is started and recalled.                     *)
StartAsking(t, call) ==
  /\ t \in Asker
  /\ file = "open" /\ pc[t] = "user"
  /\ asks < MaxAsks
  /\ asks' = asks + 1
  /\ op' = [op EXCEPT ![t] = call]

AQWAIT(t) ==
  /\ StartAsking(t, "AQWAIT")
  /\ eptr' = [eptr EXCEPT ![t] = aq_busy]
  /\ since' = [since EXCEPT ![t] = accepted]
  /\ Go(t, "wait_idle")
  /\ UNCHANGED <<ringVars, lock, slotVars, file, then, reqid, p, q, stop, signals,
                 accepted, fate, over, heard>>

wait_idle(t) ==
  /\ pc[t] = "wait_idle"
  /\ IF eptr[t] = aq_nxtq THEN Return(t)
                          ELSE /\ Go(t, "wait_lock")
                               /\ UNCHANGED <<op, then, reqid, p, q, eptr, stop, since>>
  /\ UNCHANGED <<ringVars, lock, slotVars, file, asks, signals, accepted, fate, over,
                 heard>>

wait_lock_StopsAtPtr(t) ==
  /\ pc[t] = "wait_lock"
  /\ Free("lkbusy")
  /\ lock' = [lock EXCEPT !["lkbusy"] = t]
  /\ stop' = [stop EXCEPT ![t] = aq_ptr]
  /\ Go(t, "call")
  /\ then' = [then EXCEPT ![t] = "wait_loop"]
  /\ UNCHANGED <<ringVars, slotVars, file, op, reqid, p, q, eptr, asks, signals, pastVars>>

wait_lock(t) ==
  /\ pc[t] = "wait_lock"
  /\ Free("lkbusy")
  /\ lock' = [lock EXCEPT !["lkbusy"] = t]
  /\ stop' = [stop EXCEPT ![t] = aq_nxtq]
  /\ Go(t, "call")
  /\ then' = [then EXCEPT ![t] = "wait_loop"]
  /\ UNCHANGED <<ringVars, slotVars, file, op, reqid, p, q, eptr, asks, signals, pastVars>>

(* _aqwait, from its loop on.                                              *)
wait_loop(t) ==
  /\ pc[t] = "wait_loop"
  /\ IF aq_busy = stop[t]
       THEN lock' = [lock EXCEPT !["lkbusy"] = NoTask] /\ Return(t)
       ELSE /\ eptr' = [eptr EXCEPT ![t] = aq_busy]
            /\ Go(t, "rcl")
            /\ UNCHANGED <<lock, op, then, reqid, p, q, stop, since>>
  /\ UNCHANGED <<ringVars, slotVars, file, asks, signals, accepted, fate, over, heard>>

wait_recalled_NotMarked(t) ==
  /\ pc[t] = "recall" /\ op[t] \in {"AQWAIT", "AQRECALL"}
  /\ sw[eptr[t]] # "busy"
  /\ aq_busy' = INC_QP(aq_busy)
  /\ over' = over \cup ({aq_reqid[eptr[t]]} \ {0})
  /\ IF Failed(eptr[t])
       THEN /\ lock' = [lock EXCEPT !["lkbusy"] = NoTask]
            /\ Tell(aq_reqid[eptr[t]])
            /\ Return(t)
       ELSE Go(t, "wait_loop") /\ UNCHANGED <<lock, heard, op, then, reqid, p, q, eptr,
                                              stop, since>>
  /\ UNCHANGED <<aq_ptr, aq_nxtq, aq_fird, aq_reqid, aq_told, sw, inio, file, asks,
                 signals, accepted, fate>>

wait_recalled(t) ==
  /\ pc[t] = "recall" /\ op[t] \in {"AQWAIT", "AQRECALL"}
  /\ sw[eptr[t]] # "busy"
  /\ aq_busy' = INC_QP(aq_busy)
  /\ over' = over \cup ({aq_reqid[eptr[t]]} \ {0})
  /\ IF Failed(eptr[t]) /\ ~aq_told[eptr[t]]
       THEN /\ aq_told' = [aq_told EXCEPT ![eptr[t]] = TRUE]
            /\ lock' = [lock EXCEPT !["lkbusy"] = NoTask]
            /\ Tell(aq_reqid[eptr[t]])
            /\ Return(t)
       ELSE /\ Go(t, "wait_loop")
            /\ UNCHANGED <<lock, aq_told, heard, op, then, reqid, p, q, eptr, stop, since>>
  /\ UNCHANGED <<aq_ptr, aq_nxtq, aq_fird, aq_reqid, sw, inio, file, asks, signals,
                 accepted, fate>>

(* A request a program asks about is one whose AQREAD or AQWRITE has       *)
(* returned.  The code looks for it in every slot, in use or not.          *)
AskedAbout(r) == r <= accepted /\ (AskAgain \/ r \notin over)
HasSlot(r) == \E s \in Slot : aq_reqid[s] = r
SlotOf(r) == CHOOSE s \in Slot : aq_reqid[s] = r

(* The program calls AQRECALL, which then waits for lkbusy: by the time    *)
(* it has it, other tasks may have recalled the request.                   *)
AQRECALL(t, r) ==
  /\ StartAsking(t, "AQRECALL")
  /\ AskedAbout(r)
  /\ reqid' = [reqid EXCEPT ![t] = r]
  /\ since' = [since EXCEPT ![t] = r]
  /\ Go(t, "recall_lock")
  /\ UNCHANGED <<ringVars, lock, slotVars, file, then, p, q, eptr, stop, signals, accepted,
                 fate, over, heard>>

recall_lock(t) ==
  /\ pc[t] = "recall_lock"
  /\ Free("lkbusy")
  /\ IF HasSlot(reqid[t])
       THEN /\ lock' = [lock EXCEPT !["lkbusy"] = t]
            /\ eptr' = [eptr EXCEPT ![t] = SlotOf(reqid[t])]
            /\ Go(t, "recall_inside")
            /\ UNCHANGED <<op, then, reqid, p, q, stop, since>>
       ELSE Return(t) /\ UNCHANGED lock
  /\ UNCHANGED <<ringVars, slotVars, file, asks, signals, accepted, fate, over, heard>>

(* Not holding lknxtq, it reads aq_nxtq after it has found the slot: more  *)
(* requests may be accepted meanwhile, one of them in that slot.  When the *)
(* slot is not between aq_busy and aq_nxtq, it returns at once.            *)
recall_inside(t) ==
  /\ pc[t] = "recall_inside"
  /\ IF Inside(aq_busy, eptr[t], aq_nxtq)
       THEN /\ stop' = [stop EXCEPT ![t] = INC_QP(eptr[t])]
            /\ Go(t, "call")
            /\ then' = [then EXCEPT ![t] = "wait_loop"]
            /\ UNCHANGED <<lock, op, reqid, p, q, eptr, since>>
       ELSE lock' = [lock EXCEPT !["lkbusy"] = NoTask] /\ Return(t)
  /\ UNCHANGED <<ringVars, slotVars, file, asks, signals, accepted, fate, over, heard>>

-----------------------------------------------------------------------------
(* AQSTAT, with or without its argument wait, takes lknxtq and then        *)
(* lkbusy.                                                                 *)
AQSTAT(t, r, wait) ==
  /\ StartAsking(t, IF wait THEN "AQSTAT_wait" ELSE "AQSTAT")
  /\ AskedAbout(r)
  /\ reqid' = [reqid EXCEPT ![t] = r]
  /\ Go(t, "stat_lock")
  /\ UNCHANGED <<ringVars, lock, slotVars, file, then, p, q, eptr, stop, signals,
                 pastVars>>

stat_lock(t) ==
  /\ pc[t] = "stat_lock"
  /\ Free("lknxtq")
  /\ lock' = [lock EXCEPT !["lknxtq"] = t]
  /\ Go(t, "stat_busy")
  /\ UNCHANGED <<ringVars, slotVars, file, op, then, reqid, p, q, eptr, stop, asks,
                 signals, pastVars>>

(* With both locks no slot changes its request.  When none has it, or it   *)
(* is not complete and not to be waited for, AQSTAT returns.  Otherwise it *)
(* is recalled where it is; a wait starts it first if need be.             *)
stat_busy(t) ==
  /\ pc[t] = "stat_busy"
  /\ Free("lkbusy")
  /\ LET e == SlotOf(reqid[t]) IN
       IF ~HasSlot(reqid[t]) \/ (op[t] = "AQSTAT" /\ sw[e] = "busy")
         THEN /\ lock' = [lock EXCEPT !["lknxtq"] = NoTask]
              /\ Return(t)
         ELSE /\ lock' = [lock EXCEPT !["lknxtq"] = NoTask, !["lkbusy"] = t]
              /\ eptr' = [eptr EXCEPT ![t] = e]
              /\ IF op[t] = "AQSTAT_wait" /\ ~Between(aq_busy, e, aq_ptr)
                   THEN Go(t, "call") /\ then' = [then EXCEPT ![t] = "rcl"]
                   ELSE Go(t, "rcl") /\ UNCHANGED then
              /\ UNCHANGED <<op, reqid, p, q, stop, since>>
  /\ UNCHANGED <<ringVars, slotVars, file, asks, signals, accepted, fate, over, heard>>

stat_recalled(t) ==
  /\ pc[t] = "recall" /\ op[t] \in {"AQSTAT", "AQSTAT_wait"}
  /\ sw[eptr[t]] # "busy"
  /\ aq_busy' = IF aq_busy = eptr[t] THEN INC_QP(aq_busy) ELSE aq_busy
  /\ aq_told' = [aq_told EXCEPT ![eptr[t]] = TRUE]
  /\ over' = over \cup {aq_reqid[eptr[t]]}
  /\ IF Failed(eptr[t]) THEN Answer(aq_reqid[eptr[t]]) ELSE UNCHANGED heard
  /\ lock' = [lock EXCEPT !["lkbusy"] = NoTask]
  /\ Return(t)
  /\ UNCHANGED <<aq_ptr, aq_nxtq, aq_fird, aq_reqid, sw, inio, file, asks, signals,
                 accepted, fate>>

-----------------------------------------------------------------------------
AQCLOSE_DoesNotStart(t) ==
  /\ t \in Closer
  /\ file = "open" /\ \A u \in Task : pc[u] = "user"
  /\ file' = "closing"
  /\ op' = [op EXCEPT ![t] = "AQCLOSE"]
  /\ Go(t, "close_lock")
  /\ UNCHANGED <<ringVars, lock, slotVars, then, reqid, p, q, eptr, stop, asks, signals,
                 pastVars>>

(* AQCLOSE: start what was not started, recall everything, and free the    *)
(* ring.  A program closes a file when no other task is using it.          *)
AQCLOSE(t) ==
  /\ t \in Closer
  /\ file = "open" /\ \A u \in Task : pc[u] = "user"
  /\ file' = "closing"
  /\ op' = [op EXCEPT ![t] = "AQCLOSE"]
  /\ IF aq_nxtq # aq_ptr
       THEN Go(t, "call") /\ then' = [then EXCEPT ![t] = "close_lock"]
       ELSE Go(t, "close_lock") /\ UNCHANGED then
  /\ UNCHANGED <<ringVars, lock, slotVars, reqid, p, q, eptr, stop, asks, signals,
                 pastVars>>

(* On to the next request that was started, or to the end.                 *)
CloseFrom(t, busy) ==
  IF busy = aq_ptr
    THEN /\ lock' = [k \in LockName |-> NoTask]
         /\ file' = "closed"
         /\ Return(t)
    ELSE /\ lock' = [lock EXCEPT !["lknxtq"] = t, !["lkbusy"] = t, !["lkptr"] = t]
         /\ eptr' = [eptr EXCEPT ![t] = busy]
         /\ Go(t, "rcl")
         /\ UNCHANGED <<file, op, then, reqid, p, q, stop, since>>

close_lock(t) ==
  /\ pc[t] = "close_lock"
  /\ Free("lknxtq") /\ Free("lkbusy") /\ Free("lkptr")
  /\ CloseFrom(t, aq_busy)
  /\ UNCHANGED <<ringVars, slotVars, asks, signals, accepted, fate, over, heard>>

(* Of several errors the last overwrites the user's status: nothing here   *)
(* counts as heard.                                                        *)
close_recalled(t) ==
  /\ pc[t] = "recall" /\ op[t] = "AQCLOSE"
  /\ sw[eptr[t]] # "busy"
  /\ aq_busy' = INC_QP(aq_busy)
  /\ aq_told' = [aq_told EXCEPT ![eptr[t]] = @ \/ Failed(eptr[t])]
  /\ over' = over \cup ({aq_reqid[eptr[t]]} \ {0})
  /\ CloseFrom(t, INC_QP(aq_busy))
  /\ UNCHANGED <<aq_ptr, aq_nxtq, aq_fird, aq_reqid, sw, inio, asks, signals, accepted,
                 fate, heard>>

-----------------------------------------------------------------------------
(* External: the system completes a transfer, at any time, in any order.   *)
Complete(s) ==
  /\ s \in inio
  /\ inio' = inio \ {s}
  /\ \E good \in BOOLEAN :
       /\ sw' = [sw EXCEPT ![s] = IF good THEN "done" ELSE "error"]
       /\ fate' = BecomeOf({s}, IF good THEN "done" ELSE "failed")
  /\ UNCHANGED <<ringVars, lock, aq_reqid, aq_told, file, localVars, asks, signals,
                 accepted, over, heard, since>>

InCall(t) ==
  \/ enq_busy(t) \/ enq_recalled(t) \/ enq_fill(t) \/ enq_inc(t)
  \/ _aqcall(t) \/ call_fire(t)
  \/ call_listio(t) \/ call_listio_fails(t) \/ call_listio_interrupted(t)
  \/ call_restart(t) \/ call_fired(t)
  \/ _aqrcl(t) \/ rcl_ptr(t) \/ rcl_fird(t)
  \/ wait_idle(t) \/ wait_lock(t) \/ wait_loop(t) \/ wait_recalled(t)
  \/ recall_lock(t) \/ recall_inside(t)
  \/ stat_lock(t) \/ stat_busy(t) \/ stat_recalled(t)
  \/ close_lock(t) \/ close_recalled(t)

Next ==
  \/ \E t \in Task :
       \/ \E start \in BOOLEAN : _aqenq(t, start)
       \/ AQWAIT(t)
       \/ \E r \in Request : AQRECALL(t, r)
       \/ \E r \in Request, wait \in BOOLEAN : AQSTAT(t, r, wait)
       \/ AQCLOSE(t)
       \/ InCall(t)
  \/ \E s \in Slot : Complete(s)

Spec == Init /\ [][Next]_vars

(* Tasks keep running, and the system completes what it has started.       *)
Fairness ==
  /\ \A t \in Task : WF_vars(InCall(t))
  /\ \A s \in Slot : WF_vars(Complete(s))

FairSpec == Spec /\ Fairness

-----------------------------------------------------------------------------
(* Requests go to the system in the order of acceptance and each once, and *)
(* none is started, ended or overwritten after a call has acted on its     *)
(* outcome, though _aqcall works on copies of aq_ptr and aq_nxtq without   *)
(* their locks while other tasks recall, free and fill slots (the comment  *)
(* at aqcall.c:72-86 argues that this is safe).                            *)
Promise == INSTANCE AqPromise
KeepsPromise == Promise!Spec

(* aq_ptr is always between aq_busy and aq_nxtq (aqio.h:50-56).            *)
PointersInOrder ==
  COUNT_QE(aq_ptr, aq_busy) <= COUNT_QE(aq_nxtq, aq_busy)

(* aq_fird "lags aq_ptr while the requests are actually being issued" and  *)
(* only then: whoever gets lkfird finds nothing between the two, on which  *)
(* _aqrcl relies to wait for an issuer (aqio.h:54-56, aqrcl.c:95-98).      *)
(* Until the first batch was issued, NULL stands for the first slot.       *)
FiredFrom(ptr) == IF ptr = NULL THEN 0 ELSE ptr
FiredUpToPtr == Free("lkfird") => aq_ptr = FiredFrom(aq_fird)

(* The locks are "locked in the order that they appear" (aqio.h:80-87): a  *)
(* task that waits for one has none that comes later, so that no set of    *)
(* tasks waits in a circle.                                                *)
Rank == [lknxtq |-> 1, lkbusy |-> 2, lkptr |-> 3, lkfird |-> 4]
WaitsFor(t) ==
  IF pc[t] \in {"enq_busy", "wait_lock", "recall_lock", "stat_busy"} THEN {"lkbusy"}
  ELSE IF pc[t] = "stat_lock" THEN {"lknxtq"}
  ELSE IF pc[t] = "call" THEN {"lkptr"}
  ELSE IF pc[t] \in {"fire", "rcl_fird"} THEN {"lkfird"}
  ELSE IF pc[t] = "close_lock" THEN {"lknxtq", "lkbusy", "lkptr"}
  ELSE {}

LocksInOrder ==
  \A t \in Task : \A k \in WaitsFor(t), j \in LockName : lock[j] = t => Rank[j] < Rank[k]

(* Nobody waits for a request that was not given to the system: _aqrcl     *)
(* would ask the system for it a million times, and then report an         *)
(* internal error.  aq_fird and aq_ptr are read without their locks to     *)
(* ensure it (aqcall.c:83-85).                                             *)
NoBlindRecall ==
  \A t \in Task : pc[t] = "recall" /\ sw[eptr[t]] = "busy" => eptr[t] \in inio

(* The user hears of each failed request once: a request that failed does  *)
(* not leave the ring before he was told, by whichever of the calls came   *)
(* first, and no later call tells him again ("only report an error, if the *)
(* user has not yet seen it").  AQCLOSE reports the last error only.       *)
ToldOnce ==
  /\ \A r \in Request : heard[r] <= 1
  /\ file = "open" =>
       \A r \in over : fate[r] \in {"failed", "interrupted"} => heard[r] = 1

(* When AQWAIT has waited and returns with no error, everything accepted   *)
(* before it began is complete; and when AQRECALL does, its request and    *)
(* all before it.                                                          *)
Ended(r) == fate[r] \in {"done", "failed", "interrupted"}

WaitMeansDone ==
  [][\A t \in Task :
       /\ op[t] \in {"AQWAIT", "AQRECALL"} /\ pc[t] # "wait_idle"
       /\ op'[t] = "none" /\ heard' = heard
       => \A r \in 1 .. since[t] : Ended(r)]_vars

(* When AQWAIT answers IDLE, everything accepted before it began is        *)
(* complete: it has compared aq_busy and aq_nxtq without a lock, for       *)
(* "since all pointers only advance, the copies will remain sufficiently   *)
(* valid for the current operation" (aqio.h:58-62).                        *)
IdleMeansIdle ==
  [][\A t \in Task :
       pc[t] = "wait_idle" /\ pc'[t] = "user" =>
         \A r \in 1 .. since[t] : Ended(r)]_vars

(* AQCLOSE frees a ring the system no longer writes to, and leaves no      *)
(* request behind.                                                         *)
CloseFinishes ==
  file = "closed" => inio = {} /\ over = 1 .. accepted

(* Four locks, taken one inside the other, and waits for the system with   *)
(* locks held: every call returns all the same.  Programs make finitely    *)
(* many calls here, so that this is the same as: in the end no task is in  *)
(* a call.                                                                 *)
EveryCallReturns == <>[](\A t \in Task : pc[t] = "user")
=============================================================================
