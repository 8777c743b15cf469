----------------------------- MODULE AqIoProofs -----------------------------
(***************************************************************************)
(* Theorems about AqIo: where its tasks are and what they hold, for any    *)
(* program; the order of its ring; and what it promises, built on that     *)
(* order, as long as calls that look for a request do not do so in an      *)
(* empty ring (InTime) and signals do not hit AQREAD and AQWRITE; and that *)
(* programs with one task that asks, about requests not recalled yet, keep *)
(* to that.                                                                *)
(***************************************************************************)
EXTENDS AqIo, TLAPS

(* Where a task can be in which call, and where _aqcall returns to.        *)
InEnq(t) == op[t] \in {"enq", "enq_start"}
InWait(t) == op[t] \in {"AQWAIT", "AQRECALL"}
InStat(t) == op[t] \in {"AQSTAT", "AQSTAT_wait"}

Calling(t) == pc[t] \in {"call", "fire", "listio", "restart", "fired"}
Recalling(t) == pc[t] \in {"rcl", "rcl_ptr", "rcl_fird", "recall"}

Place(t) ==
  /\ pc[t] \in {"enq_busy", "enq_fill", "enq_inc"} => InEnq(t)
  /\ pc[t] \in {"wait_idle", "wait_lock", "wait_loop"} => InWait(t)
  /\ pc[t] \in {"recall_lock", "recall_inside"} => op[t] = "AQRECALL"
  /\ pc[t] \in {"stat_lock", "stat_busy"} => InStat(t)
  /\ pc[t] = "close_lock" => op[t] = "AQCLOSE"
  /\ pc[t] = "user" <=> op[t] = "none"
  /\ Calling(t) =>
       \/ InEnq(t) /\ then[t] \in {"user", "rcl"}
       \/ InWait(t) /\ then[t] = "wait_loop"
       \/ InStat(t) /\ then[t] = "rcl"
       \/ op[t] = "AQCLOSE" /\ then[t] = "close_lock"

(* The locks a task holds: those with which its call goes into _aqcall or  *)
(* _aqrcl, and those that _aqcall takes itself.                            *)
Brought(t) ==
  IF InEnq(t) THEN IF Calling(t) /\ then[t] = "user" THEN {} ELSE {"lknxtq", "lkbusy"}
  ELSE IF op[t] = "AQCLOSE" THEN IF Calling(t) THEN {} ELSE {"lknxtq", "lkbusy", "lkptr"}
  ELSE {"lkbusy"}

Needed(t) ==
  IF pc[t] \in {"enq_busy", "enq_fill", "enq_inc", "stat_busy"} THEN {"lknxtq"}
  ELSE IF pc[t] \in {"wait_loop", "recall_inside"} THEN {"lkbusy"}
  ELSE IF Recalling(t) \/ pc[t] = "call" THEN Brought(t)
  ELSE IF pc[t] = "fire" THEN Brought(t) \cup {"lkptr"}
  ELSE IF Calling(t) THEN Brought(t) \cup {"lkfird"}
  ELSE {}

Held(t) == \A k \in LockName : lock[k] = t <=> k \in Needed(t)

(* A file is closed by one task alone.                                     *)
Alone(t) ==
  op[t] = "AQCLOSE" => file = "closing" /\ \A u \in Task : pc[u] # "user" => u = t

Closed(t) == file # "open" => pc[t] = "user" \/ op[t] = "AQCLOSE"

ControlTypeOK ==
  /\ lock \in [LockName -> Task \cup {NoTask}]
  /\ file \in {"open", "closing", "closed"}
  /\ pc \in [Task -> Pc] /\ op \in [Task -> Call]
  /\ then \in [Task -> {"user", "rcl", "wait_loop", "close_lock"}]

Control ==
  /\ ControlTypeOK
  /\ \A t \in Task : Place(t) /\ Held(t) /\ Alone(t) /\ Closed(t)

-----------------------------------------------------------------------------
(* A step of t moves t, and takes and gives back locks for t only.         *)
Moves(t) ==
  /\ \A u \in Task \ {t} : UNCHANGED <<pc[u], op[u], then[u]>>
  /\ \A u \in Task \ {t}, k \in LockName : lock'[k] = u <=> lock[k] = u
  /\ file' = file
  /\ op'[t] \in {op[t], "none"} \/ (op'[t] # "AQCLOSE" /\ file = "open")

Steps(t) == ControlTypeOK' /\ Moves(t) /\ Place(t)' /\ Held(t)'

LEMMA OthersStay ==
  ASSUME Control, NEW t \in Task, Steps(t)
  PROVE  Control'
<1> USE DEF Steps, Moves
<1>1. ASSUME NEW u \in Task \ {t} PROVE Place(u)' /\ Held(u)'
  <2>1. Place(u) /\ Held(u)
    BY <1>1 DEF Control
  <2>2. UNCHANGED <<pc[u], op[u], then[u]>>
    BY <1>1
  <2>3. Place(u)'
    BY <2>1, <2>2 DEF Place, InEnq, InWait, InStat, Calling
  <2>4. Needed(u)' = Needed(u)
    BY <2>2 DEF Needed, Brought, InEnq, Calling, Recalling
  <2> QED BY <1>1, <2>1, <2>3, <2>4 DEF Held
<1>2. ASSUME NEW u \in Task PROVE Alone(u)' /\ Closed(u)'
  <2>1. Place(t) /\ Place(t)' /\ Place(u) /\ Alone(u) /\ Closed(u) /\ Alone(t) /\ Closed(t)
    BY DEF Control
  <2>2. op[u] # "AQCLOSE" => op'[u] # "AQCLOSE"
    <3>1. CASE u = t
      BY <2>1, <3>1 DEF Closed
    <3>2. CASE u # t
      BY <3>2
    <3> QED BY <3>1, <3>2
  <2>3. ASSUME NEW v \in Task, pc'[v] # "user" PROVE pc[v] # "user" \/ file = "open"
    <3>1. CASE v = t
      BY <2>1, <2>3, <3>1 DEF Place
    <3>2. CASE v # t
      BY <2>3, <3>2
    <3> QED BY <3>1, <3>2
  <2>4. Alone(u)'
    BY <2>1, <2>2, <2>3 DEF Alone
  <2>5. Closed(u)'
    <3>1. CASE u = t
      BY <2>1, <3>1 DEF Closed, Place
    <3>2. CASE u # t
      BY <2>1, <3>2 DEF Closed
    <3> QED BY <3>1, <3>2
  <2> QED BY <2>4, <2>5
<1> QED BY <1>1, <1>2 DEF Control

(* Where a call of each kind goes, one lemma for each part of the program. *)
LEMMA EnqControl ==
  ASSUME Control, NEW t \in Task,
         \/ \E start \in BOOLEAN : _aqenq(t, start)
         \/ enq_busy(t)
         \/ enq_recalled(t)
         \/ enq_fill(t)
         \/ enq_inc(t)
  PROVE  Steps(t)
<1>t. ControlTypeOK /\ NoTask \notin Task /\ Place(t) /\ Held(t)
  BY AqAssumption DEF Control
<1> USE DEF Steps, Moves, ControlTypeOK, Pc, Call, LockName, Go, Free
<1>1. CASE \E start \in BOOLEAN : _aqenq(t, start)
  <2>0. PICK start \in BOOLEAN : _aqenq(t, start)
    BY <1>1
  <2>1. ControlTypeOK' /\ Moves(t)
    BY <1>t, <2>0 DEF _aqenq
  <2>2. Place(t)'
    BY <1>t, <2>0 DEF _aqenq, Place, InEnq, InWait, InStat, Calling
  <2>3. Held(t)'
    BY <1>t, <2>0 DEF _aqenq, Held, Place, Needed, Brought, InEnq, InWait, InStat,
       Recalling, Calling
  <2> QED BY <2>1, <2>2, <2>3
<1>2. CASE enq_busy(t)
  <2>1. ControlTypeOK' /\ Moves(t)
    BY <1>t, <1>2 DEF enq_busy
  <2>2. Place(t)'
    BY <1>t, <1>2 DEF enq_busy, Place, InEnq, InWait, InStat, Calling
  <2>3. Held(t)'
    BY <1>t, <1>2 DEF enq_busy, Held, Place, Needed, Brought, InEnq, InWait, InStat,
       Recalling, Calling
  <2> QED BY <2>1, <2>2, <2>3
<1>3. CASE enq_recalled(t)
  <2>a. lock["lkbusy"] = t /\ lock["lknxtq"] = t
    BY <1>t, <1>3 DEF enq_recalled, Held, Needed, Brought, Place, InEnq, InWait, InStat,
       Calling, Recalling
  <2>1. ControlTypeOK' /\ Moves(t)
    BY <1>t, <1>3, <2>a DEF enq_recalled, Return
  <2>2. Place(t)'
    BY <1>t, <1>3 DEF enq_recalled, Return, Place, InEnq, InWait, InStat, Calling
  <2>3. Held(t)'
    BY <1>t, <1>3 DEF enq_recalled, Return, Held, Place, Needed, Brought, InEnq, InWait,
       InStat, Recalling, Calling
  <2> QED BY <2>1, <2>2, <2>3
<1>4. CASE enq_fill(t)
  <2>1. ControlTypeOK' /\ Moves(t)
    BY <1>t, <1>4 DEF enq_fill
  <2>2. Place(t)'
    BY <1>t, <1>4 DEF enq_fill, Place, InEnq, InWait, InStat, Calling
  <2>3. Held(t)'
    BY <1>t, <1>4 DEF enq_fill, Held, Place, Needed, Brought, InEnq, InWait, InStat,
       Recalling, Calling
  <2> QED BY <2>1, <2>2, <2>3
<1>5. CASE enq_inc(t)
  <2>a. lock["lknxtq"] = t
    BY <1>t, <1>5 DEF enq_inc, Held, Needed, Brought, Place, InEnq, InWait, InStat, Calling,
       Recalling
  <2>1. ControlTypeOK' /\ Moves(t)
    BY <1>t, <1>5, <2>a DEF enq_inc, Return
  <2>2. Place(t)'
    BY <1>t, <1>5 DEF enq_inc, Return, Place, InEnq, InWait, InStat, Calling
  <2>3. Held(t)'
    BY <1>t, <1>5 DEF enq_inc, Return, Held, Place, Needed, Brought, InEnq, InWait, InStat,
       Recalling, Calling
  <2> QED BY <2>1, <2>2, <2>3
<1> QED BY <1>1, <1>2, <1>3, <1>4, <1>5

(* _aqcall gives lkptr back when it takes lkfird, and that when all is     *)
(* given to the system.                                                    *)
LEMMA CallControl ==
  ASSUME Control, NEW t \in Task,
         \/ _aqcall(t)
         \/ call_fire(t)
         \/ call_listio(t)
         \/ call_listio_fails(t)
         \/ call_listio_interrupted(t)
         \/ call_restart(t)
         \/ call_fired(t)
  PROVE  Steps(t)
<1>t. ControlTypeOK /\ NoTask \notin Task /\ Place(t) /\ Held(t)
  BY AqAssumption DEF Control
<1> USE DEF Steps, Moves, ControlTypeOK, Pc, Call, LockName, Go, Free
<1>1. CASE _aqcall(t)
  <2>1. ControlTypeOK' /\ Moves(t)
    BY <1>t, <1>1 DEF _aqcall, EndCall, Return
  <2>2. Place(t)'
    BY <1>t, <1>1 DEF _aqcall, EndCall, Return, Place, InEnq, InWait, InStat, Calling
  <2>3. Held(t)'
    BY <1>t, <1>1 DEF _aqcall, EndCall, Return, Held, Place, Needed, Brought, InEnq, InWait,
       InStat, Recalling, Calling
  <2> QED BY <2>1, <2>2, <2>3
<1>2. CASE call_fire(t)
  <2>a. lock["lkptr"] = t
    BY <1>t, <1>2 DEF call_fire, Held, Needed, Brought, Place, InEnq, InWait, InStat,
       Calling, Recalling
  <2>1. ControlTypeOK' /\ Moves(t)
    BY <1>t, <1>2, <2>a DEF call_fire
  <2>2. Place(t)'
    BY <1>t, <1>2 DEF call_fire, Place, InEnq, InWait, InStat, Calling
  <2>3. Held(t)'
    BY <1>t, <1>2 DEF call_fire, Held, Place, Needed, Brought, InEnq, InWait, InStat,
       Recalling, Calling
  <2> QED BY <2>1, <2>2, <2>3
<1>3. CASE call_listio(t)
  <2>1. ControlTypeOK' /\ Moves(t)
    BY <1>t, <1>3 DEF call_listio
  <2>2. Place(t)'
    BY <1>t, <1>3 DEF call_listio, Place, InEnq, InWait, InStat, Calling
  <2>3. Held(t)'
    BY <1>t, <1>3 DEF call_listio, Held, Place, Needed, Brought, InEnq, InWait, InStat,
       Recalling, Calling
  <2> QED BY <2>1, <2>2, <2>3
<1>4. CASE call_listio_fails(t)
  <2>1. ControlTypeOK' /\ Moves(t)
    BY <1>t, <1>4 DEF call_listio_fails
  <2>2. Place(t)'
    BY <1>t, <1>4 DEF call_listio_fails, Place, InEnq, InWait, InStat, Calling
  <2>3. Held(t)'
    BY <1>t, <1>4 DEF call_listio_fails, Held, Place, Needed, Brought, InEnq, InWait,
       InStat, Recalling, Calling
  <2> QED BY <2>1, <2>2, <2>3
<1>5. CASE call_listio_interrupted(t)
  <2>1. ControlTypeOK' /\ Moves(t)
    BY <1>t, <1>5 DEF call_listio_interrupted
  <2>2. Place(t)'
    BY <1>t, <1>5 DEF call_listio_interrupted, Place, InEnq, InWait, InStat, Calling
  <2>3. Held(t)'
    BY <1>t, <1>5 DEF call_listio_interrupted, Held, Place, Needed, Brought, InEnq, InWait,
       InStat, Recalling, Calling
  <2> QED BY <2>1, <2>2, <2>3
<1>6. CASE call_restart(t)
  <2>1. ControlTypeOK' /\ Moves(t)
    BY <1>t, <1>6 DEF call_restart
  <2>2. Place(t)'
    BY <1>t, <1>6 DEF call_restart, Place, InEnq, InWait, InStat, Calling
  <2>3. Held(t)'
    BY <1>t, <1>6 DEF call_restart, Held, Place, Needed, Brought, InEnq, InWait, InStat,
       Recalling, Calling
  <2> QED BY <2>1, <2>2, <2>3
<1>7. CASE call_fired(t)
  <2>a. lock["lkfird"] = t
    BY <1>t, <1>7 DEF call_fired, Held, Needed, Brought, Place, InEnq, InWait, InStat,
       Calling, Recalling
  <2>1. ControlTypeOK' /\ Moves(t)
    BY <1>t, <1>7, <2>a DEF call_fired, EndCall, Return
  <2>2. Place(t)'
    BY <1>t, <1>7 DEF call_fired, EndCall, Return, Place, InEnq, InWait, InStat, Calling
  <2>3. Held(t)'
    BY <1>t, <1>7 DEF call_fired, EndCall, Return, Held, Place, Needed, Brought, InEnq,
       InWait, InStat, Recalling, Calling
  <2> QED BY <2>1, <2>2, <2>3
<1> QED BY <1>1, <1>2, <1>3, <1>4, <1>5, <1>6, <1>7

(* _aqrcl only waits.                                                      *)
LEMMA RclControl ==
  ASSUME Control, NEW t \in Task,
         \/ _aqrcl(t)
         \/ rcl_ptr(t)
         \/ rcl_fird(t)
  PROVE  Steps(t)
<1>t. ControlTypeOK /\ NoTask \notin Task /\ Place(t) /\ Held(t)
  BY AqAssumption DEF Control
<1> USE DEF Steps, Moves, ControlTypeOK, Pc, Call, LockName, Go, Free
<1>1. CASE _aqrcl(t)
  <2>1. ControlTypeOK' /\ Moves(t)
    BY <1>t, <1>1 DEF _aqrcl
  <2>2. Place(t)'
    BY <1>t, <1>1 DEF _aqrcl, Place, InEnq, InWait, InStat, Calling
  <2>3. Held(t)'
    BY <1>t, <1>1 DEF _aqrcl, Held, Place, Needed, Brought, InEnq, InWait, InStat,
       Recalling, Calling
  <2> QED BY <2>1, <2>2, <2>3
<1>2. CASE rcl_ptr(t)
  <2>1. ControlTypeOK' /\ Moves(t)
    BY <1>t, <1>2 DEF rcl_ptr
  <2>2. Place(t)'
    BY <1>t, <1>2 DEF rcl_ptr, Place, InEnq, InWait, InStat, Calling
  <2>3. Held(t)'
    BY <1>t, <1>2 DEF rcl_ptr, Held, Place, Needed, Brought, InEnq, InWait, InStat,
       Recalling, Calling
  <2> QED BY <2>1, <2>2, <2>3
<1>3. CASE rcl_fird(t)
  <2>1. ControlTypeOK' /\ Moves(t)
    BY <1>t, <1>3 DEF rcl_fird
  <2>2. Place(t)'
    BY <1>t, <1>3 DEF rcl_fird, Place, InEnq, InWait, InStat, Calling
  <2>3. Held(t)'
    BY <1>t, <1>3 DEF rcl_fird, Held, Place, Needed, Brought, InEnq, InWait, InStat,
       Recalling, Calling
  <2> QED BY <2>1, <2>2, <2>3
<1> QED BY <1>1, <1>2, <1>3

(* AQWAIT, AQRECALL and AQSTAT.                                            *)
LEMMA AskControl ==
  ASSUME Control, NEW t \in Task,
         \/ AQWAIT(t)
         \/ wait_idle(t)
         \/ wait_lock(t)
         \/ wait_loop(t)
         \/ wait_recalled(t)
         \/ \E r \in Request : AQRECALL(t, r)
         \/ recall_lock(t)
         \/ recall_inside(t)
         \/ \E r \in Request, wait \in BOOLEAN : AQSTAT(t, r, wait)
         \/ stat_lock(t)
         \/ stat_busy(t)
         \/ stat_recalled(t)
  PROVE  Steps(t)
<1>t. ControlTypeOK /\ NoTask \notin Task /\ Place(t) /\ Held(t)
  BY AqAssumption DEF Control
<1> USE DEF Steps, Moves, ControlTypeOK, Pc, Call, LockName, Go, Free
<1>1. CASE AQWAIT(t)
  <2>1. ControlTypeOK' /\ Moves(t)
    BY <1>t, <1>1 DEF AQWAIT, StartAsking
  <2>2. Place(t)'
    BY <1>t, <1>1 DEF AQWAIT, StartAsking, Place, InEnq, InWait, InStat, Calling
  <2>3. Held(t)'
    BY <1>t, <1>1 DEF AQWAIT, StartAsking, Held, Place, Needed, Brought, InEnq, InWait,
       InStat, Recalling, Calling
  <2> QED BY <2>1, <2>2, <2>3
<1>2. CASE wait_idle(t)
  <2>1. ControlTypeOK' /\ Moves(t)
    BY <1>t, <1>2 DEF wait_idle, Return
  <2>2. Place(t)'
    BY <1>t, <1>2 DEF wait_idle, Return, Place, InEnq, InWait, InStat, Calling
  <2>3. Held(t)'
    BY <1>t, <1>2 DEF wait_idle, Return, Held, Place, Needed, Brought, InEnq, InWait,
       InStat, Recalling, Calling
  <2> QED BY <2>1, <2>2, <2>3
<1>3. CASE wait_lock(t)
  <2>1. ControlTypeOK' /\ Moves(t)
    BY <1>t, <1>3 DEF wait_lock
  <2>2. Place(t)'
    BY <1>t, <1>3 DEF wait_lock, Place, InEnq, InWait, InStat, Calling
  <2>3. Held(t)'
    BY <1>t, <1>3 DEF wait_lock, Held, Place, Needed, Brought, InEnq, InWait, InStat,
       Recalling, Calling
  <2> QED BY <2>1, <2>2, <2>3
<1>4. CASE wait_loop(t)
  <2>a. lock["lkbusy"] = t
    BY <1>t, <1>4 DEF wait_loop, Held, Needed, Brought, Place, InEnq, InWait, InStat,
       Calling, Recalling
  <2>1. ControlTypeOK' /\ Moves(t)
    BY <1>t, <1>4, <2>a DEF wait_loop, Return
  <2>2. Place(t)'
    BY <1>t, <1>4 DEF wait_loop, Return, Place, InEnq, InWait, InStat, Calling
  <2>3. Held(t)'
    BY <1>t, <1>4 DEF wait_loop, Return, Held, Place, Needed, Brought, InEnq, InWait,
       InStat, Recalling, Calling
  <2> QED BY <2>1, <2>2, <2>3
<1>5. CASE wait_recalled(t)
  <2>a. lock["lkbusy"] = t
    BY <1>t, <1>5 DEF wait_recalled, Held, Needed, Brought, Place, InEnq, InWait, InStat,
       Calling, Recalling
  <2>1. ControlTypeOK' /\ Moves(t)
    BY <1>t, <1>5, <2>a DEF wait_recalled, Return
  <2>2. Place(t)'
    BY <1>t, <1>5 DEF wait_recalled, Return, Place, InEnq, InWait, InStat, Calling
  <2>3. Held(t)'
    BY <1>t, <1>5 DEF wait_recalled, Return, Held, Place, Needed, Brought, InEnq, InWait,
       InStat, Recalling, Calling
  <2> QED BY <2>1, <2>2, <2>3
<1>6. CASE \E r \in Request : AQRECALL(t, r)
  <2>0. PICK r \in Request : AQRECALL(t, r)
    BY <1>6
  <2>1. ControlTypeOK' /\ Moves(t)
    BY <1>t, <2>0 DEF AQRECALL, StartAsking
  <2>2. Place(t)'
    BY <1>t, <2>0 DEF AQRECALL, StartAsking, Place, InEnq, InWait, InStat, Calling
  <2>3. Held(t)'
    BY <1>t, <2>0 DEF AQRECALL, StartAsking, Held, Place, Needed, Brought, InEnq, InWait,
       InStat, Recalling, Calling
  <2> QED BY <2>1, <2>2, <2>3
<1>7. CASE \E r \in Request, wait \in BOOLEAN : AQSTAT(t, r, wait)
  <2>0. PICK r \in Request, wait \in BOOLEAN : AQSTAT(t, r, wait)
    BY <1>7
  <2>1. ControlTypeOK' /\ Moves(t)
    BY <1>t, <2>0 DEF AQSTAT, StartAsking
  <2>2. Place(t)'
    BY <1>t, <2>0 DEF AQSTAT, StartAsking, Place, InEnq, InWait, InStat, Calling
  <2>3. Held(t)'
    BY <1>t, <2>0 DEF AQSTAT, StartAsking, Held, Place, Needed, Brought, InEnq, InWait,
       InStat, Recalling, Calling
  <2> QED BY <2>1, <2>2, <2>3
<1>8. CASE stat_busy(t)
  <2>a. lock["lknxtq"] = t
    BY <1>t, <1>8 DEF stat_busy, Held, Needed, Brought, Place, InEnq, InWait, InStat,
       Calling, Recalling
  <2>1. ControlTypeOK' /\ Moves(t)
    BY <1>t, <1>8, <2>a DEF stat_busy, Return
  <2>2. Place(t)'
    BY <1>t, <1>8 DEF stat_busy, Return, Place, InEnq, InWait, InStat, Calling
  <2>3. Held(t)'
    BY <1>t, <1>8 DEF stat_busy, Return, Held, Place, Needed, Brought, InEnq, InWait,
       InStat, Recalling, Calling
  <2> QED BY <2>1, <2>2, <2>3
<1>9. CASE stat_recalled(t)
  <2>a. lock["lkbusy"] = t
    BY <1>t, <1>9 DEF stat_recalled, Held, Needed, Brought, Place, InEnq, InWait, InStat,
       Calling, Recalling
  <2>1. ControlTypeOK' /\ Moves(t)
    BY <1>t, <1>9, <2>a DEF stat_recalled, Return
  <2>2. Place(t)'
    BY <1>t, <1>9 DEF stat_recalled, Return, Place, InEnq, InWait, InStat, Calling
  <2>3. Held(t)'
    BY <1>t, <1>9 DEF stat_recalled, Return, Held, Place, Needed, Brought, InEnq, InWait,
       InStat, Recalling, Calling
  <2> QED BY <2>1, <2>2, <2>3
<1>10. CASE recall_lock(t)
  <2>1. ControlTypeOK' /\ Moves(t)
    BY <1>t, <1>10 DEF recall_lock, Return
  <2>2. Place(t)'
    BY <1>t, <1>10 DEF recall_lock, Return, Place, InEnq, InWait, InStat, Calling
  <2>3. Held(t)'
    BY <1>t, <1>10 DEF recall_lock, Return, Held, Place, Needed, Brought, InEnq, InWait,
       InStat, Recalling, Calling
  <2> QED BY <2>1, <2>2, <2>3
<1>11. CASE recall_inside(t)
  <2>a. lock["lkbusy"] = t
    BY <1>t, <1>11 DEF recall_inside, Held, Needed, Brought, Place, InEnq, InWait, InStat,
       Calling, Recalling
  <2>1. ControlTypeOK' /\ Moves(t)
    BY <1>t, <1>11, <2>a DEF recall_inside, Return
  <2>2. Place(t)'
    BY <1>t, <1>11 DEF recall_inside, Return, Place, InEnq, InWait, InStat, Calling
  <2>3. Held(t)'
    BY <1>t, <1>11 DEF recall_inside, Return, Held, Place, Needed, Brought, InEnq, InWait,
       InStat, Recalling, Calling
  <2> QED BY <2>1, <2>2, <2>3
<1>12. CASE stat_lock(t)
  <2>1. ControlTypeOK' /\ Moves(t)
    BY <1>t, <1>12 DEF stat_lock
  <2>2. Place(t)'
    BY <1>t, <1>12 DEF stat_lock, Place, InEnq, InWait, InStat, Calling
  <2>3. Held(t)'
    BY <1>t, <1>12 DEF stat_lock, Held, Place, Needed, Brought, InEnq, InWait,
       InStat, Recalling, Calling
  <2> QED BY <2>1, <2>2, <2>3
<1> QED BY <1>1, <1>2, <1>3, <1>4, <1>5, <1>6, <1>7, <1>8, <1>9, <1>10, <1>11, <1>12

(* AQCLOSE is alone: no other task is in a call or has a lock.             *)
Closes(t) ==
  /\ ControlTypeOK' /\ Place(t)' /\ Held(t)'
  /\ \A u \in Task \ {t} : pc[u] = "user" /\ UNCHANGED <<pc[u], op[u], then[u]>>
  /\ \A u \in Task \ {t}, k \in LockName : lock'[k] # u
  /\ op'[t] \in {"AQCLOSE", "none"} /\ (op'[t] = "AQCLOSE" => file' = "closing")

LEMMA CloserStays ==
  ASSUME Control, NEW t \in Task, Closes(t)
  PROVE  Control'
<1>1. ASSUME NEW u \in Task \ {t} PROVE Place(u)' /\ Held(u)' /\ Alone(u)' /\ Closed(u)'
  <2>1. Place(u) /\ pc[u] = "user" /\ op[u] = "none"
    BY <1>1 DEF Control, Closes, Place
  <2>2. UNCHANGED <<pc[u], op[u], then[u]>> /\ \A k \in LockName : lock'[k] # u
    BY <1>1 DEF Closes
  <2>3. Place(u)' /\ Alone(u)' /\ Closed(u)'
    BY <2>1, <2>2 DEF Place, Alone, Closed, InEnq, InWait, InStat, Calling
  <2>4. Held(u)'
    BY <2>1, <2>2 DEF Held, Needed, Recalling, Calling
  <2> QED BY <2>3, <2>4
<1>2. Alone(t)' /\ Closed(t)'
  <2>1. \A u \in Task : pc'[u] # "user" => u = t
    BY DEF Closes
  <2> QED BY <2>1 DEF Closes, Alone, Closed, Place
<1> QED BY <1>1, <1>2 DEF Control, Closes

LEMMA CloseControl ==
  ASSUME Control, NEW t \in Task, AQCLOSE(t) \/ close_lock(t) \/ close_recalled(t)
  PROVE  Control'
<1>t. ControlTypeOK /\ NoTask \notin Task /\ \A u \in Task : Place(u) /\ Held(u) /\ Alone(u)
  BY AqAssumption DEF Control
<1>a. ASSUME NEW u \in Task \ {t} PROVE pc[u] = "user" /\ \A k \in LockName : lock[k] # u
  <2>1. pc[u] = "user"
    BY <1>t DEF AQCLOSE, close_lock, close_recalled, Place, Alone
  <2> QED BY <1>t, <2>1 DEF Held, Needed, Recalling, Calling
<1>b. AQCLOSE(t) \/ (op[t] = "AQCLOSE" /\ file = "closing")
  BY <1>t DEF close_lock, close_recalled, Place, Alone
<1> USE <1>t, <1>a, <1>b DEF Closes, ControlTypeOK, Pc, Call, LockName, Go, Free
<1>1. CASE AQCLOSE(t)
  <2>1. ControlTypeOK' /\ Place(t)'
    BY <1>1 DEF AQCLOSE, Place, InEnq, InWait, InStat, Calling
  <2>2. Held(t)'
    BY <1>1 DEF AQCLOSE, Held, Place, Needed, Brought, InEnq, Recalling, Calling
  <2>3. Closes(t)
    BY <1>1, <2>1, <2>2 DEF AQCLOSE
  <2> QED BY <2>3, CloserStays
<1>2. ASSUME NEW busy, CloseFrom(t, busy), op[t] = "AQCLOSE", file = "closing",
             pc[t] \in {"close_lock", "recall"}
      PROVE  Control'
  <2>1. ControlTypeOK' /\ Place(t)'
    BY <1>2 DEF CloseFrom, Return, Place, InEnq, InWait, InStat, Calling
  <2>2. Held(t)'
    BY <1>2 DEF CloseFrom, Return, Held, Place, Needed, Brought, InEnq, Recalling, Calling
  <2>3. Closes(t)
    BY <1>2, <2>1, <2>2 DEF CloseFrom, Return
  <2> QED BY <2>3, CloserStays
<1>3. CASE close_lock(t)
  BY <1>2, <1>3 DEF close_lock, Place, Alone
<1>4. CASE close_recalled(t)
  BY <1>2, <1>4 DEF close_recalled, Place, Alone
<1> QED BY <1>1, <1>3, <1>4

-----------------------------------------------------------------------------
THEOREM ControlInvariant == Spec => []Control
<1>1. Init => Control
  BY AqAssumption DEF Init, Control, ControlTypeOK, Pc, Call, Place, Held, Needed, Alone,
     Closed, Calling, Recalling, LockName
<1>2. Control /\ [Next]_vars => Control'
  <2> SUFFICES ASSUME Control, [Next]_vars PROVE Control'
    OBVIOUS
  <2>1. CASE UNCHANGED vars
    BY <2>1 DEF vars, localVars, Control, ControlTypeOK, Place, Held, Needed, Brought,
       Alone,
       Closed, InEnq, InWait, InStat, Calling, Recalling
  <2>2. ASSUME NEW s \in Slot, Complete(s) PROVE Control'
    BY <2>2 DEF Complete, localVars, Control, ControlTypeOK, Place, Held, Needed, Brought,
       Alone, Closed, InEnq, InWait, InStat, Calling, Recalling
  <2>3. ASSUME NEW t \in Task, AQCLOSE(t) \/ close_lock(t) \/ close_recalled(t)
        PROVE Control'
    BY <2>3, CloseControl
  <2>4. ASSUME NEW t \in Task, Steps(t) PROVE Control'
    BY <2>4, OthersStay
  <2>5. CASE \E t \in Task : \/ \E start \in BOOLEAN : _aqenq(t, start)
                             \/ enq_busy(t) \/ enq_recalled(t) \/ enq_fill(t) \/ enq_inc(t)
    BY <2>4, <2>5, EnqControl
  <2>6. CASE \E t \in Task : \/ _aqcall(t) \/ call_fire(t) \/ call_listio(t)
                             \/ call_listio_fails(t) \/ call_listio_interrupted(t)
                             \/ call_restart(t) \/ call_fired(t)
    BY <2>4, <2>6, CallControl
  <2>7. CASE \E t \in Task : _aqrcl(t) \/ rcl_ptr(t) \/ rcl_fird(t)
    BY <2>4, <2>7, RclControl
  <2>8. CASE \E t \in Task : \/ AQWAIT(t) \/ wait_idle(t) \/ wait_lock(t) \/ wait_loop(t)
                             \/ wait_recalled(t)
                             \/ \E r \in Request : AQRECALL(t, r)
                             \/ \E r \in Request, wait \in BOOLEAN : AQSTAT(t, r, wait)
                             \/ recall_lock(t) \/ recall_inside(t)
                             \/ stat_lock(t) \/ stat_busy(t) \/ stat_recalled(t)
    BY <2>4, <2>8, AskControl
  <2> QED BY <2>1, <2>2, <2>3, <2>5, <2>6, <2>7, <2>8 DEF Next, InCall
<1> QED BY <1>1, <1>2, PTL DEF Spec

(* No task that waits for one of the four locks has one that comes later   *)
(* in the order of aqio.h:80-87: no set of tasks waits in a circle.        *)
THEOREM InOrder == Spec => []LocksInOrder
<1>1. Control => LocksInOrder
  <2> SUFFICES ASSUME Control, NEW t \in Task, NEW k \in WaitsFor(t), NEW j \in LockName,
                      lock[j] = t
               PROVE  Rank[j] < Rank[k]
    BY DEF LocksInOrder
  <2>1. Place(t) /\ j \in Needed(t) /\ pc[t] \in Pc /\ op[t] \in Call
    BY DEF Control, ControlTypeOK, Held
  <2> QED BY <2>1 DEF Place, Needed, Brought, WaitsFor, Rank, LockName, InEnq, InWait,
             InStat, Calling, Recalling
<1> QED BY <1>1, ControlInvariant, PTL
-----------------------------------------------------------------------------
(* What TypeOK needs: AQRECALL and AQSTAT look for a request, and AQSTAT   *)
(* has found a slot with one in it; only _aqrcl copies a NULL aq_fird; and *)
(* the task that fills a slot has come in while there was one to accept.   *)
Known ==
  \A t \in Task :
    /\ pc[t] \in {"recall_lock", "stat_lock", "stat_busy"} => reqid[t] # 0
    /\ InStat(t) => pc[t] \in {"stat_lock", "stat_busy"} \/ aq_reqid[eptr[t]] # 0
    /\ pc[t] # "rcl_ptr" => p[t] # NULL
Room == \A t \in Task : lock["lknxtq"] = t /\ InEnq(t) => accepted < MaxRequest

RingOK ==
  aq_busy \in Slot /\ aq_ptr \in Slot /\ aq_nxtq \in Slot /\ aq_fird \in Slot \cup {NULL}
SlotsOK ==
  /\ aq_reqid \in [Slot -> Request \cup {0}] /\ aq_told \in [Slot -> BOOLEAN]
  /\ sw \in [Slot -> {"busy", "done", "error", "EINTR"}] /\ inio \subseteq Slot
LocalsOK ==
  /\ reqid \in [Task -> 0 .. MaxRequest]
  /\ p \in [Task -> Slot \cup {NULL}] /\ q \in [Task -> Slot]
  /\ eptr \in [Task -> Slot] /\ stop \in [Task -> Slot]
  /\ since \in [Task -> 0 .. MaxRequest]
PastOK ==
  /\ asks \in 0 .. MaxAsks /\ signals \in 0 .. MaxSignals
  /\ accepted \in 0 .. MaxRequest /\ fate \in [Request -> Fate]
  /\ over \subseteq Request /\ heard \in [Request -> 0 .. 2]

Data == RingOK /\ SlotsOK /\ LocalsOK /\ PastOK /\ Known /\ Room

(* Ring arithmetic stays in the ring.                                      *)
LEMMA SlotIsNat ==
  /\ Slot \subseteq Nat /\ 0 \in Slot /\ NULL \notin Slot
  /\ \A i \in Slot : INC_QP(i) \in Slot
BY AqAssumption DEF Slot, INC_QP, NULL

LEMMA BatchInRing ==
  ASSUME NEW t \in Task, p[t] \in Slot, q[t] \in Slot
  PROVE  Batch(t) \subseteq Slot /\ Wrapped(BatchEnd(t)) \in Slot
BY AqAssumption DEF Slot, Batch, BatchEnd, Wrapped

LEMMA SlotOfRequest ==
  ASSUME NEW r, HasSlot(r)
  PROVE  SlotOf(r) \in Slot /\ aq_reqid[SlotOf(r)] = r
BY DEF HasSlot, SlotOf

LEMMA FateType ==
  ASSUME fate \in [Request -> Fate], NEW S, NEW w \in Fate
  PROVE  BecomeOf(S, w) \in [Request -> Fate]
BY DEF BecomeOf

LEMMA ReturnTypes ==
  ASSUME LocalsOK, NEW t \in Task, Return(t)
  PROVE  LocalsOK'
BY SlotIsNat, AqAssumption DEF Return, LocalsOK

(* What a call reports about a slot's request, which may be none (0).      *)
LEMMA ReportTypes ==
  ASSUME PastOK, SlotsOK, NEW s \in Slot
  PROVE  /\ Tell(aq_reqid[s]) => heard' \in [Request -> 0 .. 2]
         /\ Answer(aq_reqid[s]) => heard' \in [Request -> 0 .. 2]
         /\ over \cup ({aq_reqid[s]} \ {0}) \subseteq Request
<1>1. ASSUME NEW r PROVE Tell(r) => heard' \in [Request -> 0 .. 2]
  <2>1. CASE r \in Request
    <3>1. heard[r] \in 0 .. 2 /\ (IF heard[r] < 2 THEN heard[r] + 1 ELSE 2) \in 0 .. 2
      BY <2>1 DEF PastOK
    <3> QED BY <2>1, <3>1 DEF PastOK, Tell
  <2>2. CASE r \notin Request
    BY <2>2 DEF PastOK, Tell
  <2> QED BY <2>1, <2>2
<1>2. ASSUME NEW r PROVE Answer(r) => heard' \in [Request -> 0 .. 2]
  <2>1. CASE r \in Request
    <3>1. heard[r] \in 0 .. 2 /\ (IF heard[r] = 0 THEN 1 ELSE heard[r]) \in 0 .. 2
      BY <2>1 DEF PastOK
    <3> QED BY <2>1, <3>1 DEF PastOK, Answer
  <2>2. CASE r \notin Request
    BY <2>2 DEF PastOK, Answer
  <2> QED BY <2>1, <2>2
<1>3. over \cup ({aq_reqid[s]} \ {0}) \subseteq Request
  BY DEF PastOK, SlotsOK
<1> QED BY <1>1, <1>2, <1>3

(* Every step keeps Data, one lemma for each part of the program.          *)
LEMMA EnqData ==
  ASSUME Control, Data, NEW t \in Task,
         \/ \E start \in BOOLEAN : _aqenq(t, start)
         \/ enq_busy(t)
         \/ enq_recalled(t)
         \/ enq_fill(t)
         \/ enq_inc(t)
  PROVE  Data'
<1> USE DEF Data, ringVars, slotVars, localVars, pastVars, LockName, Go
<1>1. CASE \E start \in BOOLEAN : _aqenq(t, start)
  <2>0. PICK start \in BOOLEAN : _aqenq(t, start)
    BY <1>1
  <2>1. RingOK' /\ SlotsOK' /\ LocalsOK' /\ PastOK'
    BY <2>0, SlotIsNat DEF _aqenq, RingOK, SlotsOK, LocalsOK, PastOK
  <2>2. Known' /\ Room'
    BY SlotIsNat, <2>0, AqAssumption
      DEF _aqenq, SlotsOK, LocalsOK, PastOK, Known, Room, InStat, InEnq, Control,
          ControlTypeOK, Place, Held, Needed, Brought, Calling, Recalling, InWait
  <2> QED BY <2>1, <2>2 DEF Data
<1>2. CASE enq_busy(t)
  <2>1. RingOK' /\ SlotsOK' /\ LocalsOK' /\ PastOK'
    BY <1>2, SlotIsNat DEF enq_busy, RingOK, SlotsOK, LocalsOK, PastOK
  <2>2. Known' /\ Room'
    BY SlotIsNat, <1>2, AqAssumption
      DEF enq_busy, SlotsOK, LocalsOK, PastOK, Known, Room, InStat, InEnq, Control,
          ControlTypeOK, Place, Held, Needed, Brought, Calling, Recalling, InWait
  <2> QED BY <2>1, <2>2 DEF Data
<1>3. CASE enq_recalled(t)
  <2>a. eptr[t] \in Slot
    BY DEF LocalsOK
  <2>1. RingOK' /\ SlotsOK'
    BY <1>3, SlotIsNat DEF enq_recalled, RingOK, SlotsOK
  <2>2. LocalsOK'
    BY <1>3, ReturnTypes DEF enq_recalled, LocalsOK
  <2>3. PastOK'
    BY <1>3, <2>a, ReportTypes DEF enq_recalled, PastOK
  <2>4. Known' /\ Room'
    BY SlotIsNat, <1>3, <2>a, AqAssumption
      DEF enq_recalled, Return, SlotsOK, LocalsOK, PastOK, Known, Room, InStat, InEnq,
          Control, ControlTypeOK, Place, Held, Needed, Brought, Calling, Recalling,
          InWait
  <2> QED BY <2>1, <2>2, <2>3, <2>4 DEF Data
<1>4. CASE enq_fill(t)
  <2>a. accepted < MaxRequest
    BY <1>4 DEF enq_fill, Control, Held, Needed, Place, InEnq, LockName, Calling, Recalling,
       Data, Room
  <2>1. RingOK' /\ LocalsOK' /\ PastOK'
    BY <1>4, SlotIsNat DEF enq_fill, RingOK, LocalsOK, PastOK
  <2>2. SlotsOK'
    BY <1>4, <2>a, AqAssumption DEF enq_fill, RingOK, PastOK, Request, SlotsOK
  <2>3. Known' /\ Room'
    BY SlotIsNat, <1>4, <2>a, AqAssumption
      DEF enq_fill, SlotsOK, LocalsOK, PastOK, Known, Room, InStat, InEnq, Control,
          ControlTypeOK, Place, Held, Needed, Brought, Calling, Recalling, InWait
  <2> QED BY <2>1, <2>2, <2>3 DEF Data
<1>5. CASE enq_inc(t)
  <2>a. accepted < MaxRequest
    BY <1>5 DEF enq_inc, Control, Held, Needed, Place, InEnq, LockName, Calling, Recalling,
       Data, Room
  <2>1. RingOK' /\ SlotsOK'
    BY <1>5, SlotIsNat DEF enq_inc, RingOK, SlotsOK
  <2>2. LocalsOK'
    BY <1>5, ReturnTypes, SlotIsNat DEF enq_inc, LocalsOK
  <2>3. PastOK'
    BY <1>5, <2>a, AqAssumption DEF enq_inc, Request, Fate, PastOK
  <2>4. Known' /\ Room'
    BY SlotIsNat, <1>5, <2>a, AqAssumption
      DEF enq_inc, Return, SlotsOK, LocalsOK, PastOK, Known, Room, InStat, InEnq,
          Control, ControlTypeOK, Place, Held, Needed, Brought, Calling, Recalling,
          InWait
  <2> QED BY <2>1, <2>2, <2>3, <2>4 DEF Data
<1> QED BY <1>1, <1>2, <1>3, <1>4, <1>5

LEMMA CallData ==
  ASSUME Control, Data, NEW t \in Task,
         \/ _aqcall(t)
         \/ call_fire(t)
         \/ call_listio(t)
         \/ call_listio_fails(t)
         \/ call_listio_interrupted(t)
         \/ call_restart(t)
         \/ call_fired(t)
  PROVE  Data'
<1> USE DEF Data, ringVars, slotVars, localVars, pastVars, LockName, Go
<1>1. CASE _aqcall(t)
  <2>1. RingOK' /\ SlotsOK' /\ PastOK'
    BY <1>1, SlotIsNat DEF _aqcall, EndCall, RingOK, SlotsOK, PastOK
  <2>2. LocalsOK'
    BY <1>1, ReturnTypes, SlotIsNat DEF _aqcall, EndCall, RingOK, LocalsOK
  <2>3. Known'
    BY <1>1, SlotIsNat
      DEF _aqcall, EndCall, Return, RingOK, LocalsOK, Known, InStat, Control,
          ControlTypeOK, Place
  <2>4. Room'
    BY <1>1, AqAssumption DEF _aqcall, EndCall, Return, Room, InEnq, Control, ControlTypeOK,
       Place, Held, Needed, Brought, Calling, Recalling
  <2> QED BY <2>1, <2>2, <2>3, <2>4 DEF Data
<1>2. CASE call_fire(t)
  <2>1. SlotsOK' /\ LocalsOK' /\ PastOK'
    BY <1>2, SlotIsNat DEF call_fire, SlotsOK, LocalsOK, PastOK
  <2>2. RingOK'
    BY <1>2 DEF call_fire, LocalsOK, RingOK
  <2>3. Known' /\ Room'
    BY SlotIsNat, <1>2, AqAssumption
      DEF call_fire, SlotsOK, LocalsOK, PastOK, Known, Room, InStat, InEnq, Control,
          ControlTypeOK, Place, Held, Needed, Brought, Calling, Recalling, InWait
  <2> QED BY <2>1, <2>2, <2>3 DEF Data
<1>3. CASE call_listio(t)
  <2>b. Batch(t) \subseteq Slot /\ Wrapped(BatchEnd(t)) \in Slot
    BY <1>3, BatchInRing DEF call_listio, LocalsOK, Known
  <2>1. RingOK'
    BY <1>3, SlotIsNat DEF call_listio, RingOK
  <2>2. SlotsOK'
    BY <1>3, <2>b DEF call_listio, SlotsOK
  <2>3. LocalsOK'
    BY <1>3, <2>b DEF call_listio, LocalsOK
  <2>4. PastOK'
    BY <1>3, FateType DEF call_listio, Fate, PastOK
  <2>5. Known' /\ Room'
    BY SlotIsNat, <1>3, <2>b, AqAssumption
      DEF call_listio, Return, SlotsOK, LocalsOK, PastOK, Known, Room, InStat, InEnq,
          Control, ControlTypeOK, Place, Held, Needed, Brought, Calling, Recalling,
          InWait
  <2> QED BY <2>1, <2>2, <2>3, <2>4, <2>5 DEF Data
<1>4. CASE call_listio_fails(t)
  <2>b. Batch(t) \subseteq Slot /\ Wrapped(BatchEnd(t)) \in Slot
    BY <1>4, BatchInRing DEF call_listio_fails, LocalsOK, Known
  <2>1. RingOK'
    BY <1>4, SlotIsNat DEF call_listio_fails, RingOK
  <2>2. SlotsOK'
    BY <1>4, <2>b DEF call_listio_fails, SlotsOK
  <2>3. LocalsOK'
    BY <1>4, <2>b DEF call_listio_fails, LocalsOK
  <2>4. PastOK'
    BY <1>4, FateType DEF call_listio_fails, Fate, PastOK
  <2>5. Known' /\ Room'
    BY SlotIsNat, <1>4, <2>b, AqAssumption
      DEF call_listio_fails, Return, SlotsOK, LocalsOK, PastOK, Known, Room, InStat,
          InEnq, Control, ControlTypeOK, Place, Held, Needed, Brought, Calling,
          Recalling, InWait
  <2> QED BY <2>1, <2>2, <2>3, <2>4, <2>5 DEF Data
<1>5. CASE call_listio_interrupted(t)
  <2>b. Batch(t) \subseteq Slot /\ Wrapped(BatchEnd(t)) \in Slot
    BY <1>5, BatchInRing DEF call_listio_interrupted, LocalsOK, Known
  <2>1. RingOK' /\ LocalsOK'
    BY <1>5, SlotIsNat DEF call_listio_interrupted, RingOK, LocalsOK
  <2>2. SlotsOK'
    BY <1>5, <2>b DEF call_listio_interrupted, SlotsOK
  <2>3. PastOK'
    BY <1>5, AqAssumption DEF call_listio_interrupted, Fate, PastOK
  <2>4. Known' /\ Room'
    BY SlotIsNat, <1>5, <2>b, AqAssumption
      DEF call_listio_interrupted, SlotsOK, LocalsOK, PastOK, Known, Room, InStat,
          InEnq, Control, ControlTypeOK, Place, Held, Needed, Brought, Calling,
          Recalling, InWait
  <2> QED BY <2>1, <2>2, <2>3, <2>4 DEF Data
<1>6. CASE call_restart(t)
  <2>b. Batch(t) \subseteq Slot /\ Wrapped(BatchEnd(t)) \in Slot
    BY <1>6, BatchInRing DEF call_restart, LocalsOK, Known
  <2>c. StartAgainAt(t) \subseteq Slot
    BY <2>b DEF StartAgainAt
  <2>d. \E i \in Slot : p' = [p EXCEPT ![t] = i]
    BY <1>6, <2>b, <2>c DEF call_restart
  <2>1. RingOK' /\ SlotsOK' /\ PastOK'
    BY <1>6, SlotIsNat DEF call_restart, RingOK, SlotsOK, PastOK
  <2>2. LocalsOK'
    BY <1>6, <2>d DEF call_restart, pastVars, LocalsOK
  <2>3. Known' /\ Room'
    BY <1>6, <2>d, SlotIsNat, AqAssumption
      DEF call_restart, Return, SlotsOK, LocalsOK, PastOK, Known, Room, InStat, InEnq,
          Control, ControlTypeOK, Place, Held, Needed, Brought, Calling, Recalling,
          InWait
  <2> QED BY <2>1, <2>2, <2>3 DEF Data
<1>7. CASE call_fired(t)
  <2>1. SlotsOK' /\ PastOK'
    BY <1>7, SlotIsNat DEF call_fired, EndCall, SlotsOK, PastOK
  <2>2. RingOK'
    BY <1>7 DEF call_fired, EndCall, LocalsOK, RingOK
  <2>3. LocalsOK'
    BY <1>7, ReturnTypes, SlotIsNat DEF call_fired, EndCall, LocalsOK
  <2>4. Known' /\ Room'
    BY SlotIsNat, <1>7, AqAssumption
      DEF call_fired, EndCall, Return, SlotsOK, LocalsOK, PastOK, Known, Room, InStat,
          InEnq, Control, ControlTypeOK, Place, Held, Needed, Brought, Calling,
          Recalling, InWait
  <2> QED BY <2>1, <2>2, <2>3, <2>4 DEF Data
<1> QED BY <1>1, <1>2, <1>3, <1>4, <1>5, <1>6, <1>7

LEMMA RclData ==
  ASSUME Control, Data, NEW t \in Task,
         \/ _aqrcl(t)
         \/ rcl_ptr(t)
         \/ rcl_fird(t)
  PROVE  Data'
<1> USE DEF Data, ringVars, slotVars, localVars, pastVars, LockName, Go
<1>1. CASE _aqrcl(t)
  <2>1. RingOK' /\ SlotsOK' /\ LocalsOK' /\ PastOK'
    BY <1>1, SlotIsNat DEF _aqrcl, RingOK, SlotsOK, LocalsOK, PastOK
  <2>2. Known' /\ Room'
    BY SlotIsNat, <1>1, AqAssumption
      DEF _aqrcl, SlotsOK, LocalsOK, PastOK, Known, Room, InStat, InEnq, Control,
          ControlTypeOK, Place, Held, Needed, Brought, Calling, Recalling, InWait
  <2> QED BY <2>1, <2>2 DEF Data
<1>2. CASE rcl_ptr(t)
  <2>1. RingOK' /\ SlotsOK' /\ LocalsOK' /\ PastOK'
    BY <1>2, SlotIsNat DEF rcl_ptr, RingOK, SlotsOK, LocalsOK, PastOK
  <2>2. Known' /\ Room'
    BY SlotIsNat, <1>2, AqAssumption
      DEF rcl_ptr, SlotsOK, LocalsOK, PastOK, Known, Room, InStat, InEnq, Control,
          ControlTypeOK, Place, Held, Needed, Brought, Calling, Recalling, InWait
  <2> QED BY <2>1, <2>2 DEF Data
<1>3. CASE rcl_fird(t)
  <2>1. RingOK' /\ SlotsOK' /\ LocalsOK' /\ PastOK'
    BY <1>3, SlotIsNat DEF rcl_fird, RingOK, SlotsOK, LocalsOK, PastOK
  <2>2. Known' /\ Room'
    BY SlotIsNat, <1>3, AqAssumption
      DEF rcl_fird, SlotsOK, LocalsOK, PastOK, Known, Room, InStat, InEnq, Control,
          ControlTypeOK, Place, Held, Needed, Brought, Calling, Recalling, InWait
  <2> QED BY <2>1, <2>2 DEF Data
<1> QED BY <1>1, <1>2, <1>3

LEMMA AskData ==
  ASSUME Control, Data, NEW t \in Task,
         \/ AQWAIT(t)
         \/ wait_idle(t)
         \/ wait_lock(t)
         \/ wait_loop(t)
         \/ wait_recalled(t)
         \/ \E r \in Request : AQRECALL(t, r)
         \/ recall_lock(t)
         \/ recall_inside(t)
         \/ \E r \in Request, wait \in BOOLEAN : AQSTAT(t, r, wait)
         \/ stat_lock(t)
         \/ stat_busy(t)
         \/ stat_recalled(t)
  PROVE  Data'
<1> USE DEF Data, ringVars, slotVars, localVars, pastVars, LockName, Go
<1>1. CASE AQWAIT(t)
  <2>1. RingOK' /\ SlotsOK'
    BY <1>1, SlotIsNat DEF AQWAIT, StartAsking, RingOK, SlotsOK
  <2>2. LocalsOK'
    BY <1>1 DEF AQWAIT, StartAsking, RingOK, PastOK, LocalsOK
  <2>3. PastOK'
    BY <1>1, AqAssumption DEF AQWAIT, StartAsking, pastVars, PastOK
  <2>4. Known' /\ Room'
    BY SlotIsNat, <1>1, AqAssumption
      DEF AQWAIT, StartAsking, Return, SlotsOK, LocalsOK, PastOK, Known, Room, InStat,
          InEnq, Control, ControlTypeOK, Place, Held, Needed, Brought, Calling,
          Recalling, InWait
  <2> QED BY <2>1, <2>2, <2>3, <2>4 DEF Data
<1>2. CASE wait_idle(t)
  <2>1. RingOK' /\ SlotsOK' /\ PastOK'
    BY <1>2, SlotIsNat DEF wait_idle, RingOK, SlotsOK, PastOK
  <2>2. LocalsOK'
    BY <1>2, ReturnTypes, SlotIsNat DEF wait_idle, LocalsOK
  <2>3. Known' /\ Room'
    BY SlotIsNat, <1>2, AqAssumption
      DEF wait_idle, Return, SlotsOK, LocalsOK, PastOK, Known, Room, InStat, InEnq,
          Control, ControlTypeOK, Place, Held, Needed, Brought, Calling, Recalling,
          InWait
  <2> QED BY <2>1, <2>2, <2>3 DEF Data
<1>3. CASE wait_lock(t)
  <2>1. RingOK' /\ SlotsOK' /\ LocalsOK' /\ PastOK'
    BY <1>3, SlotIsNat DEF wait_lock, RingOK, SlotsOK, LocalsOK, PastOK
  <2>2. Known' /\ Room'
    BY SlotIsNat, <1>3, AqAssumption
      DEF wait_lock, SlotsOK, LocalsOK, PastOK, Known, Room, InStat, InEnq, Control,
          ControlTypeOK, Place, Held, Needed, Brought, Calling, Recalling, InWait
  <2> QED BY <2>1, <2>2 DEF Data
<1>4. CASE wait_loop(t)
  <2>1. RingOK' /\ SlotsOK' /\ PastOK'
    BY <1>4, SlotIsNat DEF wait_loop, RingOK, SlotsOK, PastOK
  <2>2. LocalsOK'
    BY <1>4, ReturnTypes DEF wait_loop, RingOK, LocalsOK
  <2>3. Known' /\ Room'
    BY SlotIsNat, <1>4, AqAssumption
      DEF wait_loop, Return, SlotsOK, LocalsOK, PastOK, Known, Room, InStat, InEnq,
          Control, ControlTypeOK, Place, Held, Needed, Brought, Calling, Recalling,
          InWait
  <2> QED BY <2>1, <2>2, <2>3 DEF Data
<1>5. CASE wait_recalled(t)
  <2>a. eptr[t] \in Slot
    BY DEF LocalsOK
  <2>1. RingOK'
    BY <1>5, SlotIsNat DEF wait_recalled, RingOK
  <2>2. SlotsOK'
    BY <1>5, <2>a DEF wait_recalled, SlotsOK
  <2>3. LocalsOK'
    BY <1>5, ReturnTypes DEF wait_recalled, LocalsOK
  <2>4. PastOK'
    BY <1>5, <2>a, ReportTypes DEF wait_recalled, PastOK
  <2>w. /\ aq_reqid' = aq_reqid /\ accepted' = accepted
        /\ pc' \in [Task -> Pc] /\ op' \in [Task -> Call]
        /\ op'[t] \in {"AQWAIT", "AQRECALL", "none"} /\ pc'[t] \in {"user", "wait_loop"}
        /\ p'[t] \in {p[t], 0}
    BY <1>5 DEF wait_recalled, Return, Go, Control, ControlTypeOK, LocalsOK, Pc, Call
  <2>v. ASSUME NEW u \in Task, u # t
        PROVE  UNCHANGED <<pc[u], op[u], reqid[u], p[u], eptr[u]>>
    BY <1>5, <2>v DEF wait_recalled, Return, Go, Control, ControlTypeOK, LocalsOK
  <2>5. Known'
    <3>1. NULL # 0 /\ p[t] # NULL
      BY <1>5 DEF wait_recalled, Known, NULL
    <3> QED BY <2>w, <2>v, <3>1 DEF Known, InStat
  <2>6. Room'
    <3>1. \A u \in Task \ {t} : lock'["lknxtq"] = u => lock["lknxtq"] = u
      BY <1>5 DEF wait_recalled, Control, ControlTypeOK, LockName
    <3> QED BY <2>w, <2>v, <3>1 DEF Room, InEnq
  <2> QED BY <2>1, <2>2, <2>3, <2>4, <2>5, <2>6 DEF Data
<1>6. CASE \E r \in Request : AQRECALL(t, r)
  <2>0. PICK r \in Request : AQRECALL(t, r)
    BY <1>6
  <2>b. r \in 0 .. MaxRequest /\ r # 0
    BY AqAssumption DEF Request
  <2>1. RingOK' /\ SlotsOK'
    BY <2>0, SlotIsNat DEF AQRECALL, StartAsking, RingOK, SlotsOK
  <2>2. LocalsOK'
    BY <2>0, <2>b DEF AQRECALL, StartAsking, LocalsOK
  <2>3. PastOK'
    BY <2>0, AqAssumption DEF AQRECALL, StartAsking, PastOK
  <2>4. Known' /\ Room'
    BY SlotIsNat, <2>0, <2>b, AqAssumption
      DEF AQRECALL, StartAsking, SlotsOK, LocalsOK, PastOK, Known, Room, InStat, InEnq,
          Control, ControlTypeOK, Place, Held, Needed, Brought, Calling, Recalling,
          InWait
  <2> QED BY <2>1, <2>2, <2>3, <2>4 DEF Data
<1>7. CASE \E r \in Request, wait \in BOOLEAN : AQSTAT(t, r, wait)
  <2>0. PICK r \in Request, wait \in BOOLEAN : AQSTAT(t, r, wait)
    BY <1>7
  <2>b. r \in 0 .. MaxRequest /\ r # 0
    BY AqAssumption DEF Request
  <2>1. RingOK' /\ SlotsOK'
    BY <2>0, SlotIsNat DEF AQSTAT, StartAsking, RingOK, SlotsOK
  <2>2. LocalsOK'
    BY <2>0, <2>b DEF AQSTAT, StartAsking, LocalsOK
  <2>3. PastOK'
    BY <2>0, AqAssumption DEF AQSTAT, StartAsking, PastOK
  <2>4. Known' /\ Room'
    BY SlotIsNat, <2>0, <2>b, AqAssumption
      DEF AQSTAT, StartAsking, SlotsOK, LocalsOK, PastOK, Known, Room, InStat, InEnq,
          Control, ControlTypeOK, Place, Held, Needed, Brought, Calling, Recalling,
          InWait
  <2> QED BY <2>1, <2>2, <2>3, <2>4 DEF Data
<1>8. CASE stat_busy(t)
  <2>b. HasSlot(reqid[t]) => /\ SlotOf(reqid[t]) \in Slot
                            /\ aq_reqid[SlotOf(reqid[t])] = reqid[t] /\ reqid[t] # 0
    BY <1>8, SlotOfRequest DEF stat_busy, Known
  <2>1. RingOK' /\ SlotsOK' /\ PastOK'
    BY <1>8, SlotIsNat DEF stat_busy, RingOK, SlotsOK, PastOK
  <2>2. LocalsOK'
    BY <1>8, <2>b, ReturnTypes, SlotIsNat DEF stat_busy, LocalsOK
  <2>3. Known' /\ Room'
    BY SlotIsNat, <1>8, <2>b, AqAssumption
      DEF stat_busy, Return, SlotsOK, LocalsOK, PastOK, Known, Room, InStat, InEnq,
          Control, ControlTypeOK, Place, Held, Needed, Brought, Calling, Recalling,
          InWait
  <2> QED BY <2>1, <2>2, <2>3 DEF Data
<1>9. CASE stat_recalled(t)
  <2>a. eptr[t] \in Slot /\ aq_reqid[eptr[t]] # 0
    BY <1>9 DEF stat_recalled, Data, LocalsOK, Known, InStat
  <2>1. RingOK'
    BY <1>9, SlotIsNat DEF stat_recalled, RingOK
  <2>2. SlotsOK'
    BY <1>9, <2>a DEF stat_recalled, SlotsOK
  <2>3. LocalsOK'
    BY <1>9, ReturnTypes, SlotIsNat DEF stat_recalled, LocalsOK
  <2>4. PastOK'
    BY <1>9, <2>a, ReportTypes DEF stat_recalled, PastOK
  <2>5. Known' /\ Room'
    BY SlotIsNat, <1>9, <2>a, AqAssumption
      DEF stat_recalled, Return, SlotsOK, LocalsOK, PastOK, Known, Room, InStat, InEnq,
          Control, ControlTypeOK, Place, Held, Needed, Brought, Calling, Recalling,
          InWait
  <2> QED BY <2>1, <2>2, <2>3, <2>4, <2>5 DEF Data
<1>10. CASE recall_lock(t)
  <2>b. HasSlot(reqid[t]) => SlotOf(reqid[t]) \in Slot
    BY SlotOfRequest
  <2>1. RingOK' /\ SlotsOK' /\ PastOK'
    BY <1>10, SlotIsNat DEF recall_lock, RingOK, SlotsOK, PastOK
  <2>2. LocalsOK'
    BY <1>10, <2>b, ReturnTypes DEF recall_lock, LocalsOK
  <2>3. Known'
    BY <1>10, SlotIsNat
      DEF recall_lock, Return, LocalsOK, Known, InStat, Control, ControlTypeOK, Place
  <2>4. Room'
    BY <1>10, AqAssumption
      DEF recall_lock, Return, Room, InEnq, Control, ControlTypeOK, Place, Held, Needed,
          Brought, Calling, Recalling
  <2> QED BY <2>1, <2>2, <2>3, <2>4 DEF Data
<1>11. CASE recall_inside(t)
  <2>1. RingOK' /\ SlotsOK' /\ PastOK'
    BY <1>11, SlotIsNat DEF recall_inside, RingOK, SlotsOK, PastOK
  <2>2. LocalsOK'
    <3>1. CASE Inside(aq_busy, eptr[t], aq_nxtq)
      <4>1. INC_QP(eptr[t]) \in Slot
        BY SlotIsNat DEF LocalsOK
      <4> QED BY <1>11, <3>1, <4>1 DEF recall_inside, LocalsOK
    <3>2. CASE ~Inside(aq_busy, eptr[t], aq_nxtq)
      BY <1>11, <3>2, ReturnTypes DEF recall_inside
    <3> QED BY <3>1, <3>2
  <2>3. Known'
    BY <1>11, SlotIsNat
      DEF recall_inside, Return, LocalsOK, Known, InStat, Control, ControlTypeOK, Place
  <2>4. Room'
    BY <1>11, AqAssumption
      DEF recall_inside, Return, Room, InEnq, Control, ControlTypeOK, Place, Held,
          Needed, Brought, Calling, Recalling
  <2> QED BY <2>1, <2>2, <2>3, <2>4 DEF Data
<1>12. CASE stat_lock(t)
  <2>1. RingOK' /\ SlotsOK' /\ LocalsOK' /\ PastOK'
    BY <1>12, SlotIsNat DEF stat_lock, RingOK, SlotsOK, LocalsOK, PastOK
  <2>2. Known' /\ Room'
    BY SlotIsNat, <1>12, AqAssumption
      DEF stat_lock, SlotsOK, LocalsOK, PastOK, Known, Room, InStat, InEnq, Control,
          ControlTypeOK, Place, Held, Needed, Brought, Calling, Recalling, InWait
  <2> QED BY <2>1, <2>2 DEF Data
<1> QED BY <1>1, <1>2, <1>3, <1>4, <1>5, <1>6, <1>7, <1>8, <1>9, <1>10, <1>11, <1>12

LEMMA CloseData ==
  ASSUME Control, Data, NEW t \in Task,
         \/ AQCLOSE(t)
         \/ close_lock(t)
         \/ close_recalled(t)
  PROVE  Data'
<1> USE DEF Data, ringVars, slotVars, localVars, pastVars, LockName, Go
<1>1. CASE AQCLOSE(t)
  <2>1. RingOK' /\ SlotsOK' /\ LocalsOK' /\ PastOK'
    BY <1>1, SlotIsNat DEF AQCLOSE, RingOK, SlotsOK, LocalsOK, PastOK
  <2>2. Known' /\ Room'
    BY SlotIsNat, <1>1, AqAssumption
      DEF AQCLOSE, SlotsOK, LocalsOK, PastOK, Known, Room, InStat, InEnq, Control,
          ControlTypeOK, Place, Held, Needed, Brought, Calling, Recalling, InWait
  <2> QED BY <2>1, <2>2 DEF Data
<1>2. CASE close_lock(t)
  <2>1. RingOK' /\ SlotsOK' /\ PastOK'
    BY <1>2, SlotIsNat DEF close_lock, CloseFrom, RingOK, SlotsOK, PastOK
  <2>2. LocalsOK'
    BY <1>2, ReturnTypes DEF close_lock, CloseFrom, RingOK, LocalsOK
  <2>3. Known' /\ Room'
    BY SlotIsNat, <1>2, AqAssumption
      DEF close_lock, CloseFrom, Return, SlotsOK, LocalsOK, PastOK, Known, Room, InStat,
          InEnq, Control, ControlTypeOK, Place, Held, Needed, Brought, Calling,
          Recalling, InWait
  <2> QED BY <2>1, <2>2, <2>3 DEF Data
<1>3. CASE close_recalled(t)
  <2>a. eptr[t] \in Slot
    BY DEF LocalsOK
  <2>1. RingOK'
    BY <1>3, SlotIsNat DEF close_recalled, CloseFrom, RingOK
  <2>2. SlotsOK'
    BY <1>3, <2>a DEF close_recalled, CloseFrom, SlotsOK
  <2>3. LocalsOK'
    BY <1>3, ReturnTypes, SlotIsNat DEF close_recalled, CloseFrom, RingOK, LocalsOK
  <2>4. PastOK'
    BY <1>3, <2>a, ReportTypes DEF close_recalled, CloseFrom, PastOK
  <2>5. Known' /\ Room'
    BY SlotIsNat, <1>3, <2>a, AqAssumption
      DEF close_recalled, CloseFrom, Return, SlotsOK, LocalsOK, PastOK, Known, Room,
          InStat, InEnq, Control, ControlTypeOK, Place, Held, Needed, Brought, Calling,
          Recalling, InWait
  <2> QED BY <2>1, <2>2, <2>3, <2>4, <2>5 DEF Data
<1> QED BY <1>1, <1>2, <1>3

-----------------------------------------------------------------------------
LEMMA DataInvariant == Spec => []Data
<1>1. Init => Data
  BY SlotIsNat, AqAssumption DEF Init, Data, RingOK, SlotsOK, LocalsOK, PastOK, Known, Room,
     InStat, InEnq, LockName, Fate
<1>2. Data /\ Control /\ [Next]_vars => Data'
  <2> SUFFICES ASSUME Data, Control, [Next]_vars PROVE Data'
    OBVIOUS
  <2>1. CASE UNCHANGED vars
    BY <2>1 DEF vars, ringVars, slotVars, localVars, pastVars, Data, RingOK, SlotsOK,
       LocalsOK,
       PastOK, Known, Room, InStat, InEnq
  <2>2. ASSUME NEW s \in Slot, Complete(s) PROVE Data'
    <3>1. RingOK' /\ SlotsOK' /\ LocalsOK'
      BY <2>2 DEF Complete, ringVars, localVars, Data, RingOK, SlotsOK, LocalsOK
    <3>2. PastOK'
      BY <2>2, FateType DEF Complete, Fate, Data, PastOK
    <3>3. Known' /\ Room'
      BY <2>2 DEF Complete, localVars, Data, Known, Room, InStat, InEnq
    <3> QED BY <3>1, <3>2, <3>3 DEF Data
  <2>3. CASE \E t \in Task : \/ \E start \in BOOLEAN : _aqenq(t, start)
                             \/ enq_busy(t) \/ enq_recalled(t) \/ enq_fill(t) \/ enq_inc(t)
    BY <2>3, EnqData
  <2>4. CASE \E t \in Task : \/ _aqcall(t) \/ call_fire(t) \/ call_listio(t)
                             \/ call_listio_fails(t) \/ call_listio_interrupted(t)
                             \/ call_restart(t) \/ call_fired(t)
    BY <2>4, CallData
  <2>5. CASE \E t \in Task : _aqrcl(t) \/ rcl_ptr(t) \/ rcl_fird(t)
    BY <2>5, RclData
  <2>6. CASE \E t \in Task : \/ AQWAIT(t) \/ wait_idle(t) \/ wait_lock(t) \/ wait_loop(t)
                             \/ wait_recalled(t)
                             \/ \E r \in Request : AQRECALL(t, r)
                             \/ \E r \in Request, wait \in BOOLEAN : AQSTAT(t, r, wait)
                             \/ recall_lock(t) \/ recall_inside(t)
                             \/ stat_lock(t) \/ stat_busy(t) \/ stat_recalled(t)
    BY <2>6, AskData
  <2>7. CASE \E t \in Task : AQCLOSE(t) \/ close_lock(t) \/ close_recalled(t)
    BY <2>7, CloseData
  <2> QED BY <2>1, <2>2, <2>3, <2>4, <2>5, <2>6, <2>7 DEF Next, InCall
<1> QED BY <1>1, <1>2, ControlInvariant, PTL DEF Spec

(* Every variable of the ring, and every task's local, has its type.       *)
THEOREM TypeCorrect == Spec => []TypeOK
<1>1. Data /\ Control => TypeOK
  BY DEF Data, RingOK, SlotsOK, LocalsOK, PastOK, Control, ControlTypeOK, TypeOK
<1> QED BY <1>1, DataInvariant, ControlInvariant, PTL

-----------------------------------------------------------------------------
(* What the task that fires requests has copied: aq_ptr under lkptr, and   *)
(* under lkfird a batch that begins at aq_fird and ends at aq_ptr.         *)
Issuing(t) == pc[t] \in {"listio", "restart", "fired"}
Copied(t) ==
  /\ pc[t] = "fire" => p[t] = aq_ptr
  /\ pc[t] \in {"listio", "restart"} => p[t] = FiredFrom(aq_fird)
  /\ Issuing(t) => q[t] = aq_ptr

Fired == FiredUpToPtr /\ \A t \in Task : Copied(t)

(* A step of t that leaves aq_ptr, aq_fird and lkfird as they are, and     *)
(* does not go into the part of _aqcall that fires requests.               *)
Quiet(t) ==
  /\ UNCHANGED <<aq_ptr, aq_fird>>
  /\ lock'["lkfird"] = lock["lkfird"] \/ aq_ptr = FiredFrom(aq_fird)
  /\ pc'[t] # "fire" /\ ~Issuing(t)'
  /\ \A u \in Task \ {t} : UNCHANGED <<pc[u], p[u], q[u]>>

LEMMA QuietFired ==
  ASSUME Fired, NEW t \in Task, Quiet(t)
  PROVE  Fired'
BY DEF Fired, Quiet, FiredUpToPtr, Free, Copied, Issuing

LEMMA EnqQuiet ==
  ASSUME Control, Data, Fired, NEW t \in Task,
         \/ \E start \in BOOLEAN : _aqenq(t, start)
         \/ enq_busy(t) \/ enq_recalled(t) \/ enq_fill(t) \/ enq_inc(t)
  PROVE  Quiet(t)
<1> USE DEF Quiet, Issuing, Go, LockName, ringVars
<1>1. CASE \E start \in BOOLEAN : _aqenq(t, start)
  BY <1>1 DEF _aqenq, Control, ControlTypeOK, Data, LocalsOK
<1>2. CASE enq_busy(t)
  BY <1>2 DEF enq_busy, Control, ControlTypeOK, Data, LocalsOK
<1>3. CASE enq_recalled(t)
  BY <1>3 DEF enq_recalled, Return, Control, ControlTypeOK, Data, LocalsOK
<1>4. CASE enq_fill(t)
  BY <1>4 DEF enq_fill, Control, ControlTypeOK, Data, LocalsOK
<1>5. CASE enq_inc(t)
  BY <1>5 DEF enq_inc, Return, Control, ControlTypeOK, Data, LocalsOK
<1> QED BY <1>1, <1>2, <1>3, <1>4, <1>5

LEMMA RclQuiet ==
  ASSUME Control, Data, Fired, NEW t \in Task,
         _aqrcl(t) \/ rcl_ptr(t) \/ rcl_fird(t)
  PROVE  Quiet(t)
<1> USE DEF Quiet, Issuing, Go, LockName, ringVars
<1>1. CASE _aqrcl(t)
  BY <1>1 DEF _aqrcl, Control, ControlTypeOK, Data, LocalsOK
<1>2. CASE rcl_ptr(t)
  BY <1>2 DEF rcl_ptr, Control, ControlTypeOK, Data, LocalsOK
<1>3. CASE rcl_fird(t)
  BY <1>3 DEF rcl_fird, Control, ControlTypeOK, Data, LocalsOK
<1> QED BY <1>1, <1>2, <1>3

LEMMA AskQuiet ==
  ASSUME Control, Data, Fired, NEW t \in Task,
         \/ AQWAIT(t) \/ wait_idle(t) \/ wait_lock(t) \/ wait_loop(t)
         \/ wait_recalled(t)
         \/ \E r \in Request : AQRECALL(t, r)
         \/ recall_lock(t) \/ recall_inside(t)
         \/ \E r \in Request, wait \in BOOLEAN : AQSTAT(t, r, wait)
         \/ stat_lock(t) \/ stat_busy(t) \/ stat_recalled(t)
  PROVE  Quiet(t)
<1> USE DEF Quiet, Issuing, Go, LockName, ringVars
<1>1. CASE AQWAIT(t)
  BY <1>1 DEF AQWAIT, Control, ControlTypeOK, Data, LocalsOK
<1>2. CASE wait_idle(t)
  BY <1>2 DEF wait_idle, Return, Control, ControlTypeOK, Data, LocalsOK
<1>3. CASE wait_lock(t)
  BY <1>3 DEF wait_lock, Control, ControlTypeOK, Data, LocalsOK
<1>4. CASE wait_loop(t)
  BY <1>4 DEF wait_loop, Return, Control, ControlTypeOK, Data, LocalsOK
<1>5. CASE wait_recalled(t)
  BY <1>5 DEF wait_recalled, Return, Control, ControlTypeOK, Data, LocalsOK
<1>6. CASE \E r \in Request : AQRECALL(t, r)
  BY <1>6 DEF AQRECALL, Control, ControlTypeOK, Data, LocalsOK
<1>7. CASE \E r \in Request, wait \in BOOLEAN : AQSTAT(t, r, wait)
  BY <1>7 DEF AQSTAT, Control, ControlTypeOK, Data, LocalsOK
<1>8. CASE stat_busy(t)
  BY <1>8 DEF stat_busy, Return, Control, ControlTypeOK, Data, LocalsOK
<1>9. CASE stat_recalled(t)
  BY <1>9 DEF stat_recalled, Return, Control, ControlTypeOK, Data, LocalsOK
<1>10. CASE recall_lock(t)
  BY <1>10 DEF recall_lock, Return, Control, ControlTypeOK, Data, LocalsOK
<1>11. CASE recall_inside(t)
  BY <1>11 DEF recall_inside, Return, Control, ControlTypeOK, Data, LocalsOK
<1>12. CASE stat_lock(t)
  BY <1>12 DEF stat_lock, Control, ControlTypeOK, Data, LocalsOK
<1> QED BY <1>1, <1>2, <1>3, <1>4, <1>5, <1>6, <1>7, <1>8, <1>9, <1>10, <1>11, <1>12

LEMMA CloseQuiet ==
  ASSUME Control, Data, Fired, NEW t \in Task,
         AQCLOSE(t) \/ close_lock(t) \/ close_recalled(t)
  PROVE  Quiet(t)
<1> USE DEF Quiet, Issuing, Go, LockName, ringVars
<1>1. CASE AQCLOSE(t)
  BY <1>1 DEF AQCLOSE, Control, ControlTypeOK, Data, LocalsOK
<1>2. CASE close_lock(t) \/ close_recalled(t)
  <2>1. ASSUME NEW u \in Task PROVE lock["lkfird"] # u
    <3>1. u # t => pc[u] = "user"
      BY <1>2 DEF close_lock, close_recalled, Control, Place, Alone
    <3>2. pc[u] \in {"user", "close_lock", "recall"}
      BY <1>2, <3>1 DEF close_lock, close_recalled
    <3> QED BY <3>2 DEF Control, Held, Needed, Brought, LockName, Calling, Recalling
  <2>2. aq_ptr = FiredFrom(aq_fird)
    BY <2>1 DEF Control, ControlTypeOK, LockName, Fired, FiredUpToPtr, Free
  <2> QED BY <1>2, <2>2 DEF close_lock, close_recalled, CloseFrom, Return, Control,
     ControlTypeOK, Data, LocalsOK
<1> QED BY <1>1, <1>2

(* Whoever fires has aq_ptr, or aq_fird, to itself.                        *)
LEMMA CallFired ==
  ASSUME Control, Data, Fired, NEW t \in Task,
         \/ _aqcall(t) \/ call_fire(t) \/ call_listio(t)
         \/ call_listio_fails(t) \/ call_listio_interrupted(t)
         \/ call_restart(t) \/ call_fired(t)
  PROVE  Fired'
<1> USE DEF Quiet, Issuing, Go, LockName, ringVars
<1>t. ASSUME NEW u \in Task \ {t}
      PROVE  /\ lock["lkptr"] = t => pc[u] # "fire"
             /\ lock["lkfird"] = t \/ Free("lkfird") => ~Issuing(u)
  BY AqAssumption DEF Control, Held, Needed, Place, LockName, Calling, Recalling, Issuing,
     Free
<1>l. /\ pc[t] = "fire" => lock["lkptr"] = t
      /\ Issuing(t) => lock["lkfird"] = t
  BY DEF Control, Held, Needed, Place, LockName, Calling, Recalling, Issuing
<1>1. CASE _aqcall(t)
  <2>1. CASE aq_ptr = aq_nxtq
    <3>1. Quiet(t)
      BY <1>1, <2>1 DEF _aqcall, EndCall, Return, Control, ControlTypeOK, Data, LocalsOK
    <3> QED BY <3>1, QuietFired
  <2>2. CASE aq_ptr # aq_nxtq
    BY <1>1, <2>2 DEF _aqcall, Fired, FiredUpToPtr, Free, Copied, Control, ControlTypeOK,
       Data, LocalsOK
  <2> QED BY <2>1, <2>2
<1>2. CASE call_fire(t)
  <2>1. aq_ptr = FiredFrom(aq_fird) /\ \A u \in Task \ {t} : pc[u] # "fire" /\ ~Issuing(u)
    BY <1>2, <1>t, <1>l DEF call_fire, Fired, FiredUpToPtr
  <2> QED BY <1>2, <2>1, AqAssumption DEF call_fire, Fired, FiredUpToPtr, Free, Copied,
     Control, ControlTypeOK, Data, LocalsOK
<1>3. CASE call_listio(t) \/ call_listio_fails(t)
  BY <1>3 DEF call_listio, call_listio_fails, Fired, FiredUpToPtr, Free, Copied, Control,
     ControlTypeOK, Data, LocalsOK
<1>4. CASE call_listio_interrupted(t)
  BY <1>4 DEF call_listio_interrupted, Fired, FiredUpToPtr, Free, Copied, Control,
     ControlTypeOK, Data, LocalsOK
<1>5. CASE call_restart(t)
  <2>1. PICK i : p' = [p EXCEPT ![t] = i]
    BY <1>5 DEF call_restart
  <2> QED BY <1>5, <2>1 DEF call_restart, Fired, FiredUpToPtr, Free, Copied, Control,
     ControlTypeOK, Data, LocalsOK
<1>6. CASE call_fired(t)
  <2>1. \A u \in Task \ {t} : ~Issuing(u)
    BY <1>6, <1>t, <1>l DEF call_fired, Issuing
  <2>2. q[t] = aq_ptr /\ FiredFrom(p[t]) = p[t]
    BY <1>6 DEF call_fired, Fired, Copied, Issuing, FiredFrom, Data, Known
  <2>3. CASE p[t] = q[t]
    BY <1>6, <2>1, <2>2, <2>3
       DEF call_fired, EndCall, Return, Fired, FiredUpToPtr, Free, Copied, Control,
          ControlTypeOK, Data, LocalsOK
  <2>4. CASE p[t] # q[t]
    BY <1>6, <1>l, <2>1, <2>2, <2>4, AqAssumption
       DEF call_fired, Fired, FiredUpToPtr, Free, Copied, Control, ControlTypeOK, Data,
          LocalsOK
  <2> QED BY <2>3, <2>4
<1> QED BY <1>1, <1>2, <1>3, <1>4, <1>5, <1>6

LEMMA FiredInvariant == Spec => []Fired
<1>1. Init => Fired
  BY DEF Init, FiredFrom, Fired, FiredUpToPtr, Copied, Issuing
<1>2. Fired /\ Data /\ Control /\ [Next]_vars => Fired'
  <2> SUFFICES ASSUME Fired, Data, Control, [Next]_vars PROVE Fired'
    OBVIOUS
  <2>1. CASE UNCHANGED vars
    BY <2>1 DEF vars, ringVars, localVars, Fired, FiredUpToPtr, Free, Copied, Issuing
  <2>2. ASSUME NEW s \in Slot, Complete(s) PROVE Fired'
    BY <2>2 DEF Complete, ringVars, localVars, Fired, FiredUpToPtr, Free, Copied, Issuing
  <2>3. CASE \E t \in Task : \/ \E start \in BOOLEAN : _aqenq(t, start)
                             \/ enq_busy(t) \/ enq_recalled(t) \/ enq_fill(t) \/ enq_inc(t)
    BY <2>3, EnqQuiet, QuietFired
  <2>4. CASE \E t \in Task : \/ _aqcall(t) \/ call_fire(t) \/ call_listio(t)
                             \/ call_listio_fails(t) \/ call_listio_interrupted(t)
                             \/ call_restart(t) \/ call_fired(t)
    BY <2>4, CallFired
  <2>5. CASE \E t \in Task : _aqrcl(t) \/ rcl_ptr(t) \/ rcl_fird(t)
    BY <2>5, RclQuiet, QuietFired
  <2>6. CASE \E t \in Task : \/ AQWAIT(t) \/ wait_idle(t) \/ wait_lock(t) \/ wait_loop(t)
                             \/ wait_recalled(t)
                             \/ \E r \in Request : AQRECALL(t, r)
                             \/ \E r \in Request, wait \in BOOLEAN : AQSTAT(t, r, wait)
                             \/ recall_lock(t) \/ recall_inside(t)
                             \/ stat_lock(t) \/ stat_busy(t) \/ stat_recalled(t)
    BY <2>6, AskQuiet, QuietFired
  <2>7. CASE \E t \in Task : AQCLOSE(t) \/ close_lock(t) \/ close_recalled(t)
    BY <2>7, CloseQuiet, QuietFired
  <2> QED BY <2>1, <2>2, <2>3, <2>4, <2>5, <2>6, <2>7 DEF Next, InCall
<1> QED BY <1>1, <1>2, DataInvariant, ControlInvariant, PTL DEF Spec

(* aq_fird lags aq_ptr only while a task has lkfird and fires requests     *)
(* (aqio.h:54-56): _aqrcl, when it has had that lock, may go on to ask the *)
(* system for the request.                                                 *)
THEOREM FiringDone == Spec => []FiredUpToPtr
<1>1. Fired => FiredUpToPtr
  BY DEF Fired
<1> QED BY <1>1, FiredInvariant, PTL

-----------------------------------------------------------------------------
(***************************************************************************)
(* The ring of AqIo keeps its order, for any number of tasks, slots and    *)
(* requests, as long as signals do not hit AQREAD and AQWRITE, and AQRECALL*)
(* and AQSTAT come in time.  They look for a request in all the slots, in  *)
(* use or not, and when the ring is empty take any slot for one of it: so  *)
(* while they wait for lkbusy (aqwait.c:186, aqstat.c:85) no other task    *)
(* may empty the ring.  Calls other than these two need no such care.      *)
(***************************************************************************)
WellUsed == Signalled \cap Queuer = {}

InTime ==
  \A t \in Task :
    pc[t] \in {"recall_lock", "stat_busy"} => aq_busy # aq_nxtq

(* How far slot j is from slot i, round the ring.                          *)
Dist(i, j) == COUNT_QE(j, i)

InRing(s) == Dist(aq_busy, s) < Dist(aq_busy, aq_nxtq)
Unstarted(s) == InRing(s) /\ Dist(aq_busy, aq_ptr) <= Dist(aq_busy, s)

(* The slots of the ring hold the last requests accepted, in their order;  *)
(* what is in the others has left the ring, or is not accepted yet.        *)
Numbered ==
  \A s \in Slot :
    /\ InRing(s) => aq_reqid[s] + Dist(s, aq_nxtq) = accepted + 1
    /\ ~InRing(s) => \/ aq_reqid[s] + Dist(aq_busy, aq_nxtq) <= accepted
                     \/ s = aq_nxtq /\ aq_reqid[s] = accepted + 1

LeftOver == \A r \in Request : r + Dist(aq_busy, aq_nxtq) <= accepted => r \in over

(* What was not started is not done, and what the system does was started. *)
NotStarted == \A s \in Slot : Unstarted(s) => sw[s] = "busy"
Started ==
  \A s \in inio : sw[s] = "busy" /\ Dist(aq_busy, s) < Dist(aq_busy, aq_ptr)

(* What each call knows of the ring, where it is.                          *)
Filling(t) ==
  /\ InEnq(t) => t \in Queuer
  /\ pc[t] \in {"enq_fill", "enq_inc"} => Dist(aq_busy, aq_nxtq) <= Max - 2
  /\ pc[t] = "enq_inc" => aq_reqid[aq_nxtq] = accepted + 1 /\ sw[aq_nxtq] = "busy"

Pending(t, s) ==
  Dist(aq_busy, p[t]) <= Dist(aq_busy, s) /\ Dist(aq_busy, s) < Dist(aq_busy, q[t])

Firing(t) ==
  /\ pc[t] = "fire" => /\ Dist(aq_busy, aq_ptr) <= Dist(aq_busy, q[t])
                       /\ Dist(aq_busy, q[t]) <= Dist(aq_busy, aq_nxtq)
  /\ Issuing(t) => Dist(aq_busy, p[t]) <= Dist(aq_busy, q[t])
  /\ pc[t] \in {"fire", "listio", "restart"} => p[t] # q[t]
  /\ pc[t] \in {"listio", "fired"} =>
       \A s \in Slot : Pending(t, s) => s \notin inio /\ (InEnq(t) => sw[s] = "busy")
  /\ pc[t] = "restart" =>
       ~InEnq(t) /\ \A s \in Slot : Pending(t, s) => s \notin inio \/ s \in Batch(t)

Oldest(t) ==
  /\ Recalling(t) /\ ~InStat(t) => eptr[t] = aq_busy /\ aq_busy # aq_ptr
  /\ InEnq(t) /\ Calling(t) /\ then[t] = "rcl" =>
       /\ eptr[t] = aq_busy /\ aq_busy # aq_nxtq
       /\ pc[t] # "call" => aq_busy # q[t]

Stopping(t) ==
  InWait(t) =>
    /\ pc[t] = "call" => Dist(aq_busy, stop[t]) <= Dist(aq_busy, aq_nxtq)
    /\ pc[t] = "fire" \/ Issuing(t) => Dist(aq_busy, stop[t]) <= Dist(aq_busy, q[t])
    /\ pc[t] = "wait_loop" \/ Recalling(t) =>
         Dist(aq_busy, stop[t]) <= Dist(aq_busy, aq_ptr)
    /\ Recalling(t) => aq_busy # stop[t]

Looking(t) ==
  /\ pc[t] = "recall_inside" => aq_busy # aq_nxtq
  /\ InStat(t) /\ (Calling(t) \/ Recalling(t)) => aq_busy # aq_nxtq

Knows(t) == Filling(t) /\ Firing(t) /\ Oldest(t) /\ Stopping(t) /\ Looking(t)

RingInv ==
  /\ PointersInOrder /\ Numbered /\ LeftOver /\ NotStarted /\ Started
  /\ \A t \in Task : Knows(t)
-----------------------------------------------------------------------------
Ring == WellUsed /\ InTime /\ Control /\ Data /\ Fired /\ RingInv

(* Round the ring.                                                         *)
LEMMA DistFacts ==
  ASSUME NEW i \in Slot, NEW j \in Slot
  PROVE  /\ Dist(i, j) \in 0 .. Max - 1
         /\ Dist(i, j) = 0 <=> i = j
         /\ i # j => Dist(INC_QP(i), j) = Dist(i, j) - 1
         /\ Dist(i, j) <= Max - 2 => Dist(i, INC_QP(j)) = Dist(i, j) + 1
BY AqAssumption DEF Dist, COUNT_QE, Slot, INC_QP

LEMMA Between3 ==
  ASSUME NEW b \in Slot, NEW i \in Slot, NEW j \in Slot
  PROVE  /\ Dist(b, i) = Dist(b, j) => i = j
         /\ Dist(b, i) <= Dist(b, j) => Dist(i, j) = Dist(b, j) - Dist(b, i)
BY AqAssumption DEF Dist, COUNT_QE, Slot

(* A batch is the first part of what is pending, or all of it.             *)
LEMMA BatchPending ==
  ASSUME NEW t \in Task, p[t] \in Slot, q[t] \in Slot, p[t] # q[t], aq_busy \in Slot,
         Dist(aq_busy, p[t]) <= Dist(aq_busy, q[t]), NEW s \in Slot, s \in Batch(t)
  PROVE  Pending(t, s)
BY AqAssumption DEF Dist, COUNT_QE, Slot, Batch, BatchEnd, Pending

LEMMA BatchInOrder ==
  ASSUME NEW t \in Task, p[t] \in Slot, q[t] \in Slot, p[t] # q[t], aq_busy \in Slot,
         Dist(aq_busy, p[t]) <= Dist(aq_busy, q[t]),
         NEW i \in Slot, i \in Batch(t), NEW s \in Slot, s \in Batch(t),
         Dist(aq_busy, i) <= Dist(aq_busy, s)
  PROVE  ~(s < i)
BY AqAssumption DEF Dist, COUNT_QE, Slot, Batch, BatchEnd

LEMMA BatchIsFirst ==
  ASSUME NEW t \in Task, p[t] \in Slot, q[t] \in Slot, p[t] # q[t], aq_busy \in Slot,
         Dist(aq_busy, p[t]) <= Dist(aq_busy, q[t]), NEW w, w = Wrapped(BatchEnd(t))
  PROVE  /\ w \in Slot /\ Dist(aq_busy, w) <= Dist(aq_busy, q[t])
         /\ \A s \in Slot : Dist(aq_busy, w) <= Dist(aq_busy, s) /\ Dist(aq_busy, s) < Dist(aq_busy, q[t])
              => Pending(t, s) /\ s \notin Batch(t)
BY AqAssumption DEF Dist, COUNT_QE, Slot, Batch, BatchEnd, Wrapped, Pending

(* A step of t that leaves the ring and its slots as they are.             *)
LocalStep(t) ==
  /\ UNCHANGED <<aq_busy, aq_ptr, aq_nxtq, aq_reqid, sw, inio, accepted>>
  /\ over \subseteq over'
  /\ \A u \in Task \ {t} : UNCHANGED <<pc[u], op[u], then[u], p[u], q[u], eptr[u], stop[u]>>

LEMMA LocalKeeps ==
  ASSUME Ring, NEW t \in Task, LocalStep(t), Knows(t)'
  PROVE  RingInv'
<1>1. PointersInOrder' /\ Numbered' /\ LeftOver' /\ NotStarted' /\ Started'
  BY DEF Ring, RingInv, LocalStep, PointersInOrder, Numbered, LeftOver, NotStarted, Started,
     InRing, Unstarted, Dist, COUNT_QE
<1>2. ASSUME NEW u \in Task \ {t} PROVE Knows(u)'
  BY <1>2 DEF Ring, RingInv, LocalStep, Knows, Pending, Batch, BatchEnd, Filling, Firing,
     Oldest, Stopping, Looking, InEnq, InWait, InStat, Calling, Recalling, Issuing, Dist,
     COUNT_QE
<1> QED BY <1>1, <1>2 DEF RingInv

(* In a ring that is not empty, a slot that AQRECALL takes for one of the  *)
(* ring is one.                                                            *)
LEMMA InsideIsInRing ==
  ASSUME aq_busy \in Slot, aq_nxtq \in Slot, aq_busy # aq_nxtq, NEW e \in Slot
  PROVE  Inside(aq_busy, e, aq_nxtq) <=> InRing(e)
BY AqAssumption DEF Inside, InRing, Dist, COUNT_QE, Slot

LEMMA EnqLocal ==
  ASSUME Ring, NEW t \in Task,
         \/ \E start \in BOOLEAN : _aqenq(t, start)
         \/ enq_busy(t)
  PROVE  RingInv'
<1>t. Knows(t) /\ Place(t) /\ Held(t) /\ Copied(t)
  BY DEF Ring, RingInv, Control, Fired
<1>s. /\ pc[t] # "rcl_ptr" => p[t] \in Slot
      /\ q[t] \in Slot /\ eptr[t] \in Slot /\ stop[t] \in Slot
      /\ aq_busy \in Slot /\ aq_ptr \in Slot /\ aq_nxtq \in Slot
  BY DEF Ring, Data, LocalsOK, RingOK, Known
<1>p. Dist(aq_busy, aq_ptr) <= Dist(aq_busy, aq_nxtq) /\ ControlTypeOK /\ LocalsOK
  BY DEF Ring, RingInv, Control, Data, PointersInOrder, Dist
<1>1. CASE \E start \in BOOLEAN : _aqenq(t, start)
  <2>0. PICK start \in BOOLEAN : _aqenq(t, start)
    BY <1>1
  <2>1. LocalStep(t)
    BY <1>p, <2>0 DEF _aqenq, LocalStep, ControlTypeOK, LocalsOK, Go, ringVars, slotVars,
       pastVars
  <2>2. Knows(t)'
    BY <1>t, <1>s, <1>p, <2>0, DistFacts DEF _aqenq, Knows, Filling, Firing, Pending,
       Oldest, Stopping, Looking, Copied, ControlTypeOK, LocalsOK, Go, Pc, ringVars,
       slotVars, Place, InEnq, InWait, InStat, Calling, Recalling, Issuing
  <2> QED BY <2>1, <2>2, LocalKeeps
<1>2. CASE enq_busy(t)
  <2>a. IF Max - COUNT_QE(aq_nxtq, aq_busy) <= 1 THEN aq_busy # aq_nxtq
                                                 ELSE Dist(aq_busy, aq_nxtq) <= Max - 2
    BY <1>s, DistFacts, AqAssumption DEF Dist
  <2>b. t \in Queuer
    BY <1>2, <1>t DEF enq_busy, Knows, Filling, Place
  <2>1. LocalStep(t)
    BY <1>p, <1>2 DEF enq_busy, LocalStep, ControlTypeOK, LocalsOK, Go, ringVars, slotVars,
       pastVars
  <2>2. Knows(t)'
    BY <1>t, <1>s, <1>p, <1>2, <2>a, <2>b, DistFacts DEF enq_busy, Knows, Filling, Firing,
       Pending, Oldest, Stopping, Looking, Copied, ControlTypeOK, LocalsOK, Go, Pc,
       ringVars, slotVars, Place, InEnq, InWait, InStat, Calling, Recalling, Issuing
  <2> QED BY <2>1, <2>2, LocalKeeps
<1> QED BY <1>1, <1>2

LEMMA CallLocal ==
  ASSUME Ring, NEW t \in Task,
         \/ _aqcall(t)
         \/ call_restart(t)
         \/ call_fired(t)
  PROVE  RingInv'
<1>t. Knows(t) /\ Place(t) /\ Held(t) /\ Copied(t)
  BY DEF Ring, RingInv, Control, Fired
<1>s. /\ pc[t] # "rcl_ptr" => p[t] \in Slot
      /\ q[t] \in Slot /\ eptr[t] \in Slot /\ stop[t] \in Slot
      /\ aq_busy \in Slot /\ aq_ptr \in Slot /\ aq_nxtq \in Slot
  BY DEF Ring, Data, LocalsOK, RingOK, Known
<1>p. Dist(aq_busy, aq_ptr) <= Dist(aq_busy, aq_nxtq) /\ ControlTypeOK /\ LocalsOK
  BY DEF Ring, RingInv, Control, Data, PointersInOrder, Dist
<1>1. CASE _aqcall(t)
  <2>1. LocalStep(t)
    BY <1>p, <1>1 DEF _aqcall, EndCall, Return, LocalStep, ControlTypeOK, LocalsOK, Go,
       ringVars, slotVars, pastVars
  <2>c. Filling(t)'
    BY <1>t, <1>s, <1>p, <1>1, DistFacts DEF _aqcall, EndCall, Return, Knows, Filling,
       Copied, ControlTypeOK, LocalsOK, Go, Pc, ringVars, slotVars, Place, InEnq, InWait,
       InStat, Calling, Recalling, Issuing
  <2>d. Firing(t)'
    BY <1>t, <1>s, <1>p, <1>1, DistFacts DEF _aqcall, EndCall, Return, Pending, Knows,
       Firing, Copied, ControlTypeOK, LocalsOK, Go, Pc, ringVars, slotVars, Place, InEnq,
       InWait, InStat, Calling, Recalling, Issuing
  <2>e. Oldest(t)'
    BY <1>t, <1>s, <1>p, <1>1, DistFacts DEF _aqcall, EndCall, Return, Knows, Oldest,
       Copied, ControlTypeOK, LocalsOK, Go, Pc, ringVars, slotVars, Place, InEnq, InWait,
       InStat, Calling, Recalling, Issuing
  <2>f. Stopping(t)'
    BY <1>t, <1>s, <1>p, <1>1, DistFacts DEF _aqcall, EndCall, Return, Knows, Stopping,
       Copied, ControlTypeOK, LocalsOK, Go, Pc, ringVars, slotVars, Place, InEnq, InWait,
       InStat, Calling, Recalling, Issuing
  <2>g. Looking(t)'
    BY <1>t, <1>s, <1>p, <1>1, DistFacts DEF _aqcall, EndCall, Return, Knows, Looking,
       Copied, ControlTypeOK, LocalsOK, Go, Pc, ringVars, slotVars, Place, InEnq, InWait,
       InStat, Calling, Recalling, Issuing
  <2>2. Knows(t)'
    BY <2>c, <2>d, <2>e, <2>f, <2>g DEF Knows
  <2> QED BY <2>1, <2>2, LocalKeeps
<1>2. CASE call_restart(t)
  <2>a. PICK i \in Slot : /\ p' = [p EXCEPT ![t] = i]
                          /\ Dist(aq_busy, i) <= Dist(aq_busy, q[t])
                          /\ \A s \in Slot : Dist(aq_busy, i) <= Dist(aq_busy, s) /\ Dist(aq_busy, s) < Dist(aq_busy, q[t]) => s \notin inio
    <3>0. p[t] \in Slot /\ p[t] # q[t] /\ Dist(aq_busy, p[t]) <= Dist(aq_busy, q[t])
      BY <1>t, <1>s, <1>2 DEF call_restart, Knows, Firing, Issuing
    <3>1. CASE StartAgainAt(t) = {}
      BY <1>t, <1>s, <1>2, <3>0, <3>1, BatchIsFirst DEF call_restart, Knows, Firing
    <3>2. ASSUME NEW i \in StartAgainAt(t), p' = [p EXCEPT ![t] = i]
          PROVE  /\ i \in Slot /\ Dist(aq_busy, i) <= Dist(aq_busy, q[t])
                 /\ \A s \in Slot : Dist(aq_busy, i) <= Dist(aq_busy, s) /\ Dist(aq_busy, s) < Dist(aq_busy, q[t]) => s \notin inio
      <4>1. i \in Slot /\ i \in Batch(t) /\ Pending(t, i)
        BY <1>s, BatchInRing, BatchPending, <3>0 DEF StartAgainAt
      <4>2. ASSUME NEW s \in Slot, Dist(aq_busy, i) <= Dist(aq_busy, s), Dist(aq_busy, s) < Dist(aq_busy, q[t])
            PROVE  s \notin inio
        <5>1. Pending(t, s)
          BY <3>0, <4>1, <4>2, <1>s, DistFacts DEF Pending
        <5>2. CASE s \notin Batch(t)
          BY <1>t, <5>1, <5>2, <1>2 DEF call_restart, Knows, Firing
        <5>3. CASE s \in Batch(t)
          <6>1. ~(s < i)
            BY <1>s, <3>0, <4>1, <4>2, <5>3, BatchInOrder
          <6>2. sw[s] = "EINTR"
            BY <3>2, <5>3, <6>1 DEF StartAgainAt
          <6> QED BY <6>2 DEF Ring, RingInv, Started
        <5> QED BY <5>2, <5>3
      <4> QED BY <4>1, <4>2, <1>s, DistFacts DEF Pending
    <3> QED BY <1>2, <3>1, <3>2 DEF call_restart
  <2>1. LocalStep(t)
    BY <1>p, <1>2 DEF call_restart, LocalStep, ControlTypeOK, LocalsOK, Go, ringVars,
       slotVars, pastVars
  <2>2. Knows(t)'
    BY <1>t, <1>s, <1>p, <1>2, <2>a DEF call_restart, Knows, Filling, Firing, Pending,
       Oldest, Stopping, Looking, Copied, ControlTypeOK, LocalsOK, Go, ringVars, slotVars,
       Place, InEnq, InWait, InStat, Calling, Recalling, Issuing
  <2> QED BY <2>1, <2>2, LocalKeeps
<1>3. CASE call_fired(t)
  <2>1. LocalStep(t)
    BY <1>p, <1>3 DEF call_fired, EndCall, Return, LocalStep, ControlTypeOK, LocalsOK, Go,
       ringVars, slotVars, pastVars
  <2>2. Knows(t)'
    BY <1>t, <1>s, <1>p, <1>3, DistFacts DEF call_fired, EndCall, Return, Knows, Filling,
       Firing, Pending, Oldest, Stopping, Looking, Copied, ControlTypeOK, LocalsOK, Go, Pc,
       ringVars, slotVars, Place, InEnq, InWait, InStat, Calling, Recalling, Issuing
  <2> QED BY <2>1, <2>2, LocalKeeps
<1> QED BY <1>1, <1>2, <1>3

LEMMA RclLocal ==
  ASSUME Ring, NEW t \in Task,
         \/ _aqrcl(t)
         \/ rcl_ptr(t)
         \/ rcl_fird(t)
  PROVE  RingInv'
<1>t. Knows(t) /\ Place(t) /\ Held(t) /\ Copied(t)
  BY DEF Ring, RingInv, Control, Fired
<1>s. /\ pc[t] # "rcl_ptr" => p[t] \in Slot
      /\ q[t] \in Slot /\ eptr[t] \in Slot /\ stop[t] \in Slot
      /\ aq_busy \in Slot /\ aq_ptr \in Slot /\ aq_nxtq \in Slot
  BY DEF Ring, Data, LocalsOK, RingOK, Known
<1>p. Dist(aq_busy, aq_ptr) <= Dist(aq_busy, aq_nxtq) /\ ControlTypeOK /\ LocalsOK
  BY DEF Ring, RingInv, Control, Data, PointersInOrder, Dist
<1>1. CASE _aqrcl(t)
  <2>1. LocalStep(t)
    BY <1>p, <1>1 DEF _aqrcl, LocalStep, ControlTypeOK, LocalsOK, Go, ringVars, slotVars,
       pastVars
  <2>2. Knows(t)'
    BY <1>t, <1>s, <1>p, <1>1, DistFacts DEF _aqrcl, Knows, Filling, Firing, Pending,
       Oldest, Stopping, Looking, Copied, ControlTypeOK, LocalsOK, Go, Pc, ringVars,
       slotVars, Place, InEnq, InWait, InStat, Calling, Recalling, Issuing
  <2> QED BY <2>1, <2>2, LocalKeeps
<1>2. CASE rcl_ptr(t)
  <2>1. LocalStep(t)
    BY <1>p, <1>2 DEF rcl_ptr, LocalStep, ControlTypeOK, LocalsOK, Go, ringVars, slotVars,
       pastVars
  <2>2. Knows(t)'
    BY <1>t, <1>s, <1>p, <1>2, DistFacts DEF rcl_ptr, Knows, Filling, Firing, Pending,
       Oldest, Stopping, Looking, Copied, ControlTypeOK, LocalsOK, Go, Pc, ringVars,
       slotVars, Place, InEnq, InWait, InStat, Calling, Recalling, Issuing
  <2> QED BY <2>1, <2>2, LocalKeeps
<1>3. CASE rcl_fird(t)
  <2>1. LocalStep(t)
    BY <1>p, <1>3 DEF rcl_fird, LocalStep, ControlTypeOK, LocalsOK, Go, ringVars, slotVars,
       pastVars
  <2>2. Knows(t)'
    BY <1>t, <1>s, <1>p, <1>3, DistFacts DEF rcl_fird, Knows, Filling, Firing, Pending,
       Oldest, Stopping, Looking, Copied, ControlTypeOK, LocalsOK, Go, Pc, ringVars,
       slotVars, Place, InEnq, InWait, InStat, Calling, Recalling, Issuing
  <2> QED BY <2>1, <2>2, LocalKeeps
<1> QED BY <1>1, <1>2, <1>3

LEMMA AskLocal ==
  ASSUME Ring, NEW t \in Task,
         \/ AQWAIT(t)
         \/ wait_idle(t)
         \/ wait_lock(t)
         \/ wait_loop(t)
         \/ \E r \in Request : AQRECALL(t, r)
         \/ recall_lock(t)
         \/ recall_inside(t)
         \/ \E r \in Request, wait \in BOOLEAN : AQSTAT(t, r, wait)
         \/ stat_lock(t)
         \/ stat_busy(t)
  PROVE  RingInv'
<1>t. Knows(t) /\ Place(t) /\ Held(t) /\ Copied(t)
  BY DEF Ring, RingInv, Control, Fired
<1>s. /\ pc[t] # "rcl_ptr" => p[t] \in Slot
      /\ q[t] \in Slot /\ eptr[t] \in Slot /\ stop[t] \in Slot
      /\ aq_busy \in Slot /\ aq_ptr \in Slot /\ aq_nxtq \in Slot
  BY DEF Ring, Data, LocalsOK, RingOK, Known
<1>p. Dist(aq_busy, aq_ptr) <= Dist(aq_busy, aq_nxtq) /\ ControlTypeOK /\ LocalsOK
  BY DEF Ring, RingInv, Control, Data, PointersInOrder, Dist
<1>1. CASE AQWAIT(t)
  <2>1. LocalStep(t)
    BY <1>p, <1>1 DEF AQWAIT, StartAsking, LocalStep, ControlTypeOK, LocalsOK, Go, ringVars,
       slotVars, pastVars
  <2>2. Knows(t)'
    BY <1>t, <1>s, <1>p, <1>1, DistFacts DEF AQWAIT, StartAsking, Knows, Filling, Firing,
       Pending, Oldest, Stopping, Looking, Copied, ControlTypeOK, LocalsOK, Go, Pc,
       ringVars, slotVars, Place, InEnq, InWait, InStat, Calling, Recalling, Issuing
  <2> QED BY <2>1, <2>2, LocalKeeps
<1>2. CASE wait_idle(t)
  <2>1. LocalStep(t)
    BY <1>p, <1>2 DEF wait_idle, Return, LocalStep, ControlTypeOK, LocalsOK, Go, ringVars,
       slotVars, pastVars
  <2>2. Knows(t)'
    BY <1>t, <1>s, <1>p, <1>2, DistFacts DEF wait_idle, Return, Knows, Filling, Firing,
       Pending, Oldest, Stopping, Looking, Copied, ControlTypeOK, LocalsOK, Go, Pc,
       ringVars, slotVars, Place, InEnq, InWait, InStat, Calling, Recalling, Issuing
  <2> QED BY <2>1, <2>2, LocalKeeps
<1>3. CASE wait_lock(t)
  <2>1. LocalStep(t)
    BY <1>p, <1>3 DEF wait_lock, LocalStep, ControlTypeOK, LocalsOK, Go, ringVars, slotVars,
       pastVars
  <2>2. Knows(t)'
    BY <1>t, <1>s, <1>p, <1>3, DistFacts DEF wait_lock, Knows, Filling, Firing, Pending,
       Oldest, Stopping, Looking, Copied, ControlTypeOK, LocalsOK, Go, Pc, ringVars,
       slotVars, Place, InEnq, InWait, InStat, Calling, Recalling, Issuing
  <2> QED BY <2>1, <2>2, LocalKeeps
<1>4. CASE wait_loop(t)
  <2>1. LocalStep(t)
    BY <1>p, <1>4 DEF wait_loop, Return, LocalStep, ControlTypeOK, LocalsOK, Go, ringVars,
       slotVars, pastVars
  <2>2. Knows(t)'
    BY <1>t, <1>s, <1>p, <1>4, DistFacts DEF wait_loop, Return, Knows, Filling, Firing,
       Pending, Oldest, Stopping, Looking, Copied, ControlTypeOK, LocalsOK, Go, Pc,
       ringVars, slotVars, Place, InEnq, InWait, InStat, Calling, Recalling, Issuing
  <2> QED BY <2>1, <2>2, LocalKeeps
<1>5. CASE \E r \in Request : AQRECALL(t, r)
  <2>0. PICK r \in Request : AQRECALL(t, r)
    BY <1>5
  <2>1. LocalStep(t)
    BY <1>p, <2>0
      DEF AQRECALL, StartAsking, LocalStep, ControlTypeOK, LocalsOK, Go, ringVars,
          slotVars, pastVars
  <2>2. Knows(t)'
    BY <1>t, <1>s, <1>p, <2>0, DistFacts DEF AQRECALL, StartAsking, Knows, Filling, Firing,
       Pending, Oldest, Stopping, Looking, Copied, ControlTypeOK, LocalsOK, Go, Pc,
       ringVars, slotVars, Place, InEnq, InWait, InStat, Calling, Recalling, Issuing
  <2> QED BY <2>1, <2>2, LocalKeeps
<1>6. CASE \E r \in Request, wait \in BOOLEAN : AQSTAT(t, r, wait)
  <2>0. PICK r \in Request, wait \in BOOLEAN : AQSTAT(t, r, wait)
    BY <1>6
  <2>1. LocalStep(t)
    BY <1>p, <2>0 DEF AQSTAT, StartAsking, LocalStep, ControlTypeOK, LocalsOK, Go, ringVars,
       slotVars, pastVars
  <2>2. Knows(t)'
    BY <1>t, <1>s, <1>p, <2>0, DistFacts DEF AQSTAT, StartAsking, Knows, Filling, Firing,
       Pending, Oldest, Stopping, Looking, Copied, ControlTypeOK, LocalsOK, Go, Pc,
       ringVars, slotVars, Place, InEnq, InWait, InStat, Calling, Recalling, Issuing
  <2> QED BY <2>1, <2>2, LocalKeeps
<1>7. CASE stat_busy(t)
  <2>a. aq_busy # aq_nxtq
    BY <1>7 DEF stat_busy, Ring, InTime
  <2>1. LocalStep(t)
    BY <1>p, <1>7 DEF stat_busy, Return, LocalStep, ControlTypeOK, LocalsOK, Go, ringVars,
       slotVars, pastVars
  <2>2. Knows(t)'
    BY <1>t, <1>s, <1>p, <1>7, <2>a, DistFacts
      DEF stat_busy, Return, Knows, Filling, Firing, Pending, Oldest, Stopping, Looking,
          Copied, ControlTypeOK, LocalsOK, Go, Pc, ringVars, slotVars, Place, InEnq,
          InWait, InStat, Calling, Recalling, Issuing
  <2> QED BY <2>1, <2>2, LocalKeeps
<1>8. CASE recall_lock(t)
  <2>a. aq_busy # aq_nxtq
    BY <1>8 DEF recall_lock, Ring, InTime
  <2>1. LocalStep(t)
    BY <1>p, <1>8 DEF recall_lock, Return, LocalStep, ControlTypeOK, LocalsOK, Go, ringVars,
       slotVars, pastVars
  <2>2. Knows(t)'
    BY <1>t, <1>s, <1>p, <1>8, <2>a, DistFacts
      DEF recall_lock, Return, Knows, Filling, Firing, Pending, Oldest, Stopping,
          Looking, Copied, ControlTypeOK, LocalsOK, Go, Pc, ringVars, slotVars, Place,
          InEnq, InWait, InStat, Calling, Recalling, Issuing
  <2> QED BY <2>1, <2>2, LocalKeeps
<1>9. CASE recall_inside(t)
  <2>a. aq_busy # aq_nxtq
    BY <1>t, <1>9 DEF recall_inside, Knows, Looking
  <2>b. Inside(aq_busy, eptr[t], aq_nxtq) =>
          Dist(aq_busy, INC_QP(eptr[t])) <= Dist(aq_busy, aq_nxtq)
    <3>1. Dist(aq_busy, eptr[t]) \in Nat /\ Dist(aq_busy, aq_nxtq) \in 0 .. Max - 1
      BY <1>s, DistFacts
    <3>2. Dist(aq_busy, eptr[t]) <= Max - 2 =>
            Dist(aq_busy, INC_QP(eptr[t])) = Dist(aq_busy, eptr[t]) + 1
      BY <1>s, DistFacts
    <3>3. Inside(aq_busy, eptr[t], aq_nxtq) =>
            Dist(aq_busy, eptr[t]) < Dist(aq_busy, aq_nxtq)
      BY <1>s, <2>a, InsideIsInRing DEF InRing
    <3> QED BY <3>1, <3>2, <3>3, AqAssumption
  <2>1. LocalStep(t)
    BY <1>p, <1>9
      DEF recall_inside, Return, LocalStep, ControlTypeOK, LocalsOK, Go, ringVars,
          slotVars, pastVars
  <2>2. Knows(t)'
    BY <1>t, <1>s, <1>p, <1>9, <2>a, <2>b, DistFacts
      DEF recall_inside, Return, Knows, Filling, Firing, Pending, Oldest, Stopping,
          Looking, Copied, ControlTypeOK, LocalsOK, Go, Pc, ringVars, slotVars, Place,
          InEnq, InWait, InStat, Calling, Recalling, Issuing
  <2> QED BY <2>1, <2>2, LocalKeeps
<1>10. CASE stat_lock(t)
  <2>1. LocalStep(t)
    BY <1>p, <1>10 DEF stat_lock, LocalStep, ControlTypeOK, LocalsOK, Go, ringVars,
       slotVars, pastVars
  <2>2. Knows(t)'
    BY <1>t, <1>s, <1>p, <1>10, DistFacts DEF stat_lock, Knows, Filling, Firing,
       Pending, Oldest, Stopping, Looking, Copied, ControlTypeOK, LocalsOK, Go, Pc,
       ringVars, slotVars, Place, InEnq, InWait, InStat, Calling, Recalling, Issuing
  <2> QED BY <2>1, <2>2, LocalKeeps
<1> QED BY <1>1, <1>2, <1>3, <1>4, <1>5, <1>6, <1>7, <1>8, <1>9, <1>10

LEMMA CloseLocal ==
  ASSUME Ring, NEW t \in Task,
         \/ AQCLOSE(t)
         \/ close_lock(t)
  PROVE  RingInv'
<1>t. Knows(t) /\ Place(t) /\ Held(t) /\ Copied(t)
  BY DEF Ring, RingInv, Control, Fired
<1>s. /\ pc[t] # "rcl_ptr" => p[t] \in Slot
      /\ q[t] \in Slot /\ eptr[t] \in Slot /\ stop[t] \in Slot
      /\ aq_busy \in Slot /\ aq_ptr \in Slot /\ aq_nxtq \in Slot
  BY DEF Ring, Data, LocalsOK, RingOK, Known
<1>p. Dist(aq_busy, aq_ptr) <= Dist(aq_busy, aq_nxtq) /\ ControlTypeOK /\ LocalsOK
  BY DEF Ring, RingInv, Control, Data, PointersInOrder, Dist
<1>1. CASE AQCLOSE(t)
  <2>1. LocalStep(t)
    BY <1>p, <1>1 DEF AQCLOSE, LocalStep, ControlTypeOK, LocalsOK, Go, ringVars, slotVars,
       pastVars
  <2>2. Knows(t)'
    BY <1>t, <1>s, <1>p, <1>1, DistFacts DEF AQCLOSE, Knows, Filling, Firing, Pending,
       Oldest, Stopping, Looking, Copied, ControlTypeOK, LocalsOK, Go, Pc, ringVars,
       slotVars, Place, InEnq, InWait, InStat, Calling, Recalling, Issuing
  <2> QED BY <2>1, <2>2, LocalKeeps
<1>2. CASE close_lock(t)
  <2>1. LocalStep(t)
    BY <1>p, <1>2 DEF close_lock, CloseFrom, Return, LocalStep, ControlTypeOK, LocalsOK, Go,
       ringVars, slotVars, pastVars
  <2>2. Knows(t)'
    BY <1>t, <1>s, <1>p, <1>2, DistFacts DEF close_lock, CloseFrom, Return, Knows, Filling,
       Firing, Pending, Oldest, Stopping, Looking, Copied, ControlTypeOK, LocalsOK, Go, Pc,
       ringVars, slotVars, Place, InEnq, InWait, InStat, Calling, Recalling, Issuing
  <2> QED BY <2>1, <2>2, LocalKeeps
<1> QED BY <1>1, <1>2

-----------------------------------------------------------------------------
(* A recall: the oldest request leaves the ring.                           *)
Advances(t) ==
  /\ aq_busy # aq_ptr /\ sw[aq_busy] # "busy" /\ lock["lkbusy"] = t
  /\ aq_busy' = INC_QP(aq_busy)
  /\ UNCHANGED <<aq_ptr, aq_nxtq, aq_reqid, sw, inio, accepted>>
  /\ over \subseteq over' /\ {aq_reqid[aq_busy]} \ {0} \subseteq over'
  /\ \A u \in Task \ {t} : UNCHANGED <<pc[u], op[u], then[u], p[u], q[u], eptr[u], stop[u]>>

LEMMA AdvanceKeeps ==
  ASSUME Ring, NEW t \in Task, Advances(t), Knows(t)'
  PROVE  RingInv'
<1>s. /\ aq_busy \in Slot /\ aq_busy' \in Slot /\ aq_ptr \in Slot /\ aq_nxtq \in Slot
      /\ aq_reqid \in [Slot -> Request \cup {0}] /\ accepted \in Nat
      /\ Dist(aq_busy, aq_ptr) <= Dist(aq_busy, aq_nxtq) /\ aq_busy # aq_ptr
  BY SlotIsNat, AqAssumption DEF Ring, Data, RingOK, SlotsOK, PastOK, RingInv,
     PointersInOrder,
     Dist, Advances
<1>d. /\ \A i \in Slot : Dist(aq_busy, i) \in Nat /\ (i # aq_busy => Dist(aq_busy, i) > 0)
      /\ \A i \in Slot : i # aq_busy => Dist(aq_busy', i) = Dist(aq_busy, i) - 1
      /\ Dist(aq_busy, aq_busy) = 0 /\ Dist(aq_busy', aq_busy) = Max - 1
      /\ Dist(aq_busy, aq_nxtq) <= Max - 1
  <2>1. Dist(aq_busy', aq_busy) = Max - 1
    BY <1>s, AqAssumption DEF Advances, Slot, Dist, COUNT_QE, INC_QP
  <2>2. \A i \in Slot : i # aq_busy => Dist(aq_busy', i) = Dist(aq_busy, i) - 1
    BY <1>s, DistFacts DEF Advances
  <2>3. \A i \in Slot : Dist(aq_busy, i) \in 0 .. Max - 1 /\ (Dist(aq_busy, i) = 0 <=> aq_busy = i)
    BY <1>s, DistFacts
  <2> QED BY <1>s, <2>1, <2>2, <2>3, AqAssumption
<1>n. aq_busy # aq_nxtq
  BY <1>s, <1>d
<1>r. /\ \A s \in Slot : InRing(s)' <=> InRing(s) /\ s # aq_busy
      /\ \A s \in Slot : Unstarted(s)' => Unstarted(s)
  BY <1>s, <1>d, <1>n, AqAssumption DEF InRing, Unstarted, Advances, Dist, COUNT_QE
<1>1. PointersInOrder'
  BY <1>s, <1>d, <1>n DEF PointersInOrder, Dist, Advances
<1>u. UNCHANGED <<aq_ptr, aq_nxtq, aq_reqid, sw, inio, accepted>>
  BY DEF Advances
<1>i. Numbered /\ LeftOver /\ NotStarted /\ Started /\ inio \subseteq Slot
  BY DEF Ring, RingInv, Data, SlotsOK
<1>o. aq_reqid[aq_busy] + Dist(aq_busy, aq_nxtq) = accepted + 1
  BY <1>s, <1>d, <1>n, <1>i DEF Numbered, InRing
<1>2. Numbered'
  <2> SUFFICES ASSUME NEW s \in Slot
               PROVE  /\ InRing(s)' => aq_reqid[s] + Dist(s, aq_nxtq) = accepted + 1
                      /\ ~InRing(s)' => \/ aq_reqid[s] + Dist(aq_busy', aq_nxtq) <= accepted
                                        \/ s = aq_nxtq /\ aq_reqid[s] = accepted + 1
    BY <1>u DEF Numbered
  <2>0. aq_reqid[s] \in Nat
    BY <1>s DEF Request
  <2>1. CASE s = aq_busy
    BY <1>s, <1>d, <1>n, <1>o, <1>r, <2>0, <2>1
  <2>2. CASE s # aq_busy
    BY <1>s, <1>d, <1>n, <1>i, <1>r, <2>0, <2>2 DEF Numbered
  <2> QED BY <2>1, <2>2
<1>3. LeftOver' /\ NotStarted' /\ Started'
  <2>1. LeftOver'
    <3> SUFFICES ASSUME NEW r \in Request, r + Dist(aq_busy', aq_nxtq) <= accepted
                 PROVE  r \in over'
      BY <1>u DEF LeftOver
    <3>0. r \in Nat /\ r > 0 /\ aq_reqid[aq_busy] \in Nat
      BY <1>s DEF Request
    <3>1. r + Dist(aq_busy, aq_nxtq) <= accepted \/ r = aq_reqid[aq_busy]
      BY <1>s, <1>d, <1>n, <1>o, <3>0
    <3> QED BY <1>i, <3>0, <3>1 DEF LeftOver, Advances
  <2>2. NotStarted'
    BY <1>r, <1>u, <1>i DEF NotStarted
  <2>3. Started'
    BY <1>s, <1>d, <1>u, <1>i DEF Started, Advances
  <2> QED BY <2>1, <2>2, <2>3
<1>4. ASSUME NEW u \in Task \ {t} PROVE Knows(u)'
  <2>k. Knows(u) /\ Place(u) /\ Held(u) /\ Alone(u) /\ Copied(u) /\ lock["lkbusy"] # u /\ pc[t] # "user"
    <3>1. pc[t] # "user"
      BY DEF Ring, Control, Held, Needed, Advances, LockName, Calling, Recalling
    <3> QED BY <1>4, <3>1 DEF Ring, RingInv, Control, Fired, Advances
  <2>l. op[u] # "AQCLOSE" /\ "lkbusy" \notin Needed(u)
    BY <1>4, <2>k DEF Alone, Held, LockName
  <2>e. UNCHANGED <<pc[u], op[u], then[u], p[u], q[u], eptr[u], stop[u]>>
    BY <1>4 DEF Advances
  <2>t. /\ pc[u] # "rcl_ptr" => p[u] \in Slot
        /\ q[u] \in Slot /\ eptr[u] \in Slot /\ stop[u] \in Slot
        /\ op[u] \in Call /\ pc[u] \in Pc
    BY <1>4 DEF Ring, Data, LocalsOK, Known, Control, ControlTypeOK
  <2>n. /\ ~Recalling(u) /\ pc[u] \notin {"wait_loop", "recall_inside"}
        /\ pc[u] = "fire" \/ Issuing(u) \/ pc[u] = "call" => InEnq(u) /\ then[u] = "user"
    BY <2>k, <2>l DEF Needed, Brought, Place, InEnq, InWait, InStat, Recalling, Calling,
       Issuing
  <2>1. Filling(u)'
    <3>1. Dist(aq_busy', aq_nxtq) = Dist(aq_busy, aq_nxtq) - 1
      BY <1>s, <1>d, <1>n
    <3>2. Dist(aq_busy, aq_nxtq) \in Nat /\ Max \in Nat
      BY <1>s, <1>d, AqAssumption
    <3>3. Filling(u)
      BY <2>k DEF Knows
    <3>4. pc[u] \in {"enq_fill", "enq_inc"} => Dist(aq_busy', aq_nxtq) <= Max - 2
      BY <3>1, <3>2, <3>3 DEF Filling
    <3>5. aq_nxtq' = aq_nxtq /\ Dist(aq_busy, aq_nxtq)' = Dist(aq_busy', aq_nxtq)
      BY <1>u DEF Dist, COUNT_QE
    <3> QED BY <1>u, <2>e, <3>3, <3>4, <3>5 DEF Filling, InEnq
  <2>2. Firing(u)'
    <3> USE <1>u, <2>e, <2>k, <2>n, <2>t DEF Knows, Firing, InEnq, Issuing
    <3>1. pc[u] = "fire" => Dist(aq_busy', aq_ptr) <= Dist(aq_busy', q[u]) /\ Dist(aq_busy', q[u]) <= Dist(aq_busy', aq_nxtq)
      BY <1>s, <1>d, <1>n
    <3>2. Issuing(u) => aq_busy # p[u] /\ aq_busy # q[u]
      BY <1>s, <1>d DEF Copied, Pending, Advances
    <3>3. Issuing(u) => Dist(aq_busy', p[u]) <= Dist(aq_busy', q[u])
      BY <1>s, <1>d, <3>2
    <3>4. ASSUME NEW s \in Slot, Issuing(u), Pending(u, s)' PROVE Pending(u, s)
      <4>1. /\ Dist(aq_busy', p[u]) <= Dist(aq_busy', s)
            /\ Dist(aq_busy', s) < Dist(aq_busy', q[u])
        BY <1>u, <3>4 DEF Pending, Dist, COUNT_QE
      <4>2. Dist(aq_busy', q[u]) = Dist(aq_busy, q[u]) - 1 /\ Dist(aq_busy, q[u]) \in Nat
        BY <1>d, <3>2, <3>4
      <4>3. Dist(aq_busy, q[u]) <= Max - 1
        BY <1>s, DistFacts, AqAssumption
      <4>4. s # aq_busy
        BY <1>d, <4>1, <4>2, <4>3, AqAssumption
      <4>5. /\ Dist(aq_busy', p[u]) = Dist(aq_busy, p[u]) - 1 /\ Dist(aq_busy, p[u]) \in Nat
            /\ Dist(aq_busy', s) = Dist(aq_busy, s) - 1 /\ Dist(aq_busy, s) \in Nat
        BY <1>d, <3>2, <3>4, <4>4
      <4> QED BY <4>1, <4>2, <4>5 DEF Pending
    <3> QED BY <3>1, <3>2, <3>3, <3>4
  <2>3. Oldest(u)' /\ Stopping(u)' /\ Looking(u)'
    BY <1>u, <2>e, <2>k, <2>n DEF Knows, Oldest, Stopping, Looking, InEnq, InWait, InStat,
       Place, Recalling, Calling, Issuing
  <2> QED BY <2>1, <2>2, <2>3 DEF Knows
<1> QED BY <1>1, <1>2, <1>3, <1>4 DEF RingInv

(* A task that is recalling has lkbusy.                                    *)
LEMMA RecallHolds ==
  ASSUME Ring, NEW t \in Task, pc[t] = "recall"
  PROVE  lock["lkbusy"] = t
<1>1. Place(t) /\ Held(t) /\ op[t] \in Call
  BY DEF Ring, Control, ControlTypeOK
<1>2. "lkbusy" \in Needed(t)
  BY <1>1 DEF Needed, Brought, Recalling, Calling
<1> QED BY <1>1, <1>2 DEF Held, LockName

LEMMA EnqRecalled ==
  ASSUME Ring, NEW t \in Task, enq_recalled(t)
  PROVE  RingInv'
<1>t. Knows(t) /\ Place(t) /\ Held(t)
  BY DEF Ring, RingInv, Control
<1>s. /\ pc[t] # "rcl_ptr" => p[t] \in Slot
      /\ q[t] \in Slot /\ eptr[t] \in Slot /\ stop[t] \in Slot
      /\ aq_busy \in Slot /\ aq_ptr \in Slot /\ aq_nxtq \in Slot
  BY DEF Ring, Data, LocalsOK, RingOK, Known
<1>p. Dist(aq_busy, aq_ptr) <= Dist(aq_busy, aq_nxtq) /\ ControlTypeOK /\ LocalsOK
  BY DEF Ring, RingInv, Control, Data, PointersInOrder, Dist
<1>e. eptr[t] = aq_busy /\ aq_busy # aq_ptr /\ lock["lkbusy"] = t
  BY <1>t, RecallHolds DEF enq_recalled, Knows, Oldest, Recalling, InStat
<1>1. Advances(t)
  BY <1>e, <1>p DEF enq_recalled, Return, Advances, ControlTypeOK, LocalsOK, Go, slotVars
<1>d. aq_busy # aq_nxtq
  BY <1>s, <1>p, <1>e, DistFacts
<1>2. Knows(t)'
  <2>1. Dist(aq_busy', aq_nxtq') <= Max - 2 /\ t \in Queuer
    BY <1>s, <1>t, <1>d, DistFacts, AqAssumption DEF enq_recalled, Knows, Filling, InEnq
  <2> QED BY <1>t, <1>p, <2>1 DEF enq_recalled, Return, Go, Dist, COUNT_QE, ControlTypeOK,
     LocalsOK, Knows, Filling, Firing, Pending, Oldest, Stopping, Looking, Place, InEnq,
     InWait, InStat, Calling, Recalling, Issuing
<1> QED BY <1>1, <1>2, AdvanceKeeps

LEMMA WaitRecalled ==
  ASSUME Ring, NEW t \in Task, wait_recalled(t)
  PROVE  RingInv'
<1>t. Knows(t) /\ Place(t) /\ Held(t)
  BY DEF Ring, RingInv, Control
<1>s. /\ pc[t] # "rcl_ptr" => p[t] \in Slot
      /\ q[t] \in Slot /\ eptr[t] \in Slot /\ stop[t] \in Slot
      /\ aq_busy \in Slot /\ aq_ptr \in Slot /\ aq_nxtq \in Slot
  BY DEF Ring, Data, LocalsOK, RingOK, Known
<1>p. Dist(aq_busy, aq_ptr) <= Dist(aq_busy, aq_nxtq) /\ ControlTypeOK /\ LocalsOK
  BY DEF Ring, RingInv, Control, Data, PointersInOrder, Dist
<1>e. eptr[t] = aq_busy /\ aq_busy # aq_ptr /\ lock["lkbusy"] = t
  BY <1>t, RecallHolds DEF wait_recalled, Knows, Oldest, Recalling, InStat
<1>1. Advances(t)
  BY <1>e, <1>p DEF wait_recalled, Return, Advances, ControlTypeOK, LocalsOK, Go, slotVars
<1>d. aq_busy # aq_nxtq
  BY <1>s, <1>p, <1>e, DistFacts
<1>2. Knows(t)'
  <2>1. Dist(aq_busy', stop[t]) <= Dist(aq_busy', aq_ptr)
    <3>1. aq_busy # stop[t] /\ Dist(aq_busy, stop[t]) <= Dist(aq_busy, aq_ptr)
      BY <1>t DEF wait_recalled, Knows, Stopping, InWait, Recalling
    <3> QED BY <1>s, <1>e, <3>1, DistFacts, AqAssumption DEF wait_recalled
  <2>2. aq_ptr' = aq_ptr /\ pc'[t] \in {"user", "wait_loop"} /\ stop'[t] \in {0, stop[t]}
    BY <1>p DEF wait_recalled, Return, Go, ControlTypeOK, LocalsOK
  <2>3. pc'[t] = "wait_loop" => stop'[t] = stop[t]
    BY <1>p DEF wait_recalled, Return, Go, ControlTypeOK, LocalsOK
  <2>4. /\ op'[t] \in {"AQWAIT", "AQRECALL", "none"}
        /\ pc'[t] = "user" => op'[t] = "none"
    BY <1>p DEF wait_recalled, Return, Go, ControlTypeOK, LocalsOK
  <2>5. Stopping(t)'
    <3>1. Dist(aq_busy', stop[t]) = Dist(aq_busy, stop[t])' \/ pc'[t] = "user"
      BY <2>2, <2>3 DEF Dist, COUNT_QE
    <3> QED BY <2>1, <2>2, <2>3, <2>4 DEF Stopping, InWait, Calling, Recalling, Issuing,
       Dist, COUNT_QE
  <2> QED BY <2>2, <2>4, <2>5 DEF Knows, Filling, Firing, Pending, Oldest, Looking, Place,
     InEnq, InWait, InStat, Calling, Recalling, Issuing
<1> QED BY <1>1, <1>2, AdvanceKeeps

LEMMA CloseRecalled ==
  ASSUME Ring, NEW t \in Task, close_recalled(t)
  PROVE  RingInv'
<1>t. Knows(t) /\ Place(t) /\ Held(t)
  BY DEF Ring, RingInv, Control
<1>s. /\ pc[t] # "rcl_ptr" => p[t] \in Slot
      /\ q[t] \in Slot /\ eptr[t] \in Slot /\ stop[t] \in Slot
      /\ aq_busy \in Slot /\ aq_ptr \in Slot /\ aq_nxtq \in Slot
  BY DEF Ring, Data, LocalsOK, RingOK, Known
<1>p. Dist(aq_busy, aq_ptr) <= Dist(aq_busy, aq_nxtq) /\ ControlTypeOK /\ LocalsOK
  BY DEF Ring, RingInv, Control, Data, PointersInOrder, Dist
<1>e. eptr[t] = aq_busy /\ aq_busy # aq_ptr /\ lock["lkbusy"] = t
  BY <1>t, RecallHolds DEF close_recalled, Knows, Oldest, Recalling, InStat
<1>1. Advances(t)
  BY <1>e, <1>p DEF close_recalled, CloseFrom, Return, Advances, ControlTypeOK, LocalsOK,
     Go, slotVars
<1>d. aq_busy # aq_nxtq
  BY <1>s, <1>p, <1>e, DistFacts
<1>2. Knows(t)'
  BY <1>t, <1>p DEF close_recalled, CloseFrom, Return, Go, Dist, COUNT_QE, ControlTypeOK,
     LocalsOK, Knows, Filling, Firing, Pending, Oldest, Stopping, Looking, Place, InEnq,
     InWait, InStat, Calling, Recalling, Issuing
<1> QED BY <1>1, <1>2, AdvanceKeeps

LEMMA StatRecalled ==
  ASSUME Ring, NEW t \in Task, stat_recalled(t)
  PROVE  RingInv'
<1>t. Knows(t) /\ Place(t) /\ Held(t)
  BY DEF Ring, RingInv, Control
<1>s. /\ pc[t] # "rcl_ptr" => p[t] \in Slot
      /\ q[t] \in Slot /\ eptr[t] \in Slot /\ stop[t] \in Slot
      /\ aq_busy \in Slot /\ aq_ptr \in Slot /\ aq_nxtq \in Slot
  BY DEF Ring, Data, LocalsOK, RingOK, Known
<1>p. Dist(aq_busy, aq_ptr) <= Dist(aq_busy, aq_nxtq) /\ ControlTypeOK /\ LocalsOK
  BY DEF Ring, RingInv, Control, Data, PointersInOrder, Dist
<1>2. Knows(t)'
  BY <1>t, <1>p DEF stat_recalled, Return, ControlTypeOK, LocalsOK, Knows, Filling, Firing,
     Pending, Oldest, Stopping, Looking, Place, InEnq, InWait, InStat, Calling, Recalling,
     Issuing
<1>3. CASE eptr[t] = aq_busy
  <2>1. aq_busy # aq_nxtq /\ lock["lkbusy"] = t
    BY <1>t, <1>3, RecallHolds DEF stat_recalled, Knows, Looking, InStat, Recalling
  <2>2. aq_busy # aq_ptr
    <3> SUFFICES ASSUME aq_busy = aq_ptr PROVE FALSE
      OBVIOUS
    <3>1. Dist(aq_busy, aq_busy) = 0 /\ Dist(aq_busy, aq_nxtq) > 0
      BY <1>s, <2>1, DistFacts
    <3>2. sw[aq_busy] = "busy"
      BY <1>s, <3>1 DEF Ring, RingInv, NotStarted, Unstarted, InRing
    <3> QED BY <1>3, <3>2 DEF stat_recalled
  <2>3. Advances(t)
    BY <1>3, <1>p, <2>1, <2>2 DEF stat_recalled, Return, Advances, ControlTypeOK, LocalsOK
  <2> QED BY <1>2, <2>3, AdvanceKeeps
<1>4. CASE eptr[t] # aq_busy
  <2>1. LocalStep(t)
    BY <1>4, <1>p DEF stat_recalled, Return, LocalStep, ControlTypeOK, LocalsOK
  <2> QED BY <1>2, <2>1, LocalKeeps
<1> QED BY <1>3, <1>4

-----------------------------------------------------------------------------
(* A request is filled in: its slot is not in the ring yet.                *)
LEMMA FillKeeps ==
  ASSUME Ring, NEW t \in Task, enq_fill(t)
  PROVE  RingInv'
<1>s. /\ aq_busy \in Slot /\ aq_ptr \in Slot /\ aq_nxtq \in Slot
      /\ aq_reqid \in [Slot -> Request \cup {0}] /\ sw \in [Slot -> {"busy", "done", "error", "EINTR"}]
      /\ Dist(aq_busy, aq_ptr) <= Dist(aq_busy, aq_nxtq)
  BY DEF Ring, Data, RingOK, SlotsOK, RingInv, PointersInOrder, Dist
<1>u. /\ UNCHANGED <<aq_busy, aq_ptr, aq_nxtq, inio, accepted, over, op, then, p, q, eptr, stop>>
      /\ \A s \in Slot : s # aq_nxtq => aq_reqid'[s] = aq_reqid[s] /\ sw'[s] = sw[s]
      /\ aq_reqid'[aq_nxtq] = accepted + 1 /\ sw'[aq_nxtq] = "busy"
      /\ pc'[t] = "enq_inc" /\ \A u \in Task \ {t} : pc'[u] = pc[u]
  BY <1>s DEF enq_fill, Go, ringVars, pastVars, Ring, Control, ControlTypeOK
<1>r. \A s \in Slot : (InRing(s)' <=> InRing(s)) /\ (Unstarted(s)' <=> Unstarted(s))
  BY <1>u DEF InRing, Unstarted, Dist, COUNT_QE
<1>n. ~InRing(aq_nxtq)
  BY <1>s, DistFacts DEF InRing
<1>1. PointersInOrder' /\ LeftOver'
  BY <1>u DEF Ring, RingInv, PointersInOrder, LeftOver, Dist, COUNT_QE
<1>2. Numbered'
  BY <1>u, <1>r, <1>n DEF Ring, RingInv, Numbered, Dist, COUNT_QE
<1>3. NotStarted' /\ Started'
  BY <1>u, <1>r, <1>s DEF Ring, RingInv, NotStarted, Started, Data, SlotsOK, Dist, COUNT_QE
<1>4. ASSUME NEW u \in Task PROVE Knows(u)'
  <2>k. Knows(u) /\ Place(t) /\ pc[t] = "enq_fill" /\ Filling(t)
    BY DEF Ring, RingInv, Control, Knows, enq_fill
  <2>1. CASE u = t
    BY <1>u, <2>k, <2>1 DEF Knows, Filling, Firing, Oldest, Stopping, Looking, Place, InEnq,
       InWait, InStat, Calling, Recalling, Issuing, Dist, COUNT_QE
  <2>2. CASE u # t
    BY <1>u, <2>k, <2>2 DEF Knows, Filling, Firing, Pending, Batch, BatchEnd, Oldest,
       Stopping, Looking,
       InEnq, InWait, InStat, Calling, Recalling, Issuing, Dist, COUNT_QE
  <2> QED BY <2>1, <2>2
<1> QED BY <1>1, <1>2, <1>3, <1>4 DEF RingInv

(* A request enters the ring, with the next number.                        *)
LEMMA EnterKeeps ==
  ASSUME Ring, NEW t \in Task, enq_inc(t)
  PROVE  RingInv'
<1>s. /\ aq_busy \in Slot /\ aq_ptr \in Slot /\ aq_nxtq \in Slot /\ aq_nxtq' \in Slot
      /\ aq_reqid \in [Slot -> Request \cup {0}] /\ accepted \in Nat
      /\ Dist(aq_busy, aq_ptr) <= Dist(aq_busy, aq_nxtq)
  BY SlotIsNat DEF enq_inc, Ring, Data, RingOK, SlotsOK, PastOK, RingInv, PointersInOrder,
     Dist
<1>t. Knows(t) /\ Place(t) /\ Held(t) /\ pc[t] = "enq_inc" /\ InEnq(t) /\ lock["lknxtq"] = t
  BY DEF Ring, RingInv, Control, Place, Held, Needed, LockName, enq_inc
<1>u. /\ UNCHANGED <<aq_busy, aq_ptr, aq_reqid, sw, inio, over>>
      /\ aq_nxtq' = INC_QP(aq_nxtq) /\ accepted' = accepted + 1
      /\ pc'[t] \in {"call", "user"} /\ op'[t] \in {op[t], "none"} /\ (pc'[t] = "user" =>
             op'[t] = "none")
      /\ then'[t] = "user"
      /\ \A u \in Task \ {t} : UNCHANGED <<pc[u], op[u], then[u], p[u], q[u], eptr[u], stop[u]>>
  BY DEF enq_inc, Go, Return, slotVars, Ring, Control, ControlTypeOK, Data, LocalsOK
<1>d. /\ Dist(aq_busy, aq_nxtq') = Dist(aq_busy, aq_nxtq) + 1
      /\ Dist(aq_busy, aq_nxtq) \in Nat /\ Dist(aq_busy, aq_ptr) \in Nat
      /\ aq_busy # aq_nxtq'
  BY <1>s, <1>t, <1>u, DistFacts, AqAssumption DEF Knows, Filling
<1>f. aq_reqid[aq_nxtq] = accepted + 1 /\ sw[aq_nxtq] = "busy"
  BY <1>t DEF Knows, Filling
<1>r. \A s \in Slot : InRing(s)' <=> InRing(s) \/ s = aq_nxtq
  <2> SUFFICES ASSUME NEW s \in Slot PROVE InRing(s)' <=> InRing(s) \/ s = aq_nxtq
    OBVIOUS
  <2>1. Dist(aq_busy, s) \in Nat /\ (Dist(aq_busy, s) = Dist(aq_busy, aq_nxtq) =>
            s = aq_nxtq)
    BY <1>s, DistFacts, Between3
  <2>2. InRing(s)' <=> Dist(aq_busy, s) < Dist(aq_busy, aq_nxtq')
    BY <1>u DEF InRing, Dist, COUNT_QE
  <2> QED BY <1>d, <2>1, <2>2 DEF InRing
<1>1. PointersInOrder'
  BY <1>s, <1>d, <1>u DEF PointersInOrder, Dist, COUNT_QE
<1>2. Numbered'
  <2> SUFFICES ASSUME NEW s \in Slot
               PROVE  /\ InRing(s)' => aq_reqid[s] + Dist(s, aq_nxtq') = accepted + 2
                      /\ ~InRing(s)' =>
                             aq_reqid[s] + Dist(aq_busy, aq_nxtq') <= accepted + 1
    BY <1>s, <1>u DEF Numbered, Dist, COUNT_QE
  <2>0. aq_reqid[s] \in Nat /\ Dist(aq_busy, s) \in Nat
    BY <1>s, DistFacts DEF Request
  <2>1. CASE s = aq_nxtq
    <3>1. Dist(s, aq_nxtq') = 1
      BY <1>s, <1>d, <2>1, Between3
    <3> QED BY <1>s, <1>f, <1>r, <2>1, <3>1
  <2>2. CASE InRing(s)
    <3>1. Dist(s, aq_nxtq) = Dist(aq_busy, aq_nxtq) - Dist(aq_busy, s)
      BY <1>s, <1>d, <2>0, <2>2, Between3 DEF InRing
    <3>2. Dist(s, aq_nxtq') = Dist(aq_busy, aq_nxtq') - Dist(aq_busy, s)
      BY <1>s, <1>d, <2>0, <2>2, Between3 DEF InRing
    <3>3. aq_reqid[s] + Dist(s, aq_nxtq) = accepted + 1
      BY <2>2 DEF Ring, RingInv, Numbered
    <3> QED BY <1>s, <1>d, <1>r, <2>0, <2>2, <3>1, <3>2, <3>3
  <2>3. CASE ~InRing(s) /\ s # aq_nxtq
    <3>1. aq_reqid[s] + Dist(aq_busy, aq_nxtq) <= accepted
      BY <2>3 DEF Ring, RingInv, Numbered
    <3> QED BY <1>s, <1>d, <1>r, <2>0, <2>3, <3>1
  <2> QED BY <2>1, <2>2, <2>3
<1>3. LeftOver' /\ NotStarted' /\ Started'
  <2>1. LeftOver'
    <3> SUFFICES ASSUME NEW r \in Request, r + Dist(aq_busy, aq_nxtq') <= accepted + 1
                 PROVE  r \in over
      BY <1>u DEF LeftOver, Dist, COUNT_QE
    <3>1. r + Dist(aq_busy, aq_nxtq) <= accepted
      BY <1>s, <1>d DEF Request
    <3> QED BY <3>1 DEF Ring, RingInv, LeftOver
  <2>2. NotStarted'
    <3> SUFFICES ASSUME NEW s \in Slot, Unstarted(s)' PROVE sw[s] = "busy"
      BY <1>u DEF NotStarted
    <3>1. InRing(s)' /\ Dist(aq_busy, aq_ptr) <= Dist(aq_busy, s)
      BY <1>u DEF Unstarted, Dist, COUNT_QE
    <3> QED BY <1>r, <1>f, <3>1 DEF Unstarted, Ring, RingInv, NotStarted
  <2>3. Started'
    BY <1>u DEF Ring, RingInv, Started, Dist, COUNT_QE
  <2> QED BY <2>1, <2>2, <2>3
<1>4. Knows(t)'
  BY <1>t, <1>u DEF Knows, Filling, Firing, Oldest, Stopping, Looking, InEnq, InWait,
     InStat,
     Calling, Recalling, Issuing
<1>5. ASSUME NEW u \in Task \ {t} PROVE Knows(u)'
  <2>k. Knows(u) /\ Place(u) /\ "lknxtq" \notin Needed(u)
    BY <1>t, <1>5 DEF Ring, RingInv, Control, Held, LockName
  <2>e. UNCHANGED <<pc[u], op[u], then[u], p[u], q[u], eptr[u], stop[u]>>
    BY <1>5, <1>u
  <2>t. q[u] \in Slot /\ eptr[u] \in Slot /\ stop[u] \in Slot
    BY <1>5 DEF Ring, Data, LocalsOK
  <2>n. /\ pc[u] \notin {"enq_fill", "enq_inc", "stat_busy"}
        /\ ~(InEnq(u) /\ Calling(u) /\ then[u] = "rcl")
    BY <2>k DEF Needed, Brought, Recalling, Calling, InEnq
  <2>1. Filling(u)' /\ Oldest(u)'
    BY <1>u, <2>e, <2>k, <2>n DEF Knows, Filling, Oldest, InEnq, InStat, Calling, Recalling
  <2>2. Firing(u)'
    <3>1. Dist(aq_busy, q[u]) \in Nat
      BY <1>s, <2>t, DistFacts
    <3> QED BY <1>s, <1>d, <1>u, <2>e, <2>k, <3>1 DEF Knows, Firing, Pending, Batch,
       BatchEnd, InEnq, Issuing, Dist, COUNT_QE
  <2>3. Stopping(u)'
    <3>1. Dist(aq_busy, stop[u]) \in Nat
      BY <1>s, <2>t, DistFacts
    <3> QED BY <1>s, <1>d, <1>u, <2>e, <2>k, <3>1 DEF Knows, Stopping, InWait, Recalling,
       Issuing, Dist, COUNT_QE
  <2>4. Looking(u)'
    BY <1>d, <1>u, <2>e, <2>n DEF Looking, InStat, Calling, Recalling
  <2> QED BY <2>1, <2>2, <2>3, <2>4 DEF Knows
<1> QED BY <1>1, <1>2, <1>3, <1>4, <1>5 DEF RingInv

-----------------------------------------------------------------------------
(* _aqcall takes a batch: aq_ptr goes on to where aq_nxtq was.             *)
LEMMA FireKeeps ==
  ASSUME Ring, NEW t \in Task, call_fire(t)
  PROVE  RingInv'
<1>s. /\ aq_busy \in Slot /\ aq_ptr \in Slot /\ aq_nxtq \in Slot /\ q[t] \in Slot
      /\ Dist(aq_busy, aq_ptr) <= Dist(aq_busy, aq_nxtq)
  BY DEF Ring, Data, RingOK, LocalsOK, RingInv, PointersInOrder, Dist
<1>t. /\ Knows(t) /\ Place(t) /\ Held(t) /\ pc[t] = "fire" /\ p[t] = aq_ptr /\ p[t] # q[t]
      /\ lock["lkptr"] = t
      /\ Dist(aq_busy, aq_ptr) <= Dist(aq_busy, q[t]) /\ Dist(aq_busy, q[t]) <= Dist(aq_busy, aq_nxtq)
  BY DEF Ring, RingInv, Control, Fired, Copied, Held, Needed, Calling, Recalling, LockName,
     Knows, Firing, call_fire
<1>u. /\ UNCHANGED <<aq_busy, aq_nxtq, aq_reqid, sw, inio, accepted, over, op, then, p, q, eptr, stop>>
      /\ aq_ptr' = q[t]
      /\ pc'[t] = "listio" /\ \A u \in Task \ {t} : pc'[u] = pc[u]
  BY DEF call_fire, Go, slotVars, pastVars, Ring, Control, ControlTypeOK
<1>d. \A s \in Slot : Dist(aq_busy, s) \in Nat
  BY <1>s, DistFacts
<1>b. aq_busy # aq_ptr'
  BY <1>s, <1>t, <1>u, <1>d, DistFacts
<1>r. \A s \in Slot : (InRing(s)' <=> InRing(s)) /\ (Unstarted(s)' => Unstarted(s))
  BY <1>s, <1>t, <1>u, <1>d DEF InRing, Unstarted, Dist, COUNT_QE
<1>1. PointersInOrder' /\ Numbered' /\ LeftOver' /\ NotStarted'
  BY <1>t, <1>u, <1>r DEF Ring, RingInv, PointersInOrder, Numbered, LeftOver, NotStarted,
     Dist, COUNT_QE
<1>2. Started'
  <2> SUFFICES ASSUME NEW s \in inio
               PROVE  sw[s] = "busy" /\ Dist(aq_busy, s) < Dist(aq_busy, q[t])
    BY <1>u DEF Started, Dist, COUNT_QE
  <2>1. s \in Slot /\ sw[s] = "busy" /\ Dist(aq_busy, s) < Dist(aq_busy, aq_ptr)
    BY DEF Ring, RingInv, Started, Data, SlotsOK
  <2> QED BY <1>s, <1>t, <1>d, <2>1
<1>3. Knows(t)'
  <2>1. \A s \in Slot : Pending(t, s) => s \notin inio /\ (InEnq(t) => sw[s] = "busy")
    <3> SUFFICES ASSUME NEW s \in Slot, Pending(t, s)
                 PROVE  s \notin inio /\ sw[s] = "busy"
      OBVIOUS
    <3>1. Dist(aq_busy, aq_ptr) <= Dist(aq_busy, s) /\ Dist(aq_busy, s) < Dist(aq_busy, q[t])
      BY <1>t DEF Pending
    <3>2. Unstarted(s)
      BY <1>s, <1>t, <1>d, <3>1 DEF Unstarted, InRing
    <3>3. ~(Dist(aq_busy, s) < Dist(aq_busy, aq_ptr))
      BY <1>s, <1>d, <3>1
    <3> QED BY <3>2, <3>3 DEF Ring, RingInv, NotStarted, Started
  <2>2. Firing(t)'
    BY <1>t, <1>u, <2>1 DEF Firing, Pending, InEnq, Issuing, Dist, COUNT_QE
  <2>3. Filling(t)' /\ Oldest(t)' /\ Looking(t)'
    BY <1>t, <1>u DEF Knows, Filling, Oldest, Looking, InEnq, InStat, Calling, Recalling
  <2>4. Stopping(t)'
    BY <1>t, <1>u DEF Knows, Stopping, InWait, Calling, Recalling, Issuing, Dist, COUNT_QE
  <2> QED BY <2>2, <2>3, <2>4 DEF Knows
<1>4. ASSUME NEW u \in Task \ {t} PROVE Knows(u)'
  <2>k. Knows(u) /\ pc[u] # "fire" /\ pc'[u] = pc[u] /\ stop[u] \in Slot
    BY <1>t, <1>u, <1>4 DEF Ring, RingInv, Control, Held, Needed, LockName, Calling,
       Recalling, Data, LocalsOK
  <2>1. Filling(u)' /\ Oldest(u)' /\ Looking(u)'
    BY <1>b, <1>u, <2>k DEF Knows, Filling, Oldest, Looking, InEnq, InStat, Calling,
       Recalling, Dist, COUNT_QE
  <2>2. Firing(u)'
    BY <1>u, <2>k DEF Knows, Firing, Pending, Batch, BatchEnd, InEnq, Issuing, Dist,
       COUNT_QE
  <2>3. Stopping(u)'
    BY <1>s, <1>t, <1>d, <1>u, <2>k DEF Knows, Stopping, InWait, Recalling, Issuing, Dist,
       COUNT_QE
  <2> QED BY <2>1, <2>2, <2>3 DEF Knows
<1> QED BY <1>1, <1>2, <1>3, <1>4 DEF RingInv

(* A step that changes slots that were started, or are being started, and  *)
(* nothing else that matters to tasks other than those that issue requests.*)
Transfers ==
  /\ UNCHANGED <<aq_busy, aq_ptr, aq_nxtq, aq_reqid, accepted, over, op, then, eptr, stop, q>>
  /\ \A s \in Slot : Dist(aq_busy, aq_ptr) <= Dist(aq_busy, s) => sw'[s] = sw[s]
  /\ \A s \in inio' : sw'[s] = "busy" /\ Dist(aq_busy, s) < Dist(aq_busy, aq_ptr)

LEMMA TransferKeeps ==
  ASSUME Ring, Transfers
  PROVE  /\ PointersInOrder' /\ Numbered' /\ LeftOver' /\ NotStarted' /\ Started'
         /\ \A u \in Task : pc'[u] = pc[u] /\ p'[u] = p[u] /\ ~Issuing(u) => Knows(u)'
<1>u. /\ UNCHANGED <<aq_busy, aq_ptr, aq_nxtq, aq_reqid, accepted, over, op, then, eptr, stop, q>>
      /\ aq_busy \in Slot /\ aq_ptr \in Slot /\ aq_nxtq \in Slot
      /\ Dist(aq_busy, aq_ptr) <= Dist(aq_busy, aq_nxtq)
  BY DEF Transfers, Ring, Data, RingOK, RingInv, PointersInOrder, Dist
<1>1. PointersInOrder' /\ Numbered' /\ LeftOver'
  BY <1>u DEF Ring, RingInv, PointersInOrder, Numbered, LeftOver, InRing, Dist, COUNT_QE
<1>2. NotStarted'
  BY <1>u DEF Ring, RingInv, NotStarted, Transfers, Unstarted, InRing, Dist, COUNT_QE
<1>3. Started'
  BY <1>u DEF Transfers, Started, Dist, COUNT_QE
<1>4. ASSUME NEW u \in Task, pc'[u] = pc[u], p'[u] = p[u], ~Issuing(u) PROVE Knows(u)'
  <2>k. Knows(u) /\ pc[u] \notin {"listio", "restart", "fired"}
    BY <1>4 DEF Ring, RingInv, Issuing
  <2>1. Filling(u)'
    BY <1>u, <1>4, <2>k DEF Knows, Filling, Transfers, InEnq, Dist, COUNT_QE
  <2>2. Firing(u)' /\ Oldest(u)' /\ Stopping(u)' /\ Looking(u)'
    BY <1>u, <1>4, <2>k DEF Knows, Firing, Oldest, Stopping, Looking, InEnq, InWait, InStat,
       Calling, Recalling, Issuing, Dist, COUNT_QE
  <2> QED BY <2>1, <2>2 DEF Knows
<1> QED BY <1>1, <1>2, <1>3, <1>4

LEMMA CompleteKeeps ==
  ASSUME Ring, NEW x \in Slot, Complete(x)
  PROVE  RingInv'
<1>s. /\ aq_busy \in Slot /\ aq_ptr \in Slot /\ aq_nxtq \in Slot /\ inio \subseteq Slot
      /\ sw \in [Slot -> {"busy", "done", "error", "EINTR"}]
      /\ x \in inio /\ inio' = inio \ {x} /\ Started
      /\ \A s \in Slot \ {x} : sw'[s] = sw[s]
      /\ Dist(aq_busy, x) < Dist(aq_busy, aq_ptr)
      /\ Dist(aq_busy, x) \in Nat /\ Dist(aq_busy, aq_ptr) \in Nat
      /\ UNCHANGED localVars
  BY DistFacts DEF Ring, Data, RingOK, SlotsOK, RingInv, Started, Complete
<1>1. Transfers
  <2>1. \A s \in Slot : Dist(aq_busy, aq_ptr) <= Dist(aq_busy, s) => s # x
    BY <1>s
  <2> QED BY <1>s, <2>1 DEF Transfers, Complete, Started, ringVars, localVars
<1>2. ASSUME NEW u \in Task, Issuing(u) PROVE Knows(u)'
  <2>k. Knows(u) /\ pc'[u] = pc[u] /\ p'[u] = p[u]
    BY <1>s DEF Ring, RingInv, localVars
  <2>u. UNCHANGED <<aq_busy, aq_ptr, aq_nxtq, aq_reqid, accepted, op, then, eptr, stop, q>>
    BY <1>1 DEF Transfers
  <2>1. Firing(u)'
    BY <1>s, <1>2, <2>k, <2>u DEF Knows, Firing, Pending, Batch, BatchEnd, InEnq, Issuing,
       Dist, COUNT_QE
  <2>2. Filling(u)' /\ Oldest(u)' /\ Stopping(u)' /\ Looking(u)'
    BY <1>s, <1>2, <2>k, <2>u DEF Knows, Filling, Oldest, Stopping, Looking, InEnq, InWait,
       InStat, Calling, Recalling, Issuing, Dist, COUNT_QE
  <2> QED BY <2>1, <2>2 DEF Knows
<1>3. \A u \in Task : pc'[u] = pc[u] /\ p'[u] = p[u]
  BY <1>s DEF localVars
<1> QED BY <1>1, <1>2, <1>3, TransferKeeps DEF RingInv

(* A batch goes to the system, is refused, or is cut short by a signal.    *)
LEMMA IssueKeeps ==
  ASSUME Ring, NEW t \in Task,
         call_listio(t) \/ call_listio_fails(t) \/ call_listio_interrupted(t)
  PROVE  RingInv'
<1>s. /\ aq_busy \in Slot /\ aq_ptr \in Slot /\ aq_nxtq \in Slot /\ inio \subseteq Slot
      /\ p[t] \in Slot /\ q[t] \in Slot
  BY DEF Ring, Data, RingOK, SlotsOK, LocalsOK, Known, call_listio, call_listio_fails,
     call_listio_interrupted
<1>t. /\ Knows(t) /\ Place(t) /\ pc[t] = "listio" /\ q[t] = aq_ptr /\ p[t] # q[t]
      /\ lock["lkfird"] = t
      /\ Dist(aq_busy, p[t]) <= Dist(aq_busy, q[t])
      /\ \A s \in Slot : Pending(t, s) => s \notin inio /\ (InEnq(t) => sw[s] = "busy")
  BY DEF Ring, RingInv, Control, Fired, Copied, Held, Needed, Calling, Recalling, LockName,
     Knows, Firing, Issuing, call_listio, call_listio_fails, call_listio_interrupted
<1>b. Batch(t) \subseteq Slot /\ \A s \in Batch(t) : Pending(t, s)
  BY <1>s, <1>t, BatchInRing, BatchPending
<1>o. \A u \in Task \ {t} : ~Issuing(u)
  BY <1>t DEF Ring, Control, Held, Needed, Calling, Recalling, LockName, Issuing
<1>v. /\ UNCHANGED <<ringVars, aq_reqid, op, then, q, eptr, stop, accepted, over>>
      /\ \A u \in Task \ {t} : pc'[u] = pc[u] /\ p'[u] = p[u]
  BY DEF call_listio, call_listio_fails, call_listio_interrupted, Go, Ring, Control,
     ControlTypeOK, Data, LocalsOK
<1>w. /\ \A s \in Slot : s \notin Batch(t) => sw'[s] = sw[s]
      /\ inio' \subseteq inio \cup Batch(t)
      /\ \A s \in inio' : s \in Batch(t) => sw'[s] = "busy"
  BY <1>s, <1>t, <1>b DEF call_listio, call_listio_fails, call_listio_interrupted
<1>1. Transfers
  <2>1. \A s \in Batch(t) : Dist(aq_busy, s) < Dist(aq_busy, aq_ptr)
    BY <1>t, <1>b DEF Pending
  <2>2. \A s \in Slot : Dist(aq_busy, aq_ptr) <= Dist(aq_busy, s) => s \notin Batch(t)
    BY <1>s, <2>1, DistFacts
  <2>3. \A s \in inio' : sw'[s] = "busy" /\ Dist(aq_busy, s) < Dist(aq_busy, aq_ptr)
    BY <1>s, <1>w, <2>1 DEF Ring, RingInv, Started
  <2> QED BY <1>v, <1>w, <2>2, <2>3 DEF Transfers, ringVars
<1>2. Firing(t)'
  <2>1. CASE call_listio(t) \/ call_listio_fails(t)
    <3>1. PICK w \in Slot : /\ w = Wrapped(BatchEnd(t))
                            /\ Dist(aq_busy, w) <= Dist(aq_busy, q[t])
                            /\ \A s \in Slot : Dist(aq_busy, w) <= Dist(aq_busy, s) /\ Dist(aq_busy, s) < Dist(aq_busy, q[t])
                                 => Pending(t, s) /\ s \notin Batch(t)
      BY <1>s, <1>t, BatchIsFirst
    <3>2. p'[t] = w /\ pc'[t] = "fired"
      BY <2>1, <3>1 DEF call_listio, call_listio_fails, Go, Ring, Control, ControlTypeOK,
         Data, LocalsOK
    <3>3. \A s \in Slot : Pending(t, s)' => Pending(t, s) /\ s \notin Batch(t)
      BY <1>v, <3>1, <3>2 DEF Pending, ringVars, Dist, COUNT_QE
    <3> QED BY <1>t, <1>v, <1>w, <3>1, <3>2, <3>3 DEF Firing, InEnq, Issuing, ringVars,
       Dist, COUNT_QE
  <2>2. CASE call_listio_interrupted(t)
    <3>1. p' = p /\ pc'[t] = "restart" /\ ~InEnq(t)
      BY <1>t, <2>2 DEF call_listio_interrupted, Go, Knows, Filling, Ring, WellUsed,
         Control, ControlTypeOK
    <3>2. \A s \in Slot : Pending(t, s)' => s \notin inio' \/ s \in Batch(t)'
      BY <1>t, <1>v, <1>w, <3>1 DEF Pending, Batch, BatchEnd, ringVars, Dist, COUNT_QE
    <3> QED BY <1>t, <1>v, <3>1, <3>2 DEF Firing, InEnq, Issuing, ringVars, Dist, COUNT_QE
  <2> QED BY <2>1, <2>2
<1>3. Filling(t)' /\ Oldest(t)' /\ Stopping(t)' /\ Looking(t)'
  <2>1. pc'[t] \in {"fired", "restart"}
    BY DEF call_listio, call_listio_fails, call_listio_interrupted, Go, Ring, Control,
       ControlTypeOK
  <2> QED BY <1>t, <1>v, <2>1 DEF Knows, Filling, Oldest, Stopping, Looking, InEnq, InWait,
        InStat, Calling, Recalling, Issuing, ringVars, Dist, COUNT_QE
<1> QED BY <1>1, <1>2, <1>3, <1>o, <1>v, TransferKeeps DEF RingInv, Knows

-----------------------------------------------------------------------------
LEMMA RingStarts == Init => RingInv
<1> SUFFICES ASSUME Init PROVE RingInv
  OBVIOUS
<1>1. 0 \in Slot /\ Dist(0, 0) = 0 /\ \A s \in Slot : Dist(0, s) \in Nat
  BY SlotIsNat, DistFacts
<1>2. /\ aq_busy = 0 /\ aq_ptr = 0 /\ aq_nxtq = 0 /\ accepted = 0 /\ inio = {}
      /\ \A s \in Slot : aq_reqid[s] = 0
      /\ \A t \in Task : pc[t] = "user" /\ op[t] = "none"
  BY DEF Init
<1>3. PointersInOrder /\ Numbered /\ Started
  BY <1>1, <1>2 DEF PointersInOrder, Numbered, Started, InRing, Dist
<1>4. LeftOver /\ NotStarted
  BY <1>1, <1>2 DEF LeftOver, NotStarted, Unstarted, InRing, Request
<1>5. \A t \in Task : Knows(t)
  BY <1>2 DEF Knows, Filling, Firing, Oldest, Stopping, Looking, InEnq, InWait, InStat,
     Calling, Recalling, Issuing
<1> QED BY <1>3, <1>4, <1>5 DEF RingInv

LEMMA RingStutters == Ring /\ UNCHANGED vars => RingInv'
BY DEF vars, ringVars, slotVars, localVars, pastVars, Ring, RingInv, PointersInOrder,
   Numbered,
   LeftOver, NotStarted, Started, InRing, Unstarted, Dist, COUNT_QE, Knows, Filling, Firing,
   Pending, Batch, BatchEnd, Oldest, Stopping, Looking, InEnq, InWait, InStat, Calling,
   Recalling, Issuing

LEMMA RingNext ==
  ASSUME Ring, [Next]_vars
  PROVE  RingInv'
<1>1. CASE UNCHANGED vars
  BY <1>1, RingStutters
<1>2. ASSUME NEW s \in Slot, Complete(s) PROVE RingInv'
  BY <1>2, CompleteKeeps
<1>3. CASE \E t \in Task : \/ \E start \in BOOLEAN : _aqenq(t, start)
                           \/ enq_busy(t) \/ enq_recalled(t) \/ enq_fill(t) \/ enq_inc(t)
  BY <1>3, EnqLocal, EnqRecalled, FillKeeps, EnterKeeps
<1>4. CASE \E t \in Task : \/ _aqcall(t) \/ call_fire(t) \/ call_listio(t)
                           \/ call_listio_fails(t) \/ call_listio_interrupted(t)
                           \/ call_restart(t) \/ call_fired(t)
  BY <1>4, CallLocal, FireKeeps, IssueKeeps
<1>5. CASE \E t \in Task : _aqrcl(t) \/ rcl_ptr(t) \/ rcl_fird(t)
  BY <1>5, RclLocal
<1>6. CASE \E t \in Task : \/ AQWAIT(t) \/ wait_idle(t) \/ wait_lock(t) \/ wait_loop(t)
                           \/ wait_recalled(t)
                           \/ \E r \in Request : AQRECALL(t, r)
                           \/ \E r \in Request, wait \in BOOLEAN : AQSTAT(t, r, wait)
                           \/ recall_lock(t) \/ recall_inside(t)
                           \/ stat_lock(t) \/ stat_busy(t) \/ stat_recalled(t)
  BY <1>6, AskLocal, WaitRecalled, StatRecalled
<1>7. CASE \E t \in Task : AQCLOSE(t) \/ close_lock(t) \/ close_recalled(t)
  BY <1>7, CloseLocal, CloseRecalled
<1> QED BY <1>1, <1>2, <1>3, <1>4, <1>5, <1>6, <1>7 DEF Next, InCall

(* aq_ptr stays between aq_busy and aq_nxtq, and the ring holds the last   *)
(* requests in their order (aqio.h:50-62), though _aqcall and the calls    *)
(* that recall go by copies of the pointers which others have moved since. *)
LEMMA RingInvariant == ASSUME WellUsed PROVE Spec /\ []InTime => []RingInv
<1>1. InTime /\ RingInv /\ Fired /\ Data /\ Control /\ [Next]_vars => RingInv'
  BY RingNext DEF Ring
<1> QED BY <1>1, RingStarts, FiredInvariant, DataInvariant, ControlInvariant, PTL DEF Spec

(* aq_ptr is always between aq_busy and aq_nxtq, though _aqcall advances   *)
(* it to a copy of aq_nxtq that was made without lknxtq, and recalls move  *)
(* aq_busy on meanwhile (aqio.h:50-62, aqcall.c:72-86).                    *)
THEOREM RingInOrder == ASSUME WellUsed PROVE Spec /\ []InTime => []PointersInOrder
<1>1. RingInv => PointersInOrder
  BY DEF RingInv
<1> QED BY <1>1, RingInvariant, PTL

-----------------------------------------------------------------------------
(***************************************************************************)
(* Nobody waits for a request of AqIo that was not given to the system: a  *)
(* theorem under the same conditions as the order of the ring.             *)
(***************************************************************************)

Begun(s) == Dist(aq_busy, s) < Dist(aq_busy, aq_ptr)
Waits(t) == InStat(t) /\ (Calling(t) \/ Recalling(t))
Due(t, s) == Issuing(t) /\ Pending(t, s)

(* What was started was given to the system, is complete, or is in the     *)
(* rest of somebody's batch; a slot out of the ring is not in use.         *)
Given ==
  \A s \in Slot : Begun(s) /\ sw[s] = "busy" => s \in inio \/ \E u \in Task : Due(u, s)
Emptied ==
  \A s \in Slot : sw[s] = "busy" =>
    InRing(s) \/ (s = aq_nxtq /\ \E u \in Task : pc[u] = "enq_inc")

(* What a call knows that issues requests or waits for one, where it is.   *)
Issues(t) ==
  /\ pc[t] = "fired" =>
       Dist(FiredFrom(aq_fird), p[t]) <= Dist(FiredFrom(aq_fird), q[t])
  /\ pc[t] = "restart" => \A s \in Batch(t) : sw[s] = "busy" => s \in inio

Seeks(t) ==
  /\ Waits(t) => \A u \in Task : pc[u] \notin {"enq_fill", "enq_inc"}
  /\ InStat(t) /\ (pc[t] = "fire" \/ Issuing(t)) /\ InRing(eptr[t]) =>
       Dist(aq_busy, eptr[t]) < Dist(aq_busy, q[t])
  /\ Recalling(t) /\ sw[eptr[t]] = "busy" => Begun(eptr[t])
  /\ pc[t] = "rcl_ptr" =>
       \A u \in Task : Due(u, eptr[t]) => Between(p[t], eptr[t], aq_ptr)
  /\ pc[t] = "recall" /\ sw[eptr[t]] = "busy" => eptr[t] \in inio

GivenInv == Given /\ Emptied /\ \A t \in Task : Issues(t) /\ Seeks(t)

-----------------------------------------------------------------------------
(* What the locks exclude.                                                 *)
LEMMA OneIssuer ==
  ASSUME Control, NEW t \in Task, NEW u \in Task, Issuing(t), Issuing(u)
  PROVE  t = u
BY DEF Control, Held, Needed, LockName, Calling, Recalling, Issuing

LEMMA HoldsBusy ==
  ASSUME Control, NEW t \in Task, Waits(t) \/ Recalling(t)
  PROVE  lock["lkbusy"] = t
<1>1. Place(t) /\ Held(t) /\ op[t] \in Call
  BY DEF Control, ControlTypeOK
<1>2. "lkbusy" \in Needed(t)
  BY <1>1 DEF Waits, InStat, InEnq, Needed, Brought, Recalling, Calling, Call
<1> QED BY <1>1, <1>2 DEF Held, LockName

LEMMA IssuingLocks ==
  ASSUME Control, NEW t \in Task, Issuing(t)
  PROVE  /\ lock["lkfird"] = t
         /\ InEnq(t) \/ op[t] = "AQCLOSE" \/ lock["lkbusy"] = t
<1>1. Place(t) /\ Held(t) /\ op[t] \in Call
  BY DEF Control, ControlTypeOK
<1>2. "lkfird" \in Needed(t) /\ (InEnq(t) \/ op[t] = "AQCLOSE" \/ "lkbusy" \in Needed(t))
  BY <1>1 DEF InEnq, Needed, Brought, Recalling, Calling, Issuing, Call
<1> QED BY <1>1, <1>2 DEF Held, LockName

(* While a task waits, what others still have to start is not complete.    *)
LEMMA DueIsBusy ==
  ASSUME Ring, NEW t \in Task, Recalling(t), NEW u \in Task, NEW s \in Slot, Due(u, s)
  PROVE  sw[s] = "busy" /\ s \notin inio
<1>1. u # t /\ lock["lkbusy"] = t /\ pc[t] # "user"
  BY HoldsBusy DEF Ring, Recalling, Due, Issuing
<1>2. InEnq(u)
  BY <1>1, IssuingLocks, AqAssumption DEF Ring, Control, Alone, Due
<1>3. pc[u] \in {"listio", "fired"}
  BY <1>2 DEF Ring, RingInv, Knows, Firing, Due, Issuing
<1> QED BY <1>2, <1>3 DEF Ring, RingInv, Knows, Firing, Due

LEMMA OldestBegun ==
  ASSUME Ring, NEW t \in Task, Recalling(t), ~InStat(t)
  PROVE  Begun(eptr[t])
<1>1. eptr[t] = aq_busy /\ aq_busy # aq_ptr /\ aq_busy \in Slot /\ aq_ptr \in Slot
  BY DEF Ring, RingInv, Knows, Oldest, Data, RingOK
<1> QED BY <1>1, DistFacts DEF Begun

(* Round the ring from where a batch began, rather than from aq_busy.      *)
LEMMA Turned ==
  ASSUME NEW b \in Slot, NEW f \in Slot, NEW i \in Slot, NEW j \in Slot, NEW s \in Slot,
         Dist(f, i) <= Dist(f, j),
         Dist(b, i) <= Dist(b, s), Dist(b, s) < Dist(b, j)
  PROVE  Between(f, s, j)
BY AqAssumption DEF Dist, COUNT_QE, Slot, Between

(* A NULL aq_fird compares like the first slot.                            *)
LEMMA FromNull ==
  ASSUME NEW f \in Slot \cup {NULL}, NEW s \in Slot, NEW j \in Slot
  PROVE  FiredFrom(f) \in Slot /\ (Between(f, s, j) <=> Between(FiredFrom(f), s, j))
BY AqAssumption DEF FiredFrom, NULL, Slot, Between

-----------------------------------------------------------------------------
(* A step of t that leaves the ring and its slots as they are, and t's     *)
(* part in issuing requests but for what is complete.                      *)
Settled(t) ==
  /\ LocalStep(t)
  /\ aq_fird' = aq_fird \/ Issuing(t)
  /\ pc[t] # "enq_inc" /\ pc'[t] # "enq_inc" /\ (pc'[t] = "enq_fill" => Free("lkbusy"))
  /\ \A s \in Slot : Due(t, s)' => Due(t, s)
  /\ \A s \in Slot : Due(t, s) /\ sw[s] = "busy" /\ s \notin inio => Due(t, s)'

LEMMA SettledKeeps ==
  ASSUME Ring, GivenInv, NEW t \in Task, Settled(t), Issues(t)', Seeks(t)'
  PROVE  GivenInv'
<1>u. /\ UNCHANGED <<aq_busy, aq_ptr, aq_nxtq, aq_reqid, sw, inio>>
      /\ \A u \in Task \ {t} : UNCHANGED <<pc[u], op[u], then[u], p[u], q[u], eptr[u], stop[u]>>
      /\ \A s \in Slot : (InRing(s)' <=> InRing(s)) /\ (Begun(s)' <=> Begun(s))
  BY DEF Settled, LocalStep, InRing, Begun, Dist, COUNT_QE
<1>v. \A u \in Task \ {t}, s \in Slot : Due(u, s)' <=> Due(u, s)
  BY <1>u DEF Due, Pending, Issuing, Dist, COUNT_QE
<1>1. Given'
  <2> SUFFICES ASSUME NEW s \in Slot, Begun(s), sw[s] = "busy", s \notin inio
               PROVE  \E u \in Task : Due(u, s)'
    BY <1>u DEF Given
  <2>1. PICK u \in Task : Due(u, s)
    BY DEF GivenInv, Given
  <2>2. Due(u, s)'
    BY <1>v, <2>1 DEF Settled
  <2> QED BY <2>2
<1>2. Emptied'
  <2> SUFFICES ASSUME NEW s \in Slot, sw[s] = "busy", ~InRing(s)
               PROVE  s = aq_nxtq /\ \E u \in Task : pc'[u] = "enq_inc"
    BY <1>u DEF Emptied
  <2>1. s = aq_nxtq /\ \E u \in Task : pc[u] = "enq_inc"
    BY DEF GivenInv, Emptied
  <2> QED BY <1>u, <2>1 DEF Settled
<1>3. ASSUME NEW u \in Task \ {t} PROVE Issues(u)' /\ Seeks(u)'
  <2>k. Issues(u) /\ Seeks(u) /\ eptr[u] \in Slot
    BY <1>3 DEF GivenInv, Ring, Data, LocalsOK
  <2>e. UNCHANGED <<pc[u], op[u], then[u], p[u], q[u], eptr[u], stop[u]>>
    BY <1>3, <1>u
  <2>1. Issues(u)'
    <3>1. pc[u] = "fired" => aq_fird' = aq_fird
      BY <1>3, OneIssuer DEF Settled, Ring, Issuing
    <3> QED BY <1>u, <2>k, <2>e, <3>1 DEF Issues, Batch, BatchEnd, Dist, COUNT_QE
  <2>2. Waits(u)' => \A v \in Task : pc'[v] \notin {"enq_fill", "enq_inc"}
    <3>1. Waits(u)' => Waits(u) /\ lock["lkbusy"] = u
      BY <2>e, <1>3, HoldsBusy DEF Waits, InStat, Calling, Recalling, Ring
    <3>2. Waits(u)' => pc'[t] \notin {"enq_fill", "enq_inc"}
      BY <3>1, <1>3, AqAssumption DEF Settled, Free
    <3> QED BY <1>u, <2>k, <3>1, <3>2 DEF Seeks
  <2>3. ASSUME NEW v \in Task, Due(v, eptr[u])' PROVE Due(v, eptr[u])
    <3>1. PICK e \in Slot : e = eptr[u] /\ e = eptr'[u]
      BY <2>k, <2>e
    <3>2. Due(v, e)'
      BY <2>3, <3>1 DEF Due, Pending
    <3>3. Due(v, e)
      BY <1>v, <3>2 DEF Settled
    <3> QED BY <3>1, <3>3
  <2> QED BY <1>u, <2>k, <2>e, <2>1, <2>2, <2>3 DEF Seeks, Waits, InStat, Calling,
     Recalling,
             Issuing, Between, Dist, COUNT_QE
<1> QED BY <1>1, <1>2, <1>3 DEF GivenInv, Settled

LEMMA OldestBegunThen ==
  ASSUME Ring', NEW t \in Task, Recalling(t)', ~InStat(t)'
  PROVE  Begun(eptr[t])'
<1>1. eptr'[t] = aq_busy' /\ aq_busy' # aq_ptr' /\ aq_busy' \in Slot /\ aq_ptr' \in Slot
  BY DEF Ring, RingInv, Knows, Oldest, Data, RingOK
<1>2. Dist(aq_busy', eptr'[t]) < Dist(aq_busy', aq_ptr')
  BY <1>1, DistFacts
<1> QED BY <1>2 DEF Begun, Dist, COUNT_QE

LEMMA EnqGiven ==
  ASSUME Ring, Ring', GivenInv, NEW t \in Task,
         \/ \E start \in BOOLEAN : _aqenq(t, start)
         \/ enq_busy(t)
  PROVE  GivenInv'
<1>t. /\ Place(t) /\ Issues(t) /\ Seeks(t) /\ ControlTypeOK /\ LocalsOK
      /\ Oldest(t) /\ eptr[t] \in Slot /\ NoTask # t
  BY AqAssumption DEF Ring, RingInv, Control, Data, LocalsOK, GivenInv, Knows
<1>o. Recalling(t)' /\ ~InStat(t)' => Begun(eptr[t])'
  BY OldestBegunThen
<1>1. CASE \E start \in BOOLEAN : _aqenq(t, start)
  <2>0. PICK start \in BOOLEAN : _aqenq(t, start)
    BY <1>1
  <2>1. Settled(t)
    BY <1>t, <2>0 DEF _aqenq, Settled, LocalStep, Due, Issuing, Go, ringVars, slotVars,
       pastVars, ControlTypeOK, LocalsOK
  <2>2. Issues(t)' /\ Seeks(t)'
    BY <1>t, <1>o, <2>0 DEF _aqenq, Seeks, Issues, Waits, InStat, Calling, Recalling,
       Issuing, Place, InEnq, InWait, Go, ringVars, slotVars, pastVars, ControlTypeOK,
       LocalsOK
  <2> QED BY <2>1, <2>2, SettledKeeps
<1>2. CASE enq_busy(t)
  <2>1. Settled(t)
    BY <1>t, <1>2 DEF enq_busy, Settled, LocalStep, Due, Issuing, Go, ringVars, slotVars,
       pastVars, ControlTypeOK, LocalsOK
  <2>2. Issues(t)' /\ Seeks(t)'
    BY <1>t, <1>o, <1>2 DEF enq_busy, Seeks, Issues, Waits, InStat, Calling, Recalling,
       Issuing, Place, InEnq, InWait, Go, ringVars, slotVars, pastVars, ControlTypeOK,
       LocalsOK
  <2> QED BY <2>1, <2>2, SettledKeeps
<1> QED BY <1>1, <1>2

(* aq_fird, read before aq_ptr, is at or before whatever is still to be    *)
(* started: so _aqrcl either finds its request between the two, and then   *)
(* waits for lkfird, or finds that it was started (aqrcl.c:80-98).         *)
LEMMA RclGiven ==
  ASSUME Ring, Ring', GivenInv, NEW t \in Task,
         \/ _aqrcl(t)
         \/ rcl_ptr(t)
         \/ rcl_fird(t)
  PROVE  GivenInv'
<1>t. /\ Place(t) /\ Issues(t) /\ Seeks(t) /\ ControlTypeOK /\ LocalsOK
      /\ Oldest(t) /\ eptr[t] \in Slot /\ NoTask # t
  BY AqAssumption DEF Ring, RingInv, Control, Data, LocalsOK, GivenInv, Knows
<1>o. Recalling(t)' /\ ~InStat(t)' => Begun(eptr[t])'
  BY OldestBegunThen
<1>1. CASE _aqrcl(t)
  <2>1. Settled(t)
    BY <1>t, <1>1 DEF _aqrcl, Settled, LocalStep, Due, Issuing, Go, ringVars, slotVars,
       pastVars, ControlTypeOK, LocalsOK
  <2>a. pc'[t] = "rcl_ptr" /\ p'[t] = aq_fird /\ UNCHANGED <<eptr, op>>
    BY <1>t, <1>1 DEF _aqrcl, Go, ControlTypeOK, LocalsOK
  <2>b. ASSUME NEW u \in Task, Due(u, eptr[t]) PROVE Between(aq_fird, eptr[t], aq_ptr)
    <3>1. /\ aq_fird \in Slot \cup {NULL} /\ aq_busy \in Slot /\ aq_ptr \in Slot
          /\ q[u] = aq_ptr /\ Issuing(u) /\ Pending(u, eptr[t]) /\ Copied(u) /\ Issues(u)
      BY <2>b DEF Ring, Data, RingOK, LocalsOK, Fired, Copied, Due, GivenInv
    <3>p. p[u] \in Slot
      BY <3>1 DEF Ring, Data, LocalsOK, Known, Issuing
    <3>f. FiredFrom(aq_fird) \in Slot
      BY <3>1, FromNull
    <3>2. Dist(FiredFrom(aq_fird), p[u]) <= Dist(FiredFrom(aq_fird), aq_ptr)
      <4>1. CASE pc[u] = "fired"
        BY <3>1, <4>1 DEF Issues
      <4>2. CASE pc[u] # "fired"
        BY <3>1, <3>f, <4>2, DistFacts DEF Copied, Issuing
      <4> QED BY <4>1, <4>2
    <3>3. Between(FiredFrom(aq_fird), eptr[t], aq_ptr)
      BY <1>t, <3>1, <3>p, <3>f, <3>2, Turned DEF Pending
    <3> QED BY <1>t, <3>1, <3>3, FromNull
  <2>c. ASSUME NEW u \in Task, Due(u, eptr[t])' PROVE Due(u, eptr[t])
    <3>1. PICK e \in Slot : e = eptr[t] /\ e = eptr'[t]
      BY <1>t, <2>a
    <3>2. Due(u, e)'
      BY <2>c, <3>1 DEF Due, Pending
    <3>3. u # t => (Due(u, e)' => Due(u, e))
      BY <2>1 DEF Settled, LocalStep, Due, Issuing, Pending, Dist, COUNT_QE
    <3>4. u # t
      BY <2>a, <3>2 DEF Due, Issuing
    <3> QED BY <3>1, <3>2, <3>3, <3>4
  <2>d. aq_ptr' = aq_ptr /\ aq_busy' = aq_busy /\ sw' = sw /\ \A u \in Task \ {t} : pc'[u] = pc[u]
    BY <2>1 DEF Settled, LocalStep
  <2>2. Issues(t)' /\ Seeks(t)'
    <3>1. \A u \in Task : Due(u, eptr[t])' => Between(p'[t], eptr'[t], aq_ptr')
      BY <2>a, <2>b, <2>c, <2>d
    <3>2. Waits(t)' => \A u \in Task : pc'[u] \notin {"enq_fill", "enq_inc"}
      BY <1>t, <1>1, <2>a, <2>d DEF _aqrcl, Seeks, Waits, InStat, Calling, Recalling
    <3>3. sw'[eptr'[t]] = "busy" => Begun(eptr[t])'
      BY <1>t, <1>1, <2>a, <2>d DEF _aqrcl, Seeks, Recalling, Begun, Dist, COUNT_QE
    <3> QED BY <2>a, <3>1, <3>2, <3>3 DEF Seeks, Issues, Issuing, Between
  <2> QED BY <2>1, <2>2, SettledKeeps
<1>2. CASE rcl_ptr(t)
  <2>1. Settled(t)
    BY <1>t, <1>2 DEF rcl_ptr, Settled, LocalStep, Due, Issuing, Go, ringVars, slotVars,
       pastVars, ControlTypeOK, LocalsOK
  <2>a. pc'[t] \in {"rcl_fird", "recall"} /\ UNCHANGED <<eptr, op, sw, inio, aq_busy, aq_ptr>>
        /\ \A u \in Task \ {t} : pc'[u] = pc[u]
    BY <1>t, <1>2 DEF rcl_ptr, Go, ringVars, slotVars, pastVars, ControlTypeOK, LocalsOK
  <2>b. pc'[t] = "recall" /\ sw[eptr[t]] = "busy" => eptr[t] \in inio
    <3> SUFFICES ASSUME pc'[t] = "recall", sw[eptr[t]] = "busy" PROVE eptr[t] \in inio
      OBVIOUS
    <3>1. Begun(eptr[t])
      BY <1>t, <1>2 DEF rcl_ptr, Seeks, Recalling
    <3>2. \A u \in Task : ~Due(u, eptr[t])
      BY <1>t, <1>2 DEF rcl_ptr, Seeks, Go, ControlTypeOK
    <3> QED BY <1>t, <3>1, <3>2 DEF GivenInv, Given
  <2>2. Issues(t)' /\ Seeks(t)'
    <3>1. Waits(t)' => \A u \in Task : pc'[u] \notin {"enq_fill", "enq_inc"}
      BY <1>t, <1>2, <2>a DEF rcl_ptr, Seeks, Waits, InStat, Calling, Recalling
    <3>2. sw'[eptr'[t]] = "busy" => Begun(eptr[t])'
      BY <1>t, <1>2, <2>a DEF rcl_ptr, Seeks, Recalling, Begun, Dist, COUNT_QE
    <3> QED BY <2>a, <2>b, <3>1, <3>2 DEF Seeks, Issues, Issuing
  <2> QED BY <2>1, <2>2, SettledKeeps
<1>3. CASE rcl_fird(t)
  <2>1. Settled(t)
    BY <1>t, <1>3 DEF rcl_fird, Settled, LocalStep, Due, Issuing, Go, ringVars, slotVars,
       pastVars, ControlTypeOK, LocalsOK
  <2>a. pc'[t] \in {"rcl_fird", "recall"} /\ UNCHANGED <<eptr, op, sw, inio, aq_busy, aq_ptr>>
        /\ \A u \in Task \ {t} : pc'[u] = pc[u]
    BY <1>t, <1>3 DEF rcl_fird, Go, ringVars, slotVars, pastVars, ControlTypeOK, LocalsOK
  <2>b. pc'[t] = "recall" /\ sw[eptr[t]] = "busy" => eptr[t] \in inio
    <3> SUFFICES ASSUME pc'[t] = "recall", sw[eptr[t]] = "busy" PROVE eptr[t] \in inio
      OBVIOUS
    <3>1. Begun(eptr[t])
      BY <1>t, <1>3 DEF rcl_fird, Seeks, Recalling
    <3>2. \A u \in Task : ~Due(u, eptr[t])
      <4>1. \A u \in Task : ~Issuing(u)
        BY <1>3, IssuingLocks, AqAssumption DEF Ring, rcl_fird, Free
      <4> QED BY <4>1 DEF Due
    <3> QED BY <1>t, <3>1, <3>2 DEF GivenInv, Given
  <2>2. Issues(t)' /\ Seeks(t)'
    <3>1. Waits(t)' => \A u \in Task : pc'[u] \notin {"enq_fill", "enq_inc"}
      BY <1>t, <1>3, <2>a DEF rcl_fird, Seeks, Waits, InStat, Calling, Recalling
    <3>2. sw'[eptr'[t]] = "busy" => Begun(eptr[t])'
      BY <1>t, <1>3, <2>a DEF rcl_fird, Seeks, Recalling, Begun, Dist, COUNT_QE
    <3> QED BY <2>a, <2>b, <3>1, <3>2 DEF Seeks, Issues, Issuing
  <2> QED BY <2>1, <2>2, SettledKeeps
<1> QED BY <1>1, <1>2, <1>3

LEMMA BetweenDist ==
  ASSUME NEW b \in Slot, NEW e \in Slot, NEW i \in Slot, Between(b, e, i)
  PROVE  Dist(b, e) < Dist(b, i)
BY AqAssumption DEF Dist, COUNT_QE, Slot, Between

LEMMA AskGiven ==
  ASSUME Ring, Ring', GivenInv, NEW t \in Task,
         \/ AQWAIT(t)
         \/ wait_idle(t)
         \/ wait_lock(t)
         \/ wait_loop(t)
         \/ \E r \in Request : AQRECALL(t, r)
         \/ recall_lock(t)
         \/ recall_inside(t)
         \/ \E r \in Request, wait \in BOOLEAN : AQSTAT(t, r, wait)
         \/ stat_lock(t)
         \/ stat_busy(t)
  PROVE  GivenInv'
<1>t. /\ Place(t) /\ Issues(t) /\ Seeks(t) /\ ControlTypeOK /\ LocalsOK
      /\ Oldest(t) /\ eptr[t] \in Slot /\ NoTask # t
  BY AqAssumption DEF Ring, RingInv, Control, Data, LocalsOK, GivenInv, Knows
<1>o. Recalling(t)' /\ ~InStat(t)' => Begun(eptr[t])'
  BY OldestBegunThen
<1>1. CASE AQWAIT(t)
  <2>1. Settled(t)
    BY <1>t, <1>1 DEF AQWAIT, StartAsking, Settled, LocalStep, Due, Issuing, Go, ringVars,
       slotVars, pastVars, ControlTypeOK, LocalsOK
  <2>2. Issues(t)' /\ Seeks(t)'
    BY <1>t, <1>o, <1>1 DEF AQWAIT, StartAsking, Seeks, Issues, Waits, InStat, Calling,
       Recalling, Issuing, Place, InEnq, InWait, Go, ringVars, slotVars, pastVars,
       ControlTypeOK, LocalsOK
  <2> QED BY <2>1, <2>2, SettledKeeps
<1>2. CASE wait_idle(t)
  <2>1. Settled(t)
    BY <1>t, <1>2 DEF wait_idle, Return, Settled, LocalStep, Due, Issuing, Go, ringVars,
       slotVars, pastVars, ControlTypeOK, LocalsOK
  <2>2. Issues(t)' /\ Seeks(t)'
    BY <1>t, <1>o, <1>2 DEF wait_idle, Return, Seeks, Issues, Waits, InStat, Calling,
       Recalling, Issuing, Place, InEnq, InWait, Go, ringVars, slotVars, pastVars,
       ControlTypeOK, LocalsOK
  <2> QED BY <2>1, <2>2, SettledKeeps
<1>3. CASE wait_lock(t)
  <2>1. Settled(t)
    BY <1>t, <1>3 DEF wait_lock, Settled, LocalStep, Due, Issuing, Go, ringVars, slotVars,
       pastVars, ControlTypeOK, LocalsOK
  <2>2. Issues(t)' /\ Seeks(t)'
    BY <1>t, <1>o, <1>3 DEF wait_lock, Seeks, Issues, Waits, InStat, Calling, Recalling,
       Issuing, Place, InEnq, InWait, Go, ringVars, slotVars, pastVars, ControlTypeOK,
       LocalsOK
  <2> QED BY <2>1, <2>2, SettledKeeps
<1>4. CASE wait_loop(t)
  <2>1. Settled(t)
    BY <1>t, <1>4 DEF wait_loop, Return, Settled, LocalStep, Due, Issuing, Go, ringVars,
       slotVars, pastVars, ControlTypeOK, LocalsOK
  <2>2. Issues(t)' /\ Seeks(t)'
    BY <1>t, <1>o, <1>4 DEF wait_loop, Return, Seeks, Issues, Waits, InStat, Calling,
       Recalling, Issuing, Place, InEnq, InWait, Go, ringVars, slotVars, pastVars,
       ControlTypeOK, LocalsOK
  <2> QED BY <2>1, <2>2, SettledKeeps
<1>5. CASE \E r \in Request : AQRECALL(t, r)
  <2>0. PICK r \in Request : AQRECALL(t, r)
    BY <1>5
  <2>1. Settled(t)
    BY <1>t, <2>0 DEF AQRECALL, StartAsking, Settled, LocalStep, Due, Issuing, Go, ringVars,
       slotVars, pastVars, ControlTypeOK, LocalsOK
  <2>2. Issues(t)' /\ Seeks(t)'
    BY <1>t, <1>o, <2>0 DEF AQRECALL, StartAsking, Seeks, Issues, Waits, InStat, Calling,
       Recalling, Issuing, Place, InEnq, InWait, Go, ringVars, slotVars, pastVars,
       ControlTypeOK, LocalsOK
  <2> QED BY <2>1, <2>2, SettledKeeps
<1>6. CASE \E r \in Request, wait \in BOOLEAN : AQSTAT(t, r, wait)
  <2>0. PICK r \in Request, wait \in BOOLEAN : AQSTAT(t, r, wait)
    BY <1>6
  <2>1. Settled(t)
    BY <1>t, <2>0 DEF AQSTAT, StartAsking, Settled, LocalStep, Due, Issuing, Go, ringVars,
       slotVars, pastVars, ControlTypeOK, LocalsOK
  <2>2. Issues(t)' /\ Seeks(t)'
    BY <1>t, <1>o, <2>0 DEF AQSTAT, StartAsking, Seeks, Issues, Waits, InStat, Calling,
       Recalling, Issuing, Place, InEnq, InWait, Go, ringVars, slotVars, pastVars,
       ControlTypeOK, LocalsOK
  <2> QED BY <2>1, <2>2, SettledKeeps
<1>7. CASE stat_busy(t)
  <2>1. Settled(t)
    BY <1>t, <1>7 DEF stat_busy, Return, Settled, LocalStep, Due, Issuing, Go, ringVars,
       slotVars, pastVars, ControlTypeOK, LocalsOK
  <2>a. pc'[t] = "rcl" =>
          InStat(t) /\ UNCHANGED <<sw, aq_busy, aq_ptr>>
          /\ (sw[eptr'[t]] = "busy" => Begun(eptr'[t]))
    <3> SUFFICES ASSUME pc'[t] = "rcl"
                 PROVE  InStat(t) /\ UNCHANGED <<sw, aq_busy, aq_ptr>>
                        /\ (sw[eptr'[t]] = "busy" => Begun(eptr'[t]))
      OBVIOUS
    <3>1. InStat(t) /\ UNCHANGED <<sw, aq_busy, aq_ptr>>
      BY <1>t, <1>7 DEF stat_busy, Place, Return, Go, ringVars, slotVars, pastVars,
         ControlTypeOK, LocalsOK
    <3>2. sw[eptr'[t]] = "busy" => Between(aq_busy, eptr'[t], aq_ptr)
      BY <1>t, <3>1, <1>7 DEF stat_busy, InStat, Return, Go, ringVars, slotVars, pastVars,
         ControlTypeOK, LocalsOK
    <3>3. eptr'[t] \in Slot
      BY DEF Ring, Data, LocalsOK
    <3>4. Between(aq_busy, eptr'[t], aq_ptr) => Begun(eptr'[t])
      BY <3>3, BetweenDist DEF Ring, Data, RingOK, Begun
    <3> QED BY <3>1, <3>2, <3>4
  <2>b. \A u \in Task : pc'[u] \notin {"enq_fill", "enq_inc"}
    <3>1. lock["lknxtq"] = t
      BY <1>7 DEF stat_busy, Ring, Control, Held, Needed, LockName
    <3>2. \A u \in Task : pc[u] \notin {"enq_fill", "enq_inc"}
      BY <3>1, <1>7 DEF stat_busy, Ring, Control, Held, Needed, LockName
    <3> QED BY <1>t, <3>2, <1>7 DEF stat_busy, Return, Go, ringVars, slotVars, pastVars,
       ControlTypeOK, LocalsOK
  <2>c. pc'[t] \in {"user", "call", "rcl"}
    BY <1>t, <1>7 DEF stat_busy, Return, Go, ringVars, slotVars, pastVars, ControlTypeOK,
       LocalsOK
  <2>2. Issues(t)' /\ Seeks(t)'
    BY <2>a, <2>b, <2>c DEF Seeks, Issues, Recalling, Issuing, Begun, Dist, COUNT_QE
  <2> QED BY <2>1, <2>2, SettledKeeps
<1>8. CASE recall_lock(t)
  <2>1. Settled(t)
    BY <1>t, <1>8 DEF recall_lock, Return, Settled, LocalStep, Due, Issuing, Go, ringVars,
       slotVars, pastVars, ControlTypeOK, LocalsOK
  <2>2. Issues(t)' /\ Seeks(t)'
    BY <1>t, <1>o, <1>8 DEF recall_lock, Return, Seeks, Issues, Waits, InStat, Calling,
       Recalling, Issuing, Place, InEnq, InWait, Go, ringVars, slotVars, pastVars,
       ControlTypeOK, LocalsOK
  <2> QED BY <2>1, <2>2, SettledKeeps
<1>9. CASE recall_inside(t)
  <2>1. Settled(t)
    BY <1>t, <1>9 DEF recall_inside, Return, Settled, LocalStep, Due, Issuing, Go, ringVars,
       slotVars, pastVars, ControlTypeOK, LocalsOK
  <2>2. Issues(t)' /\ Seeks(t)'
    BY <1>t, <1>o, <1>9 DEF recall_inside, Return, Seeks, Issues, Waits, InStat, Calling,
       Recalling, Issuing, Place, InEnq, InWait, Go, ringVars, slotVars, pastVars,
       ControlTypeOK, LocalsOK
  <2> QED BY <2>1, <2>2, SettledKeeps
<1>10. CASE stat_lock(t)
  <2>1. Settled(t)
    BY <1>t, <1>10 DEF stat_lock, Settled, LocalStep, Due, Issuing, Go, ringVars, slotVars,
       pastVars, ControlTypeOK, LocalsOK
  <2>2. Issues(t)' /\ Seeks(t)'
    BY <1>t, <1>o, <1>10 DEF stat_lock, Seeks, Issues, Waits, InStat, Calling, Recalling,
       Issuing, Place, InEnq, InWait, Go, ringVars, slotVars, pastVars, ControlTypeOK,
       LocalsOK
  <2> QED BY <2>1, <2>2, SettledKeeps
<1> QED BY <1>1, <1>2, <1>3, <1>4, <1>5, <1>6, <1>7, <1>8, <1>9, <1>10

LEMMA CloseGiven ==
  ASSUME Ring, Ring', GivenInv, NEW t \in Task,
         \/ AQCLOSE(t)
         \/ close_lock(t)
  PROVE  GivenInv'
<1>t. /\ Place(t) /\ Issues(t) /\ Seeks(t) /\ ControlTypeOK /\ LocalsOK
      /\ Oldest(t) /\ eptr[t] \in Slot /\ NoTask # t
  BY AqAssumption DEF Ring, RingInv, Control, Data, LocalsOK, GivenInv, Knows
<1>o. Recalling(t)' /\ ~InStat(t)' => Begun(eptr[t])'
  BY OldestBegunThen
<1>1. CASE AQCLOSE(t)
  <2>1. Settled(t)
    BY <1>t, <1>1 DEF AQCLOSE, Settled, LocalStep, Due, Issuing, Go, ringVars, slotVars,
       pastVars, ControlTypeOK, LocalsOK
  <2>2. Issues(t)' /\ Seeks(t)'
    BY <1>t, <1>o, <1>1 DEF AQCLOSE, Seeks, Issues, Waits, InStat, Calling, Recalling,
       Issuing, Place, InEnq, InWait, Go, ringVars, slotVars, pastVars, ControlTypeOK,
       LocalsOK
  <2> QED BY <2>1, <2>2, SettledKeeps
<1>2. CASE close_lock(t)
  <2>1. Settled(t)
    BY <1>t, <1>2 DEF close_lock, CloseFrom, Return, Settled, LocalStep, Due, Issuing, Go,
       ringVars, slotVars, pastVars, ControlTypeOK, LocalsOK
  <2>2. Issues(t)' /\ Seeks(t)'
    BY <1>t, <1>o, <1>2 DEF close_lock, CloseFrom, Return, Seeks, Issues, Waits, InStat,
       Calling, Recalling, Issuing, Place, InEnq, InWait, Go, ringVars, slotVars, pastVars,
       ControlTypeOK, LocalsOK
  <2> QED BY <2>1, <2>2, SettledKeeps
<1> QED BY <1>1, <1>2

LEMMA BatchSplit ==
  ASSUME NEW t \in Task, p[t] \in Slot, q[t] \in Slot, p[t] # q[t], aq_busy \in Slot,
         Dist(aq_busy, p[t]) <= Dist(aq_busy, q[t]),
         NEW i, i \in Batch(t) \/ i = Wrapped(BatchEnd(t))
  PROVE  /\ i \in Slot /\ Dist(p[t], i) <= Dist(p[t], q[t])
         /\ Dist(aq_busy, p[t]) <= Dist(aq_busy, i) /\ Dist(aq_busy, i) <= Dist(aq_busy, q[t])
         /\ \A s \in Slot : Pending(t, s) /\ Dist(aq_busy, s) < Dist(aq_busy, i) =>
                s \in Batch(t)
BY AqAssumption DEF Dist, COUNT_QE, Slot, Batch, BatchEnd, Wrapped, Pending

LEMMA CallGiven ==
  ASSUME Ring, Ring', GivenInv, NEW t \in Task,
         \/ _aqcall(t)
         \/ call_restart(t)
         \/ call_fired(t)
  PROVE  GivenInv'
<1>t. /\ Place(t) /\ Issues(t) /\ Seeks(t) /\ ControlTypeOK /\ LocalsOK
      /\ Oldest(t) /\ eptr[t] \in Slot /\ NoTask # t
  BY AqAssumption DEF Ring, RingInv, Control, Data, LocalsOK, GivenInv, Knows
<1>o. Recalling(t)' /\ ~InStat(t)' => Begun(eptr[t])'
  BY OldestBegunThen
<1>k. /\ p[t] \in Slot /\ q[t] \in Slot /\ aq_busy \in Slot /\ aq_ptr \in Slot /\ aq_nxtq \in Slot
      /\ Copied(t) /\ Firing(t)
  BY DEF Ring, Data, LocalsOK, RingOK, Known, Fired, RingInv, Knows, _aqcall, call_restart,
     call_fired
<1>b. InStat(t) /\ Calling(t) /\ sw[eptr[t]] = "busy" => InRing(eptr[t])
  BY <1>t DEF GivenInv, Emptied, Seeks, Waits
<1>1. CASE _aqcall(t)
  <2>1. Settled(t)
    BY <1>t, <1>1 DEF _aqcall, EndCall, Return, Settled, LocalStep, Due, Issuing, Go,
       ringVars, slotVars, pastVars, ControlTypeOK, LocalsOK
  <2>u. /\ UNCHANGED <<aq_busy, aq_ptr, aq_nxtq, sw, inio>> /\ \A u \in Task \ {t} : pc'[u] = pc[u]
        /\ pc'[t] \notin {"enq_fill", "enq_inc", "rcl_ptr", "rcl_fird", "recall", "listio", "fired", "restart"}
        /\ InStat(t)' => InStat(t) /\ eptr' = eptr
        /\ pc'[t] = "fire" => q'[t] = aq_nxtq
        /\ pc'[t] = "rcl" => aq_ptr = aq_nxtq
    BY <1>t, <1>1 DEF _aqcall, EndCall, Return, InStat, Place, Calling, InEnq, InWait, Go,
       ringVars, slotVars, pastVars, ControlTypeOK, LocalsOK
  <2>2. Issues(t)' /\ Seeks(t)'
    <3>1. Waits(t)' => \A u \in Task : pc'[u] \notin {"enq_fill", "enq_inc"}
      BY <1>t, <2>u, <1>1 DEF _aqcall, Seeks, Waits, Calling
    <3>2. Recalling(t)' /\ sw'[eptr'[t]] = "busy" => Begun(eptr[t])'
      <4>1. InStat(t) /\ pc'[t] = "rcl" /\ sw[eptr[t]] = "busy" =>
                Dist(aq_busy, eptr[t]) < Dist(aq_busy, aq_ptr)
        BY <1>b, <2>u, <1>1 DEF _aqcall, Calling, InRing
      <4>2. CASE InStat(t)'
        BY <2>u, <4>1, <4>2 DEF Recalling, Begun, Dist, COUNT_QE
      <4>3. CASE ~InStat(t)'
        BY <1>o, <4>3
      <4> QED BY <4>2, <4>3
    <3> QED BY <2>u, <3>1, <3>2 DEF Seeks, Issues, Issuing, InRing, Dist, COUNT_QE
  <2> QED BY <2>1, <2>2, SettledKeeps
<1>2. CASE call_restart(t)
  <2>0. /\ p[t] # q[t] /\ Dist(aq_busy, p[t]) <= Dist(aq_busy, q[t]) /\ Issuing(t)
        /\ p[t] = FiredFrom(aq_fird) /\ pc[t] = "restart" /\ pc'[t] = "fired"
    BY <1>k, <1>t, <1>2 DEF call_restart, Firing, Copied, Issuing, Go, ControlTypeOK
  <2>a. PICK i \in Slot :
          /\ p' = [p EXCEPT ![t] = i]
          /\ Dist(p[t], i) <= Dist(p[t], q[t])
          /\ Dist(aq_busy, p[t]) <= Dist(aq_busy, i) /\ Dist(aq_busy, i) <= Dist(aq_busy, q[t])
          /\ \A s \in Slot : Pending(t, s) /\ Dist(aq_busy, s) < Dist(aq_busy, i) =>
                 s \in Batch(t)
    <3>1. PICK i : /\ p' = [p EXCEPT ![t] = i]
                   /\ i \in Batch(t) \/ i = Wrapped(BatchEnd(t))
      BY <1>2 DEF call_restart, StartAgainAt
    <3> QED BY <3>1, <1>k, <2>0, BatchSplit
  <2>u. /\ p'[t] = i /\ UNCHANGED <<aq_busy, aq_ptr, aq_nxtq, aq_fird, q, eptr, op, sw, inio>>
        /\ \A u \in Task \ {t} : pc'[u] = pc[u]
    BY <1>t, <2>a, <1>2 DEF call_restart, Go, ringVars, slotVars, pastVars, ControlTypeOK,
       LocalsOK
  <2>b. ASSUME NEW s \in Slot, Due(t, s)' PROVE Due(t, s)
    <3>1. Dist(aq_busy, i) <= Dist(aq_busy, s) /\ Dist(aq_busy, s) < Dist(aq_busy, q[t])
      BY <2>b, <2>u DEF Due, Pending, Dist, COUNT_QE
    <3> QED BY <1>k, <2>0, <2>a, <3>1, DistFacts DEF Due, Pending
  <2>c. ASSUME NEW s \in Slot, Due(t, s), sw[s] = "busy", s \notin inio PROVE Due(t, s)'
    <3>1. s \notin Batch(t) /\ Pending(t, s)
      BY <1>t, <2>0, <2>c DEF Issues, Due
    <3>2. Dist(aq_busy, i) <= Dist(aq_busy, s)
      BY <1>k, <2>a, <3>1, DistFacts
    <3> QED BY <2>0, <2>u, <3>1, <3>2 DEF Due, Pending, Issuing, Dist, COUNT_QE
  <2>1. Settled(t)
    <3>1. LocalStep(t)
      BY <1>t, <2>a, <1>2 DEF call_restart, LocalStep, Go, ringVars, slotVars, pastVars,
         ControlTypeOK, LocalsOK
    <3> QED BY <2>0, <2>u, <2>b, <2>c, <3>1 DEF Settled
  <2>2. Issues(t)' /\ Seeks(t)'
    BY <1>t, <2>0, <2>a, <2>u DEF Issues, Seeks, Waits, InStat, InRing, Recalling, Calling,
       Issuing, Dist, COUNT_QE
  <2> QED BY <2>1, <2>2, SettledKeeps
<1>3. CASE call_fired(t)
  <2>u. /\ UNCHANGED <<aq_busy, aq_ptr, aq_nxtq, sw, inio>> /\ \A u \in Task \ {t} : pc'[u] = pc[u]
        /\ pc'[t] \notin {"enq_fill", "enq_inc", "rcl_ptr", "rcl_fird", "recall", "fire", "fired", "restart"}
        /\ InStat(t)' => InStat(t) /\ eptr' = eptr
        /\ pc'[t] = "listio" => p[t] # q[t] /\ p' = p /\ q' = q
        /\ pc'[t] # "listio" => p[t] = q[t]
        /\ pc[t] = "fired" /\ q[t] = aq_ptr
    BY <1>t, <1>k, <1>3 DEF call_fired, EndCall, Return, InStat, Place, Calling, InEnq,
       InWait, Copied, Issuing, Go, ringVars, slotVars, pastVars, ControlTypeOK, LocalsOK
  <2>1. Settled(t)
    <3>1. LocalStep(t)
      BY <1>t, <1>3 DEF call_fired, EndCall, Return, LocalStep, Go, ringVars, slotVars,
         pastVars, ControlTypeOK, LocalsOK
    <3>2. ASSUME NEW s \in Slot, Due(t, s)' PROVE Due(t, s)
      BY <2>u, <3>2 DEF Due, Pending, Issuing, Dist, COUNT_QE
    <3>3. ASSUME NEW s \in Slot, Due(t, s) PROVE Due(t, s)'
      <4>1. p[t] # q[t]
        BY <1>k, <3>3, DistFacts DEF Due, Pending
      <4> QED BY <2>u, <3>3, <4>1 DEF Due, Pending, Issuing, Dist, COUNT_QE
    <3> QED BY <2>u, <3>1, <3>2, <3>3 DEF Settled, Issuing
  <2>2. Issues(t)' /\ Seeks(t)'
    <3>1. Waits(t)' => \A u \in Task : pc'[u] \notin {"enq_fill", "enq_inc"}
      BY <1>t, <2>u DEF Seeks, Waits, Calling
    <3>2. InStat(t) /\ InRing(eptr[t]) => Dist(aq_busy, eptr[t]) < Dist(aq_busy, q[t])
      BY <1>t, <2>u DEF Seeks, Issuing
    <3>3. Recalling(t)' /\ sw'[eptr'[t]] = "busy" => Begun(eptr[t])'
      <4>1. InStat(t) /\ sw[eptr[t]] = "busy" =>
                Dist(aq_busy, eptr[t]) < Dist(aq_busy, aq_ptr)
        BY <1>b, <2>u, <3>2 DEF Calling
      <4>2. CASE InStat(t)'
        BY <2>u, <4>1, <4>2 DEF Begun, Dist, COUNT_QE
      <4>3. CASE ~InStat(t)'
        BY <1>o, <4>3
      <4> QED BY <4>2, <4>3
    <3>4. InStat(t)' /\ Issuing(t)' /\ InRing(eptr[t])' =>
              (Dist(aq_busy, eptr[t]) < Dist(aq_busy, q[t]))'
      BY <2>u, <3>2 DEF Issuing, InRing, Dist, COUNT_QE
    <3> QED BY <2>u, <3>1, <3>3, <3>4 DEF Seeks, Issues, Issuing
  <2> QED BY <2>1, <2>2, SettledKeeps
<1> QED BY <1>1, <1>2, <1>3

-----------------------------------------------------------------------------
(* The oldest request leaves the ring: nobody else waits meanwhile.        *)
LEMMA AdvanceGiven ==
  ASSUME Ring, GivenInv, NEW t \in Task, Advances(t), pc[t] = "recall", aq_fird' = aq_fird,
         pc'[t] # "enq_inc", Issues(t)', Seeks(t)'
  PROVE  GivenInv'
<1>s. /\ aq_busy \in Slot /\ aq_busy' \in Slot /\ aq_ptr \in Slot /\ aq_nxtq \in Slot
      /\ Dist(aq_busy, aq_ptr) <= Dist(aq_busy, aq_nxtq) /\ aq_busy # aq_ptr
      /\ sw[aq_busy] # "busy" /\ Recalling(t) /\ lock["lkbusy"] = t
      /\ UNCHANGED <<aq_ptr, aq_nxtq, sw, inio>>
      /\ \A u \in Task \ {t} : UNCHANGED <<pc[u], op[u], then[u], p[u], q[u], eptr[u], stop[u]>>
  BY SlotIsNat, AqAssumption DEF Ring, Data, RingOK, RingInv, PointersInOrder, Dist,
     Advances,
     Recalling
<1>d. \A i \in Slot : /\ Dist(aq_busy, i) \in Nat
                      /\ i # aq_busy => Dist(aq_busy, i) > 0 /\ Dist(aq_busy', i) = Dist(aq_busy, i) - 1
  BY <1>s, DistFacts DEF Advances
<1>n. aq_busy # aq_nxtq
  BY <1>s, DistFacts
<1>r. \A s \in Slot : s # aq_busy => (InRing(s) => InRing(s)') /\ (Begun(s)' => Begun(s))
  <2> SUFFICES ASSUME NEW s \in Slot, s # aq_busy
               PROVE  (InRing(s) => InRing(s)') /\ (Begun(s)' => Begun(s))
    OBVIOUS
  <2>1. /\ Dist(aq_busy', s) = Dist(aq_busy, s) - 1 /\ Dist(aq_busy, s) \in Nat
        /\ Dist(aq_busy', aq_ptr) = Dist(aq_busy, aq_ptr) - 1 /\ Dist(aq_busy, aq_ptr) \in Nat
        /\ Dist(aq_busy', aq_nxtq) = Dist(aq_busy, aq_nxtq) - 1 /\ Dist(aq_busy, aq_nxtq) \in Nat
    BY <1>s, <1>d, <1>n
  <2>2. /\ InRing(s)' <=> Dist(aq_busy', s) < Dist(aq_busy', aq_nxtq)
        /\ Begun(s)' <=> Dist(aq_busy', s) < Dist(aq_busy', aq_ptr)
    BY <1>s DEF InRing, Begun, Dist, COUNT_QE
  <2> QED BY <2>1, <2>2 DEF InRing, Begun
<1>v. ASSUME NEW u \in Task, NEW s \in Slot, s # aq_busy, Due(u, s) PROVE Due(u, s)'
  <2>1. u # t /\ p[u] \in Slot /\ q[u] \in Slot /\ ~Due(u, aq_busy)
    BY <1>s, <1>v, DueIsBusy DEF Ring, Data, LocalsOK, Known, Due, Recalling, Issuing
  <2>2. p[u] # aq_busy /\ q[u] # aq_busy
    <3>1. Dist(aq_busy, aq_busy) = 0
      BY <1>s, DistFacts
    <3> QED BY <1>s, <1>d, <1>v, <2>1, <3>1 DEF Due, Pending
  <2>3. Dist(aq_busy', p[u]) <= Dist(aq_busy', s) /\ Dist(aq_busy', s) < Dist(aq_busy', q[u])
    BY <1>d, <1>v, <2>1, <2>2 DEF Due, Pending
  <2> QED BY <1>s, <1>v, <2>1, <2>3 DEF Due, Pending, Issuing, Dist, COUNT_QE
<1>1. Given'
  <2> SUFFICES ASSUME NEW s \in Slot, Begun(s)', sw[s] = "busy", s \notin inio
               PROVE  \E u \in Task : Due(u, s)'
    BY <1>s DEF Given
  <2>1. s # aq_busy /\ Begun(s)
    BY <1>s, <1>r
  <2> QED BY <1>v, <2>1 DEF GivenInv, Given
<1>2. Emptied'
  <2> SUFFICES ASSUME NEW s \in Slot, sw[s] = "busy", ~InRing(s)'
               PROVE  s = aq_nxtq /\ \E u \in Task : pc'[u] = "enq_inc"
    BY <1>s DEF Emptied
  <2>1. s # aq_busy /\ ~InRing(s)
    BY <1>s, <1>r
  <2>2. s = aq_nxtq /\ \E u \in Task : pc[u] = "enq_inc"
    BY <2>1 DEF GivenInv, Emptied
  <2> QED BY <1>s, <2>2 DEF Recalling
<1>3. ASSUME NEW u \in Task \ {t} PROVE Issues(u)' /\ Seeks(u)'
  <2>1. Issues(u) /\ UNCHANGED <<pc[u], op[u], then[u], p[u], q[u], eptr[u], stop[u]>>
    BY <1>s, <1>3 DEF GivenInv
  <2>2. ~Waits(u) /\ ~Recalling(u)
    BY <1>s, <1>3, HoldsBusy DEF Ring
  <2>3. Issues(u)'
    BY <1>s, <2>1 DEF Issues, Batch, BatchEnd, Dist, COUNT_QE
  <2>4. Seeks(u)'
    BY <2>1, <2>2 DEF Seeks, Waits, InStat, Calling, Recalling, Issuing
  <2> QED BY <2>3, <2>4
<1> QED BY <1>1, <1>2, <1>3 DEF GivenInv

LEMMA RecallGiven ==
  ASSUME Ring, Ring', GivenInv, NEW t \in Task,
         enq_recalled(t) \/ wait_recalled(t) \/ stat_recalled(t) \/ close_recalled(t)
  PROVE  GivenInv'
<1>t. /\ ControlTypeOK /\ LocalsOK /\ Oldest(t) /\ Place(t) /\ pc[t] = "recall"
      /\ lock["lkbusy"] = t
  BY RecallHolds DEF Ring, RingInv, Control, Data, Knows, enq_recalled, wait_recalled,
     stat_recalled, close_recalled
<1>o. Recalling(t)' /\ ~InStat(t)' => Begun(eptr[t])'
  BY OldestBegunThen
<1>f. aq_fird' = aq_fird
  BY DEF enq_recalled, wait_recalled, stat_recalled, close_recalled
<1>1. CASE enq_recalled(t)
  <2>1. Advances(t)
    <3>1. eptr[t] = aq_busy /\ aq_busy # aq_ptr
      BY <1>t, <1>1 DEF enq_recalled, Oldest, Recalling, InStat
    <3> QED BY <1>t, <1>1, <3>1 DEF enq_recalled, Return, Advances, Go, ringVars, slotVars,
       pastVars, ControlTypeOK, LocalsOK
  <2>2. Issues(t)' /\ Seeks(t)' /\ pc'[t] # "enq_inc"
    BY <1>t, <1>o, <1>1 DEF enq_recalled, Return, Issues, Seeks, Waits, InStat, Calling,
       Recalling, Issuing, Go, ringVars, slotVars, pastVars, ControlTypeOK, LocalsOK
  <2> QED BY <1>t, <1>f, <2>1, <2>2, AdvanceGiven
<1>2. CASE wait_recalled(t)
  <2>1. Advances(t)
    <3>1. eptr[t] = aq_busy /\ aq_busy # aq_ptr
      BY <1>t, <1>2 DEF wait_recalled, Oldest, Recalling, InStat
    <3> QED BY <1>t, <1>2, <3>1 DEF wait_recalled, Return, Advances, Go, ringVars, slotVars,
       pastVars, ControlTypeOK, LocalsOK
  <2>2. Issues(t)' /\ Seeks(t)' /\ pc'[t] # "enq_inc"
    BY <1>t, <1>o, <1>2 DEF wait_recalled, Return, Issues, Seeks, Waits, InStat, Calling,
       Recalling, Issuing, Go, ringVars, slotVars, pastVars, ControlTypeOK, LocalsOK
  <2> QED BY <1>t, <1>f, <2>1, <2>2, AdvanceGiven
<1>3. CASE close_recalled(t)
  <2>1. Advances(t)
    <3>1. eptr[t] = aq_busy /\ aq_busy # aq_ptr
      BY <1>t, <1>3 DEF close_recalled, Oldest, Recalling, InStat
    <3> QED BY <1>t, <1>3, <3>1 DEF close_recalled, CloseFrom, Return, Advances, Go,
       ringVars, slotVars, pastVars, ControlTypeOK, LocalsOK
  <2>2. Issues(t)' /\ Seeks(t)' /\ pc'[t] # "enq_inc"
    BY <1>t, <1>o, <1>3 DEF close_recalled, CloseFrom, Return, Issues, Seeks, Waits, InStat,
       Calling, Recalling, Issuing, Go, ringVars, slotVars, pastVars, ControlTypeOK,
       LocalsOK
  <2> QED BY <1>t, <1>f, <2>1, <2>2, AdvanceGiven
<1>4. CASE stat_recalled(t)
  <2>2. Issues(t)' /\ Seeks(t)' /\ pc'[t] = "user"
    BY <1>t, <1>4 DEF stat_recalled, Return, Issues, Seeks, Waits, Recalling, Calling,
       Issuing, Go, ringVars, slotVars, pastVars, ControlTypeOK, LocalsOK
  <2>3. CASE eptr[t] = aq_busy
    <3>1. aq_busy # aq_ptr
      <4> SUFFICES ASSUME aq_busy = aq_ptr PROVE FALSE
        OBVIOUS
      <4>1. aq_busy # aq_nxtq /\ aq_busy \in Slot /\ aq_nxtq \in Slot
        BY <1>t, <1>4, <2>3 DEF stat_recalled, Ring, RingInv, Knows, Looking, InStat,
           Recalling,
           Data, RingOK
      <4>2. Dist(aq_busy, aq_busy) = 0 /\ Dist(aq_busy, aq_nxtq) > 0
        BY <4>1, DistFacts
      <4>3. sw[aq_busy] = "busy"
        BY <4>1, <4>2 DEF Ring, RingInv, NotStarted, Unstarted, InRing
      <4> QED BY <1>4, <2>3, <4>3 DEF stat_recalled
    <3>2. Advances(t)
      BY <1>t, <1>4, <2>3, <3>1 DEF stat_recalled, Return, Advances, Go, ringVars, slotVars,
         pastVars, ControlTypeOK, LocalsOK
    <3> QED BY <1>t, <1>f, <2>2, <3>2, AdvanceGiven
  <2>4. CASE eptr[t] # aq_busy
    <3>1. LocalStep(t)
      BY <1>4, <1>t, <2>4 DEF stat_recalled, Return, LocalStep, Go, ringVars, slotVars,
         pastVars, ControlTypeOK, LocalsOK
    <3>2. Settled(t)
      BY <1>t, <1>f, <2>2, <3>1 DEF Settled, Due, Issuing
    <3> QED BY <2>2, <3>2, SettledKeeps
  <2> QED BY <2>3, <2>4
<1> QED BY <1>1, <1>2, <1>3, <1>4

-----------------------------------------------------------------------------
(* A batch has begun, and what has begun is in the ring.                   *)
LEMMA BatchBegun ==
  ASSUME Ring, NEW t \in Task, Issuing(t), p[t] # q[t], NEW s \in Batch(t)
  PROVE  s \in Slot /\ Pending(t, s) /\ Begun(s) /\ InRing(s)
<1>1. /\ p[t] \in Slot /\ q[t] \in Slot /\ q[t] = aq_ptr
      /\ aq_busy \in Slot /\ aq_ptr \in Slot /\ aq_nxtq \in Slot
      /\ Dist(aq_busy, p[t]) <= Dist(aq_busy, q[t])
      /\ Dist(aq_busy, aq_ptr) <= Dist(aq_busy, aq_nxtq)
  BY DEF Ring, Data, RingOK, LocalsOK, Known, Fired, Copied, RingInv, Knows, Firing,
     PointersInOrder, Dist, Issuing
<1>2. s \in Slot /\ Pending(t, s)
  BY <1>1, BatchInRing, BatchPending
<1>3. /\ Dist(aq_busy, s) \in Nat /\ Dist(aq_busy, aq_ptr) \in Nat
      /\ Dist(aq_busy, aq_nxtq) \in Nat
  BY <1>1, <1>2, DistFacts
<1> QED BY <1>1, <1>2, <1>3 DEF Pending, Begun, InRing

LEMMA FillGiven ==
  ASSUME Ring, GivenInv, NEW t \in Task, enq_fill(t)
  PROVE  GivenInv'
<1>s. /\ aq_busy \in Slot /\ aq_ptr \in Slot /\ aq_nxtq \in Slot
      /\ sw \in [Slot -> {"busy", "done", "error", "EINTR"}]
      /\ Dist(aq_busy, aq_ptr) <= Dist(aq_busy, aq_nxtq)
      /\ pc[t] = "enq_fill"
  BY DEF Ring, Data, RingOK, SlotsOK, RingInv, PointersInOrder, Dist, enq_fill
<1>u. /\ UNCHANGED <<ringVars, inio, op, then, p, q, eptr, stop>>
      /\ \A s \in Slot : s # aq_nxtq => sw'[s] = sw[s]
      /\ pc'[t] = "enq_inc" /\ \A u \in Task \ {t} : pc'[u] = pc[u]
  BY <1>s DEF enq_fill, Go, pastVars, Ring, Control, ControlTypeOK
<1>r. \A s \in Slot : (InRing(s)' <=> InRing(s)) /\ (Begun(s)' <=> Begun(s))
  BY <1>u DEF InRing, Begun, Dist, COUNT_QE, ringVars
<1>n. ~InRing(aq_nxtq) /\ ~Begun(aq_nxtq)
  BY <1>s, DistFacts DEF InRing, Begun
<1>v. \A u \in Task, s \in Slot : Due(u, s)' <=> Due(u, s)
  BY <1>s, <1>u DEF Due, Pending, Issuing, Dist, COUNT_QE, ringVars
<1>1. Given'
  BY <1>u, <1>r, <1>n, <1>v DEF GivenInv, Given
<1>2. Emptied'
  BY <1>u, <1>r DEF GivenInv, Emptied, ringVars
<1>3. ASSUME NEW u \in Task PROVE Issues(u)' /\ Seeks(u)'
  <2>k. Issues(u) /\ Seeks(u) /\ Oldest(u) /\ eptr[u] \in Slot /\ ~Waits(u)
    BY <1>s DEF GivenInv, Ring, RingInv, Knows, Data, LocalsOK, Seeks
  <2>1. Issues(u)'
    <3>1. pc[u] = "restart" => \A s \in Batch(u) : s \in Slot /\ s # aq_nxtq
      BY <1>n, BatchBegun DEF Ring, RingInv, Knows, Firing, Issuing
    <3>2. Batch(u)' = Batch(u)
      BY <1>u DEF Batch, BatchEnd
    <3>3. pc'[u] \in {"fired", "restart"} => pc'[u] = pc[u]
      BY <1>u
    <3> QED BY <1>u, <2>k, <3>1, <3>2, <3>3 DEF Issues, ringVars, Dist, COUNT_QE
  <2>2. ~Waits(u)'
    BY <1>u, <2>k DEF Waits, InStat, Calling, Recalling
  <2>3. Recalling(u)' => Recalling(u) /\ eptr[u] # aq_nxtq
    <3>1. Recalling(u)' => Recalling(u) /\ ~InStat(u)
      BY <1>u, <2>2 DEF Waits, InStat, Recalling
    <3>2. Recalling(u) /\ ~InStat(u) => Begun(eptr[u])
      BY <1>s, <2>k, DistFacts DEF Oldest, Begun
    <3> QED BY <1>n, <3>1, <3>2
  <2>4. pc'[u] = "rcl_ptr" => \A v \in Task : Due(v, eptr[u])' =>
            Between(p[u], eptr[u], aq_ptr)
    <3> SUFFICES ASSUME pc'[u] = "rcl_ptr", NEW v \in Task, Due(v, eptr[u])'
                 PROVE  Between(p[u], eptr[u], aq_ptr)
      OBVIOUS
    <3>1. PICK e \in Slot : e = eptr[u] /\ e = eptr'[u]
      BY <1>u, <2>k
    <3>2. Due(v, e)'
      BY <3>1 DEF Due, Pending
    <3>3. Due(v, eptr[u])
      BY <1>v, <3>1, <3>2
    <3> QED BY <1>u, <2>k, <3>3 DEF Seeks
  <2>5. pc'[u] \in {"rcl_ptr", "recall"} \/ Recalling(u)' => pc'[u] = pc[u]
    BY <1>u DEF Recalling
  <2>6. Recalling(u)' /\ sw'[eptr'[u]] = "busy" => Begun(eptr[u])'
    BY <1>u, <2>k, <2>3 DEF Seeks, Begun, Dist, COUNT_QE, ringVars
  <2>7. pc'[u] = "recall" /\ sw'[eptr'[u]] = "busy" => eptr'[u] \in inio'
    BY <1>u, <2>k, <2>3, <2>5 DEF Seeks, Recalling
  <2>8. ~(InStat(u) /\ (pc[u] = "fire" \/ Issuing(u)))'
    BY <2>2 DEF Waits, InStat, Calling, Issuing
  <2> QED BY <1>u, <2>1, <2>2, <2>4, <2>6, <2>7, <2>8 DEF Seeks, Between, ringVars
<1> QED BY <1>1, <1>2, <1>3 DEF GivenInv

LEMMA EnterGiven ==
  ASSUME Ring, GivenInv, NEW t \in Task, enq_inc(t)
  PROVE  GivenInv'
<1>s. /\ aq_busy \in Slot /\ aq_ptr \in Slot /\ aq_nxtq \in Slot
      /\ pc[t] = "enq_inc" /\ Dist(aq_busy, aq_nxtq) <= Max - 2
      /\ Dist(aq_busy, aq_nxtq') = Dist(aq_busy, aq_nxtq) + 1
      /\ Dist(aq_busy, aq_nxtq) \in Nat
  BY DistFacts, AqAssumption DEF Ring, Data, RingOK, RingInv, Knows, Filling, enq_inc
<1>u. /\ UNCHANGED <<aq_busy, aq_ptr, aq_fird, sw, inio>>
      /\ pc'[t] \in {"call", "user"}
      /\ \A u \in Task \ {t} : UNCHANGED <<pc[u], op[u], then[u], p[u], q[u], eptr[u], stop[u]>>
  BY DEF enq_inc, Go, Return, slotVars, Ring, Control, ControlTypeOK, Data, LocalsOK
<1>r. \A s \in Slot : /\ InRing(s) => InRing(s)'
                      /\ Begun(s)' <=> Begun(s)
                      /\ s = aq_nxtq => InRing(s)'
  <2> SUFFICES ASSUME NEW s \in Slot
               PROVE  /\ InRing(s) => InRing(s)'
                      /\ Begun(s)' <=> Begun(s)
                      /\ s = aq_nxtq => InRing(s)'
    OBVIOUS
  <2>1. Dist(aq_busy, s) \in Nat
    BY <1>s, DistFacts
  <2>2. InRing(s)' <=> Dist(aq_busy, s) < Dist(aq_busy, aq_nxtq')
    BY <1>u DEF InRing, Dist, COUNT_QE
  <2> QED BY <1>s, <1>u, <2>1, <2>2 DEF InRing, Begun, Dist, COUNT_QE
<1>v. \A u \in Task, s \in Slot : Due(u, s)' <=> Due(u, s)
  BY <1>s, <1>u DEF Due, Pending, Issuing, Dist, COUNT_QE
<1>1. Given'
  BY <1>u, <1>r, <1>v DEF GivenInv, Given
<1>2. Emptied'
  BY <1>u, <1>r DEF GivenInv, Emptied
<1>3. ASSUME NEW u \in Task PROVE Issues(u)' /\ Seeks(u)'
  <2>1. CASE u = t
    BY <1>u, <2>1 DEF Issues, Seeks, Waits, InStat, Calling, Recalling, Issuing, Place,
       Ring,
       Control, enq_inc, InEnq, Return, Go, ControlTypeOK
  <2>2. CASE u # t
    <3>k. Issues(u) /\ Seeks(u) /\ ~Waits(u) /\ eptr[u] \in Slot
      BY <1>s DEF GivenInv, Seeks, Ring, Data, LocalsOK
    <3>1. Issues(u)'
      BY <1>u, <2>2, <3>k DEF Issues, Batch, BatchEnd, Dist, COUNT_QE
    <3>2. ~Waits(u)' /\ ~(InStat(u) /\ (pc[u] = "fire" \/ Issuing(u)))'
      BY <1>u, <2>2, <3>k DEF Waits, InStat, Calling, Recalling, Issuing
    <3>3. pc'[u] = "rcl_ptr" => \A v \in Task : Due(v, eptr[u])' =>
              Between(p[u], eptr[u], aq_ptr)
      <4> SUFFICES ASSUME pc'[u] = "rcl_ptr", NEW v \in Task, Due(v, eptr[u])'
                   PROVE  Between(p[u], eptr[u], aq_ptr)
        OBVIOUS
      <4>1. PICK e \in Slot : e = eptr[u] /\ e = eptr'[u]
        BY <1>u, <2>2, <3>k
      <4>2. Due(v, e)'
        BY <4>1 DEF Due, Pending
      <4>3. Due(v, eptr[u])
        BY <1>v, <4>1, <4>2
      <4> QED BY <1>u, <2>2, <3>k, <4>3 DEF Seeks
    <3>4. (Recalling(u) /\ sw[eptr[u]] = "busy" => Begun(eptr[u]))'
      BY <1>u, <2>2, <3>k DEF Seeks, Recalling, Begun, Dist, COUNT_QE
    <3> QED BY <1>u, <2>2, <3>k, <3>1, <3>2, <3>3, <3>4 DEF Seeks, Between
  <2> QED BY <2>1, <2>2
<1> QED BY <1>1, <1>2, <1>3 DEF GivenInv

LEMMA FireGiven ==
  ASSUME Ring, GivenInv, NEW t \in Task, call_fire(t)
  PROVE  GivenInv'
<1>s. /\ aq_busy \in Slot /\ aq_ptr \in Slot /\ aq_nxtq \in Slot /\ q[t] \in Slot
      /\ pc[t] = "fire" /\ p[t] = aq_ptr
      /\ Dist(aq_busy, aq_ptr) <= Dist(aq_busy, q[t])
      /\ Dist(aq_busy, q[t]) <= Dist(aq_busy, aq_nxtq)
  BY DEF Ring, Data, RingOK, LocalsOK, Fired, Copied, RingInv, Knows, Firing, call_fire
<1>u. /\ UNCHANGED <<aq_busy, aq_nxtq, aq_fird, sw, inio, op, then, p, q, eptr, stop>>
      /\ aq_ptr' = q[t] /\ pc'[t] = "listio" /\ \A u \in Task \ {t} : pc'[u] = pc[u]
  BY DEF call_fire, Go, slotVars, Ring, Control, ControlTypeOK
<1>d. \A s \in Slot : Dist(aq_busy, s) \in Nat
  BY <1>s, DistFacts
<1>r. /\ \A s \in Slot : InRing(s)' <=> InRing(s)
      /\ \A s \in Slot : Begun(s) => Begun(s)'
      /\ \A s \in Slot : Begun(s)' => Begun(s) \/ Due(t, s)'
      /\ \A s \in Slot : Due(t, s)' => sw[s] = "busy" /\ ~Begun(s)
  <2> SUFFICES ASSUME NEW s \in Slot
               PROVE  /\ InRing(s)' <=> InRing(s)
                      /\ Begun(s) => Begun(s)'
                      /\ Begun(s)' => Begun(s) \/ Due(t, s)'
                      /\ Due(t, s)' => sw[s] = "busy" /\ ~Begun(s)
    OBVIOUS
  <2>1. /\ Begun(s)' <=> Dist(aq_busy, s) < Dist(aq_busy, q[t])
        /\ Due(t, s)' <=> /\ Dist(aq_busy, aq_ptr) <= Dist(aq_busy, s)
                          /\ Dist(aq_busy, s) < Dist(aq_busy, q[t])
    BY <1>s, <1>u DEF Begun, Due, Pending, Issuing, Dist, COUNT_QE
  <2>2. Due(t, s)' => Unstarted(s)
    BY <1>s, <1>d, <2>1 DEF Unstarted, InRing
  <2>3. Due(t, s)' => sw[s] = "busy"
    BY <2>2 DEF Ring, RingInv, NotStarted
  <2>4. InRing(s)' <=> InRing(s)
    BY <1>u DEF InRing, Dist, COUNT_QE
  <2> QED BY <1>s, <1>d, <2>1, <2>3, <2>4 DEF Begun
<1>v. \A u \in Task \ {t}, s \in Slot : Due(u, s)' <=> Due(u, s)
  BY <1>u DEF Due, Pending, Issuing, Dist, COUNT_QE
<1>w. \A s \in Slot : ~Due(t, s)
  BY <1>s DEF Due, Issuing
<1>1. Given'
  BY <1>u, <1>r, <1>v, <1>w DEF GivenInv, Given
<1>2. Emptied'
  BY <1>s, <1>u, <1>r DEF GivenInv, Emptied
<1>3. ASSUME NEW u \in Task PROVE Issues(u)' /\ Seeks(u)'
  <2>k. Issues(u) /\ Seeks(u) /\ eptr[u] \in Slot
    BY DEF GivenInv, Ring, Data, LocalsOK
  <2>1. Issues(u)'
    <3>1. pc'[u] \in {"fired", "restart"} => pc'[u] = pc[u]
      BY <1>u
    <3> QED BY <1>u, <2>k, <3>1 DEF Issues, Batch, BatchEnd, Dist, COUNT_QE
  <2>2. Waits(u)' => \A v \in Task : pc'[v] \notin {"enq_fill", "enq_inc"}
    <3>1. Waits(u)' => Waits(u)
      BY <1>s, <1>u DEF Waits, InStat, Calling, Recalling
    <3> QED BY <1>u, <2>k, <3>1 DEF Seeks
  <2>3. (InStat(u) /\ (pc[u] = "fire" \/ Issuing(u)) /\ InRing(eptr[u]) =>
           Dist(aq_busy, eptr[u]) < Dist(aq_busy, q[u]))'
    <3>1. pc'[u] = "fire" \/ Issuing(u)' => pc[u] = "fire" \/ Issuing(u)
      BY <1>s, <1>u DEF Issuing
    <3> QED BY <1>u, <2>k, <3>1 DEF Seeks, InStat, InRing, Dist, COUNT_QE
  <2>4. Recalling(u)' => Recalling(u) /\ pc'[u] = pc[u]
    BY <1>u DEF Recalling
  <2>5. (Recalling(u) /\ sw[eptr[u]] = "busy" => Begun(eptr[u]))'
    <3>1. Begun(eptr[u]) => Begun(eptr[u])'
      <4>1. PICK e \in Slot : e = eptr[u] /\ e = eptr'[u]
        BY <1>u, <2>k
      <4>2. Begun(e) => Begun(e)'
        BY <1>r
      <4> QED BY <4>1, <4>2 DEF Begun
    <3> QED BY <1>u, <2>k, <2>4, <3>1 DEF Seeks
  <2>6. pc'[u] = "rcl_ptr" => \A v \in Task : Due(v, eptr[u])' =>
            Between(p[u], eptr[u], q[t])
    <3> SUFFICES ASSUME pc'[u] = "rcl_ptr", NEW v \in Task, Due(v, eptr[u])'
                 PROVE  FALSE
      OBVIOUS
    <3>1. PICK e \in Slot : e = eptr[u] /\ e = eptr'[u]
      BY <1>u, <2>k
    <3>2. Due(v, e)'
      BY <3>1 DEF Due, Pending
    <3>3. v = t
      <4>1. v # t => Issuing(v)
        BY <1>v, <3>2 DEF Due
      <4>2. Free("lkfird")
        BY DEF call_fire
      <4> QED BY <4>1, <4>2, IssuingLocks, AqAssumption DEF Ring, Free
    <3>4. sw[e] = "busy" /\ ~Begun(e)
      BY <1>r, <3>2, <3>3
    <3> QED BY <1>u, <2>k, <3>1, <3>4, <2>4 DEF Seeks, Recalling
  <2>7. pc'[u] = "recall" => pc[u] = "recall"
    BY <1>u
  <2> QED BY <1>u, <2>k, <2>1, <2>2, <2>3, <2>5, <2>6, <2>7 DEF Seeks, Between
<1> QED BY <1>1, <1>2, <1>3 DEF GivenInv

LEMMA IssueGiven ==
  ASSUME Ring, GivenInv, NEW t \in Task,
         call_listio(t) \/ call_listio_fails(t) \/ call_listio_interrupted(t)
  PROVE  GivenInv'
<1>s. /\ aq_busy \in Slot /\ aq_ptr \in Slot /\ aq_nxtq \in Slot /\ inio \subseteq Slot
      /\ p[t] \in Slot /\ q[t] \in Slot /\ p[t] # q[t] /\ Issuing(t)
      /\ p[t] = FiredFrom(aq_fird) /\ pc[t] = "listio" /\ Dist(aq_busy, p[t]) <= Dist(aq_busy, q[t])
  BY
    DEF Ring, Data, RingOK, SlotsOK, LocalsOK, Known, Fired, Copied, RingInv, Knows,
        Firing, Issuing, call_listio, call_listio_fails, call_listio_interrupted
<1>b. \A s \in Batch(t) : s \in Slot /\ Pending(t, s) /\ Begun(s) /\ InRing(s)
  BY <1>s, BatchBegun
<1>v. /\ UNCHANGED <<ringVars, op, then, q, eptr, stop>>
      /\ \A u \in Task \ {t} : pc'[u] = pc[u] /\ p'[u] = p[u]
      /\ pc'[t] \in {"fired", "restart"}
  BY DEF call_listio, call_listio_fails, call_listio_interrupted, Go, Ring, Control,
     ControlTypeOK, Data, LocalsOK
<1>w. /\ \A s \in Slot : s \notin Batch(t) => sw'[s] = sw[s]
      /\ inio \subseteq inio'
      /\ \A s \in Batch(t) : sw'[s] = "busy" => s \in inio'
  BY <1>s, <1>b DEF call_listio, call_listio_fails, call_listio_interrupted
<1>x. PICK i \in Slot : /\ p'[t] = i
                        /\ Dist(FiredFrom(aq_fird), i) <= Dist(FiredFrom(aq_fird), q[t])
                        /\ Dist(aq_busy, p[t]) <= Dist(aq_busy, i)
                        /\ \A s \in Slot : Pending(t, s) /\ s \notin Batch(t) =>
                               Dist(aq_busy, i) <= Dist(aq_busy, s)
  <2>1. CASE call_listio(t) \/ call_listio_fails(t)
    <3>1. p'[t] = Wrapped(BatchEnd(t))
      BY <2>1 DEF call_listio, call_listio_fails, Ring, Data, LocalsOK
    <3>2. /\ p'[t] \in Slot /\ Dist(p[t], p'[t]) <= Dist(p[t], q[t])
          /\ Dist(aq_busy, p[t]) <= Dist(aq_busy, p'[t])
          /\ \A s \in Slot : Pending(t, s) /\ Dist(aq_busy, s) < Dist(aq_busy, p'[t]) =>
                 s \in Batch(t)
      BY <1>s, <3>1, BatchSplit
    <3> QED BY <1>s, <3>2, DistFacts
  <2>2. CASE call_listio_interrupted(t)
    BY <1>s, <2>2, DistFacts DEF call_listio_interrupted, Pending
  <2> QED BY <2>1, <2>2
<1>r. \A s \in Slot : (InRing(s)' <=> InRing(s)) /\ (Begun(s)' <=> Begun(s))
  BY <1>v DEF InRing, Begun, Dist, COUNT_QE, ringVars
<1>d. \A s \in Slot : /\ Due(t, s) /\ s \notin Batch(t) => Due(t, s)'
                      /\ Due(t, s)' => Due(t, s)
  <2> SUFFICES ASSUME NEW s \in Slot
               PROVE  /\ Due(t, s) /\ s \notin Batch(t) => Due(t, s)'
                      /\ Due(t, s)' => Due(t, s)
    OBVIOUS
  <2>1. /\ Dist(aq_busy, s) \in Nat /\ Dist(aq_busy, i) \in Nat /\ Dist(aq_busy, p[t]) \in Nat
    BY <1>s, DistFacts
  <2>2. Due(t, s)' <=>
            Dist(aq_busy, i) <= Dist(aq_busy, s) /\ Dist(aq_busy, s) < Dist(aq_busy, q[t])
    BY <1>v, <1>x DEF Due, Pending, Issuing, Dist, COUNT_QE, ringVars
  <2> QED BY <1>s, <1>x, <2>1, <2>2 DEF Due, Pending
<1>o. \A u \in Task \ {t} : ~Issuing(u) /\ ~Issuing(u)'
  BY <1>s, <1>v, OneIssuer DEF Ring, Issuing
<1>1. Given'
  <2> SUFFICES ASSUME NEW s \in Slot, Begun(s), sw'[s] = "busy", s \notin inio'
               PROVE  \E u \in Task : Due(u, s)'
    BY <1>r DEF Given
  <2>1. s \notin Batch(t) /\ sw[s] = "busy" /\ s \notin inio
    BY <1>w
  <2>2. PICK u \in Task : Due(u, s)
    BY <2>1 DEF GivenInv, Given
  <2>3. u = t
    BY <1>o, <2>2 DEF Due
  <2> QED BY <1>d, <2>1, <2>2, <2>3
<1>2. Emptied'
  <2> SUFFICES ASSUME NEW s \in Slot, sw'[s] = "busy", ~InRing(s)
               PROVE  s = aq_nxtq /\ \E u \in Task : pc'[u] = "enq_inc"
    BY <1>r, <1>v DEF Emptied, ringVars
  <2>1. s \notin Batch(t) /\ sw[s] = "busy"
    BY <1>b, <1>w
  <2>2. s = aq_nxtq /\ \E u \in Task : pc[u] = "enq_inc"
    BY <2>1 DEF GivenInv, Emptied
  <2> QED BY <1>s, <1>v, <2>2
<1>3. Issues(t)'
  <2>1. CASE call_listio(t) \/ call_listio_fails(t)
    <3>1. pc'[t] = "fired"
      BY <2>1 DEF call_listio, call_listio_fails, Go, Ring, Control, ControlTypeOK
    <3> QED BY <1>v, <1>x, <3>1 DEF Issues, Dist, COUNT_QE, ringVars
  <2>2. CASE call_listio_interrupted(t)
    <3>1. pc'[t] = "restart" /\ p' = p
      BY <2>2 DEF call_listio_interrupted, Go, Ring, Control, ControlTypeOK
    <3>2. Batch(t)' = Batch(t)
      BY <1>v, <3>1 DEF Batch, BatchEnd
    <3> QED BY <1>w, <3>1, <3>2 DEF Issues
  <2> QED BY <2>1, <2>2
<1>4. Seeks(t)'
  <2>1. Waits(t)' => \A v \in Task : pc'[v] \notin {"enq_fill", "enq_inc"}
    <3>1. Waits(t)' => Waits(t)
      BY <1>s, <1>v DEF Waits, InStat, Calling
    <3> QED BY <1>v, <3>1 DEF GivenInv, Seeks
  <2>2. (InStat(t) /\ InRing(eptr[t]) => Dist(aq_busy, eptr[t]) < Dist(aq_busy, q[t]))'
    BY <1>s, <1>v DEF GivenInv, Seeks, InStat, InRing, Dist, COUNT_QE, ringVars
  <2> QED BY <1>v, <2>1, <2>2 DEF Seeks, Recalling
<1>5. ASSUME NEW u \in Task \ {t} PROVE Issues(u)' /\ Seeks(u)'
  <2>k. Seeks(u) /\ eptr[u] \in Slot
    BY <1>5 DEF GivenInv, Ring, Data, LocalsOK
  <2>e. PICK e \in Slot : e = eptr[u] /\ e = eptr'[u]
    BY <1>v, <2>k
  <2>1. Issues(u)'
    BY <1>5, <1>o DEF Issues, Issuing
  <2>2. Waits(u)' => \A v \in Task : pc'[v] \notin {"enq_fill", "enq_inc"}
    <3>1. Waits(u)' => Waits(u)
      BY <1>5, <1>v DEF Waits, InStat, Calling, Recalling
    <3> QED BY <1>v, <2>k, <3>1 DEF Seeks
  <2>3. (InStat(u) /\ (pc[u] = "fire" \/ Issuing(u)) /\ InRing(eptr[u]) =>
           Dist(aq_busy, eptr[u]) < Dist(aq_busy, q[u]))'
    <3>1. ~Issuing(u)' /\ pc'[u] = pc[u]
      BY <1>5, <1>o, <1>v
    <3> QED BY <1>v, <2>k, <3>1 DEF Seeks, InStat, InRing, Dist, COUNT_QE, ringVars
  <2>4. (Recalling(u) /\ sw[eptr[u]] = "busy" => Begun(eptr[u]))'
    <3>1. Recalling(u) /\ sw'[e] = "busy" => Begun(e)
      BY <1>b, <1>w, <2>k, <2>e DEF Seeks
    <3>2. Recalling(u)' => Recalling(u)
      BY <1>5, <1>v DEF Recalling
    <3>3. Begun(e) <=> Begun(eptr[u])'
      BY <1>r, <1>v, <2>e DEF Begun, Dist, COUNT_QE, ringVars
    <3> QED BY <2>e, <3>1, <3>2, <3>3
  <2>5. pc'[u] = "rcl_ptr" => \A v \in Task : Due(v, eptr[u])' =>
            Between(p[u], eptr[u], aq_ptr)
    <3> SUFFICES ASSUME pc'[u] = "rcl_ptr", NEW v \in Task, Due(v, eptr[u])'
                 PROVE  Between(p[u], eptr[u], aq_ptr)
      OBVIOUS
    <3>1. Due(v, e)'
      BY <2>e DEF Due, Pending
    <3>2. v = t
      BY <1>o, <3>1 DEF Due
    <3>3. Due(v, eptr[u])
      BY <1>d, <2>e, <3>1, <3>2
    <3> QED BY <1>5, <1>v, <2>k, <3>3 DEF Seeks
  <2>6. pc'[u] = "recall" /\ sw'[eptr'[u]] = "busy" => eptr'[u] \in inio'
    BY <1>5, <1>v, <1>w, <2>k, <2>e DEF Seeks
  <2> QED BY <1>5, <1>v, <2>1, <2>2, <2>3, <2>4, <2>5, <2>6 DEF Seeks, Between, ringVars
<1> QED BY <1>1, <1>2, <1>3, <1>4, <1>5 DEF GivenInv

LEMMA CompleteGiven ==
  ASSUME Ring, GivenInv, NEW x \in Slot, Complete(x)
  PROVE  GivenInv'
<1>u. /\ UNCHANGED <<ringVars, localVars>> /\ inio' = inio \ {x}
      /\ \A s \in Slot : s # x => sw'[s] = sw[s]
      /\ sw'[x] # "busy" /\ inio \subseteq Slot
  BY DEF Complete, Ring, Data, SlotsOK
<1>r. /\ \A s \in Slot : (InRing(s)' <=> InRing(s)) /\ (Begun(s)' <=> Begun(s))
      /\ \A u \in Task, s \in Slot : Due(u, s)' <=> Due(u, s)
  BY <1>u DEF InRing, Begun, Due, Pending, Issuing, Dist, COUNT_QE, ringVars, localVars
<1>1. Given' /\ Emptied'
  BY <1>u, <1>r DEF GivenInv, Given, Emptied, ringVars, localVars
<1>2. ASSUME NEW u \in Task PROVE Issues(u)' /\ Seeks(u)'
  <2>k. Issues(u) /\ Seeks(u) /\ eptr[u] \in Slot
    BY DEF GivenInv, Ring, Data, LocalsOK
  <2>1. Issues(u)'
    <3>1. pc[u] = "restart" => \A s \in Batch(u) : s \in Slot
      BY BatchBegun DEF Ring, RingInv, Knows, Firing, Issuing
    <3> QED BY <1>u, <2>k, <3>1 DEF Issues, Batch, BatchEnd, Dist, COUNT_QE, ringVars,
       localVars
  <2>2. Seeks(u)'
    BY <1>u, <2>k DEF Seeks, Waits, InStat, Calling, Recalling, Issuing, Begun, InRing, Due,
       Pending,
       Between, Dist, COUNT_QE, ringVars, localVars
  <2> QED BY <2>1, <2>2
<1> QED BY <1>1, <1>2 DEF GivenInv

-----------------------------------------------------------------------------
LEMMA GivenStarts == Init => GivenInv
<1> SUFFICES ASSUME Init PROVE GivenInv
  OBVIOUS
<1>1. /\ \A s \in Slot : sw[s] = "done"
      /\ \A t \in Task : pc[t] = "user"
  BY DEF Init
<1>2. Given /\ Emptied
  BY <1>1 DEF Given, Emptied
<1>3. \A t \in Task : Issues(t) /\ Seeks(t)
  BY <1>1 DEF Issues, Seeks, Waits, Calling, Recalling, Issuing
<1> QED BY <1>2, <1>3 DEF GivenInv

LEMMA GivenStutters == GivenInv /\ UNCHANGED vars => GivenInv'
BY DEF vars, ringVars, slotVars, localVars, GivenInv, Given, Emptied, Issues, Seeks, Waits,
   InRing, Begun, Due, Pending, Batch, BatchEnd, Between, Dist, COUNT_QE, InStat, Calling,
   Recalling, Issuing

LEMMA GivenInvariant == ASSUME WellUsed PROVE Spec /\ []InTime => []GivenInv
<1>1. /\ GivenInv /\ [Next]_vars
      /\ InTime /\ RingInv /\ Fired /\ Data /\ Control
      /\ InTime' /\ RingInv' /\ Fired' /\ Data' /\ Control'
      => GivenInv'
  <2> SUFFICES ASSUME GivenInv, [Next]_vars, InTime, RingInv, Fired, Data, Control,
                      InTime', RingInv', Fired', Data', Control'
               PROVE  GivenInv'
    OBVIOUS
  <2>r. Ring /\ Ring'
    BY DEF Ring, WellUsed
  <2>1. CASE UNCHANGED vars
    BY <2>1, GivenStutters
  <2>2. ASSUME NEW s \in Slot, Complete(s) PROVE GivenInv'
    BY <2>r, <2>2, CompleteGiven
  <2>3. CASE \E t \in Task : \/ \E start \in BOOLEAN : _aqenq(t, start)
                             \/ enq_busy(t) \/ enq_fill(t) \/ enq_inc(t)
    BY <2>r, <2>3, EnqGiven, FillGiven, EnterGiven
  <2>4. CASE \E t \in Task : \/ _aqcall(t) \/ call_fire(t) \/ call_listio(t)
                             \/ call_listio_fails(t) \/ call_listio_interrupted(t)
                             \/ call_restart(t) \/ call_fired(t)
    BY <2>r, <2>4, CallGiven, FireGiven, IssueGiven
  <2>5. CASE \E t \in Task : _aqrcl(t) \/ rcl_ptr(t) \/ rcl_fird(t)
    BY <2>r, <2>5, RclGiven
  <2>6. CASE \E t \in Task : \/ enq_recalled(t) \/ wait_recalled(t) \/ stat_recalled(t)
                             \/ close_recalled(t)
    BY <2>r, <2>6, RecallGiven
  <2>7. CASE \E t \in Task : \/ AQWAIT(t) \/ wait_idle(t) \/ wait_lock(t) \/ wait_loop(t)
                             \/ \E r \in Request : AQRECALL(t, r)
                             \/ recall_lock(t) \/ recall_inside(t)
                             \/ \E r \in Request, wait \in BOOLEAN : AQSTAT(t, r, wait)
                             \/ stat_lock(t) \/ stat_busy(t)
    BY <2>r, <2>7, AskGiven
  <2>8. CASE \E t \in Task : AQCLOSE(t) \/ close_lock(t)
    BY <2>r, <2>8, CloseGiven
  <2> QED BY <2>1, <2>2, <2>3, <2>4, <2>5, <2>6, <2>7, <2>8 DEF Next, InCall
<1> QED BY <1>1, GivenStarts, RingInvariant, FiredInvariant, DataInvariant,
   ControlInvariant, PTL
       DEF Spec

(* Whoever waits for the system to complete a request waits for one that   *)
(* the system has been given, though _aqrcl reads aq_fird and aq_ptr       *)
(* without their locks (aqcall.c:72-86, aqrcl.c:80-98).                    *)
THEOREM RecallsAreSafe == ASSUME WellUsed PROVE Spec /\ []InTime => []NoBlindRecall
<1>1. GivenInv => NoBlindRecall
  BY DEF GivenInv, Seeks, NoBlindRecall
<1> QED BY <1>1, GivenInvariant, PTL


-----------------------------------------------------------------------------
(***************************************************************************)
(* What AQCLOSE of AqIo leaves behind: a theorem under the same conditions *)
(* as the order of the ring.                                               *)
(***************************************************************************)

(* Only requests that were accepted are over; only one being filled in has *)
(* a number that was not accepted yet.                                     *)
OverOK == over \subseteq 1 .. accepted
Numbers == \A s \in Slot : aq_reqid[s] <= accepted \/ \E u \in Task : pc[u] = "enq_inc"

(* AQCLOSE leaves nothing that was not started.                            *)
Ending(t) ==
  op[t] = "AQCLOSE" => /\ pc[t] = "fire" => q[t] = aq_nxtq
                       /\ pc[t] \notin {"call", "fire"} => aq_ptr = aq_nxtq

CloseInv ==
  /\ OverOK /\ Numbers /\ CloseFinishes
  /\ file = "closed" => \A t \in Task : pc[t] = "user"
  /\ \A t \in Task : Ending(t)

(* A step of t: nobody else is in AQCLOSE, and if t ends it, all is over.  *)
Acts(t) ==
  /\ pc[t] # "user" \/ file = "open"
  /\ \A u \in Task \ {t} : UNCHANGED <<pc[u], op[u], q[u]>>
  /\ OverOK' /\ Numbers' /\ Ending(t)'
  /\ file' # file /\ file' = "closed" =>
       op[t] = "AQCLOSE" /\ pc'[t] = "user" /\ CloseFinishes'

LEMMA ActsClose ==
  ASSUME Control, CloseInv, NEW t \in Task, Acts(t)
  PROVE  CloseInv'
<1>1. file # "closed"
  BY DEF CloseInv, Acts
<1>2. ASSUME NEW u \in Task \ {t} PROVE op[u] # "AQCLOSE" /\ op'[u] # "AQCLOSE"
  BY <1>2 DEF Control, Alone, Acts
<1>3. file' = "closed" => CloseFinishes' /\ \A u \in Task : pc'[u] = "user"
  BY <1>1 DEF Acts, Control, Alone
<1>4. CloseFinishes'
  BY <1>3 DEF CloseFinishes
<1> QED BY <1>2, <1>3, <1>4 DEF CloseInv, Acts, Ending

LEMMA NumbersNext ==
  ASSUME CloseInv, NEW t \in Task, pc[t] # "enq_inc", UNCHANGED <<aq_reqid, accepted>>,
         \A u \in Task \ {t} : pc'[u] = pc[u]
  PROVE  Numbers'
BY DEF CloseInv, Numbers

LEMMA EnqActs ==
  ASSUME Ring, CloseInv, NEW t \in Task,
         \/ \E start \in BOOLEAN : _aqenq(t, start)
         \/ enq_busy(t)
  PROVE  Acts(t)
<1>t. ControlTypeOK /\ LocalsOK /\ Place(t) /\ Ending(t) /\ OverOK
  BY DEF Ring, Control, Data, CloseInv
<1>1. CASE \E start \in BOOLEAN : _aqenq(t, start)
  <2>1. pc[t] # "enq_inc" /\ UNCHANGED <<aq_reqid, accepted, over, file, aq_nxtq>>
    BY <1>1 DEF _aqenq, Go, ringVars, slotVars, pastVars, ControlTypeOK, LocalsOK
  <2>2. /\ pc[t] # "user" \/ file = "open"
        /\ \A u \in Task \ {t} : UNCHANGED <<pc[u], op[u], q[u]>>
    BY <1>t, <1>1 DEF _aqenq, Go, ringVars, slotVars, pastVars, ControlTypeOK, LocalsOK
  <2>3. Ending(t)'
    BY <1>t, <1>1 DEF _aqenq, Ending, Place, InEnq, InWait, InStat, Calling, Go, ringVars,
       slotVars, pastVars, ControlTypeOK, LocalsOK
  <2> QED BY <1>t, <2>1, <2>2, <2>3, NumbersNext DEF Acts, OverOK
<1>2. CASE enq_busy(t)
  <2>1. pc[t] # "enq_inc" /\ UNCHANGED <<aq_reqid, accepted, over, file, aq_nxtq>>
    BY <1>2 DEF enq_busy, Go, ringVars, slotVars, pastVars, ControlTypeOK, LocalsOK
  <2>2. /\ pc[t] # "user" \/ file = "open"
        /\ \A u \in Task \ {t} : UNCHANGED <<pc[u], op[u], q[u]>>
    BY <1>t, <1>2 DEF enq_busy, Go, ringVars, slotVars, pastVars, ControlTypeOK, LocalsOK
  <2>3. Ending(t)'
    BY <1>t, <1>2 DEF enq_busy, Ending, Place, InEnq, InWait, InStat, Calling, Go, ringVars,
       slotVars, pastVars, ControlTypeOK, LocalsOK
  <2> QED BY <1>t, <2>1, <2>2, <2>3, NumbersNext DEF Acts, OverOK
<1> QED BY <1>1, <1>2

LEMMA CallActs ==
  ASSUME Ring, CloseInv, NEW t \in Task,
         \/ _aqcall(t)
         \/ call_fire(t)
         \/ call_listio(t)
         \/ call_listio_fails(t)
         \/ call_listio_interrupted(t)
         \/ call_restart(t)
         \/ call_fired(t)
  PROVE  Acts(t)
<1>t. ControlTypeOK /\ LocalsOK /\ Place(t) /\ Ending(t) /\ OverOK
  BY DEF Ring, Control, Data, CloseInv
<1>1. CASE _aqcall(t)
  <2>1. pc[t] # "enq_inc" /\ UNCHANGED <<aq_reqid, accepted, over, file, aq_nxtq>>
    BY <1>1 DEF _aqcall, EndCall, Return, Go, ringVars, slotVars, pastVars, ControlTypeOK,
       LocalsOK
  <2>2. /\ pc[t] # "user" \/ file = "open"
        /\ \A u \in Task \ {t} : UNCHANGED <<pc[u], op[u], q[u]>>
    BY <1>t, <1>1 DEF _aqcall, EndCall, Return, Go, ringVars, slotVars, pastVars,
       ControlTypeOK, LocalsOK
  <2>3. Ending(t)'
    BY <1>t, <1>1 DEF _aqcall, EndCall, Return, Ending, Place, InEnq, InWait, InStat,
       Calling, Go, ringVars, slotVars, pastVars, ControlTypeOK, LocalsOK
  <2> QED BY <1>t, <2>1, <2>2, <2>3, NumbersNext DEF Acts, OverOK
<1>2. CASE call_fire(t)
  <2>1. pc[t] # "enq_inc" /\ UNCHANGED <<aq_reqid, accepted, over, file, aq_nxtq>>
    BY <1>2 DEF call_fire, Go, ringVars, slotVars, pastVars, ControlTypeOK, LocalsOK
  <2>2. /\ pc[t] # "user" \/ file = "open"
        /\ \A u \in Task \ {t} : UNCHANGED <<pc[u], op[u], q[u]>>
    BY <1>t, <1>2 DEF call_fire, Go, ringVars, slotVars, pastVars, ControlTypeOK, LocalsOK
  <2>3. Ending(t)'
    BY <1>t, <1>2 DEF call_fire, Ending, Place, InEnq, InWait, InStat, Calling, Go,
       ringVars, slotVars, pastVars, ControlTypeOK, LocalsOK
  <2> QED BY <1>t, <2>1, <2>2, <2>3, NumbersNext DEF Acts, OverOK
<1>3. CASE call_listio(t)
  <2>1. pc[t] # "enq_inc" /\ UNCHANGED <<aq_reqid, accepted, over, file, aq_nxtq>>
    BY <1>3 DEF call_listio, Go, ringVars, slotVars, pastVars, ControlTypeOK, LocalsOK
  <2>2. /\ pc[t] # "user" \/ file = "open"
        /\ \A u \in Task \ {t} : UNCHANGED <<pc[u], op[u], q[u]>>
    BY <1>t, <1>3 DEF call_listio, Go, ringVars, slotVars, pastVars, ControlTypeOK, LocalsOK
  <2>3. Ending(t)'
    BY <1>t, <1>3 DEF call_listio, Ending, Place, InEnq, InWait, InStat, Calling, Go,
       ringVars, slotVars, pastVars, ControlTypeOK, LocalsOK
  <2> QED BY <1>t, <2>1, <2>2, <2>3, NumbersNext DEF Acts, OverOK
<1>4. CASE call_listio_fails(t)
  <2>1. pc[t] # "enq_inc" /\ UNCHANGED <<aq_reqid, accepted, over, file, aq_nxtq>>
    BY <1>4 DEF call_listio_fails, Go, ringVars, slotVars, pastVars, ControlTypeOK, LocalsOK
  <2>2. /\ pc[t] # "user" \/ file = "open"
        /\ \A u \in Task \ {t} : UNCHANGED <<pc[u], op[u], q[u]>>
    BY <1>t, <1>4 DEF call_listio_fails, Go, ringVars, slotVars, pastVars, ControlTypeOK,
       LocalsOK
  <2>3. Ending(t)'
    BY <1>t, <1>4 DEF call_listio_fails, Ending, Place, InEnq, InWait, InStat, Calling, Go,
       ringVars, slotVars, pastVars, ControlTypeOK, LocalsOK
  <2> QED BY <1>t, <2>1, <2>2, <2>3, NumbersNext DEF Acts, OverOK
<1>5. CASE call_listio_interrupted(t)
  <2>1. pc[t] # "enq_inc" /\ UNCHANGED <<aq_reqid, accepted, over, file, aq_nxtq>>
    BY <1>5 DEF call_listio_interrupted, Go, ringVars, slotVars, pastVars, ControlTypeOK,
       LocalsOK
  <2>2. /\ pc[t] # "user" \/ file = "open"
        /\ \A u \in Task \ {t} : UNCHANGED <<pc[u], op[u], q[u]>>
    BY <1>t, <1>5 DEF call_listio_interrupted, Go, ringVars, slotVars, pastVars,
       ControlTypeOK, LocalsOK
  <2>3. Ending(t)'
    BY <1>t, <1>5 DEF call_listio_interrupted, Ending, Place, InEnq, InWait, InStat,
       Calling, Go, ringVars, slotVars, pastVars, ControlTypeOK, LocalsOK
  <2> QED BY <1>t, <2>1, <2>2, <2>3, NumbersNext DEF Acts, OverOK
<1>6. CASE call_restart(t)
  <2>1. pc[t] # "enq_inc" /\ UNCHANGED <<aq_reqid, accepted, over, file, aq_nxtq>>
    BY <1>6 DEF call_restart, Go, ringVars, slotVars, pastVars, ControlTypeOK, LocalsOK
  <2>2. /\ pc[t] # "user" \/ file = "open"
        /\ \A u \in Task \ {t} : UNCHANGED <<pc[u], op[u], q[u]>>
    BY <1>t, <1>6 DEF call_restart, Go, ringVars, slotVars, pastVars, ControlTypeOK,
       LocalsOK
  <2>3. Ending(t)'
    BY <1>t, <1>6 DEF call_restart, Ending, Place, InEnq, InWait, InStat, Calling, Go,
       ringVars, slotVars, pastVars, ControlTypeOK, LocalsOK
  <2> QED BY <1>t, <2>1, <2>2, <2>3, NumbersNext DEF Acts, OverOK
<1>7. CASE call_fired(t)
  <2>1. pc[t] # "enq_inc" /\ UNCHANGED <<aq_reqid, accepted, over, file, aq_nxtq>>
    BY <1>7 DEF call_fired, EndCall, Return, Go, ringVars, slotVars, pastVars,
       ControlTypeOK, LocalsOK
  <2>2. /\ pc[t] # "user" \/ file = "open"
        /\ \A u \in Task \ {t} : UNCHANGED <<pc[u], op[u], q[u]>>
    BY <1>t, <1>7 DEF call_fired, EndCall, Return, Go, ringVars, slotVars, pastVars,
       ControlTypeOK, LocalsOK
  <2>3. Ending(t)'
    BY <1>t, <1>7 DEF call_fired, EndCall, Return, Ending, Place, InEnq, InWait, InStat,
       Calling, Go, ringVars, slotVars, pastVars, ControlTypeOK, LocalsOK
  <2> QED BY <1>t, <2>1, <2>2, <2>3, NumbersNext DEF Acts, OverOK
<1> QED BY <1>1, <1>2, <1>3, <1>4, <1>5, <1>6, <1>7

LEMMA RclActs ==
  ASSUME Ring, CloseInv, NEW t \in Task,
         \/ _aqrcl(t)
         \/ rcl_ptr(t)
         \/ rcl_fird(t)
  PROVE  Acts(t)
<1>t. ControlTypeOK /\ LocalsOK /\ Place(t) /\ Ending(t) /\ OverOK
  BY DEF Ring, Control, Data, CloseInv
<1>1. CASE _aqrcl(t)
  <2>1. pc[t] # "enq_inc" /\ UNCHANGED <<aq_reqid, accepted, over, file, aq_nxtq>>
    BY <1>1 DEF _aqrcl, Go, ringVars, slotVars, pastVars, ControlTypeOK, LocalsOK
  <2>2. /\ pc[t] # "user" \/ file = "open"
        /\ \A u \in Task \ {t} : UNCHANGED <<pc[u], op[u], q[u]>>
    BY <1>t, <1>1 DEF _aqrcl, Go, ringVars, slotVars, pastVars, ControlTypeOK, LocalsOK
  <2>3. Ending(t)'
    BY <1>t, <1>1 DEF _aqrcl, Ending, Place, InEnq, InWait, InStat, Calling, Go, ringVars,
       slotVars, pastVars, ControlTypeOK, LocalsOK
  <2> QED BY <1>t, <2>1, <2>2, <2>3, NumbersNext DEF Acts, OverOK
<1>2. CASE rcl_ptr(t)
  <2>1. pc[t] # "enq_inc" /\ UNCHANGED <<aq_reqid, accepted, over, file, aq_nxtq>>
    BY <1>2 DEF rcl_ptr, Go, ringVars, slotVars, pastVars, ControlTypeOK, LocalsOK
  <2>2. /\ pc[t] # "user" \/ file = "open"
        /\ \A u \in Task \ {t} : UNCHANGED <<pc[u], op[u], q[u]>>
    BY <1>t, <1>2 DEF rcl_ptr, Go, ringVars, slotVars, pastVars, ControlTypeOK, LocalsOK
  <2>3. Ending(t)'
    BY <1>t, <1>2 DEF rcl_ptr, Ending, Place, InEnq, InWait, InStat, Calling, Go, ringVars,
       slotVars, pastVars, ControlTypeOK, LocalsOK
  <2> QED BY <1>t, <2>1, <2>2, <2>3, NumbersNext DEF Acts, OverOK
<1>3. CASE rcl_fird(t)
  <2>1. pc[t] # "enq_inc" /\ UNCHANGED <<aq_reqid, accepted, over, file, aq_nxtq>>
    BY <1>3 DEF rcl_fird, Go, ringVars, slotVars, pastVars, ControlTypeOK, LocalsOK
  <2>2. /\ pc[t] # "user" \/ file = "open"
        /\ \A u \in Task \ {t} : UNCHANGED <<pc[u], op[u], q[u]>>
    BY <1>t, <1>3 DEF rcl_fird, Go, ringVars, slotVars, pastVars, ControlTypeOK, LocalsOK
  <2>3. Ending(t)'
    BY <1>t, <1>3 DEF rcl_fird, Ending, Place, InEnq, InWait, InStat, Calling, Go, ringVars,
       slotVars, pastVars, ControlTypeOK, LocalsOK
  <2> QED BY <1>t, <2>1, <2>2, <2>3, NumbersNext DEF Acts, OverOK
<1> QED BY <1>1, <1>2, <1>3

LEMMA AskActs ==
  ASSUME Ring, CloseInv, NEW t \in Task,
         \/ AQWAIT(t)
         \/ wait_idle(t)
         \/ wait_lock(t)
         \/ wait_loop(t)
         \/ \E r \in Request : AQRECALL(t, r)
         \/ recall_lock(t)
         \/ recall_inside(t)
         \/ \E r \in Request, wait \in BOOLEAN : AQSTAT(t, r, wait)
         \/ stat_lock(t)
         \/ stat_busy(t)
  PROVE  Acts(t)
<1>t. ControlTypeOK /\ LocalsOK /\ Place(t) /\ Ending(t) /\ OverOK
  BY DEF Ring, Control, Data, CloseInv
<1>1. CASE AQWAIT(t)
  <2>1. pc[t] # "enq_inc" /\ UNCHANGED <<aq_reqid, accepted, over, file, aq_nxtq>>
    BY <1>1 DEF AQWAIT, StartAsking, Go, ringVars, slotVars, pastVars, ControlTypeOK,
       LocalsOK
  <2>2. /\ pc[t] # "user" \/ file = "open"
        /\ \A u \in Task \ {t} : UNCHANGED <<pc[u], op[u], q[u]>>
    BY <1>t, <1>1 DEF AQWAIT, StartAsking, Go, ringVars, slotVars, pastVars, ControlTypeOK,
       LocalsOK
  <2>3. Ending(t)'
    BY <1>t, <1>1 DEF AQWAIT, StartAsking, Ending, Place, InEnq, InWait, InStat, Calling,
       Go, ringVars, slotVars, pastVars, ControlTypeOK, LocalsOK
  <2> QED BY <1>t, <2>1, <2>2, <2>3, NumbersNext DEF Acts, OverOK
<1>2. CASE wait_idle(t)
  <2>1. pc[t] # "enq_inc" /\ UNCHANGED <<aq_reqid, accepted, over, file, aq_nxtq>>
    BY <1>2 DEF wait_idle, Return, Go, ringVars, slotVars, pastVars, ControlTypeOK, LocalsOK
  <2>2. /\ pc[t] # "user" \/ file = "open"
        /\ \A u \in Task \ {t} : UNCHANGED <<pc[u], op[u], q[u]>>
    BY <1>t, <1>2 DEF wait_idle, Return, Go, ringVars, slotVars, pastVars, ControlTypeOK,
       LocalsOK
  <2>3. Ending(t)'
    BY <1>t, <1>2 DEF wait_idle, Return, Ending, Place, InEnq, InWait, InStat, Calling, Go,
       ringVars, slotVars, pastVars, ControlTypeOK, LocalsOK
  <2> QED BY <1>t, <2>1, <2>2, <2>3, NumbersNext DEF Acts, OverOK
<1>3. CASE wait_lock(t)
  <2>1. pc[t] # "enq_inc" /\ UNCHANGED <<aq_reqid, accepted, over, file, aq_nxtq>>
    BY <1>3 DEF wait_lock, Go, ringVars, slotVars, pastVars, ControlTypeOK, LocalsOK
  <2>2. /\ pc[t] # "user" \/ file = "open"
        /\ \A u \in Task \ {t} : UNCHANGED <<pc[u], op[u], q[u]>>
    BY <1>t, <1>3 DEF wait_lock, Go, ringVars, slotVars, pastVars, ControlTypeOK, LocalsOK
  <2>3. Ending(t)'
    BY <1>t, <1>3 DEF wait_lock, Ending, Place, InEnq, InWait, InStat, Calling, Go,
       ringVars, slotVars, pastVars, ControlTypeOK, LocalsOK
  <2> QED BY <1>t, <2>1, <2>2, <2>3, NumbersNext DEF Acts, OverOK
<1>4. CASE wait_loop(t)
  <2>1. pc[t] # "enq_inc" /\ UNCHANGED <<aq_reqid, accepted, over, file, aq_nxtq>>
    BY <1>4 DEF wait_loop, Return, Go, ringVars, slotVars, pastVars, ControlTypeOK, LocalsOK
  <2>2. /\ pc[t] # "user" \/ file = "open"
        /\ \A u \in Task \ {t} : UNCHANGED <<pc[u], op[u], q[u]>>
    BY <1>t, <1>4 DEF wait_loop, Return, Go, ringVars, slotVars, pastVars, ControlTypeOK,
       LocalsOK
  <2>3. Ending(t)'
    BY <1>t, <1>4 DEF wait_loop, Return, Ending, Place, InEnq, InWait, InStat, Calling, Go,
       ringVars, slotVars, pastVars, ControlTypeOK, LocalsOK
  <2> QED BY <1>t, <2>1, <2>2, <2>3, NumbersNext DEF Acts, OverOK
<1>5. CASE \E r \in Request : AQRECALL(t, r)
  <2>1. pc[t] # "enq_inc" /\ UNCHANGED <<aq_reqid, accepted, over, file, aq_nxtq>>
    BY <1>5 DEF AQRECALL, StartAsking, Go, ringVars, slotVars, pastVars, ControlTypeOK,
       LocalsOK
  <2>2. /\ pc[t] # "user" \/ file = "open"
        /\ \A u \in Task \ {t} : UNCHANGED <<pc[u], op[u], q[u]>>
    BY <1>t, <1>5 DEF AQRECALL, StartAsking, Go, ringVars, slotVars, pastVars,
       ControlTypeOK, LocalsOK
  <2>3. Ending(t)'
    BY <1>t, <1>5 DEF AQRECALL, StartAsking, Ending, Place, InEnq, InWait, InStat, Calling,
       Go, ringVars, slotVars, pastVars, ControlTypeOK, LocalsOK
  <2> QED BY <1>t, <2>1, <2>2, <2>3, NumbersNext DEF Acts, OverOK
<1>6. CASE \E r \in Request, wait \in BOOLEAN : AQSTAT(t, r, wait)
  <2>1. pc[t] # "enq_inc" /\ UNCHANGED <<aq_reqid, accepted, over, file, aq_nxtq>>
    BY <1>6 DEF AQSTAT, StartAsking, Go, ringVars, slotVars, pastVars, ControlTypeOK,
       LocalsOK
  <2>2. /\ pc[t] # "user" \/ file = "open"
        /\ \A u \in Task \ {t} : UNCHANGED <<pc[u], op[u], q[u]>>
    BY <1>t, <1>6 DEF AQSTAT, StartAsking, Go, ringVars, slotVars, pastVars, ControlTypeOK,
       LocalsOK
  <2>3. Ending(t)'
    BY <1>t, <1>6 DEF AQSTAT, StartAsking, Ending, Place, InEnq, InWait, InStat, Calling,
       Go, ringVars, slotVars, pastVars, ControlTypeOK, LocalsOK
  <2> QED BY <1>t, <2>1, <2>2, <2>3, NumbersNext DEF Acts, OverOK
<1>7. CASE stat_busy(t)
  <2>1. pc[t] # "enq_inc" /\ UNCHANGED <<aq_reqid, accepted, over, file, aq_nxtq>>
    BY <1>7 DEF stat_busy, Return, Go, ringVars, slotVars, pastVars, ControlTypeOK, LocalsOK
  <2>2. /\ pc[t] # "user" \/ file = "open"
        /\ \A u \in Task \ {t} : UNCHANGED <<pc[u], op[u], q[u]>>
    BY <1>t, <1>7 DEF stat_busy, Return, Go, ringVars, slotVars, pastVars, ControlTypeOK,
       LocalsOK
  <2>3. Ending(t)'
    BY <1>t, <1>7 DEF stat_busy, Return, Ending, Place, InEnq, InWait, InStat, Calling, Go,
       ringVars, slotVars, pastVars, ControlTypeOK, LocalsOK
  <2> QED BY <1>t, <2>1, <2>2, <2>3, NumbersNext DEF Acts, OverOK
<1>8. CASE recall_lock(t)
  <2>1. pc[t] # "enq_inc" /\ UNCHANGED <<aq_reqid, accepted, over, file, aq_nxtq>>
    BY <1>8 DEF recall_lock, Return, Go, ringVars, slotVars, pastVars, ControlTypeOK,
       LocalsOK
  <2>2. /\ pc[t] # "user" \/ file = "open"
        /\ \A u \in Task \ {t} : UNCHANGED <<pc[u], op[u], q[u]>>
    BY <1>t, <1>8 DEF recall_lock, Return, Go, ringVars, slotVars, pastVars, ControlTypeOK,
       LocalsOK
  <2>3. Ending(t)'
    BY <1>t, <1>8 DEF recall_lock, Return, Ending, Place, InEnq, InWait, InStat, Calling,
       Go, ringVars, slotVars, pastVars, ControlTypeOK, LocalsOK
  <2> QED BY <1>t, <2>1, <2>2, <2>3, NumbersNext DEF Acts, OverOK
<1>9. CASE recall_inside(t)
  <2>1. pc[t] # "enq_inc" /\ UNCHANGED <<aq_reqid, accepted, over, file, aq_nxtq>>
    BY <1>9 DEF recall_inside, Return, Go, ringVars, slotVars, pastVars, ControlTypeOK,
       LocalsOK
  <2>2. /\ pc[t] # "user" \/ file = "open"
        /\ \A u \in Task \ {t} : UNCHANGED <<pc[u], op[u], q[u]>>
    BY <1>t, <1>9
      DEF recall_inside, Return, Go, ringVars, slotVars, pastVars, ControlTypeOK,
          LocalsOK
  <2>3. Ending(t)'
    BY <1>t, <1>9 DEF recall_inside, Return, Ending, Place, InEnq, InWait, InStat, Calling,
       Go, ringVars, slotVars, pastVars, ControlTypeOK, LocalsOK
  <2> QED BY <1>t, <2>1, <2>2, <2>3, NumbersNext DEF Acts, OverOK
<1>10. CASE stat_lock(t)
  <2>1. pc[t] # "enq_inc" /\ UNCHANGED <<aq_reqid, accepted, over, file, aq_nxtq>>
    BY <1>10 DEF stat_lock, Go, ringVars, slotVars, pastVars, ControlTypeOK,
       LocalsOK
  <2>2. /\ pc[t] # "user" \/ file = "open"
        /\ \A u \in Task \ {t} : UNCHANGED <<pc[u], op[u], q[u]>>
    BY <1>t, <1>10 DEF stat_lock, Go, ringVars, slotVars, pastVars, ControlTypeOK,
       LocalsOK
  <2>3. Ending(t)'
    BY <1>t, <1>10 DEF stat_lock, Ending, Place, InEnq, InWait, InStat, Calling,
       Go, ringVars, slotVars, pastVars, ControlTypeOK, LocalsOK
  <2> QED BY <1>t, <2>1, <2>2, <2>3, NumbersNext DEF Acts, OverOK
<1> QED BY <1>1, <1>2, <1>3, <1>4, <1>5, <1>6, <1>7, <1>8, <1>9, <1>10

LEMMA FillActs ==
  ASSUME Ring, CloseInv, NEW t \in Task, enq_fill(t) \/ enq_inc(t)
  PROVE  Acts(t)
<1>t. ControlTypeOK /\ LocalsOK /\ Place(t) /\ Ending(t) /\ OverOK /\ accepted \in Nat
  BY DEF Ring, Control, Data, PastOK, CloseInv
<1>1. CASE enq_fill(t)
  <2>1. Numbers'
    BY <1>t, <1>1 DEF enq_fill, Numbers, Go, ringVars, slotVars, pastVars, ControlTypeOK,
       LocalsOK
  <2> QED BY <1>t, <1>1, <2>1 DEF enq_fill, Acts, OverOK, Ending, Place, InEnq, Go,
     ringVars, slotVars, pastVars, ControlTypeOK, LocalsOK
<1>2. CASE enq_inc(t)
  <2>1. Numbers'
    <3> SUFFICES ASSUME NEW s \in Slot PROVE aq_reqid[s] <= accepted + 1
      BY <1>2 DEF enq_inc, Numbers, slotVars
    <3>1. /\ aq_reqid[s] \in Nat
          /\ Dist(s, aq_nxtq) \in Nat /\ Dist(aq_busy, aq_nxtq) \in Nat
      BY DistFacts DEF Ring, Data, SlotsOK, RingOK, Request
    <3> QED BY <1>t, <3>1 DEF Ring, RingInv, Numbered
  <2>2. OverOK'
    BY <1>t, <1>2 DEF enq_inc, OverOK
  <2> QED BY <1>t, <1>2, <2>1, <2>2 DEF enq_inc, Return, Acts, Ending, Place, InEnq, Go,
     ringVars, slotVars, pastVars, ControlTypeOK, LocalsOK
<1> QED BY <1>1, <1>2

(* What is recalled was accepted.                                          *)
LEMMA RecalledOK ==
  ASSUME Ring, GivenInv, CloseInv, NEW t \in Task, pc[t] = "recall"
  PROVE  {aq_reqid[eptr[t]]} \ {0} \subseteq 1 .. accepted
<1>s. /\ aq_busy \in Slot /\ aq_ptr \in Slot /\ aq_nxtq \in Slot /\ eptr[t] \in Slot
      /\ aq_reqid[eptr[t]] \in Nat /\ accepted \in Nat
      /\ Dist(aq_busy, aq_ptr) <= Dist(aq_busy, aq_nxtq) /\ Oldest(t) /\ Seeks(t)
  BY DEF Ring, Data, RingOK, SlotsOK, LocalsOK, PastOK, Request, RingInv, PointersInOrder,
     Dist,
     Knows, GivenInv
<1>1. CASE InStat(t)
  <2>1. \A u \in Task : pc[u] # "enq_inc"
    BY <1>s, <1>1 DEF Seeks, Waits, Recalling
  <2> QED BY <1>s, <2>1 DEF CloseInv, Numbers
<1>2. CASE ~InStat(t)
  <2>1. eptr[t] = aq_busy /\ aq_busy # aq_ptr
    BY <1>s, <1>2 DEF Oldest, Recalling
  <2>2. InRing(aq_busy) /\ Dist(aq_busy, aq_nxtq) > 0 /\ Dist(aq_busy, aq_nxtq) \in Nat
    BY <1>s, <2>1, DistFacts DEF InRing
  <2>3. aq_reqid[aq_busy] + Dist(aq_busy, aq_nxtq) = accepted + 1
    BY <1>s, <2>2 DEF Ring, RingInv, Numbered
  <2> QED BY <1>s, <2>1, <2>2, <2>3
<1> QED BY <1>1, <1>2

(* An empty ring has left nothing behind.                                  *)
LEMMA EmptyRing ==
  ASSUME Ring', OverOK', aq_busy' = aq_ptr', aq_ptr' = aq_nxtq'
  PROVE  inio' = {} /\ over' = 1 .. accepted'
<1>1. /\ aq_busy' \in Slot /\ inio' \subseteq Slot /\ accepted' \in 0 .. MaxRequest /\ MaxRequest \in Nat
  BY AqAssumption DEF Ring, Data, RingOK, SlotsOK, PastOK
<1>2. Dist(aq_busy', aq_busy') = 0 /\ \A s \in Slot : Dist(aq_busy', s) \in Nat
  BY <1>1, DistFacts
<1>3. inio' = {}
  <2> SUFFICES ASSUME NEW s \in inio' PROVE FALSE
    OBVIOUS
  <2>1. Dist(aq_busy', s) < Dist(aq_busy', aq_busy')
    BY DEF Ring, RingInv, Started, Dist, COUNT_QE
  <2> QED BY <1>1, <1>2, <2>1
<1>4. 1 .. accepted' \subseteq over'
  <2> SUFFICES ASSUME NEW r \in 1 .. accepted' PROVE r \in over'
    OBVIOUS
  <2>1. r \in Request /\ r + Dist(aq_busy', aq_nxtq') <= accepted'
    BY <1>1, <1>2 DEF Request
  <2> QED BY <2>1 DEF Ring, RingInv, LeftOver, Dist, COUNT_QE
<1> QED BY <1>3, <1>4 DEF OverOK

LEMMA RecallActs ==
  ASSUME Ring, Ring', GivenInv, CloseInv, NEW t \in Task,
         enq_recalled(t) \/ wait_recalled(t) \/ stat_recalled(t) \/ close_recalled(t)
  PROVE  Acts(t)
<1>t. /\ ControlTypeOK /\ LocalsOK /\ Place(t) /\ Ending(t) /\ OverOK /\ pc[t] = "recall"
  BY DEF Ring, Control, Data, CloseInv, enq_recalled, wait_recalled, stat_recalled,
     close_recalled
<1>r. {aq_reqid[eptr[t]]} \ {0} \subseteq 1 .. accepted
  BY <1>t, RecalledOK
<1>z. stat_recalled(t) => aq_reqid[eptr[t]] # 0
  BY DEF stat_recalled, InStat, Ring, Data, Known, Request
<1>1. OverOK'
  BY <1>t, <1>r, <1>z DEF OverOK, enq_recalled, wait_recalled, stat_recalled, close_recalled
<1>2. /\ UNCHANGED <<aq_reqid, accepted, aq_ptr, aq_nxtq>>
      /\ \A u \in Task \ {t} : UNCHANGED <<pc[u], op[u], q[u]>>
  BY <1>t DEF enq_recalled, wait_recalled, stat_recalled, close_recalled, CloseFrom, Return,
     Go, ringVars, slotVars, pastVars, ControlTypeOK, LocalsOK
<1>3. Numbers'
  BY <1>t, <1>2, NumbersNext
<1>4. Ending(t)'
  BY <1>t, <1>2 DEF Ending, enq_recalled, wait_recalled, stat_recalled, close_recalled,
     CloseFrom, Return, Go, ringVars, slotVars, pastVars, ControlTypeOK, LocalsOK
<1>5. file' # file /\ file' = "closed" =>
        op[t] = "AQCLOSE" /\ pc'[t] = "user" /\ CloseFinishes'
  <2> SUFFICES ASSUME file' # file, file' = "closed"
               PROVE  op[t] = "AQCLOSE" /\ pc'[t] = "user" /\ CloseFinishes'
    OBVIOUS
  <2>1. close_recalled(t)
    BY DEF enq_recalled, wait_recalled, stat_recalled
  <2>2. op[t] = "AQCLOSE" /\ pc'[t] = "user" /\ aq_busy' = aq_ptr /\ aq_ptr = aq_nxtq
    BY <1>t, <2>1 DEF close_recalled, CloseFrom, Return, Ending, Go, ringVars, slotVars,
       pastVars, ControlTypeOK, LocalsOK
  <2> QED BY <1>1, <1>2, <2>2, EmptyRing DEF CloseFinishes
<1> QED BY <1>t, <1>1, <1>2, <1>3, <1>4, <1>5 DEF Acts

LEMMA CloseActs ==
  ASSUME Ring, Ring', CloseInv, NEW t \in Task, AQCLOSE(t) \/ close_lock(t)
  PROVE  Acts(t)
<1>t. ControlTypeOK /\ LocalsOK /\ Place(t) /\ Ending(t) /\ OverOK
  BY DEF Ring, Control, Data, CloseInv
<1>1. /\ UNCHANGED <<aq_busy, aq_ptr, aq_nxtq, aq_reqid, accepted, over, inio>>
      /\ \A u \in Task \ {t} : UNCHANGED <<pc[u], op[u], q[u]>>
      /\ pc[t] # "enq_inc" /\ (pc[t] # "user" \/ file = "open")
  BY <1>t DEF AQCLOSE, close_lock, CloseFrom, Return, Go, ringVars, slotVars, pastVars,
     ControlTypeOK, LocalsOK
<1>2. Numbers' /\ OverOK'
  BY <1>t, <1>1, NumbersNext DEF OverOK
<1>3. Ending(t)'
  BY <1>t, <1>1 DEF Ending, AQCLOSE, close_lock, CloseFrom, Return, Go, ringVars, slotVars,
     pastVars, ControlTypeOK, LocalsOK
<1>4. file' # file /\ file' = "closed" =>
        op[t] = "AQCLOSE" /\ pc'[t] = "user" /\ CloseFinishes'
  <2> SUFFICES ASSUME file' # file, file' = "closed"
               PROVE  op[t] = "AQCLOSE" /\ pc'[t] = "user" /\ CloseFinishes'
    OBVIOUS
  <2>1. close_lock(t)
    BY DEF AQCLOSE
  <2>2. op[t] = "AQCLOSE" /\ pc'[t] = "user" /\ aq_busy' = aq_ptr /\ aq_ptr = aq_nxtq
    BY <1>t, <1>1, <2>1 DEF close_lock, CloseFrom, Return, Ending, Place, Go, ringVars,
       slotVars, pastVars, ControlTypeOK, LocalsOK
  <2> QED BY <1>1, <1>2, <2>2, EmptyRing DEF CloseFinishes
<1> QED BY <1>1, <1>2, <1>3, <1>4 DEF Acts

LEMMA CloseInvariant == ASSUME WellUsed PROVE Spec /\ []InTime => []CloseInv
<1>1. Init => CloseInv
  BY DEF Init, CloseInv, OverOK, Numbers, CloseFinishes, Ending
<1>2. /\ CloseInv /\ [Next]_vars
      /\ InTime /\ GivenInv /\ RingInv /\ Fired /\ Data /\ Control
      /\ InTime' /\ RingInv' /\ Fired' /\ Data' /\ Control'
      => CloseInv'
  <2> SUFFICES ASSUME CloseInv, [Next]_vars, InTime, GivenInv, RingInv, Fired, Data,
                      Control, InTime', RingInv', Fired', Data', Control'
               PROVE  CloseInv'
    OBVIOUS
  <2>r. Ring /\ Ring'
    BY DEF Ring, WellUsed
  <2>1. CASE UNCHANGED vars
    BY <2>1 DEF vars, ringVars, slotVars, localVars, pastVars, CloseInv, OverOK, Numbers,
       CloseFinishes, Ending
  <2>2. ASSUME NEW s \in Slot, Complete(s) PROVE CloseInv'
    BY <2>2 DEF Complete, ringVars, localVars, CloseInv, OverOK, Numbers, CloseFinishes,
       Ending
  <2>3. ASSUME NEW t \in Task,
               \/ \E start \in BOOLEAN : _aqenq(t, start)
               \/ AQWAIT(t)
               \/ \E r \in Request : AQRECALL(t, r)
               \/ \E r \in Request, wait \in BOOLEAN : AQSTAT(t, r, wait)
               \/ AQCLOSE(t)
               \/ InCall(t)
        PROVE  CloseInv'
    <3>1. Acts(t)
      BY <2>r, <2>3, EnqActs, FillActs, CallActs, RclActs, AskActs, RecallActs, CloseActs
         DEF InCall
    <3> QED BY <3>1, ActsClose
  <2> QED BY <2>1, <2>2, <2>3 DEF Next
<1> QED BY <1>1, <1>2, GivenInvariant, RingInvariant, FiredInvariant, DataInvariant,
       ControlInvariant, PTL DEF Spec

(* When AQCLOSE has freed the ring the system does no transfer any more,   *)
(* and every request accepted was recalled by some call (aqclose.c).       *)
THEOREM CloseIsClean == ASSUME WellUsed PROVE Spec /\ []InTime => []CloseFinishes
<1>1. CloseInv => CloseFinishes
  BY DEF CloseInv
<1> QED BY <1>1, CloseInvariant, PTL

-----------------------------------------------------------------------------
(***************************************************************************)
(* AqIo implements AqPromise, step by step: a theorem under the same       *)
(* conditions as the order of the ring.                                    *)
(***************************************************************************)

Final == {"done", "failed", "interrupted"}
At(s) == fate[aq_reqid[s]]

(* What no call has acted on, and may be given to the system.              *)
Ready(s) == At(s) \in {"queued", "interrupted"} /\ aq_reqid[s] \notin over

(* Requests become started in their order.                                 *)
QueuedLast ==
  \A r, u \in Request : r < u /\ fate[r] = "queued" => fate[u] \in {"none", "queued"}

(* What has become of a request of the ring, from the state of its slot.   *)
SlotFate(s) ==
  /\ aq_reqid[s] \in Request
  /\ Unstarted(s) => At(s) = "queued"
  /\ sw[s] # "busy" => At(s) \in Final
  /\ sw[s] = "done" => At(s) = "done"
  /\ At(s) = "queued" => Unstarted(s) \/ \E u \in Task : Due(u, s)

(* The rest of a batch is ready, or was just interrupted.                  *)
Gives(t) ==
  \A s \in Slot : Due(t, s) =>
    IF pc[t] = "restart" /\ s \in Batch(t)
      THEN At(s) # "queued" /\ (sw[s] = "EINTR" => Ready(s))
      ELSE Ready(s)

Fates ==
  /\ \A r \in Request : r > accepted => fate[r] = "none"
  /\ \A r \in over : fate[r] \in Final
  /\ QueuedLast
  /\ \A s \in inio : At(s) = "started"
  /\ \A s \in Slot : InRing(s) => SlotFate(s)
  /\ \A t \in Task : Gives(t)

Sound == Ring /\ GivenInv /\ CloseInv
Keeps == Fates' /\ [Promise!Next]_<<accepted, fate, over>>
-----------------------------------------------------------------------------
(* The slots of the ring hold different requests, in their order.          *)
LEMMA Placed ==
  ASSUME Ring, Fates, NEW s \in Slot, InRing(s)
  PROVE  /\ aq_reqid[s] \in Request /\ aq_reqid[s] <= accepted
         /\ aq_reqid[s] = accepted + 1 - Dist(aq_busy, aq_nxtq) + Dist(aq_busy, s)
<1>s. /\ aq_busy \in Slot /\ aq_nxtq \in Slot /\ accepted \in 0 .. MaxRequest
      /\ aq_reqid[s] \in Request /\ MaxRequest \in Nat
  BY AqAssumption DEF Ring, Data, RingOK, PastOK, Fates, SlotFate
<1>1. aq_reqid[s] + Dist(s, aq_nxtq) = accepted + 1
  BY DEF Ring, RingInv, Numbered
<1>2. Dist(s, aq_nxtq) = Dist(aq_busy, aq_nxtq) - Dist(aq_busy, s)
  BY <1>s, Between3, DistFacts DEF InRing
<1>3. /\ Dist(aq_busy, s) < Dist(aq_busy, aq_nxtq)
      /\ Dist(aq_busy, aq_nxtq) \in Nat /\ Dist(aq_busy, s) \in Nat
  BY <1>s, DistFacts DEF InRing
<1> QED BY <1>s, <1>1, <1>2, <1>3 DEF Request

LEMMA Apart ==
  ASSUME Ring, Fates, NEW s \in Slot, InRing(s), NEW v \in Slot, InRing(v)
  PROVE  /\ aq_reqid[s] = aq_reqid[v] => s = v
         /\ aq_reqid[s] < aq_reqid[v] <=> Dist(aq_busy, s) < Dist(aq_busy, v)
<1>s. /\ aq_busy \in Slot /\ accepted \in Nat
      /\ Dist(aq_busy, aq_nxtq) \in Nat /\ Dist(aq_busy, s) \in Nat /\ Dist(aq_busy, v) \in Nat
  BY DistFacts DEF Ring, Data, RingOK, PastOK
<1>1. /\ aq_reqid[s] = accepted + 1 - Dist(aq_busy, aq_nxtq) + Dist(aq_busy, s)
      /\ aq_reqid[v] = accepted + 1 - Dist(aq_busy, aq_nxtq) + Dist(aq_busy, v)
  BY Placed
<1> QED BY <1>s, <1>1, Between3

(* The last requests accepted are in the ring, as many as it has.          *)
LEMMA LastInRing ==
  ASSUME Ring, NEW r \in Request, r <= accepted, r + Dist(aq_busy, aq_nxtq) > accepted
  PROVE  \E s \in Slot : InRing(s) /\ aq_reqid[s] = r
<1>s. /\ aq_busy \in Slot /\ aq_nxtq \in Slot /\ accepted \in Nat /\ r \in Nat
      /\ Dist(aq_busy, aq_nxtq) \in 0 .. Max - 1
  BY DistFacts DEF Ring, Data, RingOK, PastOK, Request
<1>1. accepted + 1 - r \in 1 .. Dist(aq_busy, aq_nxtq)
  BY <1>s
<1>2. PICK k \in 1 .. Dist(aq_busy, aq_nxtq) : r + k = accepted + 1
  BY <1>s, <1>1
<1>3. PICK s \in Slot : Dist(s, aq_nxtq) = k /\ Dist(aq_busy, s) = Dist(aq_busy, aq_nxtq) - k
  <2>1. CASE aq_nxtq >= k
    <3>1. aq_nxtq - k \in Slot
      BY <1>s, <2>1, AqAssumption DEF Slot
    <3>2. /\ Dist(aq_nxtq - k, aq_nxtq) = k
          /\ Dist(aq_busy, aq_nxtq - k) = Dist(aq_busy, aq_nxtq) - k
      <4>1. aq_nxtq >= aq_busy => aq_nxtq - k >= aq_busy
        BY <1>s, <2>1, AqAssumption DEF Slot, Dist, COUNT_QE
      <4> QED BY <1>s, <2>1, <3>1, <4>1, AqAssumption DEF Slot, Dist, COUNT_QE
    <3> QED BY <3>1, <3>2
  <2>2. CASE aq_nxtq < k
    <3>1. aq_nxtq + Max - k \in Slot
      BY <1>s, <2>2, AqAssumption DEF Slot
    <3>2. /\ Dist(aq_nxtq + Max - k, aq_nxtq) = k
          /\ Dist(aq_busy, aq_nxtq + Max - k) = Dist(aq_busy, aq_nxtq) - k
      <4>1. aq_nxtq < aq_busy /\ aq_nxtq + Max - k >= aq_busy
        BY <1>s, <2>2, AqAssumption DEF Slot, Dist, COUNT_QE
      <4> QED BY <1>s, <2>2, <3>1, <4>1, AqAssumption DEF Slot, Dist, COUNT_QE
    <3> QED BY <3>1, <3>2
  <2> QED BY <1>s, <2>1, <2>2, AqAssumption DEF Slot
<1>4. InRing(s)
  BY <1>s, <1>3 DEF InRing
<1>5. aq_reqid[s] = r
  <2>1. aq_reqid[s] + k = accepted + 1 /\ aq_reqid[s] \in Nat
    BY <1>3, <1>4 DEF Ring, RingInv, Numbered, Data, SlotsOK, Request
  <2> QED BY <1>s, <1>2, <2>1
<1> QED BY <1>4, <1>5

(* A request that was accepted and no call has acted on is in the ring.    *)
LEMMA WhereIs ==
  ASSUME Ring, NEW r \in Request, r <= accepted, r \notin over
  PROVE  \E s \in Slot : InRing(s) /\ aq_reqid[s] = r
<1>s. accepted \in Nat /\ r \in Nat /\ Dist(aq_busy, aq_nxtq) \in Nat
  BY DistFacts DEF Ring, Data, RingOK, PastOK, Request
<1>1. r + Dist(aq_busy, aq_nxtq) > accepted
  BY <1>s DEF Ring, RingInv, LeftOver
<1> QED BY <1>1, LastInRing

(* The rest of a batch is in the ring, and was started.                    *)
LEMMA DueInRing ==
  ASSUME Ring, NEW u \in Task, NEW s \in Slot, Due(u, s)
  PROVE  InRing(s) /\ ~Unstarted(s) /\ Dist(aq_busy, s) < Dist(aq_busy, aq_ptr)
<1>1. q[u] = aq_ptr
  BY DEF Ring, Fired, Copied, Due
<1>2. /\ Dist(aq_busy, s) \in Nat /\ Dist(aq_busy, aq_ptr) \in Nat /\ Dist(aq_busy, aq_nxtq) \in Nat
      /\ Dist(aq_busy, aq_ptr) <= Dist(aq_busy, aq_nxtq)
  BY DistFacts DEF Ring, Data, RingOK, RingInv, PointersInOrder, Dist
<1> QED BY <1>1, <1>2 DEF Due, Pending, InRing, Unstarted

-----------------------------------------------------------------------------
(* A step outside the part of _aqcall that starts requests, which leaves   *)
(* the ring and its slots as they are.                                     *)
Bystands(t) ==
  /\ LocalStep(t) /\ UNCHANGED <<fate, over>>
  /\ ~Issuing(t) /\ ~Issuing(t)'

LEMMA BystandKeeps ==
  ASSUME Sound, Fates, NEW t \in Task, Bystands(t)
  PROVE  Keeps
<1>u. UNCHANGED <<aq_busy, aq_ptr, aq_nxtq, aq_reqid, sw, inio, accepted, fate, over>>
  BY DEF Bystands, LocalStep
<1>1. \A u \in Task, s \in Slot : Due(u, s)' <=> Due(u, s)
  BY <1>u DEF Bystands, LocalStep, Due, Pending, Issuing, Dist, COUNT_QE
<1>2. \A s \in Slot : (InRing(s)' <=> InRing(s)) /\ (Unstarted(s)' <=> Unstarted(s))
  BY <1>u DEF InRing, Unstarted, Dist, COUNT_QE
<1>3. \A s \in Slot : At(s)' = At(s) /\ (Ready(s)' <=> Ready(s))
  BY <1>u DEF At, Ready
<1>4. ASSUME NEW u \in Task PROVE Gives(u)'
  <2>1. CASE u = t
    BY <2>1 DEF Bystands, Gives, Due
  <2>2. CASE u # t
    BY <1>u, <1>1, <1>3, <2>2 DEF Bystands, LocalStep, Fates, Gives, Batch, BatchEnd
  <2> QED BY <2>1, <2>2
<1>5. \A s \in Slot : InRing(s)' => SlotFate(s)'
  BY <1>u, <1>1, <1>2, <1>3 DEF Fates, SlotFate
<1>6. \A s \in inio' : At(s)' = "started"
  BY <1>u, <1>3 DEF At, Fates
<1> QED BY <1>u, <1>4, <1>5, <1>6 DEF Keeps, Fates, QueuedLast

LEMMA EnqPromise ==
  ASSUME Sound, Fates, NEW t \in Task,
         (\E start \in BOOLEAN : _aqenq(t, start)) \/ enq_busy(t)
  PROVE  Keeps
<1>t. ControlTypeOK /\ LocalsOK
  BY DEF Sound, Ring, Control, Data
<1>1. Bystands(t)
  BY <1>t DEF _aqenq, enq_busy, Bystands, LocalStep, Issuing, Go, ringVars, slotVars,
     pastVars, ControlTypeOK, LocalsOK
<1> QED BY <1>1, BystandKeeps

LEMMA RclPromise ==
  ASSUME Sound, Fates, NEW t \in Task, _aqrcl(t) \/ rcl_ptr(t) \/ rcl_fird(t)
  PROVE  Keeps
<1>t. ControlTypeOK /\ LocalsOK
  BY DEF Sound, Ring, Control, Data
<1>1. Bystands(t)
  BY <1>t DEF _aqrcl, rcl_ptr, rcl_fird, Bystands, LocalStep, Issuing, Go, ringVars,
     slotVars, pastVars, ControlTypeOK, LocalsOK
<1> QED BY <1>1, BystandKeeps

LEMMA WaitPromise ==
  ASSUME Sound, Fates, NEW t \in Task,
         AQWAIT(t) \/ wait_idle(t) \/ wait_lock(t) \/ wait_loop(t)
  PROVE  Keeps
<1>t. ControlTypeOK /\ LocalsOK
  BY DEF Sound, Ring, Control, Data
<1>1. Bystands(t)
  BY <1>t DEF AQWAIT, wait_idle, wait_lock, wait_loop, StartAsking, Return, Bystands,
     LocalStep, Issuing, Go, ringVars, slotVars, pastVars, ControlTypeOK, LocalsOK
<1> QED BY <1>1, BystandKeeps

LEMMA AskPromise ==
  ASSUME Sound, Fates, NEW t \in Task,
         \/ \E r \in Request : AQRECALL(t, r)
         \/ recall_lock(t)
         \/ recall_inside(t)
         \/ \E r \in Request, wait \in BOOLEAN : AQSTAT(t, r, wait)
         \/ stat_lock(t)
         \/ stat_busy(t)
  PROVE  Keeps
<1>t. ControlTypeOK /\ LocalsOK
  BY DEF Sound, Ring, Control, Data
<1>1. Bystands(t)
  BY <1>t DEF AQRECALL, recall_lock, recall_inside, AQSTAT, stat_lock, stat_busy,
     StartAsking, Return, Bystands, LocalStep, Issuing, Go, ringVars, slotVars, pastVars,
     ControlTypeOK, LocalsOK
<1> QED BY <1>1, BystandKeeps

LEMMA ClosePromise ==
  ASSUME Sound, Fates, NEW t \in Task, AQCLOSE(t) \/ close_lock(t)
  PROVE  Keeps
<1>t. ControlTypeOK /\ LocalsOK
  BY DEF Sound, Ring, Control, Data
<1>1. Bystands(t)
  BY <1>t DEF AQCLOSE, close_lock, CloseFrom, Return, Bystands,
     LocalStep, Issuing, Go, ringVars, slotVars, pastVars, ControlTypeOK, LocalsOK
<1> QED BY <1>1, BystandKeeps

-----------------------------------------------------------------------------
(* A request is filled in: its slot is not in the ring yet.                *)
LEMMA FillPromise ==
  ASSUME Sound, Fates, NEW t \in Task, enq_fill(t)
  PROVE  Keeps
<1>s. /\ aq_busy \in Slot /\ aq_ptr \in Slot /\ aq_nxtq \in Slot
      /\ aq_reqid \in [Slot -> Request \cup {0}]
      /\ sw \in [Slot -> {"busy", "done", "error", "EINTR"}]
  BY DEF Sound, Ring, Data, RingOK, SlotsOK
<1>u. /\ UNCHANGED <<aq_busy, aq_ptr, aq_nxtq, inio, accepted, fate, over, p, q>>
      /\ \A s \in Slot : s # aq_nxtq => aq_reqid'[s] = aq_reqid[s] /\ sw'[s] = sw[s]
      /\ pc[t] = "enq_fill" /\ pc'[t] = "enq_inc" /\ \A u \in Task \ {t} : pc'[u] = pc[u]
  BY <1>s DEF enq_fill, Go, ringVars, pastVars, Sound, Ring, Control, ControlTypeOK
<1>r. \A s \in Slot : (InRing(s)' <=> InRing(s)) /\ (Unstarted(s)' <=> Unstarted(s))
  BY <1>u DEF InRing, Unstarted, Dist, COUNT_QE
<1>n. ~InRing(aq_nxtq)
  BY <1>s, DistFacts DEF InRing
<1>d. \A u \in Task, s \in Slot : Due(u, s)' <=> Due(u, s)
  BY <1>u DEF Due, Pending, Issuing, Dist, COUNT_QE
<1>a. \A s \in Slot : InRing(s) => At(s)' = At(s) /\ (Ready(s)' <=>
          Ready(s)) /\ sw'[s] = sw[s]
  BY <1>u, <1>n DEF At, Ready
<1>1. \A s \in inio : At(s)' = "started"
  <2> SUFFICES ASSUME NEW s \in inio PROVE InRing(s) /\ s \in Slot
    BY <1>a DEF Fates
  <2>1. s \in Slot /\ Dist(aq_busy, s) < Dist(aq_busy, aq_ptr)
    BY DEF Sound, Ring, RingInv, Started, Data, SlotsOK
  <2> QED BY <1>s, <2>1, DistFacts DEF InRing, Sound, Ring, RingInv, PointersInOrder, Dist
<1>2. ASSUME NEW u \in Task PROVE Gives(u)'
  <2> SUFFICES ASSUME NEW s \in Slot, Due(u, s)
               PROVE  IF pc'[u] = "restart" /\ s \in Batch(u)'
                        THEN At(s)' # "queued" /\ (sw'[s] = "EINTR" => Ready(s)')
                        ELSE Ready(s)'
    BY <1>d DEF Gives
  <2>1. InRing(s) /\ u # t
    BY <1>u, DueInRing DEF Sound, Due, Issuing
  <2> QED BY <1>u, <1>a, <2>1 DEF Fates, Gives, Batch, BatchEnd
<1>3. \A s \in Slot : InRing(s)' => SlotFate(s)'
  BY <1>u, <1>r, <1>d, <1>a, <1>n DEF Fates, SlotFate
<1> QED BY <1>u, <1>1, <1>2, <1>3 DEF Keeps, Fates, QueuedLast

(* A request enters the ring: it is accepted.                              *)
LEMMA EnterPromise ==
  ASSUME Sound, Sound', Fates, NEW t \in Task, enq_inc(t)
  PROVE  Keeps
<1>s. /\ aq_busy \in Slot /\ aq_ptr \in Slot /\ aq_nxtq \in Slot /\ accepted \in Nat
      /\ fate \in [Request -> Fate] /\ over \subseteq 1 .. accepted
      /\ Dist(aq_busy, aq_ptr) <= Dist(aq_busy, aq_nxtq)
      /\ Dist(aq_busy, aq_nxtq) <= Max - 2
      /\ aq_reqid[aq_nxtq] = accepted + 1 /\ sw[aq_nxtq] = "busy" /\ accepted + 1 \in Request
  <2>1. Dist(aq_busy, aq_ptr) <= Dist(aq_busy, aq_nxtq) /\ Filling(t) /\ pc[t] = "enq_inc"
    BY DEF Sound, Ring, RingInv, PointersInOrder, Dist, Knows, enq_inc
  <2>2. aq_reqid \in [Slot -> Request \cup {0}] /\ aq_nxtq \in Slot /\ accepted \in Nat
    BY DEF Sound, Ring, Data, RingOK, SlotsOK, PastOK
  <2> QED BY <2>1, <2>2 DEF Filling, Sound, Ring, Data, RingOK, PastOK, CloseInv, OverOK
<1>u. /\ UNCHANGED <<aq_busy, aq_ptr, aq_reqid, sw, inio, over>>
      /\ aq_nxtq' = INC_QP(aq_nxtq) /\ accepted' = accepted + 1
      /\ fate' = [fate EXCEPT ![accepted + 1] = "queued"]
      /\ pc[t] = "enq_inc" /\ pc'[t] \in {"call", "user"}
      /\ \A u \in Task \ {t} : UNCHANGED <<pc[u], p[u], q[u]>>
  BY DEF enq_inc, Return, Go, slotVars, Sound, Ring, Control, ControlTypeOK, Data, LocalsOK
<1>d. /\ Dist(aq_busy, aq_nxtq') = Dist(aq_busy, aq_nxtq) + 1
      /\ \A s \in Slot : Dist(aq_busy, s) \in Nat
      /\ \A s \in Slot : Dist(aq_busy, s) = Dist(aq_busy, aq_nxtq) => s = aq_nxtq
  BY <1>s, <1>u, DistFacts, Between3
<1>r. \A s \in Slot : /\ InRing(s)' => InRing(s) \/ s = aq_nxtq
                      /\ InRing(s) => (Unstarted(s)' <=> Unstarted(s))
                      /\ s = aq_nxtq => Unstarted(s)'
  BY <1>s, <1>u, <1>d DEF InRing, Unstarted, Dist, COUNT_QE
<1>e. \A u \in Task, s \in Slot : Due(u, s)' <=> Due(u, s)
  BY <1>u DEF Due, Pending, Issuing, Dist, COUNT_QE
<1>f. \A r \in Request : r # accepted + 1 => fate'[r] = fate[r]
  BY <1>s, <1>u
<1>a. \A s \in Slot : InRing(s) => At(s)' = At(s) /\ (Ready(s)' <=> Ready(s))
  <2> SUFFICES ASSUME NEW s \in Slot, InRing(s) PROVE fate'[aq_reqid[s]] = fate[aq_reqid[s]]
    BY <1>u DEF At, Ready
  <2>1. aq_reqid[s] \in Request /\ aq_reqid[s] <= accepted /\ aq_reqid[s] \in Nat
    BY Placed DEF Sound, Request
  <2> QED BY <1>s, <1>f, <2>1
<1>1. \A s \in inio : At(s)' = "started"
  <2> SUFFICES ASSUME NEW s \in inio PROVE InRing(s) /\ s \in Slot
    BY <1>a, <1>u DEF Fates
  <2>1. s \in Slot /\ Dist(aq_busy, s) < Dist(aq_busy, aq_ptr)
    BY DEF Sound, Ring, RingInv, Started, Data, SlotsOK
  <2> QED BY <1>s, <2>1, DistFacts DEF InRing
<1>2. ASSUME NEW u \in Task PROVE Gives(u)'
  <2> SUFFICES ASSUME NEW s \in Slot, Due(u, s)
               PROVE  IF pc'[u] = "restart" /\ s \in Batch(u)'
                        THEN At(s)' # "queued" /\ (sw'[s] = "EINTR" => Ready(s)')
                        ELSE Ready(s)'
    BY <1>e DEF Gives
  <2>1. InRing(s) /\ u # t
    BY <1>u, DueInRing DEF Sound, Due, Issuing
  <2> QED BY <1>u, <1>a, <2>1 DEF Fates, Gives, Batch, BatchEnd
<1>3. ASSUME NEW s \in Slot, InRing(s)' PROVE SlotFate(s)'
  <2>1. CASE InRing(s)
    BY <1>u, <1>r, <1>e, <1>a, <2>1 DEF Fates, SlotFate
  <2>2. CASE s = aq_nxtq
    <3>1. At(s)' = "queued" /\ Unstarted(s)'
      BY <1>s, <1>u, <1>r, <2>2 DEF At
    <3> QED BY <1>s, <1>u, <3>1, <2>2 DEF SlotFate
  <2> QED BY <1>3, <1>r, <2>1, <2>2
<1>4. \A r \in Request : r > accepted' => fate'[r] = "none"
  BY <1>s, <1>u, <1>f DEF Fates, Request
<1>5. \A r \in over : fate'[r] \in Final
  <2> SUFFICES ASSUME NEW r \in over PROVE r \in Request /\ r # accepted + 1
    BY <1>f DEF Fates
  <2> QED BY <1>s DEF Sound, Ring, Data, PastOK
<1>6. QueuedLast'
  <2> SUFFICES ASSUME NEW r \in Request, NEW u \in Request, r < u, fate'[r] = "queued",
                      u # accepted + 1
               PROVE  fate[u] \in {"none", "queued"}
    BY <1>s, <1>u, <1>f DEF QueuedLast
  <2>1. CASE r = accepted + 1
    BY <1>s, <2>1 DEF Fates, Request
  <2>2. CASE r # accepted + 1
    BY <1>f, <2>2 DEF Fates, QueuedLast
  <2> QED BY <2>1, <2>2
<1>7. Promise!Accept
  BY <1>s, <1>u DEF Promise!Accept
<1> QED BY <1>u, <1>1, <1>2, <1>3, <1>4, <1>5, <1>6, <1>7 DEF Keeps, Fates, Promise!Next

-----------------------------------------------------------------------------
(* A recall acts on the outcome of request r, which nobody is to start.    *)
Uses(t, r) ==
  /\ r \in Request /\ fate[r] \in Final
  /\ \A u \in Task, s \in Slot : Due(u, s) => aq_reqid[s] # r \/ r \in over
  /\ over' = over \cup {r}
  /\ UNCHANGED <<aq_ptr, aq_nxtq, aq_reqid, sw, inio, accepted, fate>>
  /\ \A u \in Task \ {t} : UNCHANGED <<pc[u], p[u], q[u]>>
  /\ ~Issuing(t) /\ ~Issuing(t)'
  /\ \A s \in Slot : InRing(s)' => InRing(s) /\ (Unstarted(s)' <=> Unstarted(s))
  /\ \A u \in Task, s \in Slot : Due(u, s)' <=> Due(u, s)

LEMMA UseKeeps ==
  ASSUME Sound, Fates, NEW t \in Task, NEW r, Uses(t, r)
  PROVE  Keeps
<1>u. UNCHANGED <<aq_ptr, aq_nxtq, aq_reqid, sw, inio, accepted, fate>>
  BY DEF Uses
<1>a. /\ \A s \in Slot : At(s)' = At(s)
      /\ \A u \in Task, s \in Slot : Due(u, s) => (Ready(s)' <=> Ready(s))
  BY <1>u DEF At, Ready, Uses
<1>1. ASSUME NEW u \in Task PROVE Gives(u)'
  <2>1. CASE u = t
    BY <2>1 DEF Uses, Gives, Due
  <2>2. CASE u # t
    <3>1. UNCHANGED <<pc[u], p[u], q[u], sw>> /\ Batch(u)' = Batch(u)
      BY <2>2, <1>u DEF Uses, Batch, BatchEnd
    <3>2. Gives(u) /\ \A s \in Slot : Due(u, s)' <=> Due(u, s)
      BY DEF Fates, Uses
    <3> QED BY <1>a, <3>1, <3>2 DEF Gives
  <2> QED BY <2>1, <2>2
<1>2. ASSUME NEW s \in Slot, InRing(s)' PROVE SlotFate(s)'
  <2>1. InRing(s) /\ (Unstarted(s)' <=> Unstarted(s)) /\ SlotFate(s)
    BY <1>2 DEF Uses, Fates
  <2>2. \A u \in Task : Due(u, s)' <=> Due(u, s)
    BY DEF Uses
  <2> QED BY <1>u, <1>a, <2>1, <2>2 DEF SlotFate
<1>3. \A s \in inio' : At(s)' = "started"
  BY <1>u DEF At, Fates
<1>4. \A x \in over' : fate[x] \in Final
  BY DEF Uses, Fates
<1>5. Promise!Use(r)
  BY <1>u DEF Uses, Promise!Use, Final
<1>6. [Promise!Next]_<<accepted, fate, over>>
  BY <1>5 DEF Promise!Next, Uses
<1> QED BY <1>u, <1>1, <1>2, <1>3, <1>4, <1>6 DEF Keeps, Fates, QueuedLast

(* The oldest request leaves the ring, and those behind it stay in order.  *)
LEMMA AdvanceOrder ==
  ASSUME Ring, NEW t \in Task, Advances(t), Recalling(t), ~Issuing(t)'
  PROVE  /\ \A s \in Slot : InRing(s)' => InRing(s) /\ (Unstarted(s)' <=> Unstarted(s))
         /\ \A u \in Task, s \in Slot : Due(u, s)' <=> Due(u, s)
<1>s. /\ aq_busy \in Slot /\ aq_busy' \in Slot /\ aq_ptr \in Slot /\ aq_nxtq \in Slot
      /\ Dist(aq_busy, aq_ptr) <= Dist(aq_busy, aq_nxtq) /\ aq_busy # aq_ptr
      /\ sw[aq_busy] # "busy" /\ aq_busy' = INC_QP(aq_busy) /\ Max \in Nat
      /\ UNCHANGED <<aq_ptr, aq_nxtq>>
      /\ \A u \in Task \ {t} : UNCHANGED <<pc[u], p[u], q[u]>>
  BY SlotIsNat, AqAssumption DEF Ring, Data, RingOK, RingInv, PointersInOrder, Dist,
     Advances
<1>d. /\ \A i \in Slot : Dist(aq_busy, i) \in Nat /\ Dist(aq_busy, i) <= Max - 1
      /\ \A i \in Slot : i # aq_busy =>
             Dist(aq_busy, i) > 0 /\ Dist(aq_busy', i) = Dist(aq_busy, i) - 1
      /\ Dist(aq_busy, aq_busy) = 0 /\ Dist(aq_busy', aq_busy) = Max - 1
  <2>1. \A i \in Slot : Dist(aq_busy, i) \in Nat /\ Dist(aq_busy, i) <= Max - 1
    BY <1>s, DistFacts
  <2>2. \A i \in Slot : i # aq_busy =>
            Dist(aq_busy, i) > 0 /\ Dist(aq_busy', i) = Dist(aq_busy, i) - 1
    BY <1>s, DistFacts
  <2>3. Dist(aq_busy, aq_busy) = 0 /\ Dist(aq_busy', aq_busy) = Max - 1
    BY <1>s, AqAssumption DEF Slot, Dist, COUNT_QE, INC_QP
  <2> QED BY <2>1, <2>2, <2>3
<1>n. aq_busy # aq_nxtq
  BY <1>s, <1>d
<1>r. ASSUME NEW s \in Slot, InRing(s)' PROVE InRing(s) /\ (Unstarted(s)' <=> Unstarted(s))
  <2>1. Dist(aq_busy', s) < Dist(aq_busy', aq_nxtq)
    BY <1>s, <1>r DEF InRing, Dist, COUNT_QE
  <2>2. s # aq_busy
    BY <1>s, <1>d, <1>n, <2>1
  <2>3. InRing(s)
    BY <1>s, <1>d, <1>n, <2>1, <2>2 DEF InRing
  <2>4. Dist(aq_busy', aq_ptr) <= Dist(aq_busy', s) <=>
            Dist(aq_busy, aq_ptr) <= Dist(aq_busy, s)
    BY <1>s, <1>d, <2>2
  <2>5. (Dist(aq_busy, aq_ptr) <= Dist(aq_busy, s))' <=>
            Dist(aq_busy', aq_ptr) <= Dist(aq_busy', s)
    BY <1>s DEF Dist, COUNT_QE
  <2> QED BY <1>r, <2>3, <2>4, <2>5 DEF Unstarted
<1>e. ASSUME NEW u \in Task, NEW s \in Slot PROVE Due(u, s)' <=> Due(u, s)
  <2>1. CASE u = t
    BY <2>1 DEF Due, Recalling, Issuing
  <2>2. CASE u # t /\ ~Issuing(u)
    BY <1>s, <2>2 DEF Due, Issuing
  <2>3. CASE u # t /\ Issuing(u)
    <3>1. p[u] \in Slot /\ q[u] \in Slot /\ q[u] = aq_ptr
      BY <2>3 DEF Ring, Data, LocalsOK, Known, Fired, Copied, Issuing
    <3>2. ~Due(u, aq_busy)
      BY <1>s, DueIsBusy
    <3>3. p[u] # aq_busy
      BY <1>s, <1>d, <2>3, <3>1, <3>2 DEF Due, Pending
    <3>4. Due(u, s)' <=> Dist(aq_busy', p[u]) <= Dist(aq_busy', s) /\ Dist(aq_busy', s) < Dist(aq_busy', q[u])
      BY <1>s, <2>3 DEF Due, Pending, Issuing, Dist, COUNT_QE
    <3>5. CASE s = aq_busy
      BY <1>s, <1>d, <3>1, <3>2, <3>4, <3>5
    <3>6. CASE s # aq_busy
      BY <1>s, <1>d, <2>3, <3>1, <3>3, <3>4, <3>6 DEF Due, Pending
    <3> QED BY <3>5, <3>6
  <2> QED BY <2>1, <2>2, <2>3
<1> QED BY <1>r, <1>e

(* What is recalled is complete; nobody is about to start it.              *)
LEMMA RecalledFinal ==
  ASSUME Sound, Fates, NEW t \in Task, pc[t] = "recall", sw[eptr[t]] # "busy"
  PROVE  /\ aq_reqid[eptr[t]] \in Request /\ fate[aq_reqid[eptr[t]]] \in Final
         /\ \A u \in Task, s \in Slot : Due(u, s) =>
              aq_reqid[s] # aq_reqid[eptr[t]] \/ aq_reqid[eptr[t]] \in over
<1>s. /\ eptr[t] \in Slot /\ aq_reqid[eptr[t]] \in Request \cup {0} /\ over \subseteq Request
      /\ aq_busy \in Slot /\ aq_ptr \in Slot /\ aq_nxtq \in Slot /\ Recalling(t)
      /\ Dist(aq_busy, aq_ptr) <= Dist(aq_busy, aq_nxtq)
  BY DEF Sound, Ring, Data, LocalsOK, SlotsOK, RingOK, PastOK, Recalling, RingInv,
     PointersInOrder, Dist
<1>1. CASE InRing(eptr[t])
  <2>1. aq_reqid[eptr[t]] \in Request /\ fate[aq_reqid[eptr[t]]] \in Final
    BY <1>s, <1>1 DEF Fates, SlotFate, At
  <2>2. ASSUME NEW u \in Task, NEW s \in Slot, Due(u, s)
        PROVE  aq_reqid[s] # aq_reqid[eptr[t]]
    <3>1. InRing(s) /\ sw[s] = "busy"
      BY <1>s, <2>2, DueInRing, DueIsBusy DEF Sound
    <3> QED BY <1>s, <1>1, <3>1, Apart DEF Sound
  <2> QED BY <2>1, <2>2
<1>2. CASE ~InRing(eptr[t])
  <2>1. InStat(t)
    <3> SUFFICES ASSUME ~InStat(t) PROVE FALSE
      OBVIOUS
    <3>1. eptr[t] = aq_busy /\ aq_busy # aq_ptr
      BY <1>s DEF Sound, Ring, RingInv, Knows, Oldest
    <3> QED BY <1>s, <1>2, <3>1, DistFacts DEF InRing
  <2>2. aq_reqid[eptr[t]] # 0 /\ accepted \in Nat
    BY <2>1 DEF Sound, Ring, Data, Known, PastOK
  <2>3. aq_reqid[eptr[t]] <= accepted
    <3>1. \A u \in Task : pc[u] # "enq_inc"
      BY <1>s, <2>1 DEF Sound, GivenInv, Seeks, Waits
    <3> QED BY <1>s, <3>1 DEF Sound, CloseInv, Numbers
  <2>4. aq_reqid[eptr[t]] + Dist(aq_busy, aq_nxtq) <= accepted
    BY <1>s, <1>2, <2>2, <2>3 DEF Sound, Ring, RingInv, Numbered, Request
  <2>5. aq_reqid[eptr[t]] \in over
    BY <1>s, <2>2, <2>4 DEF Sound, Ring, RingInv, LeftOver
  <2> QED BY <1>s, <2>2, <2>5 DEF Fates
<1> QED BY <1>1, <1>2

LEMMA RecallPromise ==
  ASSUME Sound, Fates, NEW t \in Task,
         enq_recalled(t) \/ wait_recalled(t) \/ stat_recalled(t) \/ close_recalled(t)
  PROVE  Keeps
<1> DEFINE r == aq_reqid[eptr[t]]
<1>t. /\ ControlTypeOK /\ LocalsOK /\ Place(t) /\ lock["lkbusy"] = t /\ Oldest(t) /\ Ring
      /\ pc[t] = "recall" /\ sw[eptr[t]] # "busy" /\ Recalling(t) /\ ~Issuing(t)
      /\ aq_busy \in Slot /\ aq_ptr \in Slot /\ aq_nxtq \in Slot
  BY RecallHolds DEF Sound, Ring, Control, Data, RingInv, Knows, RingOK, enq_recalled,
     wait_recalled, stat_recalled, close_recalled, Recalling, Issuing
<1>r. /\ r \in Request /\ fate[r] \in Final /\ r # 0
      /\ \A u \in Task, s \in Slot : Due(u, s) => aq_reqid[s] # r \/ r \in over
  BY <1>t, RecalledFinal DEF Request
<1>o. over' = over \cup {r}
  BY <1>r DEF enq_recalled, wait_recalled, stat_recalled, close_recalled
<1>u. /\ UNCHANGED <<aq_ptr, aq_nxtq, aq_reqid, sw, inio, accepted, fate>>
      /\ \A u \in Task \ {t} : UNCHANGED <<pc[u], op[u], then[u], p[u], q[u], eptr[u], stop[u]>>
      /\ ~Issuing(t)'
  BY <1>t DEF enq_recalled, wait_recalled, stat_recalled, close_recalled, CloseFrom, Return,
     Go, slotVars, Issuing, ControlTypeOK, LocalsOK
<1>b. (aq_busy' = INC_QP(aq_busy) /\ eptr[t] = aq_busy) \/ aq_busy' = aq_busy
  BY <1>t DEF enq_recalled, wait_recalled, stat_recalled, close_recalled, Oldest, InStat
<1>1. CASE aq_busy' = INC_QP(aq_busy) /\ eptr[t] = aq_busy
  <2>1. aq_busy # aq_ptr
    <3>1. CASE InStat(t)
      <4> SUFFICES ASSUME aq_busy = aq_ptr PROVE FALSE
        OBVIOUS
      <4>1. aq_busy # aq_nxtq
        BY <1>t, <1>1, <3>1 DEF Ring, RingInv, Knows, Looking
      <4>2. Dist(aq_busy, aq_busy) = 0 /\ Dist(aq_busy, aq_nxtq) > 0
        BY <1>t, <4>1, DistFacts
      <4> QED BY <1>t, <1>1, <4>2 DEF Ring, RingInv, NotStarted, Unstarted, InRing
    <3>2. CASE ~InStat(t)
      BY <1>t, <3>2 DEF Oldest
    <3> QED BY <3>1, <3>2
  <2>2. Advances(t)
    BY <1>t, <1>o, <1>u, <1>1, <2>1 DEF Advances
  <2>3. Uses(t, r)
    BY <1>t, <1>r, <1>o, <1>u, <2>2, AdvanceOrder DEF Uses
  <2> QED BY <2>3, UseKeeps
<1>2. CASE aq_busy' = aq_busy
  <2>1. /\ \A s \in Slot : (InRing(s)' <=> InRing(s)) /\ (Unstarted(s)' <=> Unstarted(s))
        /\ \A u \in Task, s \in Slot : Due(u, s)' <=> Due(u, s)
    BY <1>t, <1>u, <1>2 DEF InRing, Unstarted, Due, Pending, Issuing, Dist, COUNT_QE
  <2>2. Uses(t, r)
    BY <1>t, <1>r, <1>o, <1>u, <2>1 DEF Uses
  <2> QED BY <2>2, UseKeeps
<1> QED BY <1>b, <1>1, <1>2

-----------------------------------------------------------------------------
(* _aqcall takes what was not started yet.                                 *)
LEMMA FirePromise ==
  ASSUME Sound, Sound', Fates, NEW t \in Task, call_fire(t)
  PROVE  Keeps
<1>u. /\ UNCHANGED <<aq_busy, aq_nxtq, aq_reqid, sw, inio, accepted, fate, over, p, q>>
      /\ aq_ptr' = q[t] /\ pc[t] = "fire" /\ pc'[t] = "listio"
      /\ \A u \in Task \ {t} : pc'[u] = pc[u]
  BY DEF call_fire, Go, slotVars, pastVars, Sound, Ring, Control, ControlTypeOK
<1>s. /\ aq_busy \in Slot /\ aq_ptr \in Slot /\ aq_nxtq \in Slot /\ q[t] \in Slot
      /\ p[t] = aq_ptr /\ Dist(aq_busy, aq_ptr) <= Dist(aq_busy, q[t])
      /\ Dist(aq_busy, q[t]) <= Dist(aq_busy, aq_nxtq)
  BY <1>u DEF Sound, Ring, Data, RingOK, LocalsOK, Fired, Copied, RingInv, Knows, Firing
<1>d. \A s \in Slot : Dist(aq_busy, s) \in Nat
  BY <1>s, DistFacts
<1>r. \A s \in Slot : /\ InRing(s)' <=> InRing(s)
                      /\ Unstarted(s)' => Unstarted(s)
                      /\ Unstarted(s) => Unstarted(s)' \/ Due(t, s)'
                      /\ Due(t, s)' => Unstarted(s)
  BY <1>s, <1>u, <1>d DEF InRing, Unstarted, Due, Pending, Issuing, Dist, COUNT_QE
<1>e. \A u \in Task \ {t}, s \in Slot : Due(u, s)' <=> Due(u, s)
  BY <1>u DEF Due, Pending, Issuing, Dist, COUNT_QE
<1>f. \A s \in Slot : ~Due(t, s)
  BY <1>u DEF Due, Issuing
<1>a. \A s \in Slot : At(s)' = At(s) /\ (Ready(s)' <=> Ready(s))
  BY <1>u DEF At, Ready
<1>1. ASSUME NEW u \in Task PROVE Gives(u)'
  <2>1. CASE u = t
    <3> SUFFICES ASSUME NEW s \in Slot, Due(t, s)' PROVE Ready(s)
      BY <1>u, <1>a, <2>1 DEF Gives
    <3>1. Unstarted(s) /\ InRing(s)
      BY <1>r DEF Unstarted
    <3>2. At(s) = "queued"
      BY <3>1 DEF Fates, SlotFate
    <3> QED BY <3>2 DEF Fates, Ready, At, Final
  <2>2. CASE u # t
    BY <1>u, <1>e, <1>a, <2>2 DEF Fates, Gives, Batch, BatchEnd
  <2> QED BY <2>1, <2>2
<1>2. ASSUME NEW s \in Slot, InRing(s)' PROVE SlotFate(s)'
  <2>1. InRing(s) /\ SlotFate(s)
    BY <1>2, <1>r DEF Fates
  <2>2. At(s) = "queued" => Unstarted(s)' \/ \E u \in Task : Due(u, s)'
    BY <1>r, <1>e, <1>f, <2>1 DEF SlotFate
  <2> QED BY <1>u, <1>r, <1>a, <2>1, <2>2 DEF SlotFate
<1>3. \A s \in inio' : At(s)' = "started"
  BY <1>u, <1>a DEF At, Fates
<1> QED BY <1>u, <1>1, <1>2, <1>3 DEF Keeps, Fates, QueuedLast

(* A batch is given to the system: its requests are the oldest of those    *)
(* that are ready.                                                         *)
Issued(t) ==
  /\ pc[t] = "listio" /\ pc'[t] \in {"fired", "restart"}
  /\ fate' \in [Request -> Fate]
  /\ \A s \in Batch(t) : At(s)' \in {"started", "interrupted", "failed"}
  /\ \A r \in Request : fate'[r] # fate[r] => \E s \in Batch(t) : aq_reqid[s] = r
  /\ UNCHANGED <<aq_busy, aq_ptr, aq_nxtq, aq_reqid, accepted, over, q>>
  /\ pc'[t] = "fired" => p'[t] = Wrapped(BatchEnd(t))
  /\ pc'[t] = "restart" => p'[t] = p[t]
  /\ \A u \in Task \ {t} : UNCHANGED <<pc[u], p[u]>>
  /\ \A s \in Slot \ Batch(t) : sw'[s] = sw[s] /\ (s \in inio' <=> s \in inio)
  /\ \A s \in Batch(t) : /\ s \in inio' => At(s)' = "started"
                         /\ sw'[s] # "busy" => At(s)' \in Final
                         /\ sw'[s] = "EINTR" => At(s)' = "interrupted"
                         /\ sw'[s] # "done"

LEMMA StartedInRing ==
  ASSUME Ring, NEW s \in inio
  PROVE  s \in Slot /\ InRing(s)
<1>1. /\ s \in Slot /\ aq_busy \in Slot /\ aq_ptr \in Slot /\ aq_nxtq \in Slot
      /\ Dist(aq_busy, s) < Dist(aq_busy, aq_ptr)
      /\ Dist(aq_busy, aq_ptr) <= Dist(aq_busy, aq_nxtq)
  BY DEF Ring, Data, SlotsOK, RingOK, RingInv, Started, PointersInOrder, Dist
<1> QED BY <1>1, DistFacts DEF InRing

LEMMA BatchEarlier ==
  ASSUME NEW t \in Task, p[t] \in Slot, q[t] \in Slot, p[t] # q[t], aq_busy \in Slot,
         Dist(aq_busy, p[t]) <= Dist(aq_busy, q[t]),
         NEW v \in Slot, v \in Batch(t), NEW s \in Slot, Pending(t, s),
         Dist(aq_busy, s) < Dist(aq_busy, v)
  PROVE  s \in Batch(t)
BY BatchSplit

LEMMA IssuedGives ==
  ASSUME Sound, Fates, NEW t \in Task, Issued(t)
  PROVE  /\ Batch(t) \subseteq Slot
         /\ \A s \in Batch(t) : Due(t, s) /\ InRing(s) /\ Ready(s)
         /\ \A s \in Slot : InRing(s) /\ s \notin Batch(t) => At(s)' = At(s)
         /\ QueuedLast' /\ Promise!Give
<1>s. /\ p[t] \in Slot /\ q[t] \in Slot /\ aq_busy \in Slot /\ aq_ptr \in Slot /\ q[t] = aq_ptr
      /\ accepted \in Nat /\ fate \in [Request -> Fate] /\ Issuing(t)
  BY DEF Sound, Ring, Data, LocalsOK, RingOK, PastOK, Known, Fired, Copied, Issued,
     Issuing
<1>p. p[t] # q[t] /\ Dist(aq_busy, p[t]) <= Dist(aq_busy, q[t])
  BY DEF Sound, Ring, RingInv, Knows, Firing, Issued, Issuing
<1>d. \A s \in Slot : Dist(aq_busy, s) \in Nat
  BY <1>s, DistFacts
<1>1. Batch(t) \subseteq Slot
  BY <1>s, BatchInRing
<1>2. ASSUME NEW s \in Batch(t) PROVE Due(t, s) /\ InRing(s) /\ Ready(s)
  <2>1. Due(t, s) /\ s \in Slot
    BY <1>s, <1>p, <1>1, <1>2, BatchPending DEF Due
  <2>2. InRing(s)
    BY <2>1, DueInRing DEF Sound
  <2> QED BY <2>1, <2>2 DEF Fates, Gives, Issued
<1>3. ASSUME NEW s \in Slot, InRing(s), s \notin Batch(t) PROVE At(s)' = At(s)
  <2>1. aq_reqid[s] \in Request /\ \A v \in Batch(t) : aq_reqid[v] # aq_reqid[s]
    BY <1>1, <1>2, <1>3, Placed, Apart DEF Sound
  <2> QED BY <2>1 DEF Issued, At
<1>4. ASSUME NEW r \in Request, fate'[r] # fate[r]
      PROVE  /\ fate[r] \in {"queued", "interrupted"} /\ r \notin over /\ r <= accepted
             /\ fate'[r] \in {"started", "interrupted", "failed"}
  <2>1. PICK s \in Batch(t) : aq_reqid[s] = r
    BY <1>4 DEF Issued
  <2>2. Ready(s) /\ At(s) = fate[r] /\ At(s)' = fate'[r] /\ r <= accepted
    BY <1>1, <1>2, <2>1, Placed DEF At, Issued, Sound
  <2> QED BY <2>1, <2>2 DEF Ready, Issued
<1>5. ASSUME NEW r \in Request, NEW u \in Request, r < u, fate'[r] = "queued"
      PROVE  fate'[u] \in {"none", "queued"}
  <2>1. fate[r] = "queued"
    BY <1>4, <1>5
  <2>2. fate[u] \in {"none", "queued"}
    BY <1>5, <2>1 DEF Fates, QueuedLast
  <2>3. ASSUME fate'[u] # fate[u] PROVE FALSE
    <3>1. PICK v \in Batch(t) : aq_reqid[v] = u
      BY <2>3 DEF Issued
    <3>2. u <= accepted /\ r <= accepted /\ r \notin over
      BY <1>s, <1>5, <1>4, <2>1, <2>3 DEF Fates, Request, Final
    <3>3. PICK s \in Slot : InRing(s) /\ aq_reqid[s] = r
      BY <3>2, WhereIs DEF Sound
    <3>4. v \in Slot /\ InRing(v) /\ Due(t, v)
      BY <1>1, <1>2
    <3>5. Dist(aq_busy, s) < Dist(aq_busy, v)
      BY <1>5, <3>1, <3>3, <3>4, Apart DEF Sound
    <3>6. s \notin Batch(t)
      BY <1>5, <3>3 DEF Issued, At
    <3>7. Dist(aq_busy, v) < Dist(aq_busy, q[t])
      BY <3>4 DEF Due, Pending
    <3>8. ~Unstarted(s)
      BY <1>s, <1>d, <3>4, <3>5, <3>7 DEF Unstarted
    <3>9. PICK w \in Task : Due(w, s)
      BY <2>1, <3>3, <3>8 DEF Fates, SlotFate, At
    <3>10. Pending(t, s)
      BY <1>s, <3>9, OneIssuer DEF Sound, Ring, Due
    <3> QED BY <1>s, <1>p, <3>4, <3>5, <3>6, <3>10, BatchEarlier
  <2> QED BY <2>2, <2>3
<1>6. Promise!Give
  BY <1>s, <1>4, <1>5 DEF Promise!Give, Promise!Pending, Issued, Fate
<1> QED BY <1>1, <1>2, <1>3, <1>5, <1>6 DEF QueuedLast

LEMMA IssuedKeeps ==
  ASSUME Sound, Sound', Fates, NEW t \in Task, Issued(t)
  PROVE  Keeps
<1>u. /\ UNCHANGED <<aq_busy, aq_ptr, aq_nxtq, aq_reqid, accepted, over, q>>
      /\ \A u \in Task \ {t} : UNCHANGED <<pc[u], p[u]>>
      /\ pc[t] = "listio" /\ pc'[t] \in {"fired", "restart"}
  BY DEF Issued
<1>s. /\ p[t] \in Slot /\ q[t] \in Slot /\ aq_busy \in Slot
      /\ p[t] # q[t] /\ Dist(aq_busy, p[t]) <= Dist(aq_busy, q[t])
  <2>1. Issuing(t)
    BY <1>u DEF Issuing
  <2> QED BY <1>u, <2>1 DEF Sound, Ring, Data, LocalsOK, RingOK, Known, RingInv, Knows,
     Firing
<1>d. \A s \in Slot : Dist(aq_busy, s) \in Nat
  BY <1>s, DistFacts
<1>b. /\ Batch(t) \subseteq Slot
      /\ \A s \in Batch(t) : Due(t, s) /\ InRing(s) /\ Ready(s)
      /\ \A s \in Slot : InRing(s) /\ s \notin Batch(t) => At(s)' = At(s)
  BY IssuedGives
<1>w. LET w == Wrapped(BatchEnd(t)) IN
        /\ w \in Slot
        /\ \A s \in Slot : Dist(aq_busy, w) <= Dist(aq_busy, s) /\ Dist(aq_busy, s) < Dist(aq_busy, q[t])
             => Pending(t, s) /\ s \notin Batch(t)
        /\ \A s \in Slot : Pending(t, s) /\ s \notin Batch(t) =>
               Dist(aq_busy, w) <= Dist(aq_busy, s)
  <2>1. Wrapped(BatchEnd(t)) \in Slot
    BY <1>s, BatchInRing
  <2> QED BY <1>s, <1>d, <2>1, BatchIsFirst, BatchSplit
<1>r. \A s \in Slot : (InRing(s)' <=> InRing(s)) /\ (Unstarted(s)' <=> Unstarted(s))
  BY <1>u DEF InRing, Unstarted, Dist, COUNT_QE
<1>e. \A u \in Task, s \in Slot : Due(u, s) => u = t
  BY <1>u, OneIssuer DEF Sound, Ring, Due, Issuing
<1>f. \A u \in Task \ {t}, s \in Slot : ~Due(u, s)'
  BY <1>u, <1>e DEF Due, Pending, Issuing, Dist, COUNT_QE
<1>g. ASSUME NEW s \in Slot
      PROVE  /\ Due(t, s)' => Due(t, s) /\ (s \in Batch(t) => pc'[t] = "restart")
             /\ Due(t, s) /\ s \notin Batch(t) => Due(t, s)'
             /\ pc'[t] = "restart" => (s \in Batch(t)' <=> s \in Batch(t))
  <2>1. CASE pc'[t] = "restart"
    BY <1>u, <2>1 DEF Issued, Due, Pending, Issuing, Batch, BatchEnd, Dist, COUNT_QE
  <2>2. CASE pc'[t] = "fired"
    <3>1. p'[t] = Wrapped(BatchEnd(t))
      BY <2>2 DEF Issued
    <3>2. Due(t, s)' <=> /\ Dist(aq_busy, Wrapped(BatchEnd(t))) <= Dist(aq_busy, s)
                         /\ Dist(aq_busy, s) < Dist(aq_busy, q[t])
      BY <1>u, <2>2, <3>1 DEF Due, Pending, Issuing, Dist, COUNT_QE
    <3>3. Due(t, s) <=> Pending(t, s)
      BY <1>u DEF Due, Issuing
    <3> QED BY <1>w, <2>2, <3>2, <3>3 DEF Pending
  <2> QED BY <1>u, <2>1, <2>2
<1>1. ASSUME NEW u \in Task PROVE Gives(u)'
  <2>1. CASE u # t
    BY <1>f, <2>1 DEF Gives
  <2>2. CASE u = t
    <3> SUFFICES ASSUME NEW s \in Slot, Due(t, s)'
                 PROVE  IF pc'[t] = "restart" /\ s \in Batch(t)'
                          THEN At(s)' # "queued" /\ (sw'[s] = "EINTR" => Ready(s)')
                          ELSE Ready(s)'
      BY <2>2 DEF Gives
    <3>1. Due(t, s) /\ InRing(s)
      BY <1>g, DueInRing DEF Sound
    <3>2. CASE s \in Batch(t)
      BY <1>u, <1>b, <1>g, <3>2 DEF Issued, Ready
    <3>3. CASE s \notin Batch(t)
      <4>1. Ready(s) /\ At(s)' = At(s)
        BY <1>u, <1>b, <3>1, <3>3 DEF Fates, Gives
      <4> QED BY <1>u, <1>g, <3>3, <4>1 DEF Ready
    <3> QED BY <3>2, <3>3
  <2> QED BY <2>1, <2>2
<1>2. ASSUME NEW s \in Slot, InRing(s)' PROVE SlotFate(s)'
  <2>1. InRing(s) /\ SlotFate(s)
    BY <1>2, <1>r DEF Fates
  <2>2. CASE s \in Batch(t)
    <3>1. ~Unstarted(s)
      BY <1>b, <2>2, DueInRing DEF Sound
    <3> QED BY <1>u, <1>r, <2>1, <2>2, <3>1 DEF SlotFate, Issued
  <2>3. CASE s \notin Batch(t)
    <3>1. At(s)' = At(s) /\ sw'[s] = sw[s]
      BY <1>b, <2>1, <2>3 DEF Issued
    <3>2. At(s) = "queued" => Unstarted(s) \/ Due(t, s)'
      BY <1>e, <1>g, <2>1, <2>3 DEF SlotFate
    <3> QED BY <1>u, <1>r, <2>1, <3>1, <3>2 DEF SlotFate
  <2> QED BY <2>2, <2>3
<1>3. ASSUME NEW s \in inio' PROVE At(s)' = "started"
  <2>1. CASE s \in Batch(t)
    BY <1>3, <2>1 DEF Issued
  <2>2. CASE s \notin Batch(t)
    <3>1. s \in inio /\ s \in Slot
      <4>1. inio' \subseteq Slot
        BY DEF Sound, Ring, Data, SlotsOK
      <4> QED BY <1>3, <2>2, <4>1 DEF Issued
    <3>2. InRing(s)
      BY <3>1, StartedInRing DEF Sound
    <3> QED BY <1>b, <2>2, <3>1, <3>2 DEF Fates
  <2> QED BY <2>1, <2>2
<1>4. ASSUME NEW r \in Request, r > accepted PROVE fate'[r] = "none"
  <2>1. fate'[r] = fate[r]
    <3> SUFFICES ASSUME NEW s \in Batch(t), aq_reqid[s] = r PROVE FALSE
      BY DEF Issued
    <3>1. r <= accepted /\ r \in Nat /\ accepted \in Nat
      BY <1>b, Placed DEF Sound, Ring, Data, PastOK, Request
    <3> QED BY <1>4, <3>1
  <2> QED BY <1>4, <2>1 DEF Fates
<1>5. ASSUME NEW r \in over PROVE fate'[r] \in Final
  <2>1. r \in Request
    BY DEF Sound, Ring, Data, PastOK
  <2>2. fate'[r] = fate[r]
    <3> SUFFICES ASSUME NEW s \in Batch(t), aq_reqid[s] = r PROVE FALSE
      BY <2>1 DEF Issued
    <3> QED BY <1>b DEF Ready
  <2> QED BY <2>2 DEF Fates
<1>6. [Promise!Next]_<<accepted, fate, over>> /\ QueuedLast'
  BY IssuedGives DEF Promise!Next
<1> QED BY <1>u, <1>1, <1>2, <1>3, <1>4, <1>5, <1>6 DEF Keeps, Fates

LEMMA ListioPromise ==
  ASSUME Sound, Sound', Fates, NEW t \in Task,
         call_listio(t) \/ call_listio_fails(t) \/ call_listio_interrupted(t)
  PROVE  Keeps
<1>t. /\ p \in [Task -> Slot \cup {NULL}] /\ pc \in [Task -> Pc]
      /\ fate \in [Request -> Fate] /\ fate' \in [Request -> Fate]
      /\ aq_reqid \in [Slot -> Request \cup {0}] /\ sw \in [Slot -> {"busy", "done", "error", "EINTR"}]
      /\ inio \subseteq Slot
  BY DEF Sound, Ring, Data, LocalsOK, SlotsOK, PastOK, Control, ControlTypeOK
<1>c. pc[t] = "listio"
  BY DEF call_listio, call_listio_fails, call_listio_interrupted
<1>b. /\ Batch(t) \subseteq Slot
      /\ \A s \in Batch(t) : aq_reqid[s] \in Request /\ s \notin inio
      /\ \A s, v \in Batch(t) : aq_reqid[s] = aq_reqid[v] => s = v
  <2>1. /\ p[t] \in Slot /\ q[t] \in Slot /\ aq_busy \in Slot /\ Issuing(t) /\ Firing(t)
        /\ p[t] # q[t] /\ Dist(aq_busy, p[t]) <= Dist(aq_busy, q[t])
    BY <1>c DEF Sound, Ring, Data, LocalsOK, RingOK, Known, RingInv, Knows, Firing, Issuing
  <2>2. Batch(t) \subseteq Slot
    BY <2>1, BatchInRing
  <2>3. ASSUME NEW s \in Batch(t) PROVE InRing(s) /\ s \notin inio
    <3>1. Pending(t, s) /\ s \in Slot
      BY <2>1, <2>2, BatchPending
    <3> QED BY <1>c, <2>1, <3>1, DueInRing DEF Due, Sound, Firing
  <2> QED BY <2>2, <2>3, Placed, Apart DEF Sound
<1>1. CASE call_listio(t)
  <2>1. \A r \in Request : fate'[r] = IF \E s \in Batch(t) : aq_reqid[s] = r THEN "started" ELSE fate[r]
    BY <1>1 DEF call_listio, BecomeOf
  <2>2. /\ \A s \in Batch(t) : At(s)' = "started"
        /\ \A r \in Request : fate'[r] # fate[r] => \E s \in Batch(t) : aq_reqid[s] = r
    BY <1>b, <1>1, <2>1 DEF call_listio, At
  <2>3. Issued(t)
    BY <1>t, <1>b, <1>1, <2>2 DEF call_listio, Issued, Go, ringVars
  <2> QED BY <2>3, IssuedKeeps
<1>2. CASE call_listio_fails(t)
  <2>1. \A r \in Request : fate'[r] = IF \E s \in Batch(t) : aq_reqid[s] = r THEN "failed" ELSE fate[r]
    BY <1>2 DEF call_listio_fails, BecomeOf
  <2>2. /\ \A s \in Batch(t) : At(s)' = "failed"
        /\ \A r \in Request : fate'[r] # fate[r] => \E s \in Batch(t) : aq_reqid[s] = r
    BY <1>b, <1>2, <2>1 DEF call_listio_fails, At
  <2>3. Issued(t)
    BY <1>t, <1>b, <1>2, <2>2 DEF call_listio_fails, Issued, Go, ringVars, Final
  <2> QED BY <2>3, IssuedKeeps
<1>3. CASE call_listio_interrupted(t)
  <2>0. PICK k \in Batch(t) :
          /\ sw' = [s \in Slot |-> IF s \notin Batch(t) THEN sw[s]
                                   ELSE IF s < k THEN "busy" ELSE "EINTR"]
          /\ inio' = inio \cup {s \in Batch(t) : s < k}
          /\ fate' = [r \in Request |->
                        IF \E s \in Batch(t) : aq_reqid[s] = r /\ s < k THEN "started"
                        ELSE IF \E s \in Batch(t) : aq_reqid[s] = r THEN "interrupted"
                        ELSE fate[r]]
    BY <1>3 DEF call_listio_interrupted
  <2>1. UNCHANGED <<aq_busy, aq_ptr, aq_nxtq, aq_reqid, accepted, over, p, q>>
        /\ pc'[t] = "restart" /\ \A u \in Task \ {t} : pc'[u] = pc[u]
    BY <1>t, <1>3 DEF call_listio_interrupted, Go, ringVars
  <2>2. /\ \A s \in Batch(t) : At(s)' = IF s < k THEN "started" ELSE "interrupted"
        /\ \A r \in Request : fate'[r] # fate[r] => \E s \in Batch(t) : aq_reqid[s] = r
    BY <1>b, <2>0, <2>1 DEF At
  <2>3. Issued(t)
    BY <1>t, <1>b, <1>c, <2>0, <2>1, <2>2 DEF Issued, Final
  <2> QED BY <2>3, IssuedKeeps
<1> QED BY <1>1, <1>2, <1>3

(* After a signal _aqcall goes back to what it interrupted, or leaves it.  *)
LEMMA RestartPromise ==
  ASSUME Sound, Fates, NEW t \in Task, call_restart(t)
  PROVE  Keeps
<1>u. /\ UNCHANGED <<aq_busy, aq_ptr, aq_nxtq, aq_reqid, sw, inio, accepted, fate, over, q>>
      /\ pc[t] = "restart" /\ pc'[t] = "fired"
      /\ \A u \in Task \ {t} : UNCHANGED <<pc[u], p[u]>>
  BY DEF call_restart, Go, ringVars, slotVars, pastVars, Sound, Ring, Control,
     ControlTypeOK,
     Data, LocalsOK
<1>s. /\ p[t] \in Slot /\ q[t] \in Slot /\ aq_busy \in Slot
      /\ p \in [Task -> Slot \cup {NULL}]
      /\ p[t] # q[t] /\ Dist(aq_busy, p[t]) <= Dist(aq_busy, q[t])
  <2>1. Issuing(t)
    BY <1>u DEF Issuing
  <2> QED BY <1>u, <2>1 DEF Sound, Ring, Data, LocalsOK, RingOK, Known, RingInv, Knows,
     Firing
<1>d. \A s \in Slot : Dist(aq_busy, s) \in Nat
  BY <1>s, DistFacts
<1>i. PICK i \in Slot :
        /\ p'[t] = i
        /\ \A s \in Slot : Dist(aq_busy, i) <= Dist(aq_busy, s) /\ Dist(aq_busy, s) < Dist(aq_busy, q[t])
             => Pending(t, s) /\ (s \in Batch(t) => sw[s] = "EINTR")
        /\ \A s \in Slot : Pending(t, s) /\ s \notin Batch(t) =>
               Dist(aq_busy, i) <= Dist(aq_busy, s)
  <2>1. CASE p'[t] = Wrapped(BatchEnd(t))
    <3>1. Wrapped(BatchEnd(t)) \in Slot
      BY <1>s, BatchInRing
    <3> QED BY <1>s, <1>d, <2>1, <3>1, BatchIsFirst, BatchSplit
  <2>2. ASSUME NEW i \in StartAgainAt(t), p'[t] = i
        PROVE  /\ i \in Slot
               /\ \A s \in Slot : Dist(aq_busy, i) <= Dist(aq_busy, s) /\ Dist(aq_busy, s) < Dist(aq_busy, q[t])
                    => Pending(t, s) /\ (s \in Batch(t) => sw[s] = "EINTR")
               /\ \A s \in Slot : Pending(t, s) /\ s \notin Batch(t) =>
                      Dist(aq_busy, i) <= Dist(aq_busy, s)
    <3>1. i \in Batch(t) /\ i \in Slot /\ Pending(t, i)
      BY <1>s, BatchInRing, BatchPending DEF StartAgainAt
    <3>2. ASSUME NEW s \in Slot, Dist(aq_busy, i) <= Dist(aq_busy, s), Dist(aq_busy, s) < Dist(aq_busy, q[t])
          PROVE  Pending(t, s) /\ (s \in Batch(t) => sw[s] = "EINTR")
      <4>1. Pending(t, s)
        BY <1>s, <1>d, <3>1, <3>2 DEF Pending
      <4>2. s \in Batch(t) => ~(s < i)
        BY <1>s, <3>1, <3>2, BatchInOrder
      <4> QED BY <4>1, <4>2 DEF StartAgainAt
    <3>3. \A s \in Slot : Pending(t, s) /\ s \notin Batch(t) =>
              Dist(aq_busy, i) <= Dist(aq_busy, s)
      BY <1>s, <1>d, <3>1, BatchSplit
    <3> QED BY <3>1, <3>2, <3>3
  <2> QED BY <1>s, <2>1, <2>2 DEF call_restart
<1>g. ASSUME NEW s \in Slot
      PROVE  /\ Due(t, s)' => Due(t, s) /\ (s \in Batch(t) => sw[s] = "EINTR")
             /\ Due(t, s) /\ s \notin Batch(t) => Due(t, s)'
  <2>1. Due(t, s)' <=> Dist(aq_busy, p'[t]) <= Dist(aq_busy, s) /\ Dist(aq_busy, s) < Dist(aq_busy, q[t])
    BY <1>u DEF Due, Pending, Issuing, Dist, COUNT_QE
  <2>2. Due(t, s) <=> Pending(t, s)
    BY <1>u DEF Due, Issuing
  <2> QED BY <1>i, <2>1, <2>2 DEF Pending
<1>e. \A u \in Task \ {t}, s \in Slot : Due(u, s)' <=> Due(u, s)
  BY <1>u DEF Due, Pending, Issuing, Dist, COUNT_QE
<1>r. \A s \in Slot : (InRing(s)' <=> InRing(s)) /\ (Unstarted(s)' <=> Unstarted(s))
  BY <1>u DEF InRing, Unstarted, Dist, COUNT_QE
<1>a. \A s \in Slot : At(s)' = At(s) /\ (Ready(s)' <=> Ready(s))
  BY <1>u DEF At, Ready
<1>1. ASSUME NEW u \in Task PROVE Gives(u)'
  <2>1. CASE u = t
    BY <1>u, <1>g, <1>a, <2>1 DEF Fates, Gives
  <2>2. CASE u # t
    BY <1>u, <1>e, <1>a, <2>2 DEF Fates, Gives, Batch, BatchEnd
  <2> QED BY <2>1, <2>2
<1>2. ASSUME NEW s \in Slot, InRing(s)' PROVE SlotFate(s)'
  <2>1. InRing(s) /\ SlotFate(s)
    BY <1>2, <1>r DEF Fates
  <2>2. ASSUME NEW u \in Task, Due(u, s), At(s) = "queued" PROVE \E v \in Task : Due(v, s)'
    <3>1. CASE u = t
      <4>1. s \notin Batch(t)
        BY <1>u, <2>2, <3>1 DEF Fates, Gives, Ready
      <4> QED BY <1>g, <2>2, <3>1, <4>1
    <3>2. CASE u # t
      BY <1>e, <2>2, <3>2
    <3> QED BY <3>1, <3>2
  <2> QED BY <1>u, <1>r, <1>a, <2>1, <2>2 DEF SlotFate
<1>3. \A s \in inio' : At(s)' = "started"
  BY <1>u, <1>a DEF At, Fates
<1> QED BY <1>u, <1>1, <1>2, <1>3 DEF Keeps, Fates, QueuedLast

(* _aqcall goes on to the next batch, or ends; what it looks at first      *)
(* leaves everything as it is.                                             *)
LEMMA FiredPromise ==
  ASSUME Sound, Fates, NEW t \in Task, _aqcall(t) \/ call_fired(t)
  PROVE  Keeps
<1>t. ControlTypeOK /\ LocalsOK
  BY DEF Sound, Ring, Control, Data
<1>1. CASE _aqcall(t)
  <2>1. Bystands(t)
    BY <1>t, <1>1 DEF _aqcall, EndCall, Return, Bystands, LocalStep, Issuing, Go, ringVars,
       slotVars, ControlTypeOK, LocalsOK, Sound, Ring, Control, Place, Calling
  <2> QED BY <2>1, BystandKeeps
<1>2. CASE call_fired(t)
  <2>u. /\ UNCHANGED <<aq_busy, aq_ptr, aq_nxtq, aq_reqid, sw, inio, accepted, fate, over>>
        /\ \A u \in Task \ {t} : UNCHANGED <<pc[u], p[u], q[u]>>
        /\ pc[t] = "fired"
        /\ IF p[t] = q[t] THEN ~Issuing(t)' ELSE pc'[t] = "listio" /\ UNCHANGED <<p, q>>
    BY <1>t, <1>2 DEF call_fired, EndCall, Return, Issuing, Go, slotVars, ControlTypeOK,
       LocalsOK
  <2>d. aq_busy \in Slot /\ q[t] \in Slot /\ \A s \in Slot : Dist(aq_busy, s) \in Nat
    BY DistFacts DEF Sound, Ring, Data, RingOK, LocalsOK
  <2>e. \A u \in Task, s \in Slot : Due(u, s)' <=> Due(u, s)
    <3>1. \A u \in Task \ {t}, s \in Slot : Due(u, s)' <=> Due(u, s)
      BY <2>u DEF Due, Pending, Issuing, Dist, COUNT_QE
    <3>2. CASE p[t] = q[t]
      BY <2>u, <2>d, <3>1, <3>2 DEF Due, Pending
    <3>3. CASE p[t] # q[t]
      BY <2>u, <3>1, <3>3 DEF Due, Pending, Issuing, Dist, COUNT_QE
    <3> QED BY <3>2, <3>3
  <2>r. \A s \in Slot : (InRing(s)' <=> InRing(s)) /\ (Unstarted(s)' <=> Unstarted(s))
    BY <2>u DEF InRing, Unstarted, Dist, COUNT_QE
  <2>a. \A s \in Slot : At(s)' = At(s) /\ (Ready(s)' <=> Ready(s))
    BY <2>u DEF At, Ready
  <2>1. ASSUME NEW u \in Task PROVE Gives(u)'
    <3>1. CASE u = t
      BY <2>u, <2>e, <2>a, <3>1 DEF Fates, Gives, Due, Issuing
    <3>2. CASE u # t
      BY <2>u, <2>e, <2>a, <3>2 DEF Fates, Gives, Batch, BatchEnd
    <3> QED BY <3>1, <3>2
  <2>2. \A s \in Slot : InRing(s)' => SlotFate(s)'
    BY <2>u, <2>r, <2>e, <2>a DEF Fates, SlotFate
  <2>3. \A s \in inio' : At(s)' = "started"
    BY <2>u, <2>a DEF At, Fates
  <2> QED BY <2>u, <2>1, <2>2, <2>3 DEF Keeps, Fates, QueuedLast
<1> QED BY <1>1, <1>2

-----------------------------------------------------------------------------
(* The system completes a transfer.                                        *)
LEMMA CompletePromise ==
  ASSUME Sound, Fates, NEW s \in Slot, Complete(s)
  PROVE  Keeps
<1>u. /\ UNCHANGED <<aq_busy, aq_ptr, aq_nxtq, aq_reqid, accepted, over, pc, p, q>>
      /\ s \in inio /\ inio' = inio \ {s}
      /\ \A u \in Task, v \in Slot : Due(u, v)' <=> Due(u, v)
  BY DEF Complete, ringVars, localVars, Due, Pending, Issuing, Dist, COUNT_QE
<1>s. InRing(s) /\ aq_reqid[s] \in Request /\ At(s) = "started" /\ fate \in [Request -> Fate]
  BY <1>u, StartedInRing, Placed DEF Sound, Fates, Ring, Data, PastOK
<1>o. PICK good \in BOOLEAN :
        /\ sw' = [sw EXCEPT ![s] = IF good THEN "done" ELSE "error"]
        /\ fate' = [fate EXCEPT ![aq_reqid[s]] = IF good THEN "done" ELSE "failed"]
  <2>1. PICK good \in BOOLEAN :
          /\ sw' = [sw EXCEPT ![s] = IF good THEN "done" ELSE "error"]
          /\ fate' = BecomeOf({s}, IF good THEN "done" ELSE "failed")
    BY DEF Complete
  <2> QED BY <1>s, <2>1 DEF BecomeOf
<1>w. /\ sw \in [Slot -> {"busy", "done", "error", "EINTR"}]
      /\ \A v \in Slot : v # s => sw'[v] = sw[v]
      /\ \/ sw'[s] = "done" /\ At(s)' = "done"
         \/ sw'[s] = "error" /\ At(s)' = "failed"
      /\ \A r \in Request : r # aq_reqid[s] => fate'[r] = fate[r]
  <2>1. sw \in [Slot -> {"busy", "done", "error", "EINTR"}]
    BY DEF Sound, Ring, Data, SlotsOK
  <2> QED BY <1>u, <1>s, <1>o, <2>1 DEF At
<1>a. \A v \in Slot : InRing(v) /\ v # s => At(v)' = At(v) /\ (Ready(v)' <=> Ready(v))
  <2> SUFFICES ASSUME NEW v \in Slot, InRing(v), v # s PROVE fate'[aq_reqid[v]] = fate[aq_reqid[v]]
    BY <1>u DEF At, Ready
  <2>1. aq_reqid[v] \in Request /\ aq_reqid[v] # aq_reqid[s]
    BY <1>s, Placed, Apart DEF Sound
  <2> QED BY <1>w, <2>1
<1>r. \A v \in Slot : (InRing(v)' <=> InRing(v)) /\ (Unstarted(v)' <=> Unstarted(v))
  BY <1>u DEF InRing, Unstarted, Dist, COUNT_QE
<1>1. ASSUME NEW u \in Task PROVE Gives(u)'
  <2> SUFFICES ASSUME NEW v \in Slot, Due(u, v)
               PROVE  IF pc[u] = "restart" /\ v \in Batch(u)
                        THEN At(v)' # "queued" /\ (sw'[v] = "EINTR" => Ready(v)')
                        ELSE Ready(v)'
    BY <1>u DEF Gives, Batch, BatchEnd
  <2>1. InRing(v) /\ Gives(u)
    BY DueInRing DEF Sound, Fates
  <2>2. CASE v = s
    BY <1>s, <1>w, <2>1, <2>2 DEF Gives, Ready
  <2>3. CASE v # s
    BY <1>w, <1>a, <2>1, <2>3 DEF Gives
  <2> QED BY <2>2, <2>3
<1>2. ASSUME NEW v \in Slot, InRing(v)' PROVE SlotFate(v)'
  <2>1. InRing(v) /\ SlotFate(v)
    BY <1>2, <1>r DEF Fates
  <2>2. CASE v = s
    <3>1. ~Unstarted(v)
      BY <1>s, <2>1, <2>2 DEF SlotFate
    <3> QED BY <1>u, <1>w, <1>r, <2>1, <2>2, <3>1 DEF SlotFate, Final
  <2>3. CASE v # s
    BY <1>u, <1>w, <1>a, <1>r, <2>1, <2>3 DEF SlotFate
  <2> QED BY <2>2, <2>3
<1>3. ASSUME NEW v \in inio' PROVE At(v)' = "started"
  <2>1. v \in inio /\ v # s /\ v \in Slot /\ InRing(v)
    BY <1>3, <1>u, StartedInRing DEF Sound
  <2> QED BY <1>a, <2>1 DEF Fates
<1>4. ASSUME NEW r \in Request, r > accepted PROVE fate'[r] = "none"
  <2>1. r # aq_reqid[s]
    <3>1. fate[r] = "none"
      BY <1>4 DEF Fates
    <3> QED BY <1>s, <3>1 DEF At
  <2> QED BY <1>4, <1>w, <2>1 DEF Fates
<1>5. ASSUME NEW r \in over PROVE fate'[r] \in Final
  <2>1. r \in Request /\ fate[r] \in Final
    BY DEF Sound, Ring, Data, PastOK, Fates
  <2>2. r # aq_reqid[s]
    BY <1>s, <2>1 DEF At, Final
  <2> QED BY <1>w, <2>1, <2>2
<1>6. QueuedLast'
  <2> SUFFICES ASSUME NEW r \in Request, NEW u \in Request, r < u, fate'[r] = "queued"
               PROVE  fate'[u] \in {"none", "queued"}
    BY DEF QueuedLast
  <2>1. r # aq_reqid[s]
    BY <1>u, <1>w DEF At
  <2>2. fate[u] \in {"none", "queued"}
    BY <1>w, <2>1 DEF Fates, QueuedLast
  <2> QED BY <1>s, <1>w, <2>2 DEF At
<1>7. Promise!Finish(aq_reqid[s])
  BY <1>u, <1>s, <1>o DEF Promise!Finish, At
<1>8. [Promise!Next]_<<accepted, fate, over>>
  BY <1>s, <1>7 DEF Promise!Next
<1> QED BY <1>u, <1>1, <1>2, <1>3, <1>4, <1>5, <1>6, <1>8 DEF Keeps, Fates

-----------------------------------------------------------------------------
LEMMA FatesStart == Init => Fates /\ Promise!Init
<1> SUFFICES ASSUME Init PROVE Fates /\ Promise!Init
  OBVIOUS
<1>1. \A s \in Slot : ~InRing(s)
  BY SlotIsNat, DistFacts DEF Init, InRing
<1>2. \A t \in Task, s \in Slot : ~Due(t, s)
  BY DEF Init, Due, Issuing
<1>3. Promise!Init
  BY DEF Init, Promise!Init
<1> QED BY <1>1, <1>2, <1>3 DEF Init, Fates, QueuedLast, Gives

LEMMA StutterKeeps == ASSUME Fates, UNCHANGED vars PROVE Keeps
BY
  DEF vars, ringVars, slotVars, localVars, pastVars, Keeps, Fates, QueuedLast, At,
      Ready, SlotFate, Gives, InRing, Unstarted, Due, Pending, Issuing, Batch, BatchEnd,
      Dist, COUNT_QE

LEMMA StepKeeps ==
  ASSUME Sound, Sound', Fates, [Next]_vars
  PROVE  Keeps
<1>1. CASE UNCHANGED vars
  BY <1>1, StutterKeeps
<1>2. ASSUME NEW s \in Slot, Complete(s) PROVE Keeps
  BY <1>2, CompletePromise
<1>3. CASE \E t \in Task : \/ \E start \in BOOLEAN : _aqenq(t, start)
                           \/ enq_busy(t) \/ enq_fill(t) \/ enq_inc(t)
  BY <1>3, EnqPromise, FillPromise, EnterPromise
<1>4. CASE \E t \in Task : \/ _aqcall(t) \/ call_fire(t) \/ call_listio(t)
                           \/ call_listio_fails(t) \/ call_listio_interrupted(t)
                           \/ call_restart(t) \/ call_fired(t)
  BY <1>4, FirePromise, ListioPromise, RestartPromise, FiredPromise
<1>5. CASE \E t \in Task : _aqrcl(t) \/ rcl_ptr(t) \/ rcl_fird(t)
  BY <1>5, RclPromise
<1>6. CASE \E t \in Task : \/ enq_recalled(t) \/ wait_recalled(t) \/ stat_recalled(t)
                           \/ close_recalled(t)
  BY <1>6, RecallPromise
<1>7. CASE \E t \in Task : \/ AQWAIT(t) \/ wait_idle(t) \/ wait_lock(t) \/ wait_loop(t)
                           \/ \E r \in Request : AQRECALL(t, r)
                           \/ recall_lock(t) \/ recall_inside(t)
                           \/ \E r \in Request, wait \in BOOLEAN : AQSTAT(t, r, wait)
                           \/ stat_lock(t) \/ stat_busy(t)
  BY <1>7, WaitPromise, AskPromise
<1>8. CASE \E t \in Task : AQCLOSE(t) \/ close_lock(t)
  BY <1>8, ClosePromise
<1> QED BY <1>1, <1>2, <1>3, <1>4, <1>5, <1>6, <1>7, <1>8 DEF Next, InCall

LEMMA SoundInvariant == ASSUME WellUsed PROVE Spec /\ []InTime => []Sound
<1>1. InTime /\ RingInv /\ Fired /\ Data /\ Control /\ GivenInv /\ CloseInv => Sound
  BY DEF Sound, Ring, WellUsed
<1> QED BY <1>1, CloseInvariant, GivenInvariant, RingInvariant, FiredInvariant,
       DataInvariant, ControlInvariant, PTL

LEMMA FatesInvariant == ASSUME WellUsed PROVE Spec /\ []InTime => []Fates
<1>1. Fates /\ Sound /\ Sound' /\ [Next]_vars => Fates'
  BY StepKeeps DEF Keeps
<1> QED BY <1>1, FatesStart, SoundInvariant, PTL DEF Spec

(* AqIo implements AqPromise: requests go to the system in the order of    *)
(* acceptance and each once, and nothing happens to a request after a call *)
(* has acted on its outcome, though _aqcall works on copies of aq_ptr and  *)
(* aq_nxtq without their locks (aqcall.c:72-86).                           *)
THEOREM PromiseIsKept == ASSUME WellUsed PROVE Spec /\ []InTime => KeepsPromise
<1>1. Init => Promise!Init
  BY FatesStart
<1>2. Fates /\ Sound /\ Sound' /\ [Next]_vars => [Promise!Next]_<<accepted, fate, over>>
  BY StepKeeps DEF Keeps
<1> QED BY <1>1, <1>2, FatesInvariant, SoundInvariant, PTL DEF Spec, KeepsPromise,
   Promise!Spec

-----------------------------------------------------------------------------
(***************************************************************************)
(* What the calls of AqIo tell the program is true: each error is told     *)
(* once, and a wait that returns well has waited.  Theorems under the same *)
(* conditions as the order of the ring.                                    *)
(***************************************************************************)

(* A request nobody has acted on is not heard of; one that failed and that *)
(* a call has acted on is.  The slot says the same of a request in the     *)
(* ring.                                                                   *)
Heard ==
  /\ \A r \in Request : heard[r] \in {0, 1} /\ (r \notin over => heard[r] = 0)
  /\ file = "open" => \A r \in over : fate[r] \in {"failed", "interrupted"} => heard[r] = 1
TellsOf(s) == aq_told[s] <=> aq_reqid[s] \in over
Marks ==
  /\ \A s \in Slot : InRing(s) => TellsOf(s)
  /\ \A t \in Task : pc[t] = "enq_inc" => ~aq_told[aq_nxtq]

(* AQRECALL has found its request in the ring, or it has left the ring.    *)
Found(t) ==
  \/ InRing(eptr[t]) /\ aq_reqid[eptr[t]] = since[t]
  \/ since[t] + Dist(aq_busy, aq_nxtq) <= accepted

(* AQWAIT and AQRECALL stop behind the requests they are to wait for.      *)
Begins(t) == pc[t] \in {"wait_idle", "wait_lock", "recall_lock", "recall_inside"}
Await(t) ==
  InWait(t) =>
    /\ since[t] <= accepted
    /\ pc[t] = "recall_lock" => since[t] = reqid[t]
    /\ pc[t] = "recall_inside" => Found(t)
    /\ ~Begins(t) => since[t] + Dist(stop[t], aq_nxtq) <= accepted

Tells == Heard /\ Marks /\ \A t \in Task : Await(t)
Stays == Sound /\ Fates
-----------------------------------------------------------------------------
(* What a call has acted on keeps its outcome.                             *)
LEMMA OutcomeStays ==
  ASSUME Stays, [Promise!Next]_<<accepted, fate, over>>
  PROVE  over \subseteq over' /\ \A r \in over : r \in Request => fate'[r] = fate[r]
<1>f. \A r \in over : fate[r] \in Final
  BY DEF Stays, Fates
<1>t. fate \in [Request -> Fate]
  BY DEF Stays, Sound, Ring, Data, PastOK
<1>1. CASE Promise!Accept
  <2>1. fate[accepted + 1] = "none"
    BY <1>1 DEF Promise!Accept, Stays, Sound, Ring, Data, PastOK, Fates, Request
  <2> QED BY <1>1, <1>f, <1>t, <2>1 DEF Promise!Accept, Final
<1>2. CASE Promise!Give
  BY <1>2 DEF Promise!Give, Promise!Pending
<1>3. ASSUME NEW r \in Request, Promise!Finish(r)
      PROVE  over \subseteq over' /\ \A x \in over : x \in Request => fate'[x] = fate[x]
  BY <1>3, <1>f, <1>t DEF Promise!Finish, Final
<1>4. ASSUME NEW r \in Request, Promise!Use(r)
      PROVE  over \subseteq over' /\ \A x \in over : x \in Request => fate'[x] = fate[x]
  BY <1>4 DEF Promise!Use
<1>5. CASE UNCHANGED <<accepted, fate, over>>
  BY <1>5
<1> QED BY <1>1, <1>2, <1>3, <1>4, <1>5 DEF Promise!Next

(* A step that tells nothing and takes no request out of the ring or in.   *)
Silent ==
  /\ UNCHANGED <<aq_busy, aq_nxtq, aq_reqid, aq_told, accepted, heard, over>>
  /\ file' = "open" => file = "open"
  /\ \A u \in Task : pc'[u] = "enq_inc" => pc[u] = "enq_inc"

LEMMA SilentKeeps ==
  ASSUME Stays, [Promise!Next]_<<accepted, fate, over>>, Tells, Silent
  PROVE  Heard' /\ Marks'
<1>1. \A r \in over : r \in Request => fate'[r] = fate[r]
  BY OutcomeStays
<1>2. over \subseteq Request
  BY DEF Stays, Sound, Ring, Data, PastOK
<1>3. Heard'
  BY <1>1, <1>2 DEF Tells, Heard, Silent
<1>4. Marks'
  BY DEF Tells, Marks, TellsOf, Silent, InRing, Dist, COUNT_QE
<1> QED BY <1>3, <1>4

(* A step that leaves others' waits alone, and t's unless it begins one.   *)
Waiting(t) ==
  /\ UNCHANGED <<accepted, aq_nxtq>>
  /\ \A u \in Task \ {t} :
       UNCHANGED <<pc[u], op[u], reqid[u], eptr[u], stop[u], since[u]>>
  /\ InWait(t)' => /\ InWait(t) /\ UNCHANGED <<stop[t], since[t]>>
                   /\ ~pc[t] \in {"recall_lock", "recall_inside"}
                   /\ ~pc'[t] \in {"recall_lock", "recall_inside"}
                   /\ pc[t] \in {"wait_idle", "wait_lock"} =>
                        pc'[t] \in {"wait_idle", "wait_lock"}
StillFound(t) ==
  \A u \in Task \ {t} : pc[u] = "recall_inside" /\ Found(u) => Found(u)'

LEMMA WaitingKeeps ==
  ASSUME Tells, NEW t \in Task, Waiting(t), StillFound(t), NEW u \in Task
  PROVE  Await(u)'
<1>1. CASE u = t
  BY <1>1 DEF Tells, Await, Begins, Waiting, InWait, Dist, COUNT_QE
<1>2. CASE u # t
  BY <1>2 DEF Tells, Await, Begins, Waiting, StillFound, InWait, Dist, COUNT_QE
<1> QED BY <1>1, <1>2

LEMMA SilentFinds ==
  ASSUME Silent, NEW t \in Task,
         \A u \in Task \ {t} : UNCHANGED <<eptr[u], since[u]>>
  PROVE  StillFound(t)
BY DEF Silent, StillFound, Found, InRing, Dist, COUNT_QE

LEMMA SilentTells ==
  ASSUME Stays, [Promise!Next]_<<accepted, fate, over>>, Tells, Silent,
         NEW t \in Task, Waiting(t)
  PROVE  Tells'
<1>1. StillFound(t)
  BY SilentFinds DEF Waiting
<1> QED BY <1>1, SilentKeeps, WaitingKeeps DEF Tells

LEMMA QuietTells ==
  ASSUME Stays, [Promise!Next]_<<accepted, fate, over>>, Tells, NEW t \in Task,
         \/ \E start \in BOOLEAN : _aqenq(t, start)
         \/ enq_busy(t)
         \/ _aqcall(t) \/ call_fire(t) \/ call_listio(t) \/ call_listio_fails(t)
         \/ call_listio_interrupted(t) \/ call_restart(t) \/ call_fired(t)
         \/ _aqrcl(t) \/ rcl_ptr(t) \/ rcl_fird(t)
         \/ wait_idle(t) \/ wait_loop(t)
         \/ \E r \in Request, wait \in BOOLEAN : AQSTAT(t, r, wait)
         \/ stat_lock(t) \/ stat_busy(t) \/ AQCLOSE(t) \/ close_lock(t)
  PROVE  Tells'
<1>t. ControlTypeOK /\ LocalsOK /\ Place(t)
  BY DEF Stays, Sound, Ring, Control, Data
<1>1. CASE (\E start \in BOOLEAN : _aqenq(t, start)) \/ enq_busy(t)
  <2>1. Silent /\ Waiting(t)
    BY <1>t, <1>1 DEF _aqenq, enq_busy, Silent, Waiting, InWait, Go, ringVars, slotVars,
       pastVars, ControlTypeOK, LocalsOK, Place, InEnq
  <2> QED BY <2>1, SilentTells
<1>2. CASE _aqcall(t) \/ call_fired(t)
  <2>1. Silent /\ Waiting(t)
    BY <1>t, <1>2 DEF _aqcall, call_fired, EndCall, Return, Silent, Waiting, InWait, Go,
       ringVars, slotVars, ControlTypeOK, LocalsOK
  <2> QED BY <2>1, SilentTells
<1>3. CASE \/ call_fire(t) \/ call_listio(t) \/ call_listio_fails(t)
           \/ call_listio_interrupted(t) \/ call_restart(t)
  <2>1. Silent /\ Waiting(t)
    BY <1>t, <1>3 DEF call_fire, call_listio, call_listio_fails, call_listio_interrupted,
       call_restart, Silent, Waiting, InWait, Go, ringVars, slotVars, pastVars,
       ControlTypeOK, LocalsOK
  <2> QED BY <2>1, SilentTells
<1>4. CASE _aqrcl(t) \/ rcl_ptr(t) \/ rcl_fird(t)
  <2>1. Silent /\ Waiting(t)
    BY <1>t, <1>4 DEF _aqrcl, rcl_ptr, rcl_fird, Silent, Waiting, InWait, Go, ringVars,
       slotVars, pastVars, ControlTypeOK, LocalsOK
  <2> QED BY <2>1, SilentTells
<1>5. CASE wait_idle(t) \/ wait_loop(t)
  <2>1. Silent /\ Waiting(t)
    BY <1>t, <1>5 DEF wait_idle, wait_loop, Return, Silent, Waiting, InWait, Go, ringVars,
       slotVars, ControlTypeOK, LocalsOK
  <2> QED BY <2>1, SilentTells
<1>6. CASE \/ \E r \in Request, wait \in BOOLEAN : AQSTAT(t, r, wait)
           \/ stat_lock(t) \/ stat_busy(t)
  <2>1. Silent /\ Waiting(t)
    BY <1>t, <1>6
      DEF AQSTAT, StartAsking, stat_lock, stat_busy, Return, Silent, Waiting, InWait,
          Go, ringVars, slotVars, pastVars, ControlTypeOK, LocalsOK, Place, InStat
  <2> QED BY <2>1, SilentTells
<1>7. CASE AQCLOSE(t) \/ close_lock(t)
  <2>1. Silent /\ Waiting(t)
    BY <1>t, <1>7 DEF AQCLOSE, close_lock, CloseFrom, Return, Silent, Waiting, InWait, Go,
       ringVars, slotVars, pastVars, ControlTypeOK, LocalsOK, Place
  <2> QED BY <2>1, SilentTells
<1> QED BY <1>1, <1>2, <1>3, <1>4, <1>5, <1>6, <1>7

(* AQRECALL, when it has lkbusy, finds its request unless it has left the  *)
(* ring; and then stops behind it, or where all before it have left.       *)
LEMMA LockFinds ==
  ASSUME Stays, Tells, NEW t \in Task, recall_lock(t)
  PROVE  /\ since[t] <= accepted
         /\ HasSlot(reqid[t]) => Found(t)' /\ since'[t] = since[t] /\ op'[t] = "AQRECALL"
         /\ ~HasSlot(reqid[t]) => since[t] + Dist(aq_busy, aq_nxtq) <= accepted
<1>t. /\ Ring /\ LocalsOK /\ op[t] = "AQRECALL" /\ pc[t] = "recall_lock"
      /\ accepted \in Nat /\ Dist(aq_busy, aq_nxtq) \in Nat
      /\ aq_reqid \in [Slot -> Request \cup {0}] /\ MaxRequest \in Nat
  BY DistFacts, AqAssumption DEF Stays, Sound, Ring, Data, RingOK, SlotsOK, PastOK,
     Control, Place, recall_lock
<1>1. since[t] = reqid[t] /\ since[t] <= accepted /\ since[t] \in Request
  BY <1>t DEF Tells, Await, InWait, Ring, Data, Known, LocalsOK, Request
<1>2. ASSUME ~HasSlot(reqid[t]) PROVE since[t] + Dist(aq_busy, aq_nxtq) <= accepted
  <2>1. \A s \in Slot : aq_reqid[s] # since[t]
    BY <1>1, <1>2 DEF HasSlot
  <2>2. since[t] + Dist(aq_busy, aq_nxtq) \in Nat
    BY <1>t, <1>1 DEF Request
  <2> QED BY <1>t, <1>1, <2>1, <2>2, LastInRing
<1>3. ASSUME HasSlot(reqid[t])
      PROVE  Found(t)' /\ since'[t] = since[t] /\ op'[t] = "AQRECALL"
  <2> DEFINE e == SlotOf(reqid[t])
  <2>1. e \in Slot /\ aq_reqid[e] = since[t]
    BY <1>1, <1>3, SlotOfRequest
  <2>2. /\ eptr'[t] = e /\ UNCHANGED <<op, since, aq_busy, aq_nxtq, aq_reqid, accepted>>
    BY <1>t, <1>3 DEF recall_lock, LocalsOK, ringVars, slotVars
  <2>3. InRing(e) \/ since[t] + Dist(aq_busy, aq_nxtq) <= accepted
    BY <1>t, <1>1, <2>1 DEF Ring, RingInv, Numbered, Request
  <2> HIDE DEF e
  <2> QED BY <1>t, <2>1, <2>2, <2>3 DEF Found, InRing, Dist, COUNT_QE
<1> QED BY <1>1, <1>2, <1>3

LEMMA InsideStops ==
  ASSUME Stays, Tells, NEW t \in Task, recall_inside(t)
  PROVE  /\ since[t] <= accepted
         /\ Inside(aq_busy, eptr[t], aq_nxtq) =>
              /\ since'[t] = since[t]
              /\ since[t] + Dist(stop'[t], aq_nxtq) <= accepted
              /\ (Dist(stop[t], aq_nxtq))' = Dist(stop'[t], aq_nxtq)
         /\ ~Inside(aq_busy, eptr[t], aq_nxtq) =>
              since[t] + Dist(aq_busy, aq_nxtq) <= accepted
<1>t. /\ Ring /\ LocalsOK /\ op[t] = "AQRECALL" /\ pc[t] = "recall_inside"
      /\ accepted \in Nat /\ aq_busy \in Slot /\ aq_nxtq \in Slot /\ eptr[t] \in Slot
      /\ aq_busy # aq_nxtq /\ since[t] \in Nat
  BY DEF Stays, Sound, Ring, Data, RingOK, LocalsOK, PastOK, Control, Place, RingInv, Knows,
     Looking, recall_inside
<1>1. since[t] <= accepted /\ Found(t)
  BY <1>t DEF Tells, Await, InWait
<1>2. Inside(aq_busy, eptr[t], aq_nxtq) <=> InRing(eptr[t])
  BY <1>t, InsideIsInRing
<1>3. ASSUME Inside(aq_busy, eptr[t], aq_nxtq)
      PROVE  /\ since'[t] = since[t]
             /\ since[t] + Dist(stop'[t], aq_nxtq) <= accepted
             /\ (Dist(stop[t], aq_nxtq))' = Dist(stop'[t], aq_nxtq)
  <2>1. /\ stop'[t] = INC_QP(eptr[t]) /\ UNCHANGED <<since, aq_nxtq>>
    BY <1>t, <1>3 DEF recall_inside, LocalsOK, ringVars
  <2>2. /\ Dist(aq_busy, eptr[t]) \in Nat /\ Dist(aq_busy, aq_nxtq) \in Nat
        /\ Dist(eptr[t], aq_nxtq) \in Nat
        /\ Dist(aq_busy, eptr[t]) < Dist(aq_busy, aq_nxtq)
    BY <1>t, <1>2, <1>3, DistFacts DEF InRing
  <2>3. eptr[t] # aq_nxtq
    BY <2>2
  <2>4. Dist(INC_QP(eptr[t]), aq_nxtq) = Dist(eptr[t], aq_nxtq) - 1
    BY <1>t, <2>3, DistFacts
  <2>5. Dist(eptr[t], aq_nxtq) = Dist(aq_busy, aq_nxtq) - Dist(aq_busy, eptr[t])
    BY <1>t, <2>2, Between3
  <2>6. since[t] + Dist(INC_QP(eptr[t]), aq_nxtq) <= accepted
    <3>1. CASE InRing(eptr[t]) /\ aq_reqid[eptr[t]] = since[t]
      <4>1. since[t] + Dist(eptr[t], aq_nxtq) = accepted + 1
        BY <1>t, <3>1 DEF Ring, RingInv, Numbered
      <4> QED BY <1>t, <2>2, <2>4, <4>1
    <3>2. CASE since[t] + Dist(aq_busy, aq_nxtq) <= accepted
      BY <1>t, <2>2, <2>4, <2>5, <3>2
    <3> QED BY <1>1, <3>1, <3>2 DEF Found
  <2> QED BY <2>1, <2>6 DEF Dist, COUNT_QE
<1> QED BY <1>1, <1>2, <1>3 DEF Found

(* A wait begins.                                                          *)
LEMMA BeginTells ==
  ASSUME Stays, [Promise!Next]_<<accepted, fate, over>>, Tells, NEW t \in Task,
         \/ AQWAIT(t) \/ wait_lock(t)
         \/ \E r \in Request : AQRECALL(t, r)
         \/ recall_lock(t) \/ recall_inside(t)
  PROVE  Tells'
<1>t. /\ ControlTypeOK /\ LocalsOK /\ Place(t) /\ accepted \in Nat /\ aq_nxtq \in Slot
      /\ aq_busy \in Slot /\ Ring
  BY DEF Stays, Sound, Ring, Control, Data, PastOK, RingOK
<1>1. Silent
  BY <1>t DEF AQWAIT, wait_lock, AQRECALL, recall_lock, recall_inside, StartAsking, Return,
     Silent, Go, ringVars, slotVars, pastVars, ControlTypeOK
<1>2. /\ UNCHANGED <<accepted, aq_busy, aq_nxtq, aq_reqid>>
      /\ \A u \in Task \ {t} :
           UNCHANGED <<pc[u], op[u], reqid[u], eptr[u], stop[u], since[u]>>
  BY <1>t DEF AQWAIT, wait_lock, AQRECALL, recall_lock, recall_inside, StartAsking, Return,
     Go, ringVars, slotVars, pastVars, ControlTypeOK, LocalsOK
<1>3. ASSUME NEW u \in Task \ {t} PROVE Await(u)'
  <2>1. StillFound(t)
    BY <1>1, <1>2, SilentFinds
  <2> QED BY <1>2, <1>3, <2>1 DEF Tells, Await, Begins, StillFound, InWait, Dist, COUNT_QE
<1>4. Await(t)'
  <2>1. CASE AQWAIT(t)
    BY <1>t, <2>1 DEF AQWAIT, StartAsking, Await, Begins, InWait, Go, ControlTypeOK,
       LocalsOK
  <2>2. CASE wait_lock(t)
    <3>1. since'[t] = since[t] /\ since[t] <= accepted /\ since[t] \in Nat
      BY <1>t, <2>2 DEF wait_lock, pastVars, Tells, Await, Place, LocalsOK, InWait
    <3>2. Dist(stop[t], aq_nxtq)' = 0
      <4>1. stop'[t] = aq_nxtq /\ Dist(aq_nxtq, aq_nxtq) = 0
        BY <1>t, <2>2, DistFacts DEF wait_lock, LocalsOK
      <4> QED BY <1>2, <4>1 DEF Dist, COUNT_QE
    <3>3. pc'[t] = "call"
      BY <1>t, <2>2 DEF wait_lock, Go, ControlTypeOK
    <3> QED BY <1>2, <3>1, <3>2, <3>3 DEF Await
  <2>3. CASE \E r \in Request : AQRECALL(t, r)
    BY <1>t, <2>3 DEF AQRECALL, AskedAbout, StartAsking, Await, Begins, InWait, Go,
       ControlTypeOK, LocalsOK
  <2>4. CASE recall_lock(t)
    BY <1>t, <1>2, <2>4, LockFinds DEF Await, Begins, InWait, recall_lock, Return, Go,
       ControlTypeOK
  <2>5. CASE recall_inside(t)
    BY <1>t, <1>2, <2>5, InsideStops DEF Await, Begins, InWait, recall_inside, Return, Go,
       ControlTypeOK
  <2> QED BY <2>1, <2>2, <2>3, <2>4, <2>5
<1> QED BY <1>1, <1>3, <1>4, SilentKeeps DEF Tells
-----------------------------------------------------------------------------
(* A request is filled in, and enters the ring untold.                     *)
LEMMA FillTells ==
  ASSUME Stays, [Promise!Next]_<<accepted, fate, over>>, Tells, NEW t \in Task, enq_fill(t)
  PROVE  Tells'
<1>t. /\ ControlTypeOK /\ Place(t) /\ aq_nxtq \in Slot /\ aq_busy \in Slot
      /\ aq_reqid \in [Slot -> Request \cup {0}] /\ aq_told \in [Slot -> BOOLEAN]
      /\ over \subseteq Request
  BY DEF Stays, Sound, Ring, Control, Data, RingOK, SlotsOK, PastOK
<1>n. ~InRing(aq_nxtq)
  BY <1>t, DistFacts DEF InRing
<1>u. /\ UNCHANGED <<aq_busy, aq_nxtq, accepted, heard, over, file, op, reqid, eptr, stop,
                       since>>
      /\ pc[t] = "enq_fill" /\ pc' = [pc EXCEPT ![t] = "enq_inc"]
      /\ ~aq_told'[aq_nxtq]
      /\ \A s \in Slot : s # aq_nxtq =>
             aq_reqid'[s] = aq_reqid[s] /\ aq_told'[s] = aq_told[s]
  BY <1>t DEF enq_fill, Go, ringVars, pastVars
<1>1. Heard'
  BY <1>t, <1>u, OutcomeStays DEF Tells, Heard
<1>2. Marks'
  BY <1>t, <1>u, <1>n DEF Tells, Marks, TellsOf, InRing, Dist, COUNT_QE
<1>3. Waiting(t)
  BY <1>t, <1>u DEF Waiting, ControlTypeOK, Place, InEnq, InWait
<1>4. StillFound(t)
  <2> SUFFICES ASSUME NEW u \in Task \ {t}, InRing(eptr[u]), aq_reqid[eptr[u]] = since[u]
               PROVE  (InRing(eptr[u]) /\ aq_reqid[eptr[u]] = since[u])'
    BY <1>u DEF StillFound, Found, Dist, COUNT_QE
  <2>1. eptr[u] \in Slot /\ eptr[u] # aq_nxtq
    BY <1>n DEF Stays, Sound, Ring, Data, LocalsOK
  <2> QED BY <1>u, <2>1 DEF InRing, Dist, COUNT_QE
<1> QED BY <1>1, <1>2, <1>3, <1>4, WaitingKeeps DEF Tells

LEMMA EnterTells ==
  ASSUME Stays, [Promise!Next]_<<accepted, fate, over>>, Tells, NEW t \in Task, enq_inc(t)
  PROVE  Tells'
<1>r. Ring /\ CloseInv
  BY DEF Stays, Sound
<1>t. /\ ControlTypeOK /\ LocalsOK /\ Place(t) /\ aq_nxtq \in Slot /\ aq_busy \in Slot
      /\ over \subseteq Request /\ over \subseteq 1 .. accepted /\ accepted \in Nat
      /\ aq_nxtq' \in Slot
  <2>1. ControlTypeOK /\ Place(t)
    BY <1>r DEF Ring, Control
  <2>2. LocalsOK /\ aq_nxtq \in Slot /\ aq_busy \in Slot
    BY <1>r DEF Ring, Data, RingOK
  <2>3. over \subseteq Request /\ accepted \in Nat
    BY <1>r DEF Ring, Data, PastOK
  <2>4. over \subseteq 1 .. accepted
    BY <1>r DEF CloseInv, OverOK
  <2>5. aq_nxtq' \in Slot
    BY <2>2, SlotIsNat DEF enq_inc
  <2> QED BY <2>1, <2>2, <2>3, <2>4, <2>5
<1>u. /\ UNCHANGED <<aq_busy, aq_reqid, aq_told, heard, over, file>>
      /\ aq_nxtq' = INC_QP(aq_nxtq) /\ accepted' = accepted + 1
      /\ pc[t] = "enq_inc" /\ pc'[t] # "enq_inc" /\ ~InWait(t)'
      /\ \A u \in Task \ {t} :
           UNCHANGED <<pc[u], op[u], reqid[u], eptr[u], stop[u], since[u]>>
  BY <1>t DEF enq_inc, Go, Return, slotVars, ControlTypeOK, LocalsOK, Place, InEnq, InWait
<1>1. Heard'
  BY <1>t, <1>u, OutcomeStays DEF Tells, Heard
<1>2. \A u \in Task : pc'[u] # "enq_inc"
  BY <1>u DEF Stays, Sound, Ring, Control, Held, Needed, LockName
<1>n. \A i \in Slot : Dist(i, INC_QP(aq_nxtq)) <= Dist(i, aq_nxtq) + 1
  BY <1>t, AqAssumption DEF Slot, Dist, COUNT_QE, INC_QP
<1>3. ASSUME NEW s \in Slot, InRing(s)' PROVE TellsOf(s)'
  <2>1. CASE s = aq_nxtq
    <3>1. aq_reqid[s] = accepted + 1 /\ ~aq_told[s]
      BY <1>u, <2>1 DEF Stays, Sound, Ring, RingInv, Knows, Filling, Tells, Marks
    <3> QED BY <1>t, <1>u, <3>1 DEF TellsOf
  <2>2. CASE s # aq_nxtq
    <3>1. Dist(aq_busy, s) < Dist(aq_busy, INC_QP(aq_nxtq))
      BY <1>3, <1>u DEF InRing, Dist, COUNT_QE
    <3>2. Dist(aq_busy, s) # Dist(aq_busy, aq_nxtq)
      BY <1>t, <2>2, Between3
    <3>3. /\ Dist(aq_busy, s) \in Nat /\ Dist(aq_busy, aq_nxtq) \in Nat
          /\ Dist(aq_busy, INC_QP(aq_nxtq)) \in Nat
      BY <1>t, <1>u, DistFacts
    <3>4. InRing(s)
      BY <1>t, <1>n, <3>1, <3>2, <3>3 DEF InRing
    <3> QED BY <1>u, <3>4 DEF Tells, Marks, TellsOf
  <2> QED BY <2>1, <2>2
<1>4. ASSUME NEW u \in Task PROVE Await(u)'
  <2>1. CASE u = t
    BY <1>u, <2>1 DEF Await
  <2>2. CASE u # t
    <3>1. /\ stop[u] \in Slot /\ since[u] \in Nat /\ Dist(stop[u], aq_nxtq) \in Nat
          /\ Dist(stop[u], INC_QP(aq_nxtq)) \in Nat
      BY <1>t, <1>u, DistFacts DEF LocalsOK
    <3>2. Dist(stop[u], aq_nxtq)' = Dist(stop[u], INC_QP(aq_nxtq))
      BY <1>u, <2>2 DEF Dist, COUNT_QE
    <3>3. Await(u)
      BY DEF Tells
    <3>4. Found(u) => Found(u)'
      <4>1. /\ eptr[u] \in Slot /\ eptr'[u] = eptr[u] /\ since'[u] = since[u]
            /\ aq_reqid' = aq_reqid /\ aq_busy' = aq_busy
        BY <1>t, <1>u, <2>2 DEF LocalsOK
      <4>2. Dist(aq_busy, aq_nxtq) <= Max - 2
        BY <1>u DEF Stays, Sound, Ring, RingInv, Knows, Filling
      <4>3. Dist(aq_busy, INC_QP(aq_nxtq)) = Dist(aq_busy, aq_nxtq) + 1
        BY <1>t, <4>2, DistFacts
      <4>4. Dist(aq_busy, aq_nxtq) \in Nat /\ Dist(aq_busy, eptr[u]) \in Nat
        BY <1>t, <4>1, DistFacts
      <4>5. /\ Found(u)' <=>
                 \/ /\ Dist(aq_busy, eptr[u]) < Dist(aq_busy, INC_QP(aq_nxtq))
                    /\ aq_reqid[eptr[u]] = since[u]
                 \/ since[u] + Dist(aq_busy, INC_QP(aq_nxtq)) <= accepted + 1
        BY <1>u, <4>1 DEF Found, InRing, Dist, COUNT_QE
      <4> QED BY <1>t, <3>1, <4>3, <4>4, <4>5 DEF Found, InRing
    <3>5. since[u] <= accepted => since[u] <= accepted + 1
      BY <1>t, <3>1
    <3> QED BY <1>t, <1>u, <1>n, <2>2, <3>1, <3>2, <3>3, <3>4, <3>5
      DEF Await, Begins, InWait
  <2> QED BY <2>1, <2>2
<1> QED BY <1>1, <1>2, <1>3, <1>4 DEF Tells, Marks
-----------------------------------------------------------------------------
(* What is recalled: the oldest request of the ring, or, for AQSTAT, any   *)
(* of its requests or one that a call has acted on.                        *)
LEMMA RecalledSlot ==
  ASSUME Stays, NEW t \in Task, pc[t] = "recall", sw[eptr[t]] # "busy"
  PROVE  /\ eptr[t] \in Slot
         /\ aq_reqid[eptr[t]] \in Request /\ fate[aq_reqid[eptr[t]]] \in Final
         /\ ~InStat(t) => eptr[t] = aq_busy /\ InRing(eptr[t])
         /\ ~InRing(eptr[t]) => aq_reqid[eptr[t]] \in over
         /\ InRing(eptr[t]) =>
              /\ \A s \in Slot \ {eptr[t]} : InRing(s) => aq_reqid[s] # aq_reqid[eptr[t]]
              /\ sw[eptr[t]] = "done" => fate[aq_reqid[eptr[t]]] = "done"
<1> DEFINE e == eptr[t]
           r == aq_reqid[e]
<1>t. /\ e \in Slot /\ Ring /\ Fates /\ Sound /\ Oldest(t) /\ Recalling(t)
      /\ aq_busy \in Slot /\ aq_ptr \in Slot /\ aq_nxtq \in Slot
      /\ Dist(aq_busy, aq_ptr) <= Dist(aq_busy, aq_nxtq) /\ accepted \in Nat
  BY DEF Stays, Sound, Ring, Data, LocalsOK, RingInv, Knows, RingOK, PointersInOrder, Dist,
     Recalling, PastOK
<1>1. r \in Request /\ fate[r] \in Final
  BY <1>t, RecalledFinal
<1>2. ASSUME ~InStat(t) PROVE e = aq_busy /\ InRing(e)
  <2>1. e = aq_busy /\ aq_busy # aq_ptr
    BY <1>t, <1>2 DEF Oldest
  <2>2. Dist(aq_busy, aq_busy) = 0 /\ Dist(aq_busy, aq_ptr) \in Nat /\ Dist(aq_busy, aq_ptr) # 0
        /\ Dist(aq_busy, aq_nxtq) \in Nat
    BY <1>t, <2>1, DistFacts
  <2> QED BY <1>t, <2>1, <2>2 DEF InRing
<1>3. ASSUME ~InRing(e) PROVE r \in over
  <2>1. r <= accepted
    BY <1>t, <1>1 DEF Fates, Final, Request
  <2>2. r + Dist(aq_busy, aq_nxtq) <= accepted
    BY <1>t, <1>1, <1>3, <2>1 DEF Ring, RingInv, Numbered, Request
  <2> QED BY <1>t, <1>1, <2>2 DEF Ring, RingInv, LeftOver
<1>4. ASSUME InRing(e) PROVE \A s \in Slot \ {e} : InRing(s) => aq_reqid[s] # r
  BY <1>t, <1>4, Apart
<1>5. ASSUME InRing(e), sw[e] = "done" PROVE fate[r] = "done"
  BY <1>t, <1>5 DEF Fates, SlotFate, At
<1> QED BY <1>t, <1>1, <1>2, <1>3, <1>4, <1>5

(* What leaves the ring leaves it for good.                                *)
LEMMA Shrinks ==
  ASSUME Stays, aq_busy' = INC_QP(aq_busy), aq_nxtq' = aq_nxtq, InRing(aq_busy),
         NEW s \in Slot, InRing(s)'
  PROVE  InRing(s) /\ s # aq_busy
<1>s. /\ aq_busy \in Slot /\ aq_nxtq \in Slot /\ INC_QP(aq_busy) \in Slot /\ Max \in Nat
  BY SlotIsNat, AqAssumption DEF Stays, Sound, Ring, Data, RingOK
<1>1. Dist(INC_QP(aq_busy), s) < Dist(INC_QP(aq_busy), aq_nxtq)
  BY DEF InRing, Dist, COUNT_QE
<1>2. aq_busy # aq_nxtq
  BY <1>s, DistFacts DEF InRing
<1>3. Dist(INC_QP(aq_busy), aq_nxtq) = Dist(aq_busy, aq_nxtq) - 1
  BY <1>s, <1>2, DistFacts
<1>4. Dist(INC_QP(aq_busy), aq_busy) = Max - 1
  BY <1>s, AqAssumption DEF Slot, Dist, COUNT_QE, INC_QP
<1>5. Dist(aq_busy, aq_nxtq) \in 0 .. Max - 1 /\ Dist(aq_busy, s) \in 0 .. Max - 1
  BY <1>s, DistFacts
<1>6. s # aq_busy
  BY <1>s, <1>1, <1>3, <1>4, <1>5
<1>7. Dist(INC_QP(aq_busy), s) = Dist(aq_busy, s) - 1
  BY <1>s, <1>6, DistFacts
<1> QED BY <1>1, <1>3, <1>5, <1>6, <1>7 DEF InRing

(* A recall tells of a request what the user does not know, and marks it;  *)
(* AQWAIT and AQWRITE that come after find the mark.                       *)
LEMMA RecallTells ==
  ASSUME Stays, [Promise!Next]_<<accepted, fate, over>>, Tells, NEW t \in Task,
         enq_recalled(t) \/ wait_recalled(t) \/ stat_recalled(t) \/ close_recalled(t)
  PROVE  Tells'
<1> DEFINE e == eptr[t]
           r == aq_reqid[e]
<1>t. /\ ControlTypeOK /\ LocalsOK /\ Place(t) /\ pc[t] = "recall" /\ sw[e] # "busy"
      /\ aq_reqid \in [Slot -> Request \cup {0}] /\ aq_told \in [Slot -> BOOLEAN]
      /\ sw \in [Slot -> {"busy", "done", "error", "EINTR"}]
      /\ heard \in [Request -> 0 .. 2] /\ over \subseteq Request
  BY DEF Stays, Sound, Ring, Control, Data, SlotsOK, PastOK, enq_recalled, wait_recalled,
     stat_recalled, close_recalled
<1>e. /\ e \in Slot /\ r \in Request /\ r # 0 /\ fate[r] \in Final
      /\ ~InStat(t) => e = aq_busy /\ InRing(e)
      /\ ~InRing(e) => r \in over
      /\ InRing(e) => /\ \A s \in Slot \ {e} : InRing(s) => aq_reqid[s] # r
                      /\ sw[e] = "done" => fate[r] = "done"
  BY <1>t, RecalledSlot DEF Request
<1>o. /\ over' = over \cup {r}
      /\ UNCHANGED <<aq_nxtq, aq_reqid, accepted, fate>>
  BY <1>e DEF enq_recalled, wait_recalled, stat_recalled, close_recalled, slotVars
<1>m. InRing(e) => TellsOf(e)
  BY <1>e DEF Tells, Marks
<1>h. /\ heard[r] \in {0, 1} /\ (r \notin over => heard[r] = 0)
      /\ file = "open" /\ r \in over /\ fate[r] # "done" => heard[r] = 1
  BY <1>e DEF Tells, Heard, Final
<1>1. \A x \in Request \ {r} : heard'[x] = heard[x]
  BY <1>t, <1>e DEF enq_recalled, wait_recalled, stat_recalled, close_recalled, Tell, Answer
<1>2. /\ heard'[r] \in {0, 1} /\ (file' = "open" => file = "open")
      /\ file' = "open" /\ fate[r] # "done" => heard'[r] = 1
  <2>1. CASE enq_recalled(t) \/ wait_recalled(t)
    <3>0. ~InStat(t) /\ file' = file
      BY <2>1 DEF enq_recalled, wait_recalled, InStat
    <3>1. CASE Failed(e) /\ ~aq_told[e]
      <4>1. heard[r] = 0
        BY <1>e, <1>m, <1>h, <3>0, <3>1 DEF TellsOf
      <4>2. heard'[r] = 1
        BY <1>t, <1>e, <2>1, <3>1, <4>1 DEF enq_recalled, wait_recalled, Tell
      <4> QED BY <3>0, <4>2
    <3>2. CASE ~(Failed(e) /\ ~aq_told[e])
      <4>1. heard' = heard
        BY <2>1, <3>2 DEF enq_recalled, wait_recalled
      <4>2. fate[r] # "done" => r \in over
        BY <1>t, <1>e, <1>m, <3>0, <3>2 DEF Failed, TellsOf
      <4> QED BY <1>h, <3>0, <4>1, <4>2
    <3> QED BY <3>1, <3>2
  <2>2. CASE stat_recalled(t)
    <3>1. heard'[r] = heard[r] \/ heard'[r] = 1
      BY <1>t, <1>e, <1>h, <2>2 DEF stat_recalled, Answer
    <3>2. Failed(e) => heard'[r] = 1
      BY <1>t, <1>e, <1>h, <2>2 DEF stat_recalled, Answer
    <3>3. ~Failed(e) /\ fate[r] # "done" => r \in over
      BY <1>t, <1>e DEF Failed
    <3>4. file' = file
      BY <2>2 DEF stat_recalled
    <3> QED BY <1>h, <3>1, <3>2, <3>3, <3>4
  <2>3. CASE close_recalled(t)
    <3>1. file = "closing"
      BY <2>3 DEF close_recalled, Stays, Sound, Ring, Control, Alone
    <3>2. file' # "open" /\ heard' = heard
      BY <2>3, <3>1 DEF close_recalled, CloseFrom
    <3> QED BY <1>h, <3>2
  <2> QED BY <2>1, <2>2, <2>3
<1>3. Heard'
  <2>1. \A x \in Request : heard'[x] \in {0, 1} /\ (x \notin over' => heard'[x] = 0)
    BY <1>o, <1>1, <1>2 DEF Tells, Heard
  <2>2. file' = "open" =>
          \A x \in over' : fate'[x] \in {"failed", "interrupted"} => heard'[x] = 1
    BY <1>t, <1>o, <1>1, <1>2 DEF Tells, Heard
  <2> QED BY <2>1, <2>2 DEF Heard
<1>b. \/ aq_busy' = INC_QP(aq_busy) /\ e = aq_busy
      \/ aq_busy' = aq_busy /\ InStat(t)
  BY <1>e DEF enq_recalled, wait_recalled, stat_recalled, close_recalled, InStat
<1>a. /\ \A s \in Slot \ {e} : aq_told'[s] = aq_told[s]
      /\ InStat(t) => aq_told'[e]
  BY <1>t, <1>e DEF enq_recalled, wait_recalled, stat_recalled, close_recalled, slotVars,
     InStat
<1>4. ASSUME NEW s \in Slot, InRing(s)' PROVE TellsOf(s)'
  <2>1. InRing(s) /\ (s = e => InStat(t) /\ aq_busy' = aq_busy)
    <3>1. CASE aq_busy' = INC_QP(aq_busy) /\ e = aq_busy
      <4>1. InRing(aq_busy)
        <5>1. InStat(t) => aq_busy # aq_nxtq
          BY <1>t, <3>1 DEF Stays, Sound, Ring, RingInv, Knows, Looking, Recalling
        <5>2. aq_busy \in Slot /\ aq_nxtq \in Slot
          BY DEF Stays, Sound, Ring, Data, RingOK
        <5>3. aq_busy # aq_nxtq => InRing(aq_busy)
          BY <5>2, DistFacts DEF InRing
        <5> QED BY <1>e, <3>1, <5>1, <5>3
      <4> QED BY <1>4, <1>o, <3>1, <4>1, Shrinks
    <3>2. CASE aq_busy' = aq_busy /\ InStat(t)
      BY <1>4, <1>o, <3>2 DEF InRing, Dist, COUNT_QE
    <3> QED BY <1>b, <3>1, <3>2
  <2>2. CASE s = e
    BY <1>a, <1>o, <2>1, <2>2 DEF TellsOf
  <2>3. CASE s # e /\ InRing(e)
    BY <1>a, <1>e, <1>o, <2>1, <2>3 DEF TellsOf, Tells, Marks
  <2>4. CASE s # e /\ ~InRing(e)
    BY <1>a, <1>e, <1>o, <2>1, <2>4 DEF TellsOf, Tells, Marks
  <2> QED BY <2>2, <2>3, <2>4
<1>5. ASSUME NEW u \in Task, pc'[u] = "enq_inc" PROVE ~aq_told'[aq_nxtq]
  <2>1. pc[u] = "enq_inc"
    BY <1>t, <1>5 DEF enq_recalled, wait_recalled, stat_recalled, close_recalled, CloseFrom,
       Return, Go, ControlTypeOK
  <2>2. ~InStat(t)
    BY <1>t, <2>1 DEF Stays, Sound, GivenInv, Seeks, Waits, Recalling
  <2>3. e # aq_nxtq /\ aq_nxtq \in Slot
    BY <1>e, <2>2, DistFacts DEF Stays, Sound, Ring, Data, RingOK, InRing
  <2> QED BY <1>a, <2>1, <2>3 DEF Tells, Marks
<1>6. Waiting(t)
  BY <1>t, <1>o DEF enq_recalled, wait_recalled, stat_recalled, close_recalled, CloseFrom,
     Return, Go, Waiting, InWait, ControlTypeOK, LocalsOK
<1>7. StillFound(t)
  <2>1. lock["lkbusy"] = t
    BY RecallHolds DEF Stays, Sound, Ring, enq_recalled, wait_recalled, stat_recalled,
       close_recalled
  <2>2. \A u \in Task \ {t} : pc[u] # "recall_inside"
    BY <2>1 DEF Stays, Sound, Ring, Control, Held, Needed, LockName
  <2> QED BY <2>2 DEF StillFound
<1> QED BY <1>o, <1>3, <1>4, <1>5, <1>6, <1>7, WaitingKeeps DEF Tells, Marks
-----------------------------------------------------------------------------
(* The system completes a transfer: nobody is told.                        *)
LEMMA CompleteTells ==
  ASSUME Stays, [Promise!Next]_<<accepted, fate, over>>, Tells, NEW s \in Slot, Complete(s)
  PROVE  Tells'
<1>1. Silent
  BY DEF Complete, Silent, ringVars, localVars
<1>2. \A u \in Task : Await(u)'
  BY DEF Complete, ringVars, localVars, Tells, Await, Begins, Found, InRing, InWait, Dist,
     COUNT_QE
<1> QED BY <1>1, <1>2, SilentKeeps DEF Tells

LEMMA StutterTells == ASSUME Tells, UNCHANGED vars PROVE Tells'
<1>1. Heard' /\ Marks'
  BY DEF vars, ringVars, slotVars, localVars, pastVars, Tells, Heard, Marks, TellsOf,
     InRing,
     Dist, COUNT_QE
<1>2. \A u \in Task : Await(u)'
  BY DEF vars, ringVars, slotVars, localVars, pastVars, Tells, Await, Begins, Found, InRing,
     InWait, Dist, COUNT_QE
<1> QED BY <1>1, <1>2 DEF Tells

LEMMA TellsStart == Init => Tells
<1> SUFFICES ASSUME Init PROVE Tells
  OBVIOUS
<1>1. Heard
  BY DEF Init, Heard
<1>2. Marks
  <2>1. \A s \in Slot : ~InRing(s)
    BY SlotIsNat, DistFacts DEF Init, InRing
  <2> QED BY <2>1 DEF Init, Marks
<1>3. \A t \in Task : Await(t)
  BY DEF Init, Await, InWait
<1> QED BY <1>1, <1>2, <1>3 DEF Tells

LEMMA TellsNext ==
  ASSUME Stays, [Promise!Next]_<<accepted, fate, over>>, Tells, [Next]_vars
  PROVE  Tells'
<1>1. CASE UNCHANGED vars
  BY <1>1, StutterTells
<1>2. ASSUME NEW s \in Slot, Complete(s) PROVE Tells'
  BY <1>2, CompleteTells
<1>3. CASE \E t \in Task : enq_fill(t) \/ enq_inc(t)
  BY <1>3, FillTells, EnterTells
<1>4. CASE \E t \in Task : \/ enq_recalled(t) \/ wait_recalled(t) \/ stat_recalled(t)
                           \/ close_recalled(t)
  BY <1>4, RecallTells
<1>5. CASE \E t \in Task : \/ AQWAIT(t) \/ wait_lock(t)
                           \/ \E r \in Request : AQRECALL(t, r)
                           \/ recall_lock(t) \/ recall_inside(t)
  BY <1>5, BeginTells
<1>6. CASE \E t \in Task :
             \/ \E start \in BOOLEAN : _aqenq(t, start)
             \/ enq_busy(t)
             \/ _aqcall(t) \/ call_fire(t) \/ call_listio(t) \/ call_listio_fails(t)
             \/ call_listio_interrupted(t) \/ call_restart(t) \/ call_fired(t)
             \/ _aqrcl(t) \/ rcl_ptr(t) \/ rcl_fird(t)
             \/ wait_idle(t) \/ wait_loop(t)
             \/ \E r \in Request, wait \in BOOLEAN : AQSTAT(t, r, wait)
             \/ stat_lock(t) \/ stat_busy(t) \/ AQCLOSE(t) \/ close_lock(t)
  BY <1>6, QuietTells
<1> QED BY <1>1, <1>2, <1>3, <1>4, <1>5, <1>6 DEF Next, InCall

LEMMA StaysInvariant == ASSUME WellUsed PROVE Spec /\ []InTime => []Stays
<1>1. Sound /\ Fates => Stays
  BY DEF Stays
<1> QED BY <1>1, SoundInvariant, FatesInvariant, PTL

LEMMA TellsInvariant == ASSUME WellUsed PROVE Spec /\ []InTime => []Tells
<1>1. Tells /\ Stays /\ Stays' /\ [Next]_vars => Tells'
  BY StepKeeps, TellsNext DEF Keeps, Stays
<1> QED BY <1>1, TellsStart, StaysInvariant, PTL DEF Spec

(* A failed request does not leave the ring before the user was told, and  *)
(* he is told once, whichever of the calls comes first ("only report an    *)
(* error, if the user has not yet seen it").                               *)
THEOREM ErrorsToldOnce == ASSUME WellUsed PROVE Spec /\ []InTime => []ToldOnce
<1>1. Tells => ToldOnce
  BY DEF Tells, Heard, ToldOnce
<1> QED BY <1>1, TellsInvariant, PTL
-----------------------------------------------------------------------------
(* How AQWAIT and AQRECALL can return: at stop, or telling of an error.    *)
LEMMA WaitEnds ==
  ASSUME Stays, Tells, Next, NEW t \in Task, InWait(t), op'[t] = "none"
  PROVE  \/ wait_idle(t) \/ wait_loop(t) \/ wait_recalled(t)
         \/ recall_lock(t) \/ recall_inside(t)
<1>t. ControlTypeOK /\ LocalsOK /\ \A u \in Task : Place(u)
  BY DEF Stays, Sound, Ring, Control, Data
<1>n. op[t] # "none" /\ op[t] # "AQCLOSE"
  BY DEF InWait
<1>c. ASSUME NEW s \in Slot, Complete(s) PROVE FALSE
  BY <1>n, <1>c DEF Complete, localVars
<1>1. ASSUME NEW u \in Task,
             \/ \E start \in BOOLEAN : _aqenq(u, start)
             \/ enq_busy(u) \/ enq_recalled(u) \/ enq_fill(u) \/ enq_inc(u)
      PROVE  FALSE
  <2>1. InEnq(u) \/ pc[u] = "user"
    BY <1>t, <1>1 DEF Place, _aqenq, enq_busy, enq_recalled, enq_fill, enq_inc, InEnq
  <2>2. u # t
    BY <1>t, <1>n, <2>1 DEF Place, InEnq, InWait
  <2>3. op'[t] = op[t]
    BY <1>t, <1>1, <2>2 DEF _aqenq, enq_busy, enq_recalled, enq_fill, enq_inc, Return,
       ControlTypeOK
  <2> QED BY <1>n, <2>3
<1>2. ASSUME NEW u \in Task,
             \/ _aqcall(u) \/ call_fire(u) \/ call_listio(u) \/ call_listio_fails(u)
             \/ call_listio_interrupted(u) \/ call_restart(u) \/ call_fired(u)
      PROVE  FALSE
  <2>1. u = t => then[t] # "user"
    BY <1>t, <1>2 DEF Place, Calling, InEnq, InWait, InStat, _aqcall, call_fire,
       call_listio,
       call_listio_fails, call_listio_interrupted, call_restart, call_fired
  <2>2. op'[t] = op[t]
    BY <1>t, <1>2, <2>1 DEF _aqcall, call_fire, call_listio, call_listio_fails,
       call_listio_interrupted, call_restart, call_fired, EndCall, Return, ControlTypeOK
  <2> QED BY <1>n, <2>2
<1>3. ASSUME NEW u \in Task, _aqrcl(u) \/ rcl_ptr(u) \/ rcl_fird(u) PROVE FALSE
  BY <1>n, <1>3 DEF _aqrcl, rcl_ptr, rcl_fird
<1>4. ASSUME NEW u \in Task,
             \/ AQWAIT(u) \/ wait_lock(u)
             \/ \E r \in Request : AQRECALL(u, r)
             \/ \E r \in Request, wait \in BOOLEAN : AQSTAT(u, r, wait)
      PROVE  FALSE
  BY <1>t, <1>n, <1>4 DEF AQWAIT, wait_lock, AQRECALL, AQSTAT, StartAsking, ControlTypeOK
<1>5. ASSUME NEW u \in Task,
             \/ wait_idle(u) \/ wait_loop(u) \/ wait_recalled(u)
             \/ recall_lock(u) \/ recall_inside(u)
      PROVE  u = t
  BY <1>t, <1>n, <1>5 DEF wait_idle, wait_loop, wait_recalled, recall_lock, recall_inside,
     Return, ControlTypeOK
<1>6. ASSUME NEW u \in Task, stat_lock(u) \/ stat_busy(u) \/ stat_recalled(u) PROVE FALSE
  <2>1. u # t
    BY <1>t, <1>6 DEF Place, InStat, InWait, stat_lock, stat_busy, stat_recalled
  <2> QED BY <1>t, <1>n, <1>6, <2>1 DEF stat_lock, stat_busy, stat_recalled, Return,
          ControlTypeOK
<1>7. ASSUME NEW u \in Task, AQCLOSE(u) \/ close_lock(u) \/ close_recalled(u) PROVE FALSE
  <2>1. u # t
    BY <1>t, <1>n, <1>7 DEF Place, AQCLOSE, close_lock, close_recalled
  <2> QED BY <1>t, <1>n, <1>7, <2>1 DEF AQCLOSE, close_lock, close_recalled, CloseFrom,
          Return, ControlTypeOK
<1> QED BY <1>c, <1>1, <1>2, <1>3, <1>4, <1>5, <1>6, <1>7 DEF Next, InCall

(* When all up to the last request waited for has left the ring, it ended. *)
LEMMA LeftDone ==
  ASSUME Stays, NEW t \in Task, since[t] + Dist(aq_busy, aq_nxtq) <= accepted,
         NEW r \in 1 .. since[t]
  PROVE  Ended(r)
<1>1. /\ since[t] \in Nat /\ since[t] <= MaxRequest /\ accepted \in Nat
      /\ Dist(aq_busy, aq_nxtq) \in Nat /\ MaxRequest \in Nat
  BY DistFacts, AqAssumption DEF Stays, Sound, Ring, Data, RingOK, LocalsOK, PastOK
<1>2. r \in Request /\ r + Dist(aq_busy, aq_nxtq) <= accepted
  BY <1>1 DEF Request
<1>3. r \in over
  BY <1>2 DEF Stays, Sound, Ring, RingInv, LeftOver
<1> QED BY <1>3 DEF Stays, Fates, Final, Ended

(* A recall that ends AQWAIT or AQRECALL tells of an error.                *)
LEMMA RecalledTold ==
  ASSUME Stays, Tells, NEW t \in Task, wait_recalled(t), op'[t] = "none"
  PROVE  heard' # heard
<1> DEFINE r == aq_reqid[eptr[t]]
<1>1. /\ eptr[t] \in Slot /\ r \in Request
      /\ InRing(eptr[t])
  BY RecalledSlot DEF wait_recalled, InStat
<1>2. op[t] # "none" /\ ControlTypeOK /\ heard \in [Request -> 0 .. 2]
  BY DEF wait_recalled, Stays, Sound, Ring, Control, Data, PastOK
<1>3. ~aq_told[eptr[t]] /\ Tell(r)
  BY <1>2 DEF wait_recalled
<1>4. heard[r] = 0
  BY <1>1, <1>3 DEF Tells, Marks, TellsOf, Heard
<1>5. heard'[r] = 1
  BY <1>1, <1>2, <1>3, <1>4 DEF Tell
<1> QED BY <1>4, <1>5

(* When AQWAIT or AQRECALL has waited and reports no error, all that it is *)
(* to wait for is complete, whatever other tasks have accepted, started    *)
(* and recalled in the meantime (aqwait.c, aqrecall.c).                    *)
THEOREM WaitsAreDone == ASSUME WellUsed PROVE Spec /\ []InTime => WaitMeansDone
<1>1. ASSUME Stays, Tells, Next, NEW t \in Task, op[t] \in {"AQWAIT", "AQRECALL"},
             pc[t] # "wait_idle", op'[t] = "none", heard' = heard, NEW r \in 1 .. since[t]
      PROVE  Ended(r)
  <2>1. wait_loop(t) \/ recall_lock(t) \/ recall_inside(t)
    BY <1>1, WaitEnds, RecalledTold DEF InWait, wait_idle
  <2>2. CASE wait_loop(t)
    <3>1. aq_busy = stop[t] /\ pc[t] = "wait_loop"
      BY <1>1, <2>2 DEF wait_loop
    <3>2. since[t] + Dist(aq_busy, aq_nxtq) <= accepted
      BY <1>1, <3>1 DEF Tells, Await, Begins, InWait
    <3> QED BY <1>1, <3>2, LeftDone
  <2>3. CASE recall_lock(t)
    <3>1. since[t] + Dist(aq_busy, aq_nxtq) <= accepted
      BY <1>1, <2>3, LockFinds
    <3> QED BY <1>1, <3>1, LeftDone
  <2>4. CASE recall_inside(t)
    <3>1. ~Inside(aq_busy, eptr[t], aq_nxtq)
      BY <1>1, <2>4 DEF recall_inside
    <3>2. since[t] + Dist(aq_busy, aq_nxtq) <= accepted
      BY <1>1, <2>4, <3>1, InsideStops
    <3> QED BY <1>1, <3>2, LeftDone
  <2> QED BY <2>1, <2>2, <2>3, <2>4
<1>2. Stays /\ Tells /\ [Next]_vars =>
        [\A t \in Task :
           /\ op[t] \in {"AQWAIT", "AQRECALL"} /\ pc[t] # "wait_idle"
           /\ op'[t] = "none" /\ heard' = heard
           => \A r \in 1 .. since[t] : Ended(r)]_vars
  BY <1>1
<1> QED BY <1>2, StaysInvariant, TellsInvariant, PTL DEF Spec, WaitMeansDone

-----------------------------------------------------------------------------
(***************************************************************************)
(* A program whose calls that ask all come from one task, and not about    *)
(* requests that have been recalled, asks in time when the ring is for two *)
(* requests or more: while it waits for its locks only AQREAD and AQWRITE  *)
(* recall, and they do so when the ring is full.                           *)
(***************************************************************************)
OneAsker == ~AskAgain /\ Max >= 3 /\ \A a, b \in Asker : a = b

Looks(t) == pc[t] \in {"recall_lock", "stat_lock", "stat_busy"}
FindsFull(t) == InEnq(t) /\ (Recalling(t) \/ (Calling(t) /\ then[t] = "rcl"))

AsksInTime(t) ==
  /\ InWait(t) \/ InStat(t) => t \in Asker
  /\ Looks(t) => aq_busy # aq_nxtq
  /\ FindsFull(t) => Dist(aq_busy, aq_nxtq) = Max - 1

AskInv == \A t \in Task : AsksInTime(t)

MovesOnly(u) == \A t \in Task \ {u} : UNCHANGED <<pc[t], op[t], then[t]>>

LEMMA AskStays ==
  ASSUME AskInv, NEW u \in Task, MovesOnly(u), UNCHANGED <<aq_busy, aq_nxtq>>, AsksInTime(u)'
  PROVE  AskInv'
<1>1. ASSUME NEW t \in Task, t # u PROVE AsksInTime(t)'
  BY <1>1 DEF AskInv, MovesOnly, AsksInTime, InWait, InStat, InEnq, Looks, FindsFull,
     Recalling, Calling, Dist, COUNT_QE
<1> QED BY <1>1 DEF AskInv

LEMMA EnqAsks ==
  ASSUME Ring, AskInv, NEW u \in Task,
         \/ \E start \in BOOLEAN : _aqenq(u, start)
         \/ enq_busy(u) \/ enq_fill(u)
  PROVE  AskInv'
<1>t. /\ pc \in [Task -> Pc] /\ op \in [Task -> Call] /\ AsksInTime(u) /\ Place(u)
      /\ then \in [Task -> {"user", "rcl", "wait_loop", "close_lock"}]
      /\ Dist(aq_busy, aq_nxtq) \in 0 .. Max - 1 /\ Max \in Nat
  BY AqAssumption, DistFacts DEF Ring, Control, ControlTypeOK, AskInv, Data, RingOK
<1>1. MovesOnly(u) /\ UNCHANGED <<aq_busy, aq_nxtq>>
  BY <1>t DEF MovesOnly, _aqenq, enq_busy, enq_fill, Go, ringVars
<1>2. CASE \E start \in BOOLEAN : _aqenq(u, start)
  <2>1. InEnq(u)' /\ pc'[u] = "enq_busy"
    BY <1>t, <1>2 DEF _aqenq, Go, InEnq
  <2> QED BY <1>1, <2>1, AskStays DEF AsksInTime, InEnq, InWait, InStat, Looks, FindsFull,
          Recalling, Calling
<1>3. CASE enq_busy(u)
  <2>1. op' = op /\ InEnq(u)
    BY <1>t, <1>3 DEF enq_busy, Place
  <2>2. \/ pc'[u] \in {"call", "rcl"} /\ Dist(aq_busy, aq_nxtq) = Max - 1
        \/ pc'[u] = "enq_fill"
    BY <1>t, <1>3 DEF enq_busy, Go, Dist
  <2>3. Dist(aq_busy, aq_nxtq)' = Dist(aq_busy, aq_nxtq)
    BY <1>1 DEF Dist, COUNT_QE
  <2> QED BY <1>1, <2>1, <2>2, <2>3, AskStays DEF AsksInTime, InEnq, InWait, InStat, Looks,
          FindsFull, Recalling, Calling
<1>4. CASE enq_fill(u)
  <2>1. op' = op /\ InEnq(u) /\ pc'[u] = "enq_inc"
    BY <1>t, <1>4 DEF enq_fill, Place, Go
  <2> QED BY <1>1, <2>1, AskStays DEF AsksInTime, InEnq, InWait, InStat, Looks,
          FindsFull, Recalling, Calling
<1> QED BY <1>2, <1>3, <1>4

(* A call goes on, or returns: what it knows of the ring it goes on        *)
(* knowing.                                                                *)
LEMMA GoesOn ==
  ASSUME AskInv, NEW u \in Task, MovesOnly(u), UNCHANGED <<aq_busy, aq_nxtq>>,
         op'[u] \in {op[u], "none"}, pc'[u] \notin {"recall_lock", "stat_lock", "stat_busy"},
         op'[u] = "none" => pc'[u] = "user",
         FindsFull(u)' => FindsFull(u)
  PROVE  AskInv'
<1>1. AsksInTime(u)
  BY DEF AskInv
<1>2. AsksInTime(u)'
  BY <1>1 DEF AsksInTime, InWait, InStat, Looks, Dist, COUNT_QE
<1> QED BY <1>2, AskStays

LEMMA CallAsks ==
  ASSUME Ring, AskInv, NEW u \in Task,
         \/ _aqcall(u) \/ call_fire(u) \/ call_listio(u) \/ call_listio_fails(u)
         \/ call_listio_interrupted(u) \/ call_restart(u) \/ call_fired(u)
  PROVE  AskInv'
<1>t. /\ pc \in [Task -> Pc] /\ op \in [Task -> Call] /\ Place(u)
      /\ then \in [Task -> {"user", "rcl", "wait_loop", "close_lock"}]
  BY DEF Ring, Control, ControlTypeOK
<1>c. Calling(u) /\ UNCHANGED <<aq_busy, aq_nxtq>>
  BY DEF _aqcall, call_fire, call_listio, call_listio_fails, call_listio_interrupted,
     call_restart, call_fired, Calling, ringVars
<1>n. Calling(u) => op[u] # "none"
  BY <1>t DEF Place, InEnq, InWait, InStat
<1>1. CASE UNCHANGED <<op, then>> /\ \E next \in {"fire", "listio", "restart", "fired"} : Go(u, next)
  <2>1. MovesOnly(u) /\ pc'[u] \in {"fire", "listio", "restart", "fired"}
    BY <1>t, <1>1 DEF MovesOnly, Go
  <2>2. FindsFull(u)' => FindsFull(u)
    BY <1>c, <1>1, <2>1 DEF FindsFull, InEnq, Recalling, Calling
  <2> QED BY <1>c, <1>n, <1>1, <2>1, <2>2, GoesOn
<1>2. CASE EndCall(u)
  <2>1. CASE then[u] = "user"
    <3>1. pc'[u] = "user" /\ op'[u] = "none" /\ MovesOnly(u)
      BY <1>t, <1>2, <2>1 DEF EndCall, Return, MovesOnly
    <3> QED BY <1>c, <3>1, GoesOn DEF FindsFull, InEnq
  <2>2. CASE then[u] # "user"
    <3>1. pc'[u] = then[u] /\ op' = op /\ then' = then /\ MovesOnly(u)
      BY <1>t, <1>2, <2>2 DEF EndCall, Go, MovesOnly
    <3>2. FindsFull(u)' => FindsFull(u)
      BY <1>t, <1>c, <2>2, <3>1
        DEF FindsFull, InEnq, InWait, InStat, Recalling, Calling, Place
    <3> QED BY <1>t, <1>c, <1>n, <3>1, <3>2, GoesOn
  <2> QED BY <2>1, <2>2
<1>3. \/ UNCHANGED <<op, then>> /\ \E next \in {"fire", "listio", "restart", "fired"} : Go(u, next)
      \/ EndCall(u)
  BY DEF _aqcall, call_fire, call_listio, call_listio_fails, call_listio_interrupted,
     call_restart, call_fired
<1> QED BY <1>1, <1>2, <1>3

LEMMA RclAsks ==
  ASSUME Ring, AskInv, NEW u \in Task, _aqrcl(u) \/ rcl_ptr(u) \/ rcl_fird(u)
  PROVE  AskInv'
<1>t. pc \in [Task -> Pc] /\ op \in [Task -> Call] /\ Place(u)
  BY DEF Ring, Control, ControlTypeOK
<1>1. /\ Recalling(u) /\ UNCHANGED <<aq_busy, aq_nxtq, op, then>>
      /\ pc'[u] \in {"rcl_ptr", "rcl_fird", "recall"} /\ MovesOnly(u)
  BY <1>t DEF _aqrcl, rcl_ptr, rcl_fird, Recalling, ringVars, Go, MovesOnly
<1>2. op[u] # "none"
  BY <1>t, <1>1 DEF Place, Recalling
<1> QED BY <1>1, <1>2, GoesOn DEF FindsFull, InEnq, Recalling, Calling

LEMMA AskAsks ==
  ASSUME Ring, AskInv, OneAsker, NEW u \in Task,
         \/ AQWAIT(u) \/ wait_idle(u) \/ wait_lock(u) \/ wait_loop(u)
         \/ \E r \in Request : AQRECALL(u, r)
         \/ \E r \in Request, wait \in BOOLEAN : AQSTAT(u, r, wait)
         \/ recall_lock(u) \/ recall_inside(u) \/ stat_lock(u) \/ stat_busy(u)
  PROVE  AskInv'
<1>t. /\ pc \in [Task -> Pc] /\ op \in [Task -> Call] /\ AsksInTime(u) /\ Place(u)
      /\ then \in [Task -> {"user", "rcl", "wait_loop", "close_lock"}]
  BY DEF Ring, Control, ControlTypeOK, AskInv
<1>1. MovesOnly(u) /\ UNCHANGED <<aq_busy, aq_nxtq>>
  BY <1>t DEF MovesOnly, AQWAIT, wait_idle, wait_lock, wait_loop, AQRECALL, AQSTAT,
     StartAsking, recall_lock, recall_inside, stat_lock, stat_busy, Return, Go, ringVars
<1>2. ASSUME NEW r \in Request, AskedAbout(r) PROVE aq_busy # aq_nxtq
  <2>1. /\ aq_busy \in Slot /\ aq_nxtq \in Slot /\ accepted \in Nat /\ r \in Nat
        /\ Dist(aq_busy, aq_nxtq) \in Nat
    BY DistFacts DEF Ring, Data, RingOK, PastOK, Request
  <2>2. r <= accepted /\ r \notin over
    BY <1>2 DEF AskedAbout, OneAsker
  <2>3. r + Dist(aq_busy, aq_nxtq) > accepted
    BY <2>1, <2>2 DEF Ring, RingInv, LeftOver
  <2>4. Dist(aq_busy, aq_nxtq) # 0
    BY <2>1, <2>2, <2>3
  <2> QED BY <2>1, <2>4, DistFacts
<1>3. CASE AQWAIT(u) \/ (\E r \in Request : AQRECALL(u, r))
           \/ \E r \in Request, wait \in BOOLEAN : AQSTAT(u, r, wait)
  <2>1. u \in Asker /\ op'[u] \in {"AQWAIT", "AQRECALL", "AQSTAT", "AQSTAT_wait"}
    BY <1>t, <1>3 DEF AQWAIT, AQRECALL, AQSTAT, StartAsking
  <2>2. pc'[u] # "wait_idle" => aq_busy # aq_nxtq
    BY <1>t, <1>2, <1>3 DEF AQWAIT, AQRECALL, AQSTAT, Go
  <2>3. pc'[u] # "wait_idle" => aq_busy' # aq_nxtq'
    BY <1>1, <2>2
  <2> QED BY <1>1, <2>1, <2>3, AskStays DEF AsksInTime, InEnq, Looks, FindsFull
<1>4. CASE stat_lock(u)
  <2>1. /\ op' = op /\ pc'[u] = "stat_busy" /\ InStat(u) /\ aq_busy # aq_nxtq
    BY <1>t, <1>4 DEF stat_lock, Go, Place, AsksInTime, Looks
  <2>2. aq_busy' # aq_nxtq'
    BY <1>1, <2>1
  <2> QED BY <1>t, <1>1, <2>1, <2>2, AskStays DEF AsksInTime, InEnq, InStat, InWait, Looks,
          FindsFull
<1>5. CASE wait_idle(u) \/ wait_lock(u) \/ wait_loop(u) \/ recall_lock(u) \/ recall_inside(u)
           \/ stat_busy(u)
  <2>1. /\ op'[u] \in {op[u], "none"} /\ pc'[u] \notin {"recall_lock", "stat_lock", "stat_busy"}
        /\ op'[u] = "none" => pc'[u] = "user"
    BY <1>t, <1>5
      DEF wait_idle, wait_lock, wait_loop, recall_lock, recall_inside, stat_busy,
          Return, Go, Place, InWait, InStat
  <2>2. ~InEnq(u)'
    BY <1>t, <1>5, <2>1 DEF wait_idle, wait_lock, wait_loop, recall_lock, recall_inside,
       stat_busy, Place, InWait, InStat, InEnq
  <2> QED BY <1>1, <2>1, <2>2, GoesOn DEF FindsFull
<1> QED BY <1>3, <1>4, <1>5

LEMMA CloseAsks ==
  ASSUME Ring, AskInv, NEW u \in Task, AQCLOSE(u) \/ close_lock(u)
  PROVE  AskInv'
<1>t. /\ pc \in [Task -> Pc] /\ op \in [Task -> Call] /\ Place(u) /\ AsksInTime(u)
      /\ then \in [Task -> {"user", "rcl", "wait_loop", "close_lock"}]
  BY DEF Ring, Control, ControlTypeOK, AskInv
<1>1. MovesOnly(u) /\ UNCHANGED <<aq_busy, aq_nxtq>>
  <2>1. CASE AQCLOSE(u)
    BY <1>t, <2>1 DEF AQCLOSE, MovesOnly, Go, ringVars
  <2>2. CASE close_lock(u)
    BY <1>t, <2>2 DEF close_lock, CloseFrom, MovesOnly, Return, Go, ringVars
  <2> QED BY <2>1, <2>2
<1>2. op'[u] \in {"AQCLOSE", "none"} /\ pc'[u] \notin {"recall_lock", "stat_lock", "stat_busy"}
  <2>1. CASE AQCLOSE(u)
    BY <1>t, <2>1 DEF AQCLOSE, Go
  <2>2. CASE close_lock(u)
    BY <1>t, <2>2 DEF close_lock, CloseFrom, Return, Go, Place
  <2> QED BY <2>1, <2>2
<1> QED BY <1>1, <1>2, AskStays DEF AsksInTime, InWait, InStat, InEnq, Looks, FindsFull

(* A request is recalled: by AQREAD or AQWRITE, of a full ring; or by the  *)
(* one task that asks, or that closes.                                     *)
LEMMA RecallAsks ==
  ASSUME Ring, AskInv, OneAsker, NEW u \in Task,
         enq_recalled(u) \/ wait_recalled(u) \/ stat_recalled(u) \/ close_recalled(u)
  PROVE  AskInv'
<1>t. /\ pc \in [Task -> Pc] /\ op \in [Task -> Call] /\ AsksInTime(u) /\ Place(u)
      /\ then \in [Task -> {"user", "rcl", "wait_loop", "close_lock"}]
      /\ pc[u] = "recall" /\ aq_nxtq' = aq_nxtq /\ aq_nxtq \in Slot /\ aq_busy \in Slot
      /\ Max \in Nat /\ Max >= 3
  BY AqAssumption DEF Ring, Control, ControlTypeOK, AskInv, Data, RingOK, enq_recalled,
     wait_recalled, stat_recalled, close_recalled, OneAsker
<1>1. MovesOnly(u)
  <2>1. CASE enq_recalled(u)
    BY <1>t, <2>1 DEF MovesOnly, enq_recalled, Return, Go
  <2>2. CASE wait_recalled(u)
    BY <1>t, <2>2 DEF MovesOnly, wait_recalled, Return, Go
  <2>3. CASE stat_recalled(u)
    BY <1>t, <2>3 DEF MovesOnly, stat_recalled, Return, Go
  <2>4. CASE close_recalled(u)
    BY <1>t, <2>4 DEF MovesOnly, close_recalled, CloseFrom, Return, Go
  <2> QED BY <2>1, <2>2, <2>3, <2>4
<1>2. /\ op'[u] \in {op[u], "none"}
      /\ pc'[u] \in {"user", "enq_fill", "wait_loop", "rcl"}
      /\ pc'[u] = "rcl" => op[u] = "AQCLOSE"
  <2>1. CASE enq_recalled(u)
    BY <1>t, <2>1 DEF enq_recalled, Return, Go
  <2>2. CASE wait_recalled(u)
    BY <1>t, <2>2 DEF wait_recalled, Return, Go
  <2>3. CASE stat_recalled(u)
    BY <1>t, <2>3 DEF stat_recalled, Return, Go
  <2>4. CASE close_recalled(u)
    BY <1>t, <2>4 DEF close_recalled, CloseFrom, Return, Go
  <2> QED BY <2>1, <2>2, <2>3, <2>4
<1>3. AsksInTime(u)'
  BY <1>t, <1>2 DEF AsksInTime, InWait, InStat, InEnq, Looks, FindsFull, Recalling, Calling
<1>4. ASSUME NEW t \in Task, t # u, Looks(t) PROVE aq_busy' # aq_nxtq'
  <2>1. AsksInTime(t) /\ Place(t) /\ t \in Asker
    BY <1>4 DEF AskInv, Ring, Control, AsksInTime, Looks, Place, InWait, InStat
  <2>2. ~InWait(u) /\ ~InStat(u)
    BY <1>t, <1>4, <2>1 DEF AsksInTime, OneAsker
  <2>3. op[u] # "AQCLOSE"
    BY <1>t, <1>4 DEF Ring, Control, Alone, Looks
  <2>4. enq_recalled(u)
    BY <2>2, <2>3 DEF wait_recalled, stat_recalled, close_recalled, InWait, InStat
  <2>5. Dist(aq_busy, aq_nxtq) = Max - 1 /\ aq_busy' = INC_QP(aq_busy)
    BY <1>t, <2>4 DEF enq_recalled, AsksInTime, FindsFull, InEnq, Recalling
  <2>6. INC_QP(aq_busy) \in Slot /\ aq_busy # aq_nxtq
    BY <1>t, <2>5, DistFacts DEF INC_QP, Slot
  <2>7. Dist(INC_QP(aq_busy), aq_nxtq) = Max - 2
    BY <1>t, <2>5, <2>6, DistFacts
  <2> QED BY <1>t, <2>5, <2>6, <2>7, DistFacts
<1>5. ASSUME NEW t \in Task, t # u PROVE ~FindsFull(t)
  <2>1. /\ Place(t) /\ Held(t) /\ Held(u)
    BY DEF Ring, Control
  <2>2. lock["lkbusy"] = u
    BY <1>t, RecallHolds
  <2>3. FindsFull(t) => "lkbusy" \in Needed(t)
    BY DEF FindsFull, InEnq, Needed, Brought, Recalling, Calling
  <2> QED BY <1>5, <2>1, <2>2, <2>3 DEF Held, LockName
<1>6. ASSUME NEW t \in Task, t # u PROVE AsksInTime(t)'
  <2>1. UNCHANGED <<pc[t], op[t], then[t]>> /\ AsksInTime(t)
    BY <1>1, <1>6 DEF MovesOnly, AskInv
  <2>2. Looks(t)' => aq_busy' # aq_nxtq'
    BY <1>4, <1>6, <2>1 DEF Looks
  <2>3. ~FindsFull(t)'
    BY <1>5, <1>6, <2>1 DEF FindsFull, InEnq, Recalling, Calling
  <2> QED BY <2>1, <2>2, <2>3 DEF AsksInTime, InWait, InStat
<1> QED BY <1>3, <1>6 DEF AskInv

LEMMA EnterAsks ==
  ASSUME Ring, AskInv, NEW u \in Task, enq_inc(u)
  PROVE  AskInv'
<1>t. /\ pc \in [Task -> Pc] /\ op \in [Task -> Call] /\ Place(u) /\ Knows(u) /\ Held(u)
      /\ then \in [Task -> {"user", "rcl", "wait_loop", "close_lock"}]
      /\ pc[u] = "enq_inc" /\ aq_nxtq' = INC_QP(aq_nxtq) /\ aq_busy' = aq_busy
      /\ aq_nxtq \in Slot /\ aq_busy \in Slot
  BY DEF Ring, RingInv, Control, ControlTypeOK, Data, RingOK, enq_inc
<1>1. MovesOnly(u) /\ pc'[u] \in {"user", "call"} /\ (pc'[u] = "call" => then'[u] = "user")
      /\ op'[u] \in {op[u], "none"} /\ InEnq(u)
  BY <1>t DEF MovesOnly, enq_inc, Return, Go, Place
<1>2. aq_busy' # aq_nxtq'
  <2>1. Dist(aq_busy, aq_nxtq) <= Max - 2 /\ INC_QP(aq_nxtq) \in Slot
    BY <1>t, AqAssumption DEF Knows, Filling, INC_QP, Slot
  <2>2. Dist(aq_busy, INC_QP(aq_nxtq)) = Dist(aq_busy, aq_nxtq) + 1
        /\ Dist(aq_busy, aq_nxtq) \in Nat
    BY <1>t, <2>1, DistFacts
  <2> QED BY <1>t, <2>1, <2>2, DistFacts
<1>3. ASSUME NEW t \in Task, t # u PROVE ~FindsFull(t)
  <2>1. /\ Place(t) /\ Held(t) /\ Held(u)
    BY DEF Ring, Control
  <2>2. lock["lknxtq"] = u
    BY <1>t DEF Held, Needed, LockName
  <2>3. FindsFull(t) => "lknxtq" \in Needed(t)
    BY DEF FindsFull, InEnq, Needed, Brought, Recalling, Calling
  <2> QED BY <1>3, <2>1, <2>2, <2>3 DEF Held, LockName
<1>4. ASSUME NEW t \in Task, t # u PROVE AsksInTime(t)'
  <2>1. UNCHANGED <<pc[t], op[t], then[t]>> /\ AsksInTime(t)
    BY <1>1, <1>4 DEF MovesOnly, AskInv
  <2>2. ~FindsFull(t)'
    BY <1>3, <1>4, <2>1 DEF FindsFull, InEnq, Recalling, Calling
  <2> QED BY <1>2, <2>1, <2>2 DEF AsksInTime, InWait, InStat
<1>5. AsksInTime(u)'
  BY <1>t, <1>1 DEF AsksInTime, InWait, InStat, InEnq, Looks, FindsFull, Recalling, Calling
<1> QED BY <1>4, <1>5 DEF AskInv

LEMMA AskNext ==
  ASSUME Ring, AskInv, OneAsker, [Next]_vars
  PROVE  AskInv'
<1>1. CASE UNCHANGED vars
  BY <1>1 DEF vars, ringVars, localVars, AskInv, AsksInTime, InWait, InStat, InEnq, Looks,
     FindsFull, Recalling, Calling, Dist, COUNT_QE
<1>2. ASSUME NEW s \in Slot, Complete(s) PROVE AskInv'
  BY <1>2 DEF Complete, ringVars, localVars, AskInv, AsksInTime, InWait, InStat, InEnq,
     Looks, FindsFull, Recalling, Calling, Dist, COUNT_QE
<1>3. CASE \E t \in Task : \/ \E start \in BOOLEAN : _aqenq(t, start)
                           \/ enq_busy(t) \/ enq_fill(t) \/ enq_inc(t)
  BY <1>3, EnqAsks, EnterAsks
<1>4. CASE \E t \in Task : \/ _aqcall(t) \/ call_fire(t) \/ call_listio(t)
                           \/ call_listio_fails(t) \/ call_listio_interrupted(t)
                           \/ call_restart(t) \/ call_fired(t)
  BY <1>4, CallAsks
<1>5. CASE \E t \in Task : _aqrcl(t) \/ rcl_ptr(t) \/ rcl_fird(t)
  BY <1>5, RclAsks
<1>6. CASE \E t \in Task : \/ AQWAIT(t) \/ wait_idle(t) \/ wait_lock(t) \/ wait_loop(t)
                           \/ \E r \in Request : AQRECALL(t, r)
                           \/ \E r \in Request, wait \in BOOLEAN : AQSTAT(t, r, wait)
                           \/ recall_lock(t) \/ recall_inside(t)
                           \/ stat_lock(t) \/ stat_busy(t)
  BY <1>6, AskAsks
<1>7. CASE \E t \in Task : AQCLOSE(t) \/ close_lock(t)
  BY <1>7, CloseAsks
<1>8. CASE \E t \in Task : \/ enq_recalled(t) \/ wait_recalled(t) \/ stat_recalled(t)
                           \/ close_recalled(t)
  BY <1>8, RecallAsks
<1> QED BY <1>1, <1>2, <1>3, <1>4, <1>5, <1>6, <1>7, <1>8 DEF Next, InCall

(* While the one task that asks about requests not recalled yet waits for  *)
(* the lock to look for its request (aqwait.c:186, aqstat.c:85), the ring  *)
(* is not emptied.                                                         *)
THEOREM OneAskerInTime == ASSUME WellUsed, OneAsker PROVE Spec => []InTime
<1>1. Init => AskInv
  BY DEF Init, AskInv, AsksInTime, InWait, InStat, InEnq, Looks, FindsFull, Task
<1>2. AskInv => InTime
  BY DEF AskInv, AsksInTime, InTime, Looks
<1>3. /\ RingInv /\ AskInv /\ Fired /\ Data /\ Control /\ [Next]_vars
      => RingInv' /\ AskInv'
  BY <1>2, RingNext, AskNext DEF Ring
<1> QED BY <1>1, <1>2, <1>3, RingStarts, FiredInvariant, DataInvariant,
   ControlInvariant, PTL
  DEF Spec

(* So for such programs, with any number of tasks that call AQREAD and     *)
(* AQWRITE, any ring but the smallest, and any number of requests: aq_ptr  *)
(* keeps its place (aqio.h:50-56), nobody waits for a request the system   *)
(* was not given (aqcall.c:83-85), the user hears of each failed request   *)
(* once, and AQCLOSE leaves nothing behind.                                *)
THEOREM OneAskerIsSafe ==
  ASSUME WellUsed, OneAsker
  PROVE  Spec => [](PointersInOrder /\ NoBlindRecall /\ ToldOnce /\ CloseFinishes)
BY OneAskerInTime, RingInOrder, RecallsAreSafe, ErrorsToldOnce, CloseIsClean, PTL

(* They also see requests started once and in the order of acceptance, and *)
(* what they wait for ended when the wait returns.                         *)
THEOREM OneAskerIsServed ==
  ASSUME WellUsed, OneAsker
  PROVE  Spec => KeepsPromise /\ WaitMeansDone
BY OneAskerInTime, PromiseIsKept, WaitsAreDone, PTL
=============================================================================
