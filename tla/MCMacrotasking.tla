--------------------------- MODULE MCMacrotasking ----------------------------
(* Programs for Macrotasking, with t1 as the main task. *)
EXTENDS Macrotasking, TLC

CONSTANTS t1, t2, t3

Program(main, second, third) ==
  [t \in Task |-> IF t = t1 THEN main ELSE IF t = t2 THEN second ELSE third]

(* Main or another task releases an object that nobody is inside of any    *)
(* more, and assigns the variable again; or releases what is in use.       *)
LifeOfALock ==
  { Program(<<"LOCKASGN_ANYWAY", "LOCKON", "LOCKOFF", "join", "LOCKREL", "LOCKASGN", "LOCKON">>,
            <<"LOCKON", "LOCKOFF">>, <<"LOCKTEST", "LOCKOFF">>),
    Program(<<"LOCKASGN", "LOCKON", "LOCKOFF">>,
            <<"LOCKON", "LOCKASGN", "LOCKOFF", "join", "LOCKREL", "LOCKASGN", "LOCKTEST">>,
            <<"LOCKON", "LOCKOFF">>),
    Program(<<"LOCKASGN", "LOCKON", "LOCKREL">>, <<"LOCKON", "LOCKOFF">>, <<>>) }

LifeOfAnEvent ==
  { Program(<<"EVASGN_ANYWAY", "EVWAIT", "join", "EVREL", "EVASGN", "EVPOST">>,
            <<"EVPOST", "EVWAIT">>, <<"EVWAIT">>),
    Program(<<"EVASGN", "join", "EVREL">>, <<"EVWAIT">>, <<"EVCLEAR">>),
    Program(<<"EVASGN", "join", "EVREL">>, <<"EVCLEAR", "EVASGN">>, <<>>) }

LifeOfABarrier ==
  { Program(<<"BARASGN", "BARSYNC", "join", "BARREL", "BARASGN", "BARSYNC">>,
            <<"BARSYNC">>, <<"BARSYNC">>),
    Program(<<"BARASGN", "join", "BARREL">>, <<"BARSYNC", "BARSYNC">>, <<>>) }

(* Tasks that wait for different things, perhaps for ever: when nobody     *)
(* posts, or the barrier is for more than come.  No two of them wait again *)
(* behind a walk that has just woken one: two_barriers shows what happens. *)
Mixed ==
  { Program(<<"LOCKASGN", "EVASGN", "BARASGN", "LOCKON", "EVWAIT", "LOCKOFF">>,
            <<"LOCKON", "EVPOST", "LOCKOFF">>, <<"BARSYNC">>),
    Program(<<"LOCKASGN", "EVASGN", "BARASGN", "LOCKON", "LOCKOFF", "EVWAIT">>,
            <<"LOCKON", "LOCKOFF", "EVWAIT">>, <<"BARSYNC">>),
    Program(<<"LOCKASGN", "BARASGN", "LOCKON", "BARSYNC", "LOCKOFF">>,
            <<"BARSYNC", "LOCKON", "LOCKOFF">>, <<"LOCKTEST", "LOCKOFF">>),
    Program(<<"EVASGN", "BARASGN", "BARSYNC", "EVPOST">>,
            <<"BARSYNC", "EVWAIT">>, <<"EVCLEAR">>) }

OrderlyPrograms == LifeOfALock \cup LifeOfAnEvent \cup LifeOfABarrier \cup Mixed

(* Two tasks wait for the event; the third posts it once both sleep; main  *)
(* is the last to need it, and releases it when its EVWAIT has returned.   *)
EarlyRelease ==
  { Program(<<"EVASGN", "EVWAIT", "EVREL">>, <<"EVWAIT">>, <<"join", "EVPOST">>) }
=============================================================================
