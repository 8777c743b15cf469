\* Main starts three tasks and waits for two of them, one after the other; the third
\* task waits for the one main waits for next. There are enough descriptors, and the
\* descriptor of no task is used again. The system stops when the program has ended.
CONSTANTS
  Thread = {main, c1, c2, c3}
  Main = main
  Foreign = {}
  NoThread = NoThread
  INITIAL_TASKS = 4
  MTS_TO_GET = 1
  Collide = {}
  Named = {c1, c2, c3}
  Starter = {main}
  Waiter = {main, c3}
  Looker = {}
  Garbage = {"TS_Running"}
  MaxMt = 4
  MaxCalls = 2
  MaxLooks = 0
SPECIFICATION Spec
CHECK_DEADLOCK FALSE
INVARIANT WaitMeansEnded
