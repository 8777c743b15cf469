\* A main task, two tasks, the second of which the first may start, and a thread that
\* TSKSTART did not create. Main and the second task wait for others, each up to twice.
\* The foreign thread looks itself up once. The ids of one
\* task and of the foreign thread hash to one chain, and the first descriptors run out.
\* The system stops when the program has ended.
CONSTANTS
  Thread = {main, c1, c2, f}
  Main = main
  Foreign = {f}
  NoThread = NoThread
  INITIAL_TASKS = 2
  MTS_TO_GET = 3
  Collide = {c1, f}
  Named = {c1}
  Starter = {main, c1}
  Waiter = {main, c2}
  Looker = {f}
  Garbage = {"TS_Running"}
  MaxMt = 5
  MaxCalls = 2
  MaxLooks = 1
SPECIFICATION FairSpec
CHECK_DEADLOCK FALSE
INVARIANTS
  ListsIntact
  ListFits
  LooksAreRight
  EarlyOnlyByMishap
  NobodyForgotten
  NoFalseDeadlock
PROPERTY WaitReturns
