\* Two tasks that queue, one that asks and closes the file and that signals may
\* interrupt, and a ring of three slots, one of which is always empty: the pointers
\* wrap around, batches are split, and the ring is full of requests, started or not.
\* The system stops when the program has ended.
CONSTANTS
  Queuer = {q1, q2}
  Asker = {a}
  Closer = {a}
  Signalled = {a}
  NoTask = NoTask
  Max = 3
  AskAgain = FALSE
  MaxRequest = 3
  MaxAsks = 2
  MaxSignals = 1
SPECIFICATION FairSpec
CHECK_DEADLOCK FALSE
INVARIANTS
  PointersInOrder
  FiredUpToPtr
  LocksInOrder
  NoBlindRecall
  ToldOnce
  CloseFinishes
PROPERTIES
  KeepsPromise
  WaitMeansDone
  EveryCallReturns
