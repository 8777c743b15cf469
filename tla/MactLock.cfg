\* Three tasks, two locks: nested locking, hand-over and deadlock. A task that
\* waits for another that has ended its program waits for ever, so TLC does
\* not look for states without successors.
CONSTANTS
  Task = {t1, t2, t3}
  Autotask = {}
  NULL = NULL
  Lock = {l1, l2}
  UINT_MAX = 6
  MaxCalls = 2
SPECIFICATION FairSpec
CHECK_DEADLOCK FALSE
INVARIANTS
  MutualExclusion
  QueueIntact
  RunnableCountExact
  NoFalseDeadlock
  HangIsReported
PROPERTIES
  IsFifoLock
  WaiterGetsLock
