\* Programs in which all waiting is at one barrier, assigned with a count of
\* none, one, some or all of the tasks. The system stops when the programs end
\* or wait for ever.
CONSTANTS
  Task = {t1, t2, t3}
  Autotask = {}
  NULL = NULL
  Barrier = {b1}
  Counts = {0, 1, 2, 3}
  UINT_MAX = 6
  MaxCalls = 4
SPECIFICATION FairSpec
CHECK_DEADLOCK FALSE
INVARIANTS
  QueueIntact
  InStep
PROPERTIES
  IsBarrier
  OpeningReleases
