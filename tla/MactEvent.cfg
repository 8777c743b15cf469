\* Programs in which all waiting is on one event. The system stops when the
\* programs end or wait for ever.
CONSTANTS
  Task = {t1, t2, t3}
  Autotask = {}
  NULL = NULL
  Event = {e1}
  UINT_MAX = 6
  MaxCalls = 3
SPECIFICATION FairSpec
CHECK_DEADLOCK FALSE
INVARIANTS
  QueueIntact
PROPERTIES
  IsEvent
  PostReleases
