\* Two barriers that all three tasks pass in any order: a task that is woken at
\* one may wait at the other before the waker is done.
CONSTANTS
  Task = {t1, t2, t3}
  Autotask = {}
  NULL = NULL
  Barrier = {b1, b2}
  Counts = {3}
  UINT_MAX = 6
  MaxCalls = 2
SPECIFICATION Spec
CHECK_DEADLOCK FALSE
INVARIANT NobodyStranded
