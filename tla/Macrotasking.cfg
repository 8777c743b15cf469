\* Programs that assign an object once at a time and release it when no other task is
\* inside a call on it, except asleep. malloc has two blocks of each kind, so that one
\* is used again.
CONSTANTS
  t1 = t1
  t2 = t2
  t3 = t3
  Task = {t1, t2, t3}
  Autotask = {}
  NULL = NULL
  Lock = {l1, l2}
  Event = {e1, e2}
  Barrier = {b1, b2}
  Counts = {0, 1, 2, 3}
  UINT_MAX = 6
  MaxCalls = 4
  Programs <- OrderlyPrograms
SPECIFICATION Spec
CHECK_DEADLOCK FALSE
INVARIANTS
  TypeOK
  SameObject
  RefusedRightly
  NoFalseDeadlock
  HangIsReported
  Orderly
PROPERTY ReleasedIdle
