\* A program that releases an event as soon as its last wait has returned.
CONSTANTS
  t1 = t1
  t2 = t2
  t3 = t3
  Task = {t1, t2, t3}
  Autotask = {}
  NULL = NULL
  Lock = {l1, l2}
  Event = {e1, e2}
  Barrier = {b1, b2}
  Counts = {2}
  UINT_MAX = 6
  MaxCalls = 4
  Programs <- EarlyRelease
SPECIFICATION Spec
CHECK_DEADLOCK FALSE
PROPERTY ReleasedIdle
