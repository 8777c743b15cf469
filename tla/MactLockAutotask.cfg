\* One of two threads was not created by TSKSTART.
CONSTANTS
  Task = {t1, t2}
  Autotask = {t2}
  NULL = NULL
  Lock = {l1}
  UINT_MAX = 6
  MaxCalls = 1
SPECIFICATION Spec
CHECK_DEADLOCK FALSE
INVARIANT NoFalseDeadlock
