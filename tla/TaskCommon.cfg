SPECIFICATION Spec
CONSTANTS
  t1 = t1
  t2 = t2
  Thread = {t1, t2}
  Block <- ThreeBlocks
  Bytes <- MCBytes
  MaxCalls = 3
CHECK_DEADLOCK FALSE
INVARIANTS Apart RightBlock
PROPERTY StaysPut
