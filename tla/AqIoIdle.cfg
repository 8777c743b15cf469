\* AQWAIT against tasks that queue. The system stops when the program has ended.
CONSTANTS
  Queuer = {q1, q2}
  Asker = {a}
  Closer = {}
  Signalled = {}
  NoTask = NoTask
  Max = 3
  AskAgain = FALSE
  MaxRequest = 3
  MaxAsks = 1
  MaxSignals = 0
SPECIFICATION Spec
CHECK_DEADLOCK FALSE
PROPERTY IdleMeansIdle
