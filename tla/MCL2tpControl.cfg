SPECIFICATION Spec
CONSTANTS
  SEQ = 4
  Window <- Wide
  MaxTries = 1
  Talks = {1}
  Foreign = {}
  Wild = TRUE
  MaxLoss = 0
  MaxMsgs = 5
INVARIANTS
  TypeOK
  WindowFull
  ReleasedIsHandled
  TimerRuns
PROPERTIES
  InOrderOnce
CHECK_DEADLOCK FALSE
