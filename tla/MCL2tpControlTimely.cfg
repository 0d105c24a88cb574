SPECIFICATION FairSpec
CONSTANTS
  SEQ = 8
  Window <- Narrow
  MaxTries = 5
  Talks = {1, 2}
  Foreign = {2}
  Wild = FALSE
  MaxLoss = 1
  MaxMsgs = 3
INVARIANTS
  NeverGivesUp
PROPERTIES
  AllHandled
CHECK_DEADLOCK FALSE
