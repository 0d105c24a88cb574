SPECIFICATION Spec
CONSTANTS
  Route4 = {1, 2}
  Route6 = {1}
  InitKeep = 3
  InitHold = 9
  PeerKeep = 1
  PeerHold = 3
  PeerKinds = {"mp", "plain", "nocap", "old", "foreign"}
  StateTime = 2
  Backoff = 1
  MaxRetry = 1
  MaxFaults = 2
  MaxOps = 2
  MaxSlow = 1
CHECK_DEADLOCK FALSE
INVARIANTS
  PeerKept
PROPERTIES
  Settles
  RoutesReach
