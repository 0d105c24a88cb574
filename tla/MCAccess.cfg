SPECIFICATION Spec
CONSTANTS
  Clients = {c1, c2}
  Masked = {c1}
  NoClient = none
  MaxSession = 3
  Swap <- MCSwap
  MaxTunnel = 3
  MaxRadius = 2
  MaxConf = 2
  ConfAddress = 1
  Named <- MCNamed
  ServiceName = "isp"
  OnlyEqual = TRUE
  MaxRoute = 10
  Routed = FALSE
  MaxCalls = 2
  MaxBreaks = 1
CHECK_DEADLOCK FALSE
INVARIANTS
  Linked
  FramesStayInCall
PROPERTIES
  CallsEnd
