SPECIFICATION Spec
CONSTANTS
  Ncps = {"ipcp", "ipv6cp", "ccp"}
  Prefers = "CHAP"
  AuthTypes = {"PAP", "CHAP"}
  Picky = {"lcp", "ipcp"}
  MaxConfigure = 2
  MaxChap = 2
  MaxLoss = 1
  MaxEarly = 1
CHECK_DEADLOCK FALSE
INVARIANTS
  PhasesInOrder
  LayersAgree
PROPERTIES
  Converges
