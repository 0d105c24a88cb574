SPECIFICATION Spec
CONSTANTS
  MaxSession = 2
  User = {u1}
  NoUser = none
  MaxBundle = 1
  MAXFRAGNUM = 8
  MaxSeq = 32
  Word = 64
  Cuts = {}
  LowSeq = 9
  MaxLogins = 3
  MaxFragments = 25
  MaxAhead = 2
  MaxFaults = 1
CHECK_DEADLOCK FALSE
INVARIANTS
  Reassembly
  Recovers
PROPERTIES
  InTurn
