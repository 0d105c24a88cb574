SPECIFICATION FairSpec
CONSTANTS
  Node = {1, 2, 3}
  HB_MAX_SEQ = 2
  HB_HISTORY_SIZE = 1
  HbTimeout = 3
  ProbeAfter = 1
  MinAdv = 1
  BaseTime = {1}
  Wild = {FALSE}
  Faults = {"crash", "start", "quit", "loss"}
  MaxFaults = 1
  MaxChanges = 0
INVARIANTS
  TypeOK
  SingleMaster
PROPERTIES
  Settles
