SPECIFICATION Spec
CONSTANTS
  Node = {1, 2}
  HB_MAX_SEQ = 6
  HB_HISTORY_SIZE = 2
  HbTimeout = 3
  ProbeAfter = 1
  MinAdv = 1
  BaseTime = {1, 2}
  Wild = {TRUE, FALSE}
  Faults = {"crash", "start", "quit", "loss"}
  MaxFaults = 2
  MaxChanges = 1
INVARIANTS
  InStepSameTables
PROPERTIES
  ConflictLeavesMaster
