SPECIFICATION Spec
CONSTANTS
  MaxSession = 2
  MaxRadius = 1
  Pool = {1}
  Framed = {1, 2}
  MaxCalls = 3
CHECK_DEADLOCK FALSE
INVARIANTS
  
  RadiusSlots
PROPERTIES
  SessionsEnd
