SPECIFICATION Spec
CONSTANTS
  Sess = {1, 2}
  NumTbfs = 3
  Rates = {0, 1}
  Kbit = 3
  Ticks = 2
  Word = 4
  Sizes = {3, 7}
  MaxSize = 8
  Jumps = {1, 2}
  MaxPackets = 3
  MaxOps = 2
CHECK_DEADLOCK FALSE
INVARIANTS
  TypeOK
  Conforms
  Queues
PROPERTIES
  Drains
