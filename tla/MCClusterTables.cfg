SPECIFICATION FairSpec
CONSTANTS
  Slave = {s1}
  Data = {d1}
  Free = Free
  Undef = Undef
  d1 = d1
  LastId <- SmallTables
  MAX_CHANGES = 1
  HB_HISTORY_SIZE = 1
  MAX_HEART_SIZE = 14
  HeaderSize = 1
  EntryHeader = 1
  StructSize <- Structs
  PackedSize <- Packed
  s1 = s1
INVARIANTS
  TypeOK
  UndefExact
  UptodateDefined
  NoLostChange
PROPERTIES
  JoinCompletes
  WalkRepairs
