SPECIFICATION Spec
CONSTANTS
  MaxSession = 2
  User = {u1}
  NoUser = NoUser
  MaxFilter = 1
  Name = {acl}
  NoName = NoName
  Cli = {p1, p2}
  MaxLogins = 3
  MaxCommands = 2
INVARIANTS
  OnlyNamed
  Counts
PROPERTIES
  DropsObeyed
SYMMETRY Children
CHECK_DEADLOCK FALSE
