SPECIFICATION ManagerSpec
CONSTANTS
  Document = {d1}
  Stored = {}
  List = {c1, c2}
  Action = {a1, a2}
INVARIANTS
  ManagerTypeOK
  OwnChangesShown
PROPERTIES
  ShownResolves
CHECK_DEADLOCK FALSE
