SPECIFICATION MCAccessSpec
CONSTANTS
  User = {u1, u2}
  Workspace = {w1, w2}
  Document = {d1}
  Nobody = nobody
  s1 = s1
  s2 = s2
  Session = {s1, s2}
  Sends <- OneLowering
INVARIANTS
  TypeOK
  MembershipsRefer
  DropNeverRefused
  DocumentsRefer
PROPERTIES
  LastOwnerKept
SYMMETRY Symmetry
CHECK_DEADLOCK FALSE
