SPECIFICATION Spec
CONSTANTS
  User = {u1, u2}
  Workspace = {w1, w2}
  Nobody = nobody
  s1 = s1
  s2 = s2
  Session = {s1, s2}
  Sends <- BothRemove
INVARIANTS
  OwnerRetained
SYMMETRY Symmetry
CHECK_DEADLOCK FALSE
