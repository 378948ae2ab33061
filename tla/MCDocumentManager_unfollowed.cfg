SPECIFICATION ServedSpec
CONSTANTS
  Document = {d1}
  Stored = {d1}
  List = {c1}
  Action = {a1}
PROPERTIES
  ProcessFollowed
CHECK_DEADLOCK FALSE
