SPECIFICATION StoreSpec
CONSTANTS
  Document = {d1, d2}
  NoDocument = none
  Content = {report}
  NoContent = nothing
  Accepted = {report}
  Stored = {}
  Uploader = {u1, u2}
  Deleter = {}
  MayRefuse <- NoCall
  MayLose <- LostInsert
  MaxBoot = 1
INVARIANTS
  CompensatesOnlyWithoutRow
CHECK_DEADLOCK FALSE
