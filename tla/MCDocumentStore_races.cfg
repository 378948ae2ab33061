SPECIFICATION FairStoreSpec
CONSTANTS
  Document = {d1, d2, d3}
  NoDocument = none
  Content = {report, notes, junk}
  NoContent = nothing
  Accepted = {report, notes}
  Stored = {d1}
  Uploader = {u1, u2}
  Deleter = {x1, x2}
  MayRefuse <- UploadFailures
  MayLose <- LostDelete
  MaxBoot = 2
INVARIANTS
  StoreTypeOK
  NoOrphanBytes
  RowHasBytes
  UniqueContent
PROPERTIES
  DeleteCompletes
CHECK_DEADLOCK FALSE
