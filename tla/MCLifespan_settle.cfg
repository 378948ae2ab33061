SPECIFICATION LifeSpec
CONSTANTS
  Document = {d1}
  NoDocument = none
  Content = {report}
  NoContent = nothing
  Accepted = {report}
  Stored = {d1}
  Uploader = {}
  Deleter = {x1}
  Job = {j1, j2}
  NoJob = nojob
  Request = {r1, r2}
  Chunk <- MCChunk
  ChunksOf <- MCChunksOf
  MayRefuse <- RunFailures
  MayLose <- NoCall
  MaxBoot = 2
INVARIANTS
  StopLosesOnlyAbandoned
PROPERTIES
  JobsSettle
  DocumentsSettle
  CutRunsAreRecorded
CHECK_DEADLOCK FALSE
