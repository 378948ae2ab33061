SPECIFICATION Spec
CONSTANTS
  Document = {d1}
  NoDocument = none
  Content = {report}
  NoContent = nothing
  Accepted = {report}
  Stored = {d1}
  Uploader = {}
  Deleter = {}
  Job = {j1, j2}
  NoJob = nojob
  Request = {r1, r2}
  Chunk <- MCChunk
  ChunksOf <- MCChunksOf
  MayRefuse <- RecordedFailures
  MayLose <- NoCall
  MaxBoot = 1
INVARIANTS
  SucceededMeansUsable
CHECK_DEADLOCK FALSE
