SPECIFICATION Spec
CONSTANTS
  Document = {d1, d2}
  NoDocument = none
  Content = {report}
  NoContent = nothing
  Accepted = {report}
  Stored = {d1}
  Uploader = {u1}
  Deleter = {x1}
  Job = {j1, j2, j3}
  NoJob = nojob
  Request = {r1, r2, r3}
  Chunk <- MCChunk
  ChunksOf <- MCChunksOf
  MayRefuse <- DeleteFailures
  MayLose <- StoreWrites
  MaxBoot = 2
INVARIANTS
  RemovalNeverOrphans
  RunsNeverOverlap
  HiddenOnlyByOverlap
  AttemptsInOrder
SYMMETRY Symmetry
CHECK_DEADLOCK FALSE
