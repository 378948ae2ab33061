SPECIFICATION StatusSpec
CONSTANTS
  Document = {d1}
  NoDocument = none
  Content = {report}
  NoContent = nothing
  Accepted = {report}
  Stored = {d1}
  Uploader = {}
  Deleter = {x1}
  Job = {j1, j2}
  NoJob = nojob
  Request = {r1, r2}
  Chunk <- MCChunk
  ChunksOf <- MCChunksOf
  MayRefuse <- EveryCall
  MayLose <- EveryCall
  MaxBoot = 3
INVARIANTS
  TypeOK
  ReadyIsRetrievable
  StageBoundsEffects
  StatusNamesJob
PROPERTIES
  ImplementsLifecycle
  ImplementsDocuments
SYMMETRY Symmetry
CHECK_DEADLOCK FALSE
