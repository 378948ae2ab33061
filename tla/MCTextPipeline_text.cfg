CONSTANTS
  ChunkSize = 4
  Overlap = 2
  CharsPerToken = 2
  BatchSize = 2
  Limit <- MCLimit
  ReadBytes = 16
  HeaderWindow = 3
  Sniff = 5
  Margin = 3
  Files <- MCFiles
SPECIFICATION Spec
INVARIANTS
  TypeOK
  CapExact
  TextAccepted
  FailureExplained
  ProseKept
  ProvenanceExact
  CleaningLossless
  SpansExact
  TextCovered
  ChunksAdvance
  BudgetsKept
  PagesAttributed
  VectorsBelong
CHECK_DEADLOCK FALSE
