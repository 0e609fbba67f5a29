SPECIFICATION FairSpec
CONSTANTS
  Kinds = {}
  NStreams = 2
  BufferChunks = 3
  PipeSize = 2
  MaxWork = 2
  Callers = {}
  Freewheel = TRUE
  DiskFails = FALSE
INVARIANTS
  ExportNeverOutruns
PROPERTY
  ExportAdvances
