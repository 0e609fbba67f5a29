SPECIFICATION Spec
CONSTANTS
  Kinds <- OneOfEachSort
  NStreams = 1
  BufferChunks = 1
  PipeSize = 2
  MaxWork = 2
  Callers = {}
  Freewheel = FALSE
  DiskFails = TRUE
INVARIANTS
  TypeOK
  WorkInv
  NoLostWork
PROPERTIES
  PromiseKept
