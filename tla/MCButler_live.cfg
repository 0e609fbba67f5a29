SPECIFICATION FairSpec
CONSTANTS
  Kinds = {"Stop"}
  NStreams = 1
  BufferChunks = 1
  PipeSize = 2
  MaxWork = 2
  Callers = {gui}
  gui = gui
  Freewheel = FALSE
  DiskFails = TRUE
PROPERTIES
  WorkCollected
  CallerReturns
  Terminates
