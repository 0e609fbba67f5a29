SPECIFICATION HaltSpec
CONSTANTS
  Kinds = {"Locate", "Stop"}
  NStreams = 1
  BufferChunks = 1
  PipeSize = 3
  MaxWork = 2
  Callers = {gui}
  gui = gui
  Freewheel = FALSE
  DiskFails = FALSE
PROPERTY
  ButlerOutOfThePicture
CHECK_DEADLOCK FALSE
