SPECIFICATION Spec
CONSTANTS
  MaxFrames = 7
  Block = 2
  SessionEnd = 6
  StopAtEnd = TRUE
  Latched = FALSE
  Confs <- BoundedSessions
  Targets = {0, 3}
INVARIANT
  AutoStopAhead
