SPECIFICATION FairSpec
CONSTANTS
  MaxFrames = 7
  Block = 2
  SessionEnd = 6
  StopAtEnd = TRUE
  Latched = FALSE
  Confs <- Sessions
  Targets = {0, 3}
INVARIANTS
  TypeOK
  StopHonoured
  LocateArrives
  AtRestInSync
  PlaysWhatItShows
PROPERTIES
  Settles
  TakesContinuous
