SPECIFICATION Spec
CONSTANTS
  Types = {"AutoLoop", "StopOnce", "LocateRoll"}
  Frames = {0, 1, 2, 3}
  MaxEvents = 3
  MaxImm = 1
INVARIANTS
  TypeOK
  Ordered
  NextIsFirstDue
  OneOfEach
PROPERTY
  OtherTypesAlone
