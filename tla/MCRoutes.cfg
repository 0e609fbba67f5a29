SPECIFICATION EitherSpec
CONSTANTS
  t1 = t1
  t2 = t2
  b1 = b1
  ctl = ctl
  g = g
  Routes <- FourRoutes
  Key <- KeyOfFour
  Address <- AddressOfFour
  Kind <- KindOfFour
  MayFeed <- FeedsOfFour
  MayBeSafe = {t1}
  Groups = {g}
  MayJoin = {t1, t2}
CHECK_DEADLOCK FALSE
INVARIANTS
  TypeOK
  FedByIsClosure
  LongLoopsOnly
PROPERTIES
  SinkLast
  SoloingShown
  SoloExclusive
  LatchKeeps
  GroupSolosTogether
  SoloMutes
