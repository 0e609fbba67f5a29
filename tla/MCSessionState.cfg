SPECIFICATION Spec
CONSTANTS
  MaxRev = 3
  DiskFails = TRUE
INVARIANTS
  TypeOK
  FilesWhole
  CleanMeansSaved
  TakeSaved
PROPERTY
  BackupOfPrevious
