SPECIFICATION Spec
CONSTANTS
  MaxRev = 3
  DiskFails = FALSE
INVARIANT
  RecoveryNeverOlder
