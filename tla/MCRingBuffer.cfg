SPECIFICATION Spec
CONSTANTS
  Size = 4
  Values = {1, 2}
  MaxCount = 3
INVARIANTS
  NoSlotShared
PROPERTY
  Fifo
