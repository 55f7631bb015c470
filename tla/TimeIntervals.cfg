SPECIFICATION Spec
CONSTANTS
  LastMinute = 4
  MaxIntervals = 2
INVARIANTS
  SubtractsExactly
  FitsIffFree
  SlotsInOrder
CHECK_DEADLOCK FALSE
