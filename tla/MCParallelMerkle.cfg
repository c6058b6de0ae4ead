SPECIFICATION Spec
CONSTANTS
  SplitSize = 4
  MaxLeaves = 16
  NULL = NULL
INVARIANTS
  TypeOK
  ReadsAreSettled
  SlotsAreExclusive
  ResultIsTheStore
PROPERTIES
  Termination
CHECK_DEADLOCK FALSE
