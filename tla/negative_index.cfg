CONSTANTS
  MaxInt = 1000
  NoResult = NoResult
  Modules <- OddPrograms
SPECIFICATION Spec
INVARIANTS IndexesNonNegative
CHECK_DEADLOCK FALSE
