CONSTANTS
  MaxInt = 1000
  NoResult = NoResult
  Modules <- MeasuredCounterPrograms
  Width = 8
  MaxBlocks = 16
  MaxSteps = 24
  Name = {"e", "r", "j", "s", "k", "t", "f", "end", "i1", "m1", "i2", "m2", "l", "h", "w", "g", "i"}
  Entry = "e"
  NoCond = "no condition"
SPECIFICATION PairSpec
INVARIANT SameBehaviour
CHECK_DEADLOCK FALSE
