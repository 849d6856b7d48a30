CONSTANTS
  MaxInt = 1000
  NoResult = NoResult
  Modules <- MCModules
  Width = 8
  MaxBlocks = 16
  MaxSteps = 24
  Name = {"e", "r", "j", "s", "k", "t", "f", "end", "i1", "m1", "i2", "m2", "l", "h", "w", "g", "i"}
  Entry = "e"
  NoCond = "no condition"
SPECIFICATION PairSpec
INVARIANTS SameBehaviour SupportedTranslated GraphKept NoPanic
CHECK_DEADLOCK FALSE
