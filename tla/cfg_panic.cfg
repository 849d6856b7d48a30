CONSTANTS
  Name = {"b1", "b2", "b3"}
  MCName = {"b1", "b2", "b3"}
  MCCodes = {FALSE}
  Entry = "b1"
  NoCond = "nocond"
  Inputs <- MCAllBlocks
SPECIFICATION Spec
INVARIANTS NeverPanics
CHECK_DEADLOCK FALSE
