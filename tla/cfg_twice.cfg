CONSTANTS
  Name = {"b1", "b2", "b3", "b4"}
  Entry = "b1"
  NoCond = "nocond"
  MCBlocks = 4
  MCCodeless = 0
  Inputs <- MCSoundGraphs
SPECIFICATION TwiceSpec
INVARIANT SeedIndependent
CHECK_DEADLOCK FALSE
