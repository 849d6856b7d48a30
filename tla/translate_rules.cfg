CONSTANTS
  MaxInt = 1000
  NoResult = NoResult
  Modules <- AllPrograms
SPECIFICATION FairSpec
INVARIANTS TypeOK RegistersCoverProgram LoweredBlocksWellFormed IntsDeclaredBeforeUse
PROPERTIES LoweredBlocksOnlyGrow Finishes
CHECK_DEADLOCK FALSE
