CONSTANTS
  Name = {"b1", "b2", "b3", "b4", "b5", "b6", "b7", "b8", "b9", "b10", "b11"}
  Entry = "b1"
  NoCond = "nocond"
  MCName = {"b1", "b2", "b3"}
  MCCodes = {TRUE, FALSE}
  MCBlocks = 4
  MCCodeless = 1
  MaxSize = 3
  Inputs <- MCInputs
SPECIFICATION ExecSpec
INVARIANTS NoPanicOnSoundInput StructuredAccepted NoEndlessTests
PROPERTIES ImplementsSource
CHECK_DEADLOCK FALSE
