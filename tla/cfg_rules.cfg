CONSTANTS
  Name = {"b1", "b2", "b3", "b4"}
  MCName = {"b1", "b2", "b3"}
  MCCodes = {FALSE}
  Entry = "b1"
  NoCond = "nocond"
  Inputs <- MCRuleLists
SPECIFICATION FairSpec
INVARIANTS TypeOK GraphInSync ReachabilityKept NoPanicOnSoundInput
PROPERTIES EveryStepShrinks Terminates
CHECK_DEADLOCK FALSE
