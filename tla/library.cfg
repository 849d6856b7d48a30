CONSTANTS
  MaxInt = 1000
  NoResult = NoResult
  Callers = {"t1", "t2"}
  Addresses = {"a1", "a2"}
  Sessions <- MCSessions
  Ending <- MCEnding
  Text <- MCText
SPECIFICATION FairSpec
INVARIANTS TypeOK OneStringPerCall OneOwner
PROPERTIES ImplementsService Answered TextReadsBack CommentReadsBack
CHECK_DEADLOCK FALSE
