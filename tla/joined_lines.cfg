CONSTANTS
  MaxInt = 1000
  NoResult = NoResult
  Texts <- JoinedText
SPECIFICATION Spec
INVARIANTS NeverMisread
