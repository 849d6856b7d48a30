CONSTANTS
  MaxInt = 1000
  NoResult = NoResult
  Texts <- MCTexts
SPECIFICATION Spec
INVARIANTS TypeOK EntryIsTagged FunctionsHaveSignatures PrintedIsAccepted NeverMisread
PROPERTIES Advances
