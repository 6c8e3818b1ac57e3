SPECIFICATION FairSpec
CONSTANTS
  MaxLine = 6
  RxSize = 1
  NumSentences = 3
  Kind <- MCKind
  HasFix <- MCHasFix
INVARIANTS
  PromptParseStaysInside
  PromptPositionIsFresh
PROPERTIES
  PromptParseIsAtomic
  EventuallyLastPosition
