SPECIFICATION Spec
CONSTANTS
  MaxLine = 6
  RxSize = 2
  NumSentences = 3
  Kind <- MCKind
  HasFix <- MCHasFix
INVARIANTS
  HandedOutLinesAreFragments
  LosslessDelivery
  PositionIsFresh
