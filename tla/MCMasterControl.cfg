SPECIFICATION Spec
CONSTANTS
  VaneReadings <- EdgeReadings
  WindGrid <- EdgeWinds
  Headings = {10, 250}
  LogRate = 15
  LogTime = 220000
  Ticks = {20000}
  ClockWrap = 420000
  NumNames = 1
  CardRecords = 1
  MaxBoots = 1
  CardMayFail = FALSE
  CompassMayHang = FALSE
CHECK_DEADLOCK FALSE
INVARIANTS
  ErrorIsShorterTurn
  RudderOpposesLargeError
PROPERTIES
  SailFollowsWind
