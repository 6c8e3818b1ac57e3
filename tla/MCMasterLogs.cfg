SPECIFICATION FairSpec
CONSTANTS
  VaneReadings = {0}
  WindGrid = {}
  Headings = {0}
  LogRate = 2
  LogTime = 100000
  Ticks = {20000}
  ClockWrap = 160000
  NumNames = 3
  CardRecords = 4
  MaxBoots = 4
  CardMayFail = TRUE
  CompassMayHang = TRUE
CHECK_DEADLOCK FALSE
INVARIANTS
  
  MixedOnlyInLastLog
  RecordsAreSaved
PROPERTIES
  LogIsFileStore
  LoggingEnds
