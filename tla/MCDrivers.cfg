SPECIFICATION FairSpec
CONSTANTS
  MaxCommands = 5
  MaxEvents = 2
  Patches = 2
  MaxWait = 1
  MaxLosses = 1
  CardBlocks = {0, 1, 512}
  BlockSize = 2
  MaxWrites = 2
  Steppers = {1}
  StepCounts = {1, 3}
  FileNames = {a, b}
  Bench = {"spi", "net", "card", "motor", "fuzzy"}
CHECK_DEADLOCK FALSE
INVARIANTS
  FlagsFollowDevice
  ReadsAskedBlock
PROPERTIES
  ImplementsExchange
  PacketIsKept
  EveryCallReturns
  EventsReachHost
  SmartConfigPersists
  WaitsEnd
  WrittenMeansProgrammed
  StepTurnsOneMotor
  RudderTowardsCourse
