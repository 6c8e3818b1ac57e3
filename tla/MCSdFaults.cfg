SPECIFICATION Spec
CONSTANTS
  MaxCommands = 5
  MaxEvents = 2
  Patches = 2
  MaxWait = 1
  MaxLosses = 1
  CardBlocks = {0, 1, 512}
  BlockSize = 2
  MaxWrites = 2
  Steppers = {1}
  StepCounts = {1, 3}
  FileNames = {a, b}
  Bench = {"files", "full", "directory"}
SYMMETRY FileSymmetry
CHECK_DEADLOCK FALSE
INVARIANTS
  DirectoriesOwnTheirClusters
  NoLostClusters
  ListsEachOnce
PROPERTIES
  OthersUntouched
  LosesOnlyUnwritten
