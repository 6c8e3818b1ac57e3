SPECIFICATION LogSpec
CONSTANTS
  ClusterCount = 3
  BlocksPerCluster = 1
  UnitsPerBlock = 2
  FatPerBlock = 3
  FatCopies = 2
  Names = {a, b}
  WriteSizes = {1, 3}
  MaxSize = 4
  CardMayFail = FALSE
  PowerMayFail = TRUE
SYMMETRY NameSymmetry
INVARIANTS
  CrashConsistent
PROPERTIES
  ImplementsFileStore
