SPECIFICATION ApiSpec
CONSTANTS
  ClusterCount = 3
  BlocksPerCluster = 1
  UnitsPerBlock = 2
  FatPerBlock = 3
  FatCopies = 2
  Names = {a, b}
  WriteSizes = {1}
  MaxSize = 3
  CardMayFail = FALSE
  PowerMayFail = FALSE
SYMMETRY NameSymmetry
INVARIANTS
  ReadBack
  NoCrossLink
  ClusterOfPosition
  FatCopiesAgree
