CONSTANTS
  N = 3
  Root = 2
  Slots = 3
  ClusterSize = 2
  Word = 16
  A = A
  B = B
  NoName = NoName
  Names <- MCNames
  Paths <- MCPaths
  ReadPaths <- MCReadPaths
  Offsets = {0, 3, 13, 15}
  Lengths = {0, 2}
  Faults = {"write", "power", "lookup"}
  MaxFaults = 1
SPECIFICATION Spec
SYMMETRY NameSymmetry
INVARIANTS
  TypeOK
  NoCrossLink
  Consistent
  NoDanglingEntry
  DirectoriesFormTree
  NamesUnique
  LookupsAgree
  ReadsWhole
PROPERTIES
  NoClusterLost
  OthersUntouched
  OnlyRemovalDrops
CHECK_DEADLOCK FALSE
