CONSTANTS
  N = 3
  Root = 2
  Slots = 3
  ClusterSize = 2
  Word = 16
  A = A
  B = B
  NoName = NoName
  Names <- MCNames
  Paths <- MCPaths
  Offsets = {0, 2}
  Lengths = {1}
  Faults = {"write"}
  MaxFaults = 1
SPECIFICATION TreeSpec
SYMMETRY NameSymmetry
PROPERTIES
  ImplementsTree
