CONSTANTS
  N = 4
  Root = 2
  Slots = 2
  ClusterSize = 2
  Word = 16
  A = A
  B = B
  C = C
  NoName = NoName
  Names <- MCNames
  Paths <- MCPaths
  ReadPaths <- MCPaths
  Offsets = {0, 3}
  Lengths = {2}
  Faults = {"write", "power"}
  MaxFaults = 1
SPECIFICATION FairSpec
PROPERTIES
  CallsReturn
CHECK_DEADLOCK FALSE
