CONSTANTS
  Word = 16
  PerSector = 2
  LbaLimit = 9
  Values = {0, 1}
  NoCall = NoCall
  MaxCalls = 3
  MaxTotal = 9
  Mbrs <- MCMbrs
  Boots <- MCBoots
SPECIFICATION Spec
INVARIANTS
  LayoutSound
PROPERTIES
  ImplementsTable
  CopiesFollow
CHECK_DEADLOCK FALSE
