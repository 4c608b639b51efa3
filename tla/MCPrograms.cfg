CONSTANTS
  PageCount = 20
  Reserved = {0}
  KernelTable = 0
  LayerCount = 2
  TableLimit = 2
  StackPages = 2
  Depth = 3
  Examples = 1
  ConsolePages = 1
  ImageSizes = {1, 2}
  LayerSizes = {0, 1, 2}
  TableCounts = {1, 3}
SPECIFICATION FairSpec
INVARIANTS
  PagesAccounted
  HandlesSound
  ActiveIsInnermost
PROPERTIES
  OthersUntouched
  CallerResumes
CHECK_DEADLOCK FALSE
