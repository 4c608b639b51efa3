CONSTANTS
  PageSize = 2
  MemoryLimit = 8
  BitsPerByte = 1
  Top = 9
  Maps <- MCMaps
  BootDatas <- MCBootDatas
SPECIFICATION Spec
INVARIANTS
  FreePagesAreFree
  NoPageLost
  BitmapHarmless
  GivesUpOnlyWithoutRoom
CHECK_DEADLOCK FALSE
