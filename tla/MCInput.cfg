CONSTANTS
  a = a
  A = A
  one = one
  bang = bang
  A_key = A_key
  One_key = One_key
  Enter_key = Enter_key
  Chars = {a, A, one, bang, enter, erase}
  Nul = nul
  Size = 3
  Letter = {A_key}
  Other = {One_key, Enter_key}
  Normal <- MCNormal
  Shifted <- MCShifted
  ShiftKeys = {LeftShift, RightShift}
  CapsLock = CapsLock
  BackspaceKey = BackspaceKey
  Erase = erase
  Enter = enter
  MaxPackets = 3
  LineMax = 2
  KeyboardQueue = 2
  Movements <- MCMovements
  Mixes <- MCMixes
  MaxLost = 1
SPECIFICATION FairInputSpec
CHECK_DEADLOCK FALSE
INVARIANTS
  LineAsTyped
  PacketsAlign
  ConfigurationKept
PROPERTIES
  ImplementsQueue
  BytesServed
