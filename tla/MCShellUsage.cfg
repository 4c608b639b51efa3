CONSTANTS
  A = A
  Longest = 2
  Lines <- MCLines
  MaxSegments = 3
  Width = 3
SPECIFICATION Spec
INVARIANT
  NothingWithoutPath
