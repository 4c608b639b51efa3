CONSTANTS
  A = A
  Longest = 5
  Lines <- MCLines
  MaxSegments = 3
  Width = 3
SPECIFICATION Spec
INVARIANT
  RequestAsTyped
