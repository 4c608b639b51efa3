CONSTANTS
  Slots = 5
  BootTasks = 2
SPECIFICATION FairSpec
INVARIANTS
  ReturnsOnlyWhenDone
PROPERTIES
  StacksKept
  WaitShrinks
  EveryTaskRuns
  InterruptsLetIn
CHECK_DEADLOCK FALSE
