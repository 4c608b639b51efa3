CONSTANTS
  Slots = 3
  BootTasks = 2
SPECIFICATION Spec
PROPERTIES
  FinishedSlotReused
CHECK_DEADLOCK FALSE
