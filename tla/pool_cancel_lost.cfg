SPECIFICATION Spec
CONSTANTS
  NumTasks = 1
  MaxConcurrent = 1
  Prio <- LastIsUrgent
  Copies = 2
  MaxCrashes = 0
  Events = {"cancel"}
PROPERTY
  CancelledIsFinal
CHECK_DEADLOCK FALSE
