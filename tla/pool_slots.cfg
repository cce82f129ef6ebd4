SPECIFICATION Spec
CONSTANTS
  NumTasks = 3
  MaxConcurrent = 2
  Prio <- LastIsUrgent
  Copies = 2
  MaxCrashes = 0
  Events = {}
INVARIANTS
  TypeOK
  NoDoubleSchedule
  ContainersWithinSlots
PROPERTY
  DrainsByPriority
CHECK_DEADLOCK FALSE
