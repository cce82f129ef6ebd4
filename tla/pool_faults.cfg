SPECIFICATION Spec
CONSTANTS
  NumTasks = 2
  MaxConcurrent = 1
  Prio <- LastIsUrgent
  Copies = 2
  MaxCrashes = 1
  Events = {"cancel", "delete", "crash", "raise"}
INVARIANTS
  SlotAccounting
  RunsAtMostOnce
  ActiveHasRunner
PROPERTIES
  OutcomeIsFinal
  ImplementsSlotPool
CHECK_DEADLOCK FALSE
