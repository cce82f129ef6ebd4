SPECIFICATION FairSpec
CONSTANTS
  NumTasks = 2
  MaxConcurrent = 1
  Prio <- LastIsUrgent
  Copies = 2
  MaxCrashes = 1
  Events = {"cancel", "crash", "docker"}
PROPERTIES
  SubmittedSettles
  QueueDrains
CHECK_DEADLOCK FALSE
