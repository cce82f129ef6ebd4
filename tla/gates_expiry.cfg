SPECIFICATION ApprovalsFairSpec
CONSTANTS
  NumTasks = 1
  MaxConcurrent = 1
  Prio <- AllNormal
  Copies = 2
  MaxCrashes = 0
  Events = {}
  Verdict <- OverBudget
  Gated <- CreatePR
  Requests = {r1, r2}
  Calls = {"approve"}
  Expires = TRUE
  Breaks = FALSE
PROPERTY
  RejectedBudgetFails
CHECK_DEADLOCK FALSE
