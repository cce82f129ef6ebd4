SPECIFICATION ApprovalsSpec
CONSTANTS
  NumTasks = 2
  MaxConcurrent = 1
  Prio <- AllNormal
  Copies = 2
  MaxCrashes = 0
  Events = {}
  Verdict <- FirstPasses
  Gated <- CreatePR
  Requests = {r1, r2}
  Calls = {}
  Expires = FALSE
  Breaks = FALSE
INVARIANT
  BudgetHoldsRun
CHECK_DEADLOCK FALSE
