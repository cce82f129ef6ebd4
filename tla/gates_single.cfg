SPECIFICATION ApprovalsFairSpec
CONSTANTS
  NumTasks = 1
  MaxConcurrent = 1
  Prio <- AllNormal
  Copies = 2
  MaxCrashes = 1
  Events = {"delete", "crash", "down"}
  Verdict <- AnyVerdict
  Gated <- CreatePR
  Requests = {r1, r2}
  Calls = {"approve", "reject"}
  Expires = TRUE
  Breaks = TRUE
INVARIANTS
  ApprovalsTypeOK
  BudgetHoldsRun
  GatesBeforeRun
  FlagCoversPending
PROPERTIES
  DecisionIsFinal
  DecisionTakesEffect
CHECK_DEADLOCK FALSE
