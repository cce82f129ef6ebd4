SPECIFICATION DeliverySpec
CONSTANTS
  Requests = {r1, r2, r3}
  Action = {"create_pr", "deploy"}
  Calls <- EveryCall
SYMMETRY AnyOrder
INVARIANTS
  DeliveryTypeOK
  AtMostOnePR
PROPERTIES
  PRHonoursGates
CHECK_DEADLOCK FALSE
