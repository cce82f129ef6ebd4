SPECIFICATION RegistrySpec
CONSTANTS
  Window = 1
  MaxRequests = 1
  MaxBuckets = 1
  Requests = {r1, r2}
  Name = {"admin", "bob"}
  Grants <- TwoGrants
  Mixes <- SixMixes
  MaxUsers = 3
  MaxTokens = 3
  MaxTime = 2
  MaxCrashes = 2
SYMMETRY AnyOrder
INVARIANTS
  RegistryTypeOK
  RotatedIsRevoked
  SuccessorKeeps
  AccessFollowsRotation
PROPERTIES
  DeletionRevokes
  ServesWithAdmin
  RateHolds
CHECK_DEADLOCK FALSE
