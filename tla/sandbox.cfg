SPECIFICATION StreamFairSpec
CONSTANTS
  Addr = {a1, a2}
  Events <- EveryEvent
INVARIANTS
  SandboxTypeOK
  AgentBehindRules
  KnownAreAllowed
  OutcomeMatchesFiles
  EndedRunIsSettled
PROPERTIES
  RunEnds
  StreamCloses
  DoneIsFinal
CHECK_DEADLOCK FALSE
