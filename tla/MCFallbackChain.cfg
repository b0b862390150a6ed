SPECIFICATION FairSpec
CONSTANTS
  Clients = {"r1", "r2"}
  Models <- MCModels
  NoModel = "none"
  FailThreshold = 1
  MaxCount = 2
  Faults = FALSE
  Chain <- LongAndShort
  ContinueOnLength = {"r1"}
  Disabled = {"off"}
  Capable = {"small", "off"}
  Window <- MCWindow
  MaxEst = 2
  Selected <- Primaries
INVARIANTS
  TypeOK
  AttemptsExplainVerdict
  RawOnlyToCapable
PROPERTIES
  ImplementsFailover
  EveryRequestEnds
