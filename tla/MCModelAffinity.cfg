SPECIFICATION Spec
CONSTANTS
  Requests = {"a", "b", "c"}
  Streamed = {"b"}
  Pseudo <- MCPseudo
  Chain <- MCChain
  Parallel = {"m2"}
  Reports <- MCReports
  NoName = "none"
  Bracketed = {"m3"}
  NoLimit = NoLimit
  Window <- MCWindow
  Threshold <- MCThreshold
  Estimates = {1, 4}
  Cost <- MCCost
  WithTools = {"a"}
CHECK_DEADLOCK FALSE
INVARIANTS
  TypeOK
  SelectionFitsSession
  MaintainedSinceAnotherAnswer
PROPERTY
  TokensStayNearWindow
