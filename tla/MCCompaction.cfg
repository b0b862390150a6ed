SPECIFICATION FairSpec
CONSTANTS
  Calls = {"p", "q"}
  Nobody = "nobody"
  Background = {TRUE, FALSE}
  MaxTurns = 3
  MaxTries = 2
CHECK_DEADLOCK FALSE
INVARIANTS
  TypeOK
  ChainIsLinear
  ForgottenOnlyWithAChunk
  NewestIsActive
PROPERTY
  LockEventuallyFree
