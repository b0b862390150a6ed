SPECIFICATION Spec
CONSTANTS
  Models = {"m1", "m2"}
  Prompted = {"m2"}
  MaxMessages = 6
  MaxCalls = 2
CHECK_DEADLOCK FALSE
INVARIANTS
  TypeOK
  NormalizedHistoryComplete
  IdSettles
PROPERTY
  CachedPrefixKept
