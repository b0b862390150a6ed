SPECIFICATION BanSpec
CONSTANTS
  Clients = {c1, c2, c3}
  Models = {m1}
  NoModel = NoModel
  FailThreshold = 2
  MaxCount = 3
  Faults = TRUE
INVARIANTS
  BanTypeOK
  CounterGuarded
PROPERTIES
  BanLiftedOnlyByEarlierRequest
  CounterEventuallyCleared
