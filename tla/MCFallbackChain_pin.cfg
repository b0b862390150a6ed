SPECIFICATION Spec
CONSTANTS
  Clients = {"r1"}
  Models <- TwoModels
  NoModel = "none"
  FailThreshold = 3
  MaxCount = 4
  Faults = FALSE
  Chain <- TwoKinds
  ContinueOnLength = {}
  Disabled = {}
  Capable = {"large"}
  Window <- TwoWindow
  MaxEst = 2
  Selected <- Pinned
INVARIANT
  RawOnlyToCapable
