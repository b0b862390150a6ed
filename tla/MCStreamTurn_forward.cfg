SPECIFICATION Spec
CONSTANTS
  Models = 3
  Starts = {1, 2}
  Selected = {1}
  UsageChunks = {"in_finish"}
  MaxChunks = 2
CHECK_DEADLOCK FALSE
PROPERTY
  ContinuesForward
