SPECIFICATION FairSpec
CONSTANTS
  Models = 3
  Starts = {1, 2, 3}
  Selected = {1, 2}
  UsageChunks = {"in_finish", "never"}
  MaxChunks = 3
CHECK_DEADLOCK FALSE
INVARIANTS
  TypeOK
  StoredIsWhatWasSent
  CallsOfAnsweringModel
PROPERTIES
  WellFormedStream
  StreamEndsWithProviders
