SPECIFICATION FairSpec
CONSTANTS
  Conversations = {"k1", "k2"}
  Chats = {"a", "b", "c", "d"}
  Streamed = {"a", "b"}
  Normalizers = {"n"}
  Conv <- TwoConversations
  Pseudo <- MCPseudo
  NoPseudo = "none"
  Vision = {"vision"}
  Content <- MCContent
  Cost <- MCCost
  Free = "free"
  SingleWriter = TRUE
CHECK_DEADLOCK FALSE
INVARIANTS
  TypeOK
  SeenTurnsPrecede
  ExistsWithTurns
  StoredOnceOrNotAtAll
  RowFollowsTurns
PROPERTIES
  EveryActorEnds
  LockedOutOnlyByOpenSessions
