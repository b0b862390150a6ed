SPECIFICATION Spec
CONSTANTS
  Requests = {"first", "second", "third"}
  Images = {"long", "big", "tiny"}
  Files = {"book"}
  Audio = {}
  Prompts = {"what", "why"}
  ImagesOf <- MCImages
  FilesOf <- MCFiles
  PromptOf <- MCPrompt
  Outcomes <- MCOutcomes
  LongImages = {"long"}
  Size <- MCSize
  Room = 2
  BatchSize = 1
  Extra = 0
  MaxFull <- MCMaxFull
CHECK_DEADLOCK FALSE
INVARIANTS
  NoteAfterText
