\* prompt_timeout_seconds = 2: the UI is given as long as the daemon waits.
SPECIFICATION FairSpec
CONSTANTS
  Conn <- OneUi
  PromptTimeout = 2
  HonoursTimeout = TRUE
  BufferSize = 2
  MaxAccess = 2
  MaxSignals = 0
INVARIANT AnswersTheAccess
CHECK_DEADLOCK FALSE
