\* filewall-ui, whose dialogs the user may leave open: the socket fills within the run.
SPECIFICATION FairSpec
CONSTANTS
  Conn <- OneRestart
  PromptTimeout = 3
  HonoursTimeout = FALSE
  BufferSize = 1
  MaxAccess = 3
  MaxSignals = 2
INVARIANT WaitIsBounded
CHECK_DEADLOCK FALSE
