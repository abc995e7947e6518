\* A yad dialog nobody answers: the socket buffer fills.
SPECIFICATION FairSpec
CONSTANTS
  Conn <- OneUi
  PromptTimeout = 1
  HonoursTimeout = FALSE
  BufferSize = 1
  MaxAccess = 3
  MaxSignals = 0
PROPERTY EveryPromptDecided
CHECK_DEADLOCK FALSE
