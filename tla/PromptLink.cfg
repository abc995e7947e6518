\* filewall-ui-iced, restarted twice, with the shortest timeout that is safe.
SPECIFICATION FairSpec
CONSTANTS
  Conn <- TwoRestarts
  PromptTimeout = 5
  HonoursTimeout = TRUE
  BufferSize = 1
  MaxAccess = 3
  MaxSignals = 1
INVARIANTS TypeOK AnswersTheAccess AsksWhatIsPending NeverStuck
PROPERTIES NextUiIsUsed EveryPromptDecided
CHECK_DEADLOCK FALSE
