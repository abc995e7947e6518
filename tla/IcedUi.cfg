\* filewall-ui-iced, restarted once, with a GUI that may hang for longer than the
\* grace, or for ever.
SPECIFICATION FairSpec
CONSTANTS
  Conn = {"c1", "c2"}
  PromptTimeout = 5
  BufferSize = 1
  MaxAccess = 2
  MaxSignals = 1
  Stalls = {{0}, {1}, {2}, {3}, {}}
  MaxEvents = 2
INVARIANTS TypeOK DecisionsAreTheirOwn WindowsArePending
PROPERTIES ImplementsPromptLink EveryPromptDecided
CHECK_DEADLOCK FALSE
