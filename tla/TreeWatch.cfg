\* A tree that is changed while it is marked, with two renames, reloads or failures.
SPECIFICATION FairSpec
CONSTANTS
  Exe = {}
  Cwd = {}
  Path <- MCPath
  Node <- MCNode
  Place <- MCPlace
  Trees <- MCTrees
  Policies <- MCPolicies
  QueueSize = 1
  MaxInputs = 2
INVARIANTS TypeOK GapsAreKnown
PROPERTIES MarksOnlyWhatIsWatched CatchesUp
