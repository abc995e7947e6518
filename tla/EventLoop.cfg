\* Opens, prompts, learning, reloads, failing marks and crashes in every order.
SPECIFICATION FairSpec
CONSTANTS
  Exe <- MCExe
  Path <- MCPath
  Cwd <- MCCwd
  Dir <- MCDir
  File <- MCFile
  Opener = {"p1", "p2"}
  Accesses <- MCAccesses
  Policies <- MCTwoPolicies
  InitialRules <- NoRules
  EditedRules <- MCEditedRules
  ConfigPath <- MCConfigPath
  RulesPath <- MCRulesPath
  BatchSize = 1
  MaxOpens = 2
  MaxEdits = 1
  MaxSaveFails = 1
  MaxMarkFails = 1
  MaxCrashes = 1
INVARIANTS TypeOK NoOpenForgotten FreshVerdicts SettledStaysSettled
           GuardedIsReported
PROPERTIES ScopeAsShown EveryOpenAnswered
CHECK_DEADLOCK FALSE
