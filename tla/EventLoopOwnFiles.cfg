\* A watch over the directory of config.toml and rules.toml.
SPECIFICATION FairSpec
CONSTANTS
  Exe <- MCExe
  Path <- MCPath
  Cwd <- MCCwd
  Dir <- MCDir
  File <- MCFile
  Opener = {"p1"}
  Accesses <- MCOneAccess
  Policies <- MCOwnWatched
  InitialRules <- NoRules
  EditedRules <- MCEditedRules
  ConfigPath <- MCConfigPath
  RulesPath <- MCRulesPath
  BatchSize = 2
  MaxOpens = 1
  MaxEdits = 1
  MaxSaveFails = 0
  MaxMarkFails = 0
  MaxCrashes = 0
PROPERTY EveryOpenAnswered
CHECK_DEADLOCK FALSE
