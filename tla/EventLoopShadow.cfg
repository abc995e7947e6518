\* A deep watch below a shallow one, in the order of example_config.toml.
SPECIFICATION FairSpec
CONSTANTS
  Exe <- MCExe
  Path <- MCPath
  Cwd <- MCCwd
  Dir <- MCDir
  File <- MCFile
  Opener = {"p1"}
  Accesses <- MCAccesses
  Policies <- MCShadowed
  InitialRules <- NoRules
  EditedRules <- MCEditedRules
  ConfigPath <- MCConfigPath
  RulesPath <- MCRulesPath
  BatchSize = 2
  MaxOpens = 1
  MaxEdits = 0
  MaxSaveFails = 0
  MaxMarkFails = 0
  MaxCrashes = 0
INVARIANT EachWatchGuards
