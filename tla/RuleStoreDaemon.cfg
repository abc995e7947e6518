\* The daemon alone: it learns, crashes, fails to save, meets a broken config.
SPECIFICATION FairSpec
CONSTANTS
  Exe <- MCExe
  Path <- MCPath
  Cwd <- MCCwd
  Ctl = {}
  Learnable <- MCLearnable
  ConfigText = {"old", "new", "broken"}
  BrokenConfig = {"broken"}
  InitialFiles <- MCInitialFiles
  EditedFiles <- MCNoFiles
  MaxLearn = 3
  MaxEdit = 1
  MaxCrash = 2
  MaxSaveFail = 1
  MaxCtl = 1
INVARIANTS TypeOK LearnedStays IdNamesOneRule
PROPERTY ImplementsLedger
CHECK_DEADLOCK FALSE
