\* filewallctl and the operator write the same files as the daemon.
SPECIFICATION FairSpec
CONSTANTS
  Exe <- MCExe
  Path <- MCPath
  Cwd <- MCCwd
  Ctl = {c1}
  Learnable <- MCLearnable
  ConfigText = {"old", "broken"}
  BrokenConfig = {"broken"}
  InitialFiles <- MCOldFiles
  EditedFiles <- MCEditedFiles
  MaxLearn = 1
  MaxEdit = 1
  MaxCrash = 1
  MaxSaveFail = 1
  MaxCtl = 2
INVARIANTS WellFormedStores NoReloadLost SighupIsHandled
PROPERTY RulesEventuallyEnforced
CHECK_DEADLOCK FALSE
