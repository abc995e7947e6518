\* A rule removed while the daemon learns another.
SPECIFICATION FairSpec
CONSTANTS
  Exe <- MCExe
  Path <- MCPath
  Cwd <- MCCwd
  Ctl = {c1}
  Learnable <- MCLearnable
  ConfigText = {"old"}
  BrokenConfig = {}
  InitialFiles <- MCOneFile
  EditedFiles <- MCNoFiles
  MaxLearn = 1
  MaxEdit = 0
  MaxCrash = 0
  MaxSaveFail = 0
  MaxCtl = 1
INVARIANT RevokedStaysRevoked
CHECK_DEADLOCK FALSE
