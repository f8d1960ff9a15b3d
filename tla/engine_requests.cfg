SPECIFICATION Spec
CONSTANTS
  Session = {s1, s2}
  None = None
  MaxWrites = 0
  SuspendMaxFails = 2
  ReclaimPvc = TRUE
  SkipBackup = FALSE
  Ops = {"deploy", "suspend", "destroy", "resume", "poll", "crash"}
SYMMETRY Interchangeable
INVARIANTS TypeOK IInv DeployKeepsVolume ArchivedHasPath ArchivedHasNoDeployment
