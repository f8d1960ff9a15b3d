SPECIFICATION FairSpec
CONSTANTS
  Session = {s1, s2}
  None = None
  MaxWrites = 0
  SuspendMaxFails = 1
  ReclaimPvc = TRUE
  SkipBackup = FALSE
  Ops = {"deploy", "destroy", "finalizer", "evict", "cleanup"}
PROPERTIES DeploySettles TerminatingPodGoes
