SPECIFICATION Spec
CONSTANTS
  Session = {s1}
  None = None
  MaxWrites = 1
  SuspendMaxFails = 1
  ReclaimPvc = TRUE
  SkipBackup = FALSE
  Ops = {"deploy", "suspend", "destroy", "poll", "write", "time", "crash", "kubectl", "restart", "sweep"}
INVARIANTS NoLostBackup
