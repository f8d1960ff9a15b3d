SPECIFICATION Spec
CONSTANTS
  Session = {s1, s2}
  None = None
  MaxWrites = 0
  SuspendMaxFails = 1
  ReclaimPvc = TRUE
  SkipBackup = FALSE
  Ops = {"deploy", "idle_suspend", "idle_destroy", "time"}
SYMMETRY Interchangeable
PROPERTIES DestroySparesRunning
