SPECIFICATION Spec
CONSTANTS
  Session = {s1, s2}
  None = None
  MaxWrites = 1
  SuspendMaxFails = 1
  ReclaimPvc = FALSE
  SkipBackup = TRUE
  Ops = {"deploy", "suspend", "destroy", "write", "kubectl", "daily"}
SYMMETRY Interchangeable
PROPERTIES WritesGoTwoWays
