SPECIFICATION Spec
CONSTANTS
  Session = {s1, s2}
  Profile = {p1, p2, p3}
  MinPort = 1
  MaxPort = 2
  None = None
  Faults = {"get", "dir", "alloc", "clone", "launch", "all", "route", "stop", "remove", "rm", "dies", "restart", "probe", "insert"}
  MaxHandled = 3
  MaxFailures = 1
SYMMETRY Interchangeable
CHECK_DEADLOCK FALSE
INVARIANTS TypeOK PortsUnique CopiesUnique ReachesItsOwn EnsureHeals
