SPECIFICATION Spec
CONSTANTS
  Obj = {o1}
  Fresh = {f1}
  Session = {s1, s2}
  Key = {k1}
  None = None
  Batched = {}
  MaxChanges = 2
  MaxStamp = 3
  Flushing = FALSE
  MaxRetries = 1
SYMMETRY Interchangeable
CHECK_DEADLOCK FALSE
INVARIANTS KeyAppliedOnce StateFollowsOutbox WritesStampedInOrder
PROPERTIES UpdatesSeeUpdates ActsAtomically
