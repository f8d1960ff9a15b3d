SPECIFICATION FairSpec
CONSTANTS
  Obj = {o1}
  Fresh = {f1}
  Session = {s1}
  Key = {}
  None = None
  Batched = {s1}
  MaxChanges = 2
  MaxStamp = 2
  Flushing = TRUE
  MaxRetries = 2
CHECK_DEADLOCK FALSE
INVARIANTS TypeOK IndexInOrder ArchiveHoldsNewest
PROPERTIES IndexSettles
