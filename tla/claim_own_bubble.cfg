SPECIFICATION Spec
CONSTANTS
  Agent = {a1}
  User = {u1}
  Chat = {single}
  First = u1
  Robot = a1
  Private = single
  None = None
  MaxStreams = 2
  MaxCrashes = 1
CHECK_DEADLOCK FALSE
INVARIANTS OwnBubble
