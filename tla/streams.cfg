SPECIFICATION FairSpec
CONSTANTS
  Agent = {a1, a2}
  User = {u1, u2}
  Chat = {single, group}
  First = u1
  Robot = a1
  Private = single
  None = None
  MaxStreams = 2
  MaxCrashes = 1
CONSTRAINT OneDifference
CHECK_DEADLOCK FALSE
INVARIANTS TypeOK OwnUserOnly AnswersItself
PROPERTIES AnswerIsShown
