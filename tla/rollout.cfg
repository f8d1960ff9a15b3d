SPECIFICATION FairSpec
CONSTANTS
  Engines = 2
  Image = {v1, v2}
  Current = v2
  BatchSizes = {1, 2}
  MaxTouched = 1
  None = None
INVARIANTS TypeOK NoEngineLeftBehind ReadyServesTarget SummaryAddsUp OneBatchUnrecorded
PROPERTIES RolloutEnds
