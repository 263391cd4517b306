CONSTANTS
  PageSize = 2
  Initial = 4
  MaxListed = 5
  MaxRuns = 7
  MaxTroubles = 2
SPECIFICATION WalkFairSpec
INVARIANTS WalkTypeOK NoGapBehindCheckpoint
PROPERTIES ProgressIsNotEroded HistoryIsCovered
CHECK_DEADLOCK FALSE
