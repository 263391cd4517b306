CONSTANTS
  PageSize = 2
  Initial = 4
  MaxListed = 5
  MaxRuns = 7
  MaxTroubles = 2
SPECIFICATION WalkSpec
INVARIANT ResumesAfterLastPage
CHECK_DEADLOCK FALSE
