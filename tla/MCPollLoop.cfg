CONSTANTS
  MaxPages = 2
  ListedPages = 3
  MaxRetries = 5
  FailureThreshold = 4
  RecoveryTimeout = 10
  PassTimeout = 8
  Every = 10
  ChallengePause = 20
SPECIFICATION FairSpec
INVARIANTS TypeOK BreakerFollowsFailures ChallengeBuysQuiet RunsAreRecorded
PROPERTIES CompletesAgain
