CONSTANTS
  Batch = 1
  MaxEvents = 1
  MaxCrashes = 0
  Profiles = {instant, daily}
  Favourite = instant
  Wanted <- MCWanted
  Digested = {daily}
  ReadCount = 2
  MaxInterruptions = 1
  MaxDeletes = 0
SPECIFICATION FairSpec
PROPERTY NoEventIsLost
CHECK_DEADLOCK FALSE
