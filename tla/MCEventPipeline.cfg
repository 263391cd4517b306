CONSTANTS
  Batch = 1
  MaxEvents = 2
  MaxCrashes = 1
  Profiles = {instant, daily}
  Favourite = instant
  Wanted <- MCWanted
  Digested = {daily}
  ReadCount = 2
  MaxInterruptions = 1
  MaxDeletes = 1
SPECIFICATION FairSpec
INVARIANTS TypeOK AtLeastOnce CausalOrder DuplicatesNeedCrashes SendOnce AckedIsRecorded StrandsAreInterruptions
PROPERTIES ImplementsNotifyOnce CommittedIsPublished EntriesAreTaken
CHECK_DEADLOCK FALSE
