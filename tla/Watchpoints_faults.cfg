SPECIFICATION FairSpec
CONSTANTS
  MaxWatchpoints = 2
  MaxAliveThreads = 3
  o1 = o1
  o2 = o2
  o3 = o3
  Objects <- TwoObjects
  NoObject = NoObject
  MaxCalls = 4
  MaxFailures = 1
  MaxGhosts = 1
INVARIANT EventsOwned
INVARIANT CountCoversUsed
INVARIANT ReadersAlive
PROPERTY OnlyStealsEvict
PROPERTY CallsReturn
