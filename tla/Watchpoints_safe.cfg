SPECIFICATION Spec
CONSTANTS
  MaxWatchpoints = 2
  MaxAliveThreads = 3
  o1 = o1
  o2 = o2
  o3 = o3
  Objects <- ThreeObjects
  NoObject = NoObject
  MaxCalls = 6
  MaxFailures = 0
  MaxGhosts = 0
SYMMETRY Symmetry
INVARIANT Covered
INVARIANT FreedNotWatched
INVARIANT OneSlotPerObject
INVARIANT NoOrphans
PROPERTY ImplementsWatchSet
