SPECIFICATION Spec
CONSTANTS
  MaxWatchpoints = 2
  MaxAliveThreads = 2
  o1 = o1
  o2 = o2
  o3 = o3
  Objects <- TwoObjects
  NoObject = NoObject
  MaxCalls = 7
  MaxFailures = 0
  MaxGhosts = 1
SYMMETRY Symmetry
INVARIANT FreedNotWatched
