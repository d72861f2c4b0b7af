SPECIFICATION FairSpec
CONSTANTS
  t1 = t1
  t2 = t2
  k1 = k1
  k2 = k2
  k3 = k3
  Threads <- TwoThreads
  Main = t1
  NoThread = NoThread
  Keys <- ThreeKeys
  NoKey = NoKey
  NumBuckets = 2
  Hash <- SameHash
  History <- TwoLines
  MaxCalls = 4
INVARIANTS CountsAgree NoRawRecordInUse WalkIsComplete
PROPERTIES ImplementsInternTable CallsAndWalksEnd
