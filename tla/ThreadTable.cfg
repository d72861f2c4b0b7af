CONSTANTS
  NThreads = 4
  MAX_ALIVE_THREADS = 3
  MaxCalls = 5
  MaxDepth = 4
  MaxHandlers = 1
  MaxForks = 1
  MaxCancelled = 1
SPECIFICATION FairSpec
INVARIANTS RecordsAgree DetectsApplication
PROPERTY CreationsEnd
CHECK_DEADLOCK FALSE
