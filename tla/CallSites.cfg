CONSTANTS
  Entries <- MCEntries
  Own <- MCOwn
  Distance <- MCDistance
  Inner <- MCInner
  Sites = {"s1", "s2"}
  MAX_CALLSTACK_DEPTH = 9
  MaxFrames = 2
  MaxCalls = 3
  MaxStarts = 2
SPECIFICATION SiteSpec
INVARIANTS  BlamesCaller
CHECK_DEADLOCK FALSE
