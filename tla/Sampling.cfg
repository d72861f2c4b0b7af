SPECIFICATION Spec
CONSTANTS
  UpperBound = 6
  SecondUpperBound = 12
  CalledReduction = 1
  ReductionToMin = 1
  InitRatio = 3
  t1 = t1
  t2 = t2
  Threads <- TwoThreads
  NoThread = NoThread
  Threshold = 2
  Period = 1
  MaxCalls = 4
  MaxTime = 3
SYMMETRY Symmetry
INVARIANT EvidenceKept
INVARIANT ScanLostOnlyInRace
INVARIANT CapturedBeforeReturn
PROPERTY KnownAreTried
PROPERTY PeriodNotAhead
