SPECIFICATION Spec
CONSTANTS
  UpperBound = 12
  SecondUpperBound = 120
  CalledReduction = 1
  ReductionToMin = 1
  InitRatio = 6
  s1 = s1
  s2 = s2
  Stacks <- TwoStacks
  MaxRuns = 3
  MaxUpdates = 4
SYMMETRY Symmetry
INVARIANT EvidenceCarried
INVARIANT NothingForgotten
