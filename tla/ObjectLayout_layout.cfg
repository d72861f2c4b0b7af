SPECIFICATION Spec
CONSTANTS
  Modulus = 256
  IntModulus = 128
  Word = 2
  Header = 8
  Granule = 4
  PageBytes = 16
  Buf = 2
  InitialMallocSize = 30
  HeapStart = 48
  HeapEnd = 96
  Sizes <- SmallAndHuge
  Counts = {2, 3}
  Alignments = {4, 16}
  MaxLive = 2
INVARIANT OwnSpace
INVARIANT NothingLeaks
INVARIANT AsAsked
PROPERTY ContentsKept
