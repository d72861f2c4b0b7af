SPECIFICATION Spec
CONSTANTS
  CallStacks = {c1, c2}
  Null = Null
  Head = Head
  Tail = Tail
  Blocks = 3
  Size = 1
  Lengths <- MCLengths
  Junk <- MCJunk
  MaxCalls = 4
  MaxLate = 2
INVARIANTS BlameIsRight EvidenceFound ExitSaves
PROPERTY ScanEnds
