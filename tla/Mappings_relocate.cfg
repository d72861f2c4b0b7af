SPECIFICATION FrameSpec
CONSTANTS
  f1 = f1
  f2 = f2
  Files <- TwoFiles
  NoFile = NoFile
  Top = 6
  MaxMaps = 2
SYMMETRY Symmetry
INVARIANT SamePlace
