CONSTANTS
  Totals = {1, 2, 3, 4, 5}
  Blocks = {1, 2, 3}
  F = 2
  PreSkip = 1
  PageCap = 2
  ConvCap = 2
  SoxCap = 4
  DaFrame = 2
  DaHold = 1
  Q = 2
  Gains = {1, 2, 3, 6}
  GainOne = 2
SPECIFICATION MCSpec
INVARIANTS
  FileComplete
  LayoutAgrees
  SamplesKept
