CONSTANTS
  e1 = e1
  e2 = e2
  e3 = e3
  t1 = t1
  t2 = t2
  None = None
  Entries <- MCEntries
  Tracks <- MCTracks
  Confs <- AllConfs
  AbsoluteNames <- MCAbsolute
  Cases <- MCCases
  MaxDepth = 2
SPECIFICATION MCSpec
INVARIANTS
  
  AtMostOnePlaying
  NextIsSuccessor
  ListsExpanded
SYMMETRY Symmetry
