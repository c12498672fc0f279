CONSTANTS
  tr1 = tr1
  tr2 = tr2
  Tracks <- Both
  Kinds = {"playback", "conversion", "tee"}
  MaxFilters = 4
SPECIFICATION MCSpec
INVARIANTS
  
  OwnerDecides
  
  ChainSound
  EveryFilterClosed
SYMMETRY Symmetry
