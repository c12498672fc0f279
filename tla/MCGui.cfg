CONSTANTS
  Names <- MCNames
  Texts <- MCTexts
  Saved <- MCSaved
  MaxQueues = 5
  MaxEntries = 5
  MaxTracks = 2
  MaxPosts = 4
  MaxPending = 2
  MaxRestarts = 1
SPECIFICATION GuiSpec
INVARIANTS
  
  CalmIsSafe
  
