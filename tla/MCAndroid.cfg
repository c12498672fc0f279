CONSTANTS
  Lists0 <- MCLists
  Urls = {1, 2, 3, 4, 5}
  Missing = {3}
  Confs <- MCConfs
  MaxJobs = 3
  MaxStarts = 1
SPECIFICATION AppSpec
INVARIANTS
  PlayerHeld
  
  RecordingsHeld
  
PROPERTIES
  NextFollows
