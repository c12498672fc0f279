CONSTANTS
  Formats = {f1, f2}
  Cap = 2
  Tracks = 2
  Blocks = 2
  MaxCmds = 2
  MaxFails = 1
  CaptCap = 2
  CaptFails = 3
  CaptCmds = 3
SPECIFICATION MCSpec
INVARIANTS
  
  PlaysAsAsked
  
  RecordsRight
PROPERTIES
  CapturedIsRead
