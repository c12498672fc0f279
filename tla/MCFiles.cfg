CONSTANTS
  Parts = {"read", "write"}
  Size = 9
  Cap = 3
  Align = 2
  MaxSeeks = 3
  WCap = 3
  MaxIn = 4
  MaxSize = 6
  MaxCalls = 3
  Sessions = 1
SPECIFICATION SpecFiles
INVARIANTS
  ReadsRight
  WrittenAsAsked
