CONSTANTS
  a = a
  b = b
  c = c
  Nobody = Nobody
  Threads <- ThreeThreads
  Timers <- TwoTimers
  Cap = 2
  Parts = {"pool", "timers"}
  Delays = {1, 3}
  Tick = 1
  Linger = 2
  MaxTime = 5
SPECIFICATION SpecBoth
INVARIANTS
  PoolExact
  TimersServed
PROPERTIES
  AssignReturns
