CONSTANTS
  t1 = t1
  t2 = t2
  w = w
  p1 = p1
  p2 = p2
  None = None
  Tasks <- MCTasks
  Threads <- MCThreads
  Worker <- w
  MaxPosts = 4
SPECIFICATION Spec
INVARIANTS
  TypeOK
  NoLostWakeup
  FirstStaysFirst
  NoLostPost
PROPERTIES
  StopEndsLoop
  ImplementsMailbox
