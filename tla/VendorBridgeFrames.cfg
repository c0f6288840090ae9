SPECIFICATION MCSpec
CONSTANTS
  c1 = c1
  c2 = c2
  c3 = c3
  Conv <- MCConv
  Frames = 2
  Reports = 2
  o1 = o1
  o2 = o2
  Ops <- MCOps
  PaidOps <- MCSecond
  BudgetOps <- MCFirst
  AskedOps <- MCFirst
  LongOps <- MCSecond
  Packets = 3
PROPERTIES
  FramesInLane
CHECK_DEADLOCK FALSE
