SPECIFICATION MCSpec
CONSTANTS
  op1 = op1
  op2 = op2
  d1 = d1
  n1 = n1
  Op <- MCOp
  Derive <- MCDerive
  Connects <- MCConnects
  Chunks <- MCChunks
  Size <- MCSize
  Variable <- MCVariable
  Noise <- MCNoise
  MaxPacket = 2
  Clients = 1
  Calls = 3
  bridge = bridge
  own = own
  r1 = r1
  r2 = r2
  r3 = r3
  Client <- MCOne
  Roles <- MCEither
  Request <- MCThree
  Owner <- MCOwner
  Long <- MCLong
  Parts = {"tunnel", "hid"}
INVARIANTS
  OwnIfClean
  DropNeedsACause
  SessionIsShared
  WholeMessages
  LateNeedsACause
  DoneOnce
PROPERTIES
  LaneIsLetGo
  RequestsEnd
CHECK_DEADLOCK FALSE
