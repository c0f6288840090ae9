SPECIFICATION MCSpec
CONSTANTS
  op1 = op1
  op2 = op2
  d1 = d1
  n1 = n1
  Op <- MCOp
  Derive <- MCDerive
  Connects <- MCConnects
  Chunks <- MCChunks
  Size <- MCSize
  Variable <- MCVariable
  Noise <- MCNoise
  MaxPacket = 2
  Clients = 1
  Calls = 3
  bridge = bridge
  own = own
  r1 = r1
  r2 = r2
  r3 = r3
  Client <- MCClients
  Roles <- MCBridge
  Request <- MCOneEach
  Owner <- MCOwner
  Long <- MCLong
  Parts = {"hid"}
INVARIANTS
  ChannelIsOurs
CHECK_DEADLOCK FALSE
