SPECIFICATION Spec
CONSTANTS
  u1 = u1
  u2 = u2
  o1 = o1
  o2 = o2
  o3 = o3
  Conv <- MCConv
  Urgent <- MCUrgent
INVARIANTS
  LaneInv
PROPERTIES
  KeepsContract
  Served
