SPECIFICATION MCSpec
CONSTANTS
  MaxLength = 1400
  d1 = d1
  d2 = d2
  Members <- MCDevices
  MaxCalls <- MCCalls
  MaxMoves = 8
  phone = phone
  tablet = tablet
  Devices <- MCOwned
  Items = {1}
  DataCalls = {1, 2}
  MaxNamed = 2
  Signs = {1, 2, 3, 4, 5}
  Execs = {"push", "pull"}
  ExecOf <- MCExecOf
  Uses = 2
  MaxBudgets = 2
  MaxLost = 1
  MaxOthers = 1
SYMMETRY MCSymmetry
INVARIANTS
  PayloadIsRead
  RoomAgrees
  OneRunner
  AgentIsTold
  UsesAreTheirOwn
  BudgetsEndClean
CHECK_DEADLOCK FALSE
