SPECIFICATION ListSpec
CONSTANTS
  left = left
  right = right
  NoItem = NoItem
  Ids <- MCKey
  Vals <- MCVals
  Sides <- MCSides
  Kinds <- MCChain
  MaxEdits = 3
INVARIANTS
  NewestCertificateKept
CHECK_DEADLOCK FALSE
