SPECIFICATION ListSpec
CONSTANTS
  left = left
  right = right
  NoItem = NoItem
  Ids <- MCKey
  Vals <- MCVals
  Sides <- MCSides
  Kinds <- MCChain
  MaxEdits = 2
INVARIANTS
  MergedTheSame
CHECK_DEADLOCK FALSE
