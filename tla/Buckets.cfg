SPECIFICATION MCSpec
CONSTANTS
  k1 = k1
  left = left
  right = right
  NoRec = NoRec
  None = None
  Keys <- MCKeys
  Values <- MCValues
  Dev <- MCDev
  Reads <- MCReads
  SealedOn = TRUE
  MaxWrites = 2
  MaxTrouble = 1
  NoItem = NoItem
  Ids <- MCIds
  Vals <- MCVals
  Sides <- MCSides
  Kinds <- MCKinds
  MaxEdits = 3
INVARIANTS
  NewestKept
  QuietRoundAgrees
  ExchangeAgrees
  ListsStand
  EntriesListed
PROPERTIES
  Spreads
  NothingComesBack
CHECK_DEADLOCK FALSE
