SPECIFICATION MCSpec
CONSTANTS
  v1 = v1
  m1 = m1
  f1 = f1
  Conv <- MCConv
  Fido <- MCFido
  Matching <- MCMatching
  MaxDials = 2
  MaxTexts = 2
  MaxLost = 1
  MaxRadioLinks = 2
  MaxAsks = 1
INVARIANTS
  SlipNeedsACause
  NothingLeftBehind
  HeardAsSaid
PROPERTIES
  IsALane
  DialIsAnswered
CHECK_DEADLOCK FALSE
