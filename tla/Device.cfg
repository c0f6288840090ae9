SPECIFICATION MCSpec
CONSTANTS
  s1 = s1
  s2 = s2
  Apps <- MCApps
  Offered <- MCOffered
  Retries = 1
  MaxCalls = 2
  MaxTimeouts = 2
  MaxRefused = 1
  MaxDropped = 1
  Screens <- MCApps
  Attempts = 2
  MaxOps = 5
  MaxHands = 2
  MaxBusy = 1
  Digits <- MCDigits
  MinDigits = 2
  MaxBrackets = 3
  MaxLate = 3
  MaxPresses = 1
  RingSize = 2
  MaxLinks = 4
  MaxRestarts = 1
  MaxEdits = 1
  MaxRuns = 3
INVARIANTS
  ToldIsStored
  NamesAgree
  FlagIsToBlame
  SuccessIsThePin
  VerdictIsTrue
PROPERTIES
  EveryCallEnds
CHECK_DEADLOCK FALSE
