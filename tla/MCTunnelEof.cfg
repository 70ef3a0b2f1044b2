CONSTANTS
  BufLen = 1
  MaxBytes <- OneAndOne
  ChanCap = 1
  Faults = FALSE
SPECIFICATION FairSpec
PROPERTY EofPropagates
CHECK_DEADLOCK FALSE
