CONSTANTS
  BufLen = 2
  MaxBytes <- ThreeAndTwo
  ChanCap = 1
  Faults = FALSE
SPECIFICATION FairSpec
INVARIANT NoEarlyEof
PROPERTIES BytesArrive ThreadsEnd
CHECK_DEADLOCK FALSE
