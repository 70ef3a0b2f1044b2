CONSTANTS
  MaxConn = 2
  Buffer = 1
  Window = 1
  Sizes = {2}
  MaxBytes <- FourAndNone
SPECIFICATION FairSpec
INVARIANTS TypeOK Authenticated EndIsComplete
PROPERTIES FirstNegotiationReturns ShutdownArrives
CHECK_DEADLOCK FALSE
