CONSTANTS
  Own <- NoneOrServer
  MaxSsl = 2
  MaxSends = 1
SPECIFICATION FairSpec
INVARIANTS TypeOK Authenticated HeardIsAccepted EndIsComplete
PROPERTY NegotiationEnds
CHECK_DEADLOCK FALSE
