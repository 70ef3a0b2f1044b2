CONSTANTS
  Client = {c1, c2}
  Rounds = 2
SPECIFICATION FairSpec
CHECK_DEADLOCK FALSE
INVARIANTS TypeOK SessionsAgree VerifiedFirst
PROPERTIES SessionSpec AllServed NobodyWaits
