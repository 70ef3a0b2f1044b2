CONSTANTS
  Ctx = ctx
  Ssl = {s1}
  MaxPairs = 3
SPECIFICATION Spec
CHECK_DEADLOCK FALSE
INVARIANTS TypeOK CredentialsMatch AttestedIfVerified ResultOk
