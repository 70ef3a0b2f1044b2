CONSTANTS
  Ctx = ctx
  Ssl = {s1}
  MaxPairs = 1
SPECIFICATION Spec
CHECK_DEADLOCK FALSE
PROPERTY ConnectIsClient
