CONSTANTS
  Sizes = {1, 2, 3}
  Limit = 2
  BufLen = 1
  MaxSends <- OneAndTwo
  PipeCap = 2
SPECIFICATION Spec
INVARIANTS TypeOK InStep NoSilentLoss
