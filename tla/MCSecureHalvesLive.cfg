CONSTANTS
  Sizes = {1}
  Limit = 0
  BufLen = 1
  MaxSends <- OneAndTwo
  PipeCap = 2
SPECIFICATION FairSpec
PROPERTIES SendReturns OkArrives
