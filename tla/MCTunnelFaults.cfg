CONSTANTS
  BufLen = 2
  MaxBytes <- ThreeAndTwo
  ChanCap = 1
  Faults = TRUE
SPECIFICATION Spec
INVARIANTS TypeOK Integrity
CHECK_DEADLOCK FALSE
