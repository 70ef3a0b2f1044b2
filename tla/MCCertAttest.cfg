CONSTANTS
  Program = {p1, p2}
  Hash = {"sha256", "sha384"}
  MaxBuilds = 2
SPECIFICATION Spec
CHECK_DEADLOCK FALSE
INVARIANTS TypeOK OfOnePiece PolicyMeans IssuedPass
SYMMETRY ProgramSymmetry
