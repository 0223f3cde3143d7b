SPECIFICATION Spec
CONSTANTS
  a = a
  b = b
  Stream = {a, b}
  TailMode = FALSE
  MaxWal = 2
  MaxBad = 0
  MaxFail = 0
  MaxCrash = 0
  MaxDrop = 1
SYMMETRY Tables
INVARIANTS NoGap
CHECK_DEADLOCK FALSE
