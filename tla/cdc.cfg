SPECIFICATION MCFairSpec
CONSTANTS
  Toast = Toast
  Null = Null
  Stream = {"a", "b"}
  TailMode = FALSE
  MaxWal = 2
  MaxBad = 0
  MaxFail = 1
  MaxCrash = 1
  MaxDrop = 1
INVARIANTS OneInstant NoGapUndropped SinkIsHistory ValuesKept
PROPERTIES GapNeedsUntoldRun AckBehindDestination AllCaughtUp
CHECK_DEADLOCK FALSE
