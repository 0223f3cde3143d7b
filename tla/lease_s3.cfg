SPECIFICATION Spec
CONSTANTS
  a = a
  b = b
  Owner = {a, b}
  Token <- TwoTokens
  Build <- TwoBuilds
  Skew <- AheadSkew
  Arm = "s3"
  Heartbeat = 1
  TTL = 3
  MaxStall = 1
  MaxOpen = 2
  Closed = {"release"}
  Faults = {"blip", "crash"}
  MaxStray = 1
  MaxTime = 6
INVARIANTS TypeOK MutualExclusion S3Inv
PROPERTIES FreshHolderKept NewerFormatRespected
CHECK_DEADLOCK FALSE
