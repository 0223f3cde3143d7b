SPECIFICATION MCSpec
CONSTANTS
  Null = Null
  Lists <- ThreeParents
  Limit = 2
  MaxRevoked = 2
  MaxExpired = 1
  MaxFailed = 1
  CanClose = TRUE
INVARIANTS NothingSkipped NothingRepeated TokenShared ReadGoesOn
PROPERTIES StateAdvances FreshTokenKept
CHECK_DEADLOCK FALSE
