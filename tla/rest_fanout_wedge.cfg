SPECIFICATION FairSpec
CONSTANTS
  Lists <- MCLong
  Limit = 1
  MaxRevoked = 0
  MaxExpired = 0
  MaxFailed = 0
  CanClose = TRUE
  Null = Null
PROPERTIES ReadReturns
CHECK_DEADLOCK FALSE
