SPECIFICATION Spec
CONSTANTS
  Kinds <- MCPostgres
  Drift <- MCAnyDrift
  Widens <- MCWidens
  MaxRuns = 2
  MaxRows = 2
  MaxForeign = 0
  Null = Null
INVARIANTS LandedAsDelivered
CHECK_DEADLOCK FALSE
