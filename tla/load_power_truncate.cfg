SPECIFICATION Spec
CONSTANTS
  Table <- TwoTables
  Mode <- BothModes
  MaxLoad = 2
  MaxSeq = 1
  Feed <- EmptyReplace
  Arm = "local"
  Late = {}
  Power = TRUE
  MaxDeaths = 1
PROPERTY ImplementsExactlyOnce
CHECK_DEADLOCK FALSE
