SPECIFICATION Spec
CONSTANTS
  Table <- OneTable
  Mode <- AppendOnly
  MaxLoad = 1
  MaxSeq = 1
  Feed <- TwoRows
  Arm = "local"
  Late = {}
  Power = TRUE
  MaxDeaths = 2
INVARIANT ManifestCovers
CHECK_DEADLOCK FALSE
