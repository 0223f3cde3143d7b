SPECIFICATION MCFairSpec
CONSTANTS
  Table <- AllKinds
  Mode <- KindModes
  MaxLoad = 2
  MaxSeq = 2
  Feed <- LateReplace
  Path = "direct"
  Late = {"log", "dim", "feed"}
  MaxDeaths = 3
INVARIANTS FilesRecoverable StateIsNewest ReloadReplaces ReloadsStand NoColumnDropped
PROPERTIES FilesExactlyOnce ImplementsExactlyOnce StagedExactlyOnce EveryLoadEnds
CHECK_DEADLOCK FALSE
