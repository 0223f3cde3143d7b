SPECIFICATION FairSpec
CONSTANTS
  a = a
  b = b
INVARIANT MutualExclusion
PROPERTIES LocalHoldersKept OustedSessionStops DeadLeaseReclaimed
CHECK_DEADLOCK FALSE
