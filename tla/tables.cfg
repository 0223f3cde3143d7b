SPECIFICATION MCSpec
CONSTANTS
  Null = Null
  Marker = Marker
  Table <- TwoTables
  MaxLoad = 2
  MaxSeq = 2
  Feed <- FirstOnly
  Scope = {1, 2}
  Attempts = 2
  Retention = 1
  MaxForeign = 1
  MaxDeaths = 2
INVARIANTS OneCurrentRow WritesFindTheirTables LandedAsDelivered ReceiptKept PartsSound
PROPERTIES ImplementsKeyedView CommittedKept StateNeverGoesBack ImplementsExactlyOnce
CHECK_DEADLOCK FALSE
