SPECIFICATION FairSpec
CONSTANTS
  None = None Unset = Unset
  Payloads <- MCPayloads
  PortCount = 2 Grace = 3
  ToleranceMc = 5 Cores = 2 LimitMc = 2000
  MaxProcs = 3
  Plans <- MCFullPlans
CHECK_DEADLOCK FALSE

PROPERTY LoadsSettle
