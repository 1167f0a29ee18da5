SPECIFICATION FairSpec
CONSTANTS
  None = None Unset = Unset
  Payloads <- MCPayloads
  PortCount = 2 Grace = 3
  ToleranceMc = 5 Cores = 4 LimitMc = 2000
  MaxProcs = 3
  Plans <- MCPlans
CHECK_DEADLOCK FALSE
INVARIANTS TypeOK PoolMatches
PROPERTIES PortComesBack LoadsSettle CorrectionCloser
