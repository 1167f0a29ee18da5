SPECIFICATION FairSpec
CONSTANTS
  None = None Malformed = Malformed
  e1 = e1 e2 = e2 c1 = c1 fast = fast slow = slow
  Nodes = {e1, e2, c1}
  Tier <- MCTier
  Docs <- MCDocs
  Adoptable = {c1}
  MaxFaults = 2
CHECK_DEADLOCK FALSE
INVARIANTS TypeOK BothEndsShaped StrippedByDelete
PROPERTIES RetriesProvision
