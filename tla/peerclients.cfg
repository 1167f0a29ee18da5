SPECIFICATION FairSpec
CONSTANTS
  p1 = p1 p2 = p2 main = main timer1 = timer1 timer2 = timer2
  s1 = s1 s2 = s2 s3 = s3
  None = None Zero = Zero Bad = Bad
  Peers = {p1, p2}
  PeerSets <- MCPeerSets
  Reloaders = {main, timer1, timer2}
  Main = main
  Sups = {s1, s2, s3}
  MayOverlap = FALSE
  MaxUpdates = 1 MaxHangs = 1
CHECK_DEADLOCK FALSE
INVARIANTS TypeOK OneClientPerPeer SupervisorsMatch
PROPERTIES LatestApplied LinkComesBack
