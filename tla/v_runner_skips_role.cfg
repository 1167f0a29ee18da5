SPECIFICATION FairSpec
CONSTANTS
  topo = topo small = small flat = flat other = other
  web = web db = db t1 = t1 t2 = t2 r1 = r1 r2 = r2 r3 = r3 None = None
  Docs = {topo}
  Names = {"site", "lab"}
  Roles = {web, db}
  Threads = {t1}
  Runners = {r1}
  DocName <- MCDocName
  DocRoles <- MCDocRoles
  PeerRoles <- MCPeerRoles
  PhaseIds <- MCPhaseIds
  FaultKinds = {"runner"}
  JoinMayTimeOut = FALSE
  MaxFaults = 1 MaxCrashes = 0 MaxRequests = 1
CHECK_DEADLOCK FALSE
PROPERTIES PhaseApplied
