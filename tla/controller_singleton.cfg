SPECIFICATION Spec
CONSTANTS
  topo = topo small = small flat = flat other = other
  web = web db = db t1 = t1 t2 = t2 r1 = r1 r2 = r2 r3 = r3 None = None
  Docs = {topo, other}
  Names = {"site", "lab"}
  Roles = {web, db}
  Threads = {t1, t2}
  Runners = {r1, r2}
  DocName <- MCDocName
  DocRoles <- MCDocRoles
  PeerRoles <- MCPeerRoles
  PhaseIds <- MCPhaseIds
  FaultKinds = {"apply", "delcm", "runner", "timeout"}
  JoinMayTimeOut = TRUE
  MaxFaults = 1 MaxCrashes = 1 MaxRequests = 3
CHECK_DEADLOCK FALSE
SYMMETRY Symmetry
INVARIANTS AtMostOneTemplate WorkloadsHaveConfig
PROPERTIES OnlyWriterCreatesAndDeletes ImplementsSlot
