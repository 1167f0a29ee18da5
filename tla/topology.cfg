SPECIFICATION TSpec
CONSTANTS
  a = a b = b c = c d = d None = None bad = bad five = five
  nA = nA nAA = nAA nB = nB nC = nC nD = nD
  dA = dA dB = dB dC = dC dD = dD a1 = a1 a2 = a2 a3 = a3 a4 = a4
  s1 = s1 s2 = s2 s3 = s3 t1 = t1 t2 = t2 t3 = t3 e1 = e1 e2 = e2 e3 = e3
  Roles = {a, b, c, d}
  NonStrings = {five}
  MaxTime = 3
  RoleOrder <- MCRoleOrder
  EdgeLists = {}
  Templates = {}
  Docs <- MCDocs
  Sanitise <- MCSanitise
INVARIANTS
  TypeOK TopologicalOrder RefusedIffCyclic ResolvedIsSum
  LateRefusalForNames LinksShaped PinnedToTier OnePhaseAtATime PhaseReachesSources
CHECK_DEADLOCK FALSE
