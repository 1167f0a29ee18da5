SPECIFICATION SFairSpec
CONSTANTS
  api = api batch = batch web = web cache = cache queue = queue store = store
  a1 = a1 a2 = a2 b1 = b1 b2 = b2 b3 = b3 w1 = w1 w2 = w2
  c1 = c1 q1 = q1 s1 = s1
  Roles = {api, batch, web, cache, queue, store}
  Pods = {a1, a2, b1, b2, b3, w1, w2, c1, q1, s1}
  LatePods = {a1, a2, b1, s1}
  RoleOf <- MCRoleOf
  PodOrder <- MCPodOrder
  Targets <- MCTargets
  RoleOrder <- MCRoleOrder
  Edges <- MCEdges
  Egress = {api, batch, web}
  PortCount = 2
  PatchMayFail = TRUE
  MaxReplaced = 1
INVARIANTS
  TypeOK NoCollision OffsetsBounded NoGap
  EveryClientHasServer
PROPERTIES Colours
CHECK_DEADLOCK FALSE
