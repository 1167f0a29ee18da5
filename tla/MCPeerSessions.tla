--------------------------- MODULE MCPeerSessions --------------------------
(***************************************************************************)
(* PeerSessions on a template with three source roles over three sinks:    *)
(* api -> cache, store; batch -> queue; web -> queue, store.  api and      *)
(* batch share nothing; web, visited late, shares a sink with each, so its *)
(* offsets go past the fan-in of store.  One edge is repeated.  cache and  *)
(* queue have net formulas that give 0 Mbps: cache is a relay in front of  *)
(* store, whose only sources may all be late, and queue a mesh.            *)
(***************************************************************************)
EXTENDS PeerSessions, TLC

CONSTANTS api, batch, web, cache, queue, store,
          a1, a2, b1, b2, b3, w1, w2, c1, q1, s1

MCRoleOf ==
  [p \in Pods |-> CASE p \in {a1, a2} -> api
                    [] p \in {b1, b2, b3} -> batch
                    [] p \in {w1, w2} -> web
                    [] p = c1 -> cache
                    [] p = q1 -> queue
                    [] OTHER -> store]

MCPodOrder == <<a1, a2, b1, b2, b3, c1, q1, s1, w1, w2>>

MCRoleOrder == <<store, api, queue, batch, cache, web>>

MCEdges == << <<api, cache>>, <<api, store>>, <<batch, queue>>, <<web, queue>>,
              <<web, store>>, <<api, cache>>, <<cache, store>>,
              <<queue, queue>> >>

MCTargets ==
  [r \in Roles |-> CASE r = api -> {cache, store}
                     [] r = batch -> {queue}
                     [] r = web -> {queue, store}
                     [] r = cache -> {store}
                     [] r = queue -> {queue}
                     [] OTHER -> {}]

=============================================================================
