---------------------------- MODULE PeerSessions ----------------------------
(***************************************************************************)
(* Phase 2 of controller/materialiser.py:materialise, which writes the     *)
(* peers, offsets and server counts of PortOffsets into the ConfigMaps     *)
(* role by role, and the worker pods that read them: worker.py:configure   *)
(* looks its own offset up, and loads.py:start_network sizes the iperf3    *)
(* server pool and starts the clients.  Pods are replaced under the same   *)
(* role at any time; the replacement has a new name and a new address.     *)
(***************************************************************************)
EXTENDS PortOffsets, FiniteSetsExt

CONSTANTS
  RoleOrder,      \* the roles in template order
  Edges,          \* the template's edges, pairs, duplicates included
  Egress,         \* the roles whose net formula gives more than 0 Mbps
  PortCount,      \* IPERF_PORT_COUNT of the worker pods
  PatchMayFail,   \* may Phase 2 patches fail?
  MaxReplaced     \* bound on replaced pods

ASSUME SessionAssumption ==
  /\ RoleOrder \in Seq(Roles)
  /\ {RoleOrder[i] : i \in DOMAIN RoleOrder} = Roles
  /\ Edges \in Seq(Roles \X Roles)
  /\ \A r \in Roles :
       Targets[r] = {Edges[i][2] : i \in {j \in DOMAIN Edges : Edges[j][1] = r}}
  /\ Egress \subseteq Roles
  /\ PortCount \in Nat \ {0} /\ PatchMayFail \in BOOLEAN /\ MaxReplaced \in Nat

VARIABLES
  turn,       \* position of the Phase 2 loop in RoleOrder
  count,      \* server_count in each role's ConfigMap, 0 when absent
  patched,    \* roles whose ConfigMap has its peers and offsets
  clients,    \* pods that run peer clients
  replaced    \* pods that were replaced after the Endpoints were read

svars == <<vars, turn, count, patched, clients, replaced>>

-----------------------------------------------------------------------------
CountOf(r) == Cardinality({p \in Pods : RoleOf[p] = r})

\* _compute_fanin: the pods of every edge's source, edge by edge.
Fanin(r) ==
  SumFunction([i \in {j \in DOMAIN Edges : Edges[j][2] = r} |-> CountOf(Edges[i][1])])

\* effective_server_count: 0 where no source pod was coloured.
ServerCount(r) == IF used[r] = {} THEN 0 ELSE Max(used[r]) + 1

\* resolved[r]: the addresses of the target pods the Endpoints listed.
PeersOf(r) == {p \in ready : RoleOf[p] \in Targets[r]}

SInit ==
  /\ Init
  /\ turn = 1
  /\ count = [r \in Roles |-> Fanin(r)]
  /\ patched = {}
  /\ clients = {}
  /\ replaced = {}

Resolve == Next /\ UNCHANGED <<turn, count, patched, clients, replaced>>

\* Mutant: only roles with peers are patched; pure sinks keep the estimate.
NeedsCount_Never(r) == r \notin Roles

\* needs_sc_update
NeedsCount(r) == ServerCount(r) # 0 /\ ServerCount(r) # Fanin(r)

Phase2Done == turn > Len(RoleOrder)

PatchRole ==
  LET r == RoleOrder[turn] IN
  /\ Done
  /\ ~Phase2Done
  /\ \/ /\ PeersOf(r) # {} \/ NeedsCount(r)
        /\ count' = [count EXCEPT ![r] = ServerCount(r)]
        /\ patched' = IF PeersOf(r) # {} THEN patched \cup {r} ELSE patched
     \/ /\ PeersOf(r) = {} /\ ~NeedsCount(r)
        /\ UNCHANGED <<count, patched>>
     \/ /\ PeersOf(r) # {} \/ NeedsCount(r)
        /\ PatchMayFail
        /\ UNCHANGED <<count, patched>>
  /\ turn' = turn + 1
  /\ UNCHANGED <<vars, clients, replaced>>

-----------------------------------------------------------------------------
(* Worker pods *)

\* port_offset_by_pod.get(POD_NAME, 0)
Port(p) == IF p \in assigned \ replaced THEN offset[p] ELSE 0

\* start_network: servers run on ports 0 .. PoolSize(r)-1 of each pod of r.
PoolSize(r) ==
  IF count[r] > 0 THEN count[r] ELSE IF r \in Egress THEN PortCount ELSE 0

\* start_network gets to the peer path.
SendsToPeers(p) == RoleOf[p] \in patched \cap Egress

\* A pod reads the patched config and starts its clients.
StartClients(p) ==
  /\ SendsToPeers(p)
  /\ clients' = clients \cup {p}
  /\ UNCHANGED <<vars, turn, count, patched, replaced>>

\* The Deployment replaces a pod.
ReplacePod(p) ==
  /\ Done
  /\ p \notin replaced
  /\ Cardinality(replaced) < MaxReplaced
  /\ replaced' = replaced \cup {p}
  /\ clients' = clients \ {p}
  /\ UNCHANGED <<vars, turn, count, patched>>

SNext ==
  \/ Resolve
  \/ PatchRole
  \/ \E p \in Pods : StartClients(p) \/ ReplacePod(p)

SSpec == SInit /\ [][SNext]_svars

\* _resolve_peer_ips and Phase 2 run to their end on the request's thread.
SFairSpec == SSpec /\ WF_svars(Resolve)

-----------------------------------------------------------------------------
\* The pods of other roles whose servers a client can still reach: those it
\* was given an address of, and that address has not been replaced.
Reaches(p) == {q \in PeersOf(RoleOf[p]) : q \notin replaced}

\* The Phase 2 patch of this role's server count is not, or not yet, through.
Stale(r) == NeedsCount(r) /\ count[r] # ServerCount(r)

\* A role that sends nothing, none of whose sources was listed in time: the
\* patch with its own peers takes its estimated server count away.
EstimateLost(r) == r \in patched \ Egress /\ used[r] = {}

\* Every client finds a server listening on its port at every target pod it
\* reaches: the pool of a shared sink is resized when the colouring gave one
\* of its sources an offset above the sink's own fan-in.
EveryClientHasServer ==
  \A p \in clients : \A q \in Reaches(p) :
    ~Stale(RoleOf[q]) /\ ~EstimateLost(RoleOf[q]) => Port(p) < PoolSize(RoleOf[q])

=============================================================================
