-------------------------------- MODULE Host --------------------------------
(***************************************************************************)
(* The host side of a topology: its VMs and nodes (provision.py, driven by *)
(* app.py's POST and DELETE) and the shaping of the links between them     *)
(* (netem.py, which every materialise and teardown runs).  Handlers run    *)
(* one at a time under _write_lock; each command they give multipass or    *)
(* kubectl is a step that may fail, and a handler that raises leaves what  *)
(* it has done.                                                            *)
(*                                                                         *)
(* What is materialised is in Controller, the document in Topology: here a *)
(* document is its nodes with their sites, and its links.  A node's site,  *)
(* tier and marker labels come and go together.                            *)
(***************************************************************************)
EXTENDS Naturals, FiniteSets, Functions, SequencesExt

CONSTANTS
  Nodes,      \* names a VM and its cluster node may have
  Tier,       \* the tier of each site
  Docs,       \* topologies of one name: [nodes, links], nodes a sequence of
              \* [node, site], links from pairs of tiers to latency and rate
  Adoptable,  \* nodes that may be there before the emulator, without labels
  None,
  Malformed,  \* what a link says when its rate is null or no rate
  MaxFaults   \* bound on the commands that fail and the VMs that restart

Sites == DOMAIN Tier
DesiredNodes(d) == {d.nodes[i].node : i \in DOMAIN d.nodes}
SitesOf(d) == {d.nodes[i].site : i \in DOMAIN d.nodes}

\* What patches may make of the links: those of another document, none at all
\* (both maps set to null), or links whose bandwidth does not parse.
LinkSets ==
  LET given == {d.links : d \in Docs}
  IN  given \cup {<<>>} \cup {[p \in DOMAIN l |-> Malformed] : l \in given}

Documents == [nodes : {d.nodes : d \in Docs}, links : LinkSets]

ASSUME HostAssumption ==
  /\ Docs \subseteq Documents
  /\ \A d \in Docs : d.nodes \in Seq([node : Nodes, site : Sites])
  /\ IsFiniteSet(Nodes) /\ Adoptable \subseteq Nodes
  /\ None \notin Sites /\ None \notin Documents
  /\ MaxFaults \in Nat

VARIABLES
  vm,        \* of each node, its VM: none, booting, up or deleted, not purged
  kube,      \* and its node in the cluster: absent, ready or lost (no VM)
  label,     \* the site it is labelled with, or None
  shape,     \* the peers its NIC is shaped towards, and how: with class,
             \* delay and filter; a peer that lacks one of them does not count
  late,      \* scripts that timed out and may still land on their VM
  stored,    \* the topology materialised, or None
  op, doc,   \* the request served, or the last one, and its document
  pc, todo,  \* its place, and the nodes it has still to do
  existing,  \* the VMs that `multipass list` gave it
  clean,     \* has nothing failed in it, or disturbed what it did?
  faults

hostVars == <<vm, kube, label>>
linkVars == <<shape, late>>
reqVars  == <<op, doc, pc, todo, existing>>
vars     == <<hostVars, linkVars, reqVars, stored, clean, faults>>

\* Nothing is shaped.
Clear == <<>>

\* The ranges of the variables; a node is only in the cluster with a VM or
\* without the one it joined from.
TypeOK ==
  /\ vm \in [Nodes -> {"none", "booting", "up", "deleted"}]
  /\ kube \in [Nodes -> {"absent", "ready", "lost"}]
  /\ label \in [Nodes -> Sites \cup {None}]
  /\ \A n \in Nodes : /\ kube[n] = "absent" => label[n] = None
                      /\ kube[n] = "ready" => vm[n] = "up"
                      /\ vm[n] \notin {"up"} => shape[n] = Clear
  /\ {stored, doc} \subseteq Documents \cup {None}
  /\ op \in {"none", "post", "patch", "delete"}
  /\ pc \in {"idle", "list", "launch", "wait", "label", "store", "nodes", "exec",
             "resolve", "drop", "vms", "remove"}
  /\ existing \subseteq Nodes /\ clean \in BOOLEAN /\ faults \in 0 .. MaxFaults

Init ==
  /\ \E there \in SUBSET Adoptable :
       /\ vm   = [n \in Nodes |-> IF n \in there THEN "up" ELSE "none"]
       /\ kube = [n \in Nodes |-> IF n \in there THEN "ready" ELSE "absent"]
  /\ label = [n \in Nodes |-> None]
  /\ shape = [n \in Nodes |-> Clear] /\ late = {}
  /\ stored = None
  /\ op = "none" /\ doc = None /\ pc = "idle" /\ todo = <<>> /\ existing = {}
  /\ clean = TRUE /\ faults = 0

-----------------------------------------------------------------------------
(* How commands end *)

Works == UNCHANGED <<clean, faults>>

Fails ==
  /\ faults < MaxFaults /\ faults' = faults + 1
  /\ clean' = FALSE

Goto(from, to) == pc = from /\ pc' = to

\* The handler raises; the lock is released.
Raise(from) ==
  /\ Goto(from, "idle")
  /\ todo' = <<>> /\ existing' = {}
  /\ UNCHANGED <<op, doc>>

\* `multipass list`, which gives no VM at all when it fails.
Listed(from, to) ==
  /\ Goto(from, to)
  /\ \/ Works /\ existing' = {n \in Nodes : vm[n] # "none"}
     \/ Fails /\ existing' = {}

-----------------------------------------------------------------------------
(* POST: provision.up *)

Post(d) ==
  /\ Goto("idle", "list")
  /\ op' = "post" /\ doc' = d /\ clean' = TRUE
  /\ todo' = d.nodes
  /\ UNCHANGED <<hostVars, linkVars, stored, existing, faults>>

ListVMs ==
  /\ Listed("list", "launch")
  /\ UNCHANGED <<hostVars, linkVars, stored, op, doc, todo>>

\* detect_channel.
NoChannel ==
  /\ Raise("list")
  /\ Fails
  /\ UNCHANGED <<hostVars, linkVars, stored>>

Current == Head(todo).node

\* Mutant: an existing VM is passed over, as one that is done.
Adopt_Skip ==
  /\ pc = "launch" /\ todo # <<>> /\ Current \in existing
  /\ todo' = Tail(todo)
  /\ Works
  /\ UNCHANGED <<hostVars, linkVars, stored, op, doc, pc, existing>>

\* An existing VM is adopted, whatever its state.
Adopt ==
  /\ Goto("launch", "wait")
  /\ todo # <<>> /\ Current \in existing
  /\ Works
  /\ UNCHANGED <<hostVars, linkVars, stored, op, doc, todo, existing>>

Launch ==
  /\ Goto("launch", "wait")
  /\ todo # <<>> /\ Current \notin existing
  /\ vm[Current] = "none"
  /\ vm' = [vm EXCEPT ![Current] = "booting"]
  /\ Works
  /\ UNCHANGED <<kube, label, linkVars, stored, op, doc, todo, existing>>

\* No join command, or no launch; the VM may be there all the same.
LaunchFails ==
  /\ Raise("launch")
  /\ todo # <<>> /\ Current \notin existing
  /\ IF vm[Current] = "none"
       THEN Fails /\ (UNCHANGED vm \/ vm' = [vm EXCEPT ![Current] = "booting"])
       ELSE clean' = FALSE /\ UNCHANGED <<vm, faults>>
  /\ UNCHANGED <<kube, label, linkVars, stored>>

Ready ==
  /\ Goto("wait", "label")
  /\ kube[Current] = "ready"
  /\ Works
  /\ UNCHANGED <<hostVars, linkVars, stored, op, doc, todo, existing>>

\* wait_ready's TimeoutError.
NeverReady ==
  /\ Raise("wait")
  /\ kube[Current] # "ready"
  /\ clean' = FALSE
  /\ UNCHANGED <<hostVars, linkVars, stored, faults>>

Label ==
  /\ \/ /\ Goto("label", "launch")
        /\ label' = [label EXCEPT ![Current] = Head(todo).site]
        /\ todo' = Tail(todo)
        /\ Works
        /\ UNCHANGED <<op, doc, existing>>
     \/ /\ Raise("label")
        /\ Fails
        /\ UNCHANGED label
  /\ UNCHANGED <<vm, kube, linkVars, stored>>

Provisioned ==
  /\ todo = <<>>
  /\ Goto("launch", "store")
  /\ existing' = {}
  /\ Works
  /\ UNCHANGED <<hostVars, linkVars, stored, op, doc, todo>>

-----------------------------------------------------------------------------
(* PATCH of the links; materialise *)

\* A merge.  Latencies are validated, bandwidths are not before netem.
Patch(l) ==
  /\ stored # None
  /\ Goto("idle", "store")
  /\ op' = "patch" /\ doc' = [stored EXCEPT !.links = l] /\ clean' = TRUE
  /\ UNCHANGED <<hostVars, linkVars, stored, todo, existing, faults>>

\* Phases 1 and 2; one that raises has stored the document or not.
Store ==
  /\ \/ Goto("store", "nodes") /\ Works /\ stored' = doc /\ UNCHANGED <<op, doc, todo, existing>>
     \/ Raise("store") /\ Fails /\ stored' \in {stored, doc}
  /\ UNCHANGED <<hostVars, linkVars>>

-----------------------------------------------------------------------------
(* netem: apply and teardown *)

TierNodes == {n \in Nodes : label[n] # None}
TierOf(n) == Tier[label[n]]
AfterShaping == IF op = "delete" THEN "drop" ELSE "idle"

\* Does validate_bandwidth raise?  A DELETE does not parse the links.
Unparsed ==
  op \in {"post", "patch"} /\ \E p \in DOMAIN doc.links : doc.links[p] = Malformed

\* validate_bandwidth and _nodes_by_tier; without them there is no shaping.
ListNodes ==
  /\ \/ /\ ~Unparsed
        /\ Goto("nodes", "exec")
        /\ todo' = SetToSeq(TierNodes)
        /\ Works
     \/ /\ ~Unparsed
        /\ Goto("nodes", AfterShaping)
        /\ Fails
        /\ UNCHANGED todo
     \/ /\ Unparsed
        /\ Goto("nodes", AfterShaping)
        /\ clean' = FALSE
        /\ UNCHANGED <<todo, faults>>
  /\ UNCHANGED <<hostVars, linkVars, stored, op, doc, existing>>

\* Mutant: a link is shaped at one of its ends.
PeersOf_OneEnd(n) ==
  LET peers == {m \in TierNodes : {TierOf(n), TierOf(m)} \in DOMAIN doc.links
                                  /\ TierOf(n) = CHOOSE t \in {TierOf(n), TierOf(m)} : TRUE}
  IN  [m \in peers |-> doc.links[{TierOf(n), TierOf(m)}]]

\* Towards every node of the tier at the other end of each of its links.
PeersOf(n) ==
  LET peers == {m \in TierNodes : {TierOf(n), TierOf(m)} \in DOMAIN doc.links}
  IN  [m \in peers |-> doc.links[{TierOf(n), TierOf(m)}]]

\* The whole of a node's shaping, anew; nothing when it has no peer.
Script(n) == IF op = "delete" THEN Clear ELSE PeersOf(n)

\* What is there after a script that did not work: it starts by deleting the
\* root qdisc, and goes on after a command that fails.
Partial(n) ==
  {shape[n]} \cup {[m \in S |-> Script(n)[m]] : S \in SUBSET DOMAIN Script(n)}

\* Mutant: a script counts as run whatever the command says.
ExecOnNode_Unchecked ==
  /\ pc = "exec" /\ todo # <<>>
  /\ LET n == Head(todo) IN shape' = [shape EXCEPT ![n] = Script(n)]
  /\ todo' = Tail(todo)
  /\ Works
  /\ UNCHANGED <<hostVars, late, stored, op, doc, pc, existing>>

\* Best effort, node by node.  A command that times out may land later.
ExecOnNode ==
  /\ pc = "exec" /\ todo # <<>>
  /\ LET n == Head(todo) IN
     \/ /\ vm[n] = "up"
        /\ shape' = [shape EXCEPT ![n] = Script(n)]
        /\ Works
        /\ UNCHANGED late
     \/ /\ vm[n] = "up"
        /\ Fails
        /\ \E p \in Partial(n) : shape' = [shape EXCEPT ![n] = p]
        /\ late' \in {late, late \cup {[node |-> n, script |-> Script(n)]}}
     \/ /\ vm[n] # "up"
        /\ clean' = FALSE
        /\ UNCHANGED <<linkVars, faults>>
  /\ todo' = Tail(todo)
  /\ UNCHANGED <<hostVars, stored, op, doc, pc, existing>>

Shaped ==
  /\ todo = <<>>
  /\ Goto("exec", AfterShaping)
  /\ Works
  /\ UNCHANGED <<hostVars, linkVars, stored, op, doc, todo, existing>>

-----------------------------------------------------------------------------
(* DELETE: teardown, then provision.down_nodes *)

Delete ==
  /\ stored # None
  /\ Goto("idle", "resolve")
  /\ op' = "delete" /\ doc' = stored /\ clean' = TRUE
  /\ UNCHANGED <<hostVars, linkVars, stored, todo, existing, faults>>

\* Mutant: the nodes of the document, not those that bear its sites' labels.
NodesToStrip_Desired == TierNodes \cap DesiredNodes(doc)

\* topology_node_names, by the sites the document has now.
NodesToStrip == {n \in TierNodes : label[n] \in SitesOf(doc)}

\* `existing` keeps the names until the VMs are listed.
Resolve ==
  /\ Goto("resolve", "nodes")
  /\ \/ Works /\ existing' = NodesToStrip
     \/ Fails /\ existing' = {}
  /\ UNCHANGED <<hostVars, linkVars, stored, op, doc, todo>>

\* The ConfigMaps go, or a failed deletion leaves them.
Drop ==
  /\ Goto("drop", "vms")
  /\ \/ Works /\ stored' = None
     \/ Fails /\ UNCHANGED stored
  /\ UNCHANGED <<hostVars, linkVars, op, doc, todo, existing>>

\* down_nodes: the names that `multipass list` knows.
ListToRemove ==
  /\ Goto("vms", "remove")
  /\ existing' = {}
  /\ \/ Works /\ todo' = SetToSeq({n \in existing : vm[n] # "none"})
     \/ existing # {} /\ Fails /\ todo' = <<>>
  /\ UNCHANGED <<hostVars, linkVars, stored, op, doc>>

\* remove_node: `delete node`, `multipass delete`, `purge` (of every deleted
\* VM), each whatever came of the one before.
RemoveNode ==
  /\ pc = "remove" /\ todo # <<>>
  /\ LET n == Head(todo) IN
     \E unjoined, removed, purged \in BOOLEAN :
       /\ IF unjoined /\ removed /\ purged THEN Works ELSE Fails
       /\ vm' = [m \in Nodes |->
                   LET v == IF m = n /\ removed THEN "deleted" ELSE vm[m]
                   IN  IF v = "deleted" /\ purged THEN "none" ELSE v]
       /\ kube' = [kube EXCEPT ![n] = IF unjoined THEN "absent"
                                      ELSE IF removed /\ @ = "ready" THEN "lost" ELSE @]
       /\ label' = [label EXCEPT ![n] = IF unjoined THEN None ELSE @]
       /\ shape' = [shape EXCEPT ![n] = IF removed THEN Clear ELSE @]
       /\ late' = {s \in late : s.node # n \/ ~removed}
  /\ todo' = Tail(todo)
  /\ UNCHANGED <<stored, op, doc, pc, existing>>

Removed ==
  /\ todo = <<>>
  /\ Goto("remove", "idle")
  /\ Works
  /\ UNCHANGED <<hostVars, linkVars, stored, op, doc, todo, existing>>

-----------------------------------------------------------------------------
(* The VMs *)

\* cloud-init has installed MicroK8s and run the join command.
Join(n) ==
  /\ vm[n] = "booting"
  /\ vm' = [vm EXCEPT ![n] = "up"]
  /\ kube' = [kube EXCEPT ![n] = "ready"]
  /\ UNCHANGED <<label, linkVars, reqVars, stored, clean, faults>>

\* A restart takes the tc rules.
Restart(n) ==
  /\ vm[n] = "up" /\ shape[n] # Clear
  /\ Fails
  /\ shape' = [shape EXCEPT ![n] = Clear]
  /\ UNCHANGED <<hostVars, late, reqVars, stored>>

Land(s) ==
  /\ shape' = [shape EXCEPT ![s.node] = s.script]
  /\ late' = late \ {s}
  /\ clean' = FALSE
  /\ UNCHANGED <<hostVars, reqVars, stored, faults>>

-----------------------------------------------------------------------------
Serve ==
  \/ ListVMs \/ NoChannel \/ Adopt \/ Launch \/ LaunchFails
  \/ Ready \/ NeverReady \/ Label \/ Provisioned
  \/ Store \/ ListNodes \/ ExecOnNode \/ Shaped
  \/ Resolve \/ Drop \/ ListToRemove \/ RemoveNode \/ Removed

Next ==
  \/ \E d \in Docs : Post(d)
  \/ \E l \in LinkSets : Patch(l)
  \/ Delete
  \/ Serve
  \/ \E n \in Nodes : Join(n) \/ Restart(n)
  \/ \E s \in late : Land(s)

Spec == Init /\ [][Next]_vars

\* A request that is being served goes on, and a VM that boots joins.
FairSpec == Spec /\ WF_vars(Serve) /\ \A n \in Nodes : WF_vars(Join(n))

-----------------------------------------------------------------------------
Idle == pc = "idle"

\* After a POST or a PATCH in which nothing failed, the nodes at the two ends
\* of a link are shaped towards each other alike, as the topology says, and no
\* node towards one that its tier has no link to, whatever earlier requests
\* did and left undone.
BothEndsShaped ==
  Idle /\ clean /\ op \in {"post", "patch"} =>
    \A n, m \in TierNodes :
      LET link == {TierOf(n), TierOf(m)}
      IN  IF link \in DOMAIN stored.links
            THEN /\ {m} \subseteq DOMAIN shape[n] /\ {n} \subseteq DOMAIN shape[m]
                 /\ shape[n][m] = stored.links[link] /\ shape[m][n] = shape[n][m]
            ELSE m \notin DOMAIN shape[n]

\* "Strips the infrastructure too" (app.py): a DELETE in which nothing failed
\* leaves no VM whose node bears the label of a site of the topology, not even
\* one that an earlier version of the document launched for that site, and no
\* node shaped.
StrippedByDelete ==
  Idle /\ clean /\ op = "delete" =>
    /\ \A n \in Nodes : label[n] \in SitesOf(doc) => vm[n] = "none"
    /\ \A n \in TierNodes : shape[n] = Clear

\* No retry helps a VM that is deleted and not purged, or alive and no longer
\* in the cluster: it is adopted and never Ready.
Stranded(n) == vm[n] = "deleted" \/ (vm[n] = "up" /\ kube[n] = "absent")

\* "Idempotent - safe to re-run" (provision/README.md): a topology posted again
\* and again gets all its nodes, Ready and labelled for their sites, whatever
\* failed before, unless it is deleted in between or a failed removal has left
\* a node stranded.
RetriesProvision ==
  \A d \in Docs :
    (/\ []<>(pc = "list" /\ doc = d)
     /\ <>[](op # "delete" /\ \A n \in Nodes : ~Stranded(n)))
    => []<>(\A i \in DOMAIN d.nodes :
              LET n == d.nodes[i].node
              IN  kube[n] = "ready" /\ label[n] = d.nodes[i].site)

=============================================================================
