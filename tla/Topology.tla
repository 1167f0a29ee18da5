------------------------------ MODULE Topology ------------------------------
(***************************************************************************)
(* POST /template with a topology document: controller/materialiser.py     *)
(* validates it, translates it into the role template that the rest of the *)
(* controller works on, resolves x over its role graph (XPropagation),     *)
(* checks that the tiers have Ready nodes and materialises it; the runner  *)
(* then moves x along the document's timeline.                             *)
(*                                                                         *)
(* A document is a record whose sections have the right JSON shape: what   *)
(* can be wrong with it are its references, numbers and windows, and the   *)
(* two kinds of names that validate_topology does not look at, a site's    *)
(* tier_name and a deployment's node_name, which may be of any JSON type.  *)
(* Latency is in tenths of a millisecond, a phase's window in runner ticks.*)
(***************************************************************************)
EXTENDS XPropagation, Functions

CONSTANTS
  Docs,      \* the documents that may be posted, in families
  NonStrings,\* what is neither a string nor falsy, where a name is expected
  Sanitise,  \* _sanitize_name, from deployment names to roles
  MaxTime    \* bound on the runner's clock

\* The values of a field over the entries of a section.
Field(seq, f) == {seq[i][f] : i \in DOMAIN seq}

IsList(s) == s \in Seq(Range(s))

\* An x: a number, or None and a list of [app, x] entries, an entry per app.
IsX(x) ==
  /\ x.num \in Int \cup {None}
  /\ IsList(x.map)
  /\ \A i, j \in DOMAIN x.map : x.map[i].app = x.map[j].app => i = j
  /\ \A e \in Range(x.map) : e.x \in Int

\* A document has
\*   sites   [site, tier, name], tier a tier id, name the tier's name, None
\*           when it is missing or empty
\*   links   [from, to, ms, bw], bw None when the link has no bandwidth
\*   descs   [id, name, replicas, tier, node], tier None without a node
\*           selector, node the site whose node is named, or None
\*   apps    [id, ref, net], ref None without a deployment, net None or [a, b]
\*   edges   pairs of app ids
\*   x       the baseline
\*   phases  [from, to, x]
IsDocument(d) ==
  /\ IsList(d.sites) /\ IsList(d.links) /\ IsList(d.descs)
  /\ IsList(d.apps) /\ IsList(d.edges) /\ IsList(d.phases)
  /\ \A link \in Range(d.links) : link.ms \in Int /\ link.bw \in Int \cup {None}
  /\ \A desc \in Range(d.descs) : desc.name \in DOMAIN Sanitise /\ desc.replicas \in Int
  /\ \A app \in Range(d.apps) : app.net \in [a : Int, b : Int] \cup {None}
  /\ \A ph \in Range(d.phases) : ph.from \in Int /\ ph.to \in Int /\ IsX(ph.x)
  /\ IsX(d.x)

ASSUME DocumentAssumption ==
  /\ MaxTime \in Nat
  /\ None \notin NonStrings
  /\ \A n \in DOMAIN Sanitise : Sanitise[n] \in Roles
  /\ \A i \in DOMAIN Docs : \A d \in Docs[i] : IsDocument(d)

VARIABLES
  doc,      \* the document posted
  stage,    \* where its POST is
  ready,    \* the sites whose node is Ready, as check_sites reads them
  time,     \* the runner's clock
  phase     \* the phase the runner applied last, 0 for none

tvars == <<doc, stage, ready, time, phase>>

-----------------------------------------------------------------------------
(* Cross references *)

\* The value of field f in the last entry whose field k is v: a dict built
\* from the entries in order.  None when there is no such entry.
Lookup(seq, k, v, f) ==
  LET is == {i \in DOMAIN seq : seq[i][k] = v}
  IN  IF is = {} THEN None ELSE seq[Max(is)][f]

TierNameById(d, tier) == Lookup(d.sites, "tier", tier, "name")
TierNameBySite(d, site) == Lookup(d.sites, "site", site, "name")

\* _role_by_app_id: the apps whose deployment exists, and the role it gives;
\* an entry without one takes no earlier entry of its app away.
RoleByApp(d) ==
  LET deployed == {i \in DOMAIN d.apps : d.apps[i].ref \in Field(d.descs, "id")}
      Ref(app) == d.apps[Max({i \in deployed : d.apps[i].id = app})].ref
  IN  [app \in {d.apps[i].id : i \in deployed} |->
         Sanitise[Lookup(d.descs, "id", Ref(app), "name")]]

\* _source_app_ids
SourceApps(d) == DOMAIN RoleByApp(d) \ {d.edges[i][2] : i \in DOMAIN d.edges}

-----------------------------------------------------------------------------
(* The translation into a template *)

DocRoles(d) == {Sanitise[n] : n \in Field(d.descs, "name")}

DescOf(d, r) == d.descs[Max({i \in DOMAIN d.descs : Sanitise[d.descs[i].name] = r})]

Idle == [a |-> 0, b |-> 0]

\* _app_loads: of the apps that deploy as a role, the last with a load.
AppLoads(d) ==
  LET role == RoleByApp(d)
      LoadsOf(r) == {i \in DOMAIN d.apps :
                       /\ d.apps[i].id \in DOMAIN role /\ role[d.apps[i].id] = r
                       /\ d.apps[i].net # None}
  IN  [r \in Roles |-> IF LoadsOf(r) = {} THEN Idle ELSE d.apps[Max(LoadsOf(r))].net]

\* Mutant: the nodeSelector has the tier's id where the label has its name.
TierOf_Id(d, r) == DescOf(d, r).tier

\* The nodeSelector {tier: <name>} of the role's pods, None for any node.
TierOf(d, r) ==
  LET tier == DescOf(d, r).tier IN IF tier = None THEN None ELSE TierNameById(d, tier)

\* The node the role's pods are pinned to by name, None for any.
NodeOf(d, r) == DescOf(d, r).node

RoleEdges(d) ==
  LET role == RoleByApp(d)
      upTo[i \in 0..Len(d.edges)] ==
        IF i = 0 THEN << >>
        ELSE IF {d.edges[i][1], d.edges[i][2]} \subseteq DOMAIN role
          THEN Append(upTo[i - 1], <<role[d.edges[i][1]], role[d.edges[i][2]]>>)
          ELSE upTo[i - 1]
  IN  upTo[Len(d.edges)]

SystemWide(x) == [r \in Roles |-> x.num]

\* Mutant: a per-DAG map is not rekeyed, and no role is named as its app is.
XToRoles_ByApp(d, x) ==
  IF x.num # None THEN SystemWide(x) ELSE [r \in Roles \ Roles |-> 0]

\* _x_to_roles
XToRoles(d, x) ==
  IF x.num # None THEN SystemWide(x)
  ELSE LET role == RoleByApp(d)
           known == {i \in DOMAIN x.map : x.map[i].app \in DOMAIN role}
       IN  [r \in {role[x.map[i].app] : i \in known} |->
              x.map[Max({i \in known : role[x.map[i].app] = r})].x]

InitialX(d) == XToRoles(d, IF d.phases # << >> THEN d.phases[1].x ELSE d.x)

\* A role of no deployment has no pods: it takes no part in the propagation.
TemplateAt(d, x) ==
  LET load == AppLoads(d) IN
  [x |-> x,
   count |-> [r \in Roles |-> IF r \in DocRoles(d) THEN DescOf(d, r).replicas ELSE 0],
   a |-> [r \in Roles |-> load[r].a],
   b |-> [r \in Roles |-> load[r].b]]

\* int(round(tenths / 10)): Python rounds a half to the even neighbour.
Rounded(tenths) ==
  LET ms == tenths \div 10 IN
  IF tenths % 10 > 5 \/ (tenths % 10 = 5 /\ ms % 2 = 1) THEN ms + 1 ELSE ms

\* The links that shaping is about: those between two named tiers.
Ends(d, i) == <<TierNameBySite(d, d.links[i].from), TierNameBySite(d, d.links[i].to)>>
InterTier(d) ==
  {i \in DOMAIN d.links :
     LET e == Ends(d, i) IN e[1] # None /\ e[2] # None /\ e[1] # e[2]}

\* Mutant: a link replaces all that its source tier had so far.
LatencyIndex_PerSource(d, src, dst) ==
  {i \in InterTier(d) :
     /\ Ends(d, i) = <<src, dst>>
     /\ \A j \in InterTier(d) : Ends(d, j)[1] = src => j <= i}

\* latency[src][dst] is what the last link of this orientation says.
LatencyIndex(d, src, dst) ==
  LET is == {i \in InterTier(d) : Ends(d, i) = <<src, dst>>}
  IN  IF is = {} THEN {} ELSE {Max(is)}

BandwidthIndex(d, src, dst) ==
  LET is == {i \in InterTier(d) : Ends(d, i) = <<src, dst>> /\ d.links[i].bw # None}
  IN  IF is = {} THEN {} ELSE {Max(is)}

TierPairs(d) == {Ends(d, i) : i \in InterTier(d)}

-----------------------------------------------------------------------------
(* Validation *)

\* validate_topology, up to the timeline.
ValidReferences(d) ==
  /\ d.sites # << >> /\ d.descs # << >>
  /\ \A link \in Range(d.links) : {link.from, link.to} \subseteq Field(d.sites, "site")
  /\ \A desc \in Range(d.descs) :
       desc.tier \in Field(d.sites, "tier") \cup {None} /\ desc.replicas >= 1
  /\ \A app \in Range(d.apps) : app.ref \in Field(d.descs, "id") \cup {None}
  /\ \A e \in Range(d.edges) : {e[1], e[2]} \subseteq DOMAIN RoleByApp(d)

\* _validate_phase_x
ValidPhaseX(d, x) ==
  x.num # None \/ (x.map # << >> /\ Field(x.map, "app") \subseteq SourceApps(d))

\* Mutant: a phase may start before the previous one has ended.
ContiguousAt_Overlap(d, i) ==
  d.phases[i].from <= (IF i = 1 THEN 0 ELSE d.phases[i - 1].to)

\* start == prev_end
ContiguousAt(d, i) ==
  d.phases[i].from = (IF i = 1 THEN 0 ELSE d.phases[i - 1].to)

\* _validate_runtime_scenarios
ValidTimeline(d) ==
  \A i \in DOMAIN d.phases :
    /\ d.phases[i].to > d.phases[i].from
    /\ ContiguousAt(d, i)
    /\ ValidPhaseX(d, d.phases[i].x)

\* The whole milliseconds from 2 us to the 10 s cap.
LatencyRange == 1..10000

\* linkspec.validate_latency: tiers are named by strings, each pair is there
\* in one orientation only, and no value is too small or too large.
ValidLatency(d) ==
  \A p \in TierPairs(d) :
    /\ p[1] \notin NonStrings /\ p[2] \notin NonStrings
    /\ <<p[2], p[1]>> \notin TierPairs(d)
    /\ \A i \in LatencyIndex(d, p[1], p[2]) : Rounded(d.links[i].ms) \in LatencyRange

\* linkspec.validate_bandwidth
ValidBandwidth(d) ==
  \A p \in TierPairs(d) : \A i \in BandwidthIndex(d, p[1], p[2]) :
    BandwidthIndex(d, p[2], p[1]) = {} /\ d.links[i].bw > 0

\* Mutant: the translated link values are not looked at before provisioning.
ValidLinkValues_Later(d) == d.sites # << >>

ValidLinkValues(d) == ValidLatency(d) /\ ValidBandwidth(d)

\* provision.py:validate_infrastructure
ValidInfrastructure(d) ==
  /\ \A i, j \in DOMAIN d.sites : d.sites[i].site = d.sites[j].site => i = j
  /\ \A link \in Range(d.links) : link.ms >= 0 /\ (link.bw # None => link.bw > 0)

\* validate_template on the translated template, the cycle apart.  Its checks
\* of a role's tier and node have no counterpart in validate_topology.
ValidTemplate(d) ==
  /\ \A r \in DocRoles(d) :
       /\ DescOf(d, r).replicas >= 1
       /\ TierOf(d, r) \notin NonStrings
       /\ NodeOf(d, r) \notin NonStrings
  /\ \A e \in Range(RoleEdges(d)) : {e[1], e[2]} \subseteq DocRoles(d)
  /\ ValidLatency(d)

-----------------------------------------------------------------------------
(* The request *)

\* _compute_resolved_x(template) from its start.
Resolving(es, t) ==
  /\ edges' = es /\ template' = t
  /\ pos' = 1 /\ queue' = << >> /\ head' = 1 /\ todo' = {}
  /\ resolved' = [r \in Roles |-> None]
  /\ accum' = [r \in Roles |-> 0]
  /\ remaining' = [r \in Roles |-> UpstreamCount(r)']

Nobody == [r \in Roles |-> 0]

TInit ==
  /\ \E i \in DOMAIN Docs : doc \in Docs[i]
  /\ stage = "posted"
  /\ ready = {} /\ time = 0 /\ phase = 0
  /\ edges = << >>
  /\ template = [x |-> Nobody, count |-> Nobody, a |-> Nobody, b |-> Nobody]
  /\ pos = 1 /\ queue = << >> /\ head = 1 /\ todo = {}
  /\ resolved = [r \in Roles |-> None]
  /\ accum = [r \in Roles |-> 0] /\ remaining = [r \in Roles |-> 0]

Answer(s) == stage' = s /\ UNCHANGED <<doc, ready, time, phase>>

Validate ==
  /\ stage = "posted"
  /\ IF ValidReferences(doc) /\ ValidTimeline(doc) /\ ValidLinkValues(doc)
       THEN /\ Resolving(RoleEdges(doc), TemplateAt(doc, InitialX(doc)))
            /\ Answer("resolving")
       ELSE Answer("400") /\ UNCHANGED vars

Propagate == stage \in {"resolving", "running"} /\ Next /\ UNCHANGED tvars

Resolved ==
  /\ stage = "resolving" /\ Finished
  /\ Answer(IF Refused THEN "400" ELSE "valid")
  /\ UNCHANGED vars

\* provision.up, which looks at the document once more, or nothing off the
\* host; what fails in it once it has started is in module Host.
Provision ==
  /\ stage = "valid"
  /\ \/ Answer("provisioned")
     \/ ~ValidInfrastructure(doc) /\ Answer("400")
  /\ UNCHANGED vars

\* The nodes, one per site, that carry the tier id.
ReadyNodes(tier, S) == {site \in S : Lookup(doc.sites, "site", site, "tier") = tier}

\* A failed node list reads as no Ready node.
CheckSites ==
  /\ stage = "provisioned"
  /\ \E S \in SUBSET Field(doc.sites, "site") :
       /\ ready' = S
       /\ stage' = IF \E desc \in Range(doc.descs) :
                        desc.tier # None /\ ReadyNodes(desc.tier, S) = {}
                     THEN "400" ELSE "checked"
  /\ UNCHANGED <<vars, doc, time, phase>>

\* materialise() and, when the POST has answered, runner.start.
Materialise ==
  /\ stage = "checked"
  /\ Answer(IF ValidTemplate(doc) THEN "running" ELSE "late 400")
  /\ UNCHANGED vars

-----------------------------------------------------------------------------
(* The runner *)

InWindow(i) == doc.phases[i].from <= time /\ time < doc.phases[i].to

\* _active_phase: the first phase whose window the clock is in.
ActivePhase ==
  LET is == {i \in DOMAIN doc.phases : InWindow(i)} IN IF is = {} THEN 0 ELSE Min(is)

ApplyPhase ==
  /\ stage = "running" /\ Finished
  /\ ActivePhase \notin {0, phase}
  /\ phase' = ActivePhase
  /\ Resolving(edges, TemplateAt(doc, XToRoles(doc, doc.phases[ActivePhase].x)))
  /\ UNCHANGED <<doc, stage, ready, time>>

Elapse ==
  /\ stage = "running" /\ Finished
  /\ doc.phases # << >> /\ time < MaxTime
  /\ ActivePhase \in {0, phase}
  /\ time' = time + 1
  /\ UNCHANGED <<vars, doc, stage, ready, phase>>

TNext ==
  \/ Validate \/ Propagate \/ Resolved \/ Provision \/ CheckSites
  \/ Materialise \/ ApplyPhase \/ Elapse

TSpec == TInit /\ [][TNext]_<<vars, tvars>>

-----------------------------------------------------------------------------
\* "so a bad graph 400s before any provisioning": once the VMs are there a
\* document is refused for a name that is no string only, that of a node or of
\* a tier its pods are pinned to, and never for its references, its link
\* values, its graph or its timeline.
LateRefusalForNames ==
  stage = "late 400" =>
    \E r \in DocRoles(doc) : {TierOf(doc, r), NodeOf(doc, r)} \cap NonStrings # {}

\* Between two tiers that a link joins there is one latency and at most one
\* bandwidth: those of the last link that gives one, whichever sites the links
\* go through.  validate_latency sees a pair specified twice only when it is
\* given in both orientations; two links of one orientation are accepted, the
\* later replaces the earlier, and latency and bandwidth may then come from
\* different links.
LinksShaped ==
  stage = "running" =>
    \A i \in InterTier(doc) :
      LET src == Ends(doc, i)[1]
          dst == Ends(doc, i)[2]
          same == {j \in InterTier(doc) : Ends(doc, j) \in {<<src, dst>>, <<dst, src>>}}
          capped == {j \in same : doc.links[j].bw # None}
          ms == LatencyIndex(doc, src, dst) \cup LatencyIndex(doc, dst, src)
          bw == BandwidthIndex(doc, src, dst) \cup BandwidthIndex(doc, dst, src)
      IN  /\ ms = {Max(same)} /\ \A j \in ms : doc.links[j].ms > 0
          /\ bw = (IF capped = {} THEN {} ELSE {Max(capped)})
          /\ \A j \in bw : doc.links[j].bw > 0

\* Where the nodeSelector of the role's pods lets them run.
Eligible(r) ==
  {site \in Field(doc.sites, "site") :
     /\ TierOf(doc, r) \in {None, TierNameBySite(doc, site)}
     /\ NodeOf(doc, r) \in {None, site}}

\* Different tiers have different names, and every tier has one.
NamedTiers ==
  \A s, t \in Range(doc.sites) : s.name # None /\ (s.name = t.name <=> s.tier = t.tier)

DistinctRoles ==
  \A i, j \in DOMAIN doc.descs :
    Sanitise[doc.descs[i].name] = Sanitise[doc.descs[j].name] => i = j

\* "Pins each app to its tier via the topology.tier_id node label": pods run
\* on nodes of the tier their document names only, and where it names no node,
\* on every such node, one of which is Ready.  (A pod pinned to a node is left
\* to the scheduler: "Pending surfaces a bad name".)
\* The selector is the tier's name, so this takes names that tell tiers apart.
PinnedToTier ==
  stage = "running" /\ NamedTiers /\ DistinctRoles =>
    \A desc \in Range(doc.descs) : desc.tier # None =>
      LET nodes == Eligible(Sanitise[desc.name])
          ofTier == ReadyNodes(desc.tier, Field(doc.sites, "site"))
      IN  /\ nodes \subseteq ofTier
          /\ desc.node = None => nodes = ofTier /\ nodes \cap ready # {}

\* At each moment until its last phase ends, a timeline that was accepted has
\* exactly one active phase, and none after it.
OnePhaseAtATime ==
  stage = "running" =>
    Cardinality({i \in DOMAIN doc.phases : InWindow(i)}) =
      IF doc.phases # << >> /\ time < doc.phases[Len(doc.phases)].to THEN 1 ELSE 0

\* No two apps deploy as one role.
OneAppPerRole == Cardinality(Range(RoleByApp(doc))) = Cardinality(DOMAIN RoleByApp(doc))

\* "each DAG's starting app gets its own input", and "a source omitted from
\* the map starts that phase at 0": the x of the phase applied is the x its
\* source apps' roles resolve to, and no key of its map is without effect.
PhaseReachesSources ==
  stage = "running" /\ Finished /\ phase # 0 /\ OneAppPerRole =>
    LET x == doc.phases[phase].x
        XOf(app) == resolved[RoleByApp(doc)[app]]
    IN  IF x.num # None THEN \A app \in SourceApps(doc) : XOf(app) = x.num
        ELSE /\ \A e \in Range(x.map) : XOf(e.app) = e.x
             /\ \A app \in SourceApps(doc) \ Field(x.map, "app") : XOf(app) = 0

=============================================================================
