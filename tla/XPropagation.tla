---------------------------- MODULE XPropagation ----------------------------
(***************************************************************************)
(* controller/materialiser.py:_compute_resolved_x.  The template's x is a  *)
(* signal: a role without inbound edges takes it as it is, every other     *)
(* role gets the sum of what its upstream roles send.  Kahn's algorithm    *)
(* visits the roles; what it cannot visit has a cycle above it, and the    *)
(* template is refused with a ValueError.                                  *)
(*                                                                         *)
(* One step per iteration of each loop: Scan is the loop over the roles    *)
(* that queues the sources, Take the `while`, Feed the loop over a Python  *)
(* set of downstream roles, which comes in any order.  x and the           *)
(* coefficients are integers.                                              *)
(***************************************************************************)
EXTENDS Integers, Sequences, FiniteSets, FiniteSetsExt

CONSTANTS
  Roles,       \* the template's roles
  RoleOrder,   \* in template order
  EdgeLists,   \* the edge lists of the templates considered
  Templates,   \* and the rest of them
  None         \* not in `resolved`

ASSUME RoleAssumption ==
  /\ RoleOrder \in Seq(Roles)
  /\ \A i, j \in 1..Len(RoleOrder) : RoleOrder[i] = RoleOrder[j] => i = j
  /\ \A r \in Roles : \E i \in 1..Len(RoleOrder) : RoleOrder[i] = r
  /\ IsFiniteSet(Roles)

\* The x a template gives to the roles it names (a number is an x for every
\* role), and each role's pods and the coefficients of its net formula.
IsTemplate(t) ==
  /\ DOMAIN t.x \subseteq Roles /\ \A r \in DOMAIN t.x : t.x[r] \in Int
  /\ t.count \in [Roles -> Nat]
  /\ t.a \in [Roles -> Int] /\ t.b \in [Roles -> Int]

ASSUME TemplateAssumption ==
  /\ EdgeLists \subseteq Seq(Roles \X Roles)
  /\ \A t \in Templates : IsTemplate(t)
  /\ None \notin Int

VARIABLES
  edges,      \* the template's edge list
  template,   \* its x, counts and net formulas
  pos,        \* position in RoleOrder of the loop that queues the sources
  queue,      \* roles resolved, in order
  head,       \* the next one to take from the queue
  todo,       \* downstream roles the current role has not fed yet
  resolved,   \* the x of each role, None while it has none
  accum,      \* sum of the egress fed to it so far
  remaining   \* upstream roles that have not fed it yet

vars == <<edges, template, pos, queue, head, todo, resolved, accum, remaining>>

-----------------------------------------------------------------------------
\* The edges as a set of pairs, self-edges apart: adjacency is kept in sets.
Links == {e \in {edges[i] : i \in DOMAIN edges} : e[1] # e[2]}

Upstreams(r) == {u \in Roles : <<u, r>> \in Links}

\* Mutant: only the upstreams leave self-edges out.
Downstreams_SelfEdges(r) ==
  {d \in Roles : \E i \in DOMAIN edges : edges[i] = <<r, d>>}

Downstreams(r) == {d \in Roles : <<r, d>> \in Links}

\* Mutant: the upstreams are a list, duplicate edges and all.
UpstreamCount_Duplicates(r) ==
  Cardinality({i \in DOMAIN edges : edges[i][1] # r /\ edges[i][2] = r})

\* len(upstreams[r])
UpstreamCount(r) == Cardinality(Upstreams(r))

\* _source_x_fn: a source the spec does not name is idle.
SourceX(r) == IF r \in DOMAIN template.x THEN template.x[r] ELSE 0

\* Mutant: a negative load is passed on.
EgressAt_Negative(r, x) ==
  template.count[r] * (template.a[r] * x + template.b[r])

\* role_total_egress of a role whose x is known.
EgressAt(r, x) ==
  LET perPod == template.a[r] * x + template.b[r] IN
  template.count[r] * (IF perPod > 0 THEN perPod ELSE 0)

\* The ranges of the variables and of the loops' positions.
TypeOK ==
  /\ edges \in Seq(Roles \X Roles) /\ IsTemplate(template)
  /\ pos \in 1..(Len(RoleOrder) + 1)
  /\ queue \in Seq(Roles)
  /\ head \in 1..(Len(queue) + 1)
  /\ todo \in SUBSET Roles
  /\ resolved \in [Roles -> Int \cup {None}]
  /\ accum \in [Roles -> Int]
  /\ remaining \in [Roles -> Nat]

Init ==
  /\ edges \in EdgeLists /\ template \in Templates
  /\ pos = 1
  /\ queue = << >>
  /\ head = 1
  /\ todo = {}
  /\ resolved = [r \in Roles |-> None]
  /\ accum = [r \in Roles |-> 0]
  /\ remaining = [r \in Roles |-> UpstreamCount(r)]

-----------------------------------------------------------------------------
Scanned == pos > Len(RoleOrder)

\* resolved[r] = x; queue.append(r)
Resolve(r, x) ==
  /\ resolved' = [resolved EXCEPT ![r] = x]
  /\ queue' = Append(queue, r)

Scan ==
  LET r == RoleOrder[pos] IN
  /\ ~Scanned
  /\ pos' = pos + 1
  /\ IF remaining[r] = 0
       THEN Resolve(r, SourceX(r))
       ELSE UNCHANGED <<queue, resolved>>
  /\ UNCHANGED <<edges, template, head, todo, accum, remaining>>

Take ==
  /\ Scanned
  /\ todo = {}
  /\ head <= Len(queue)
  /\ head' = head + 1
  /\ todo' = Downstreams(queue[head])
  /\ UNCHANGED <<edges, template, pos, queue, resolved, accum, remaining>>

\* The role the `while` loop is at while `todo` is not empty.
Current == queue[head - 1]

\* Mutant: a role is resolved one upstream early.
Ready_Early(d) == remaining[d] = 2

\* remaining[dn] == 0, after it was decremented.
Ready(d) == remaining[d] = 1

Feed(d) ==
  LET sum == accum[d] + EgressAt(Current, resolved[Current]) IN
  /\ d \in todo
  /\ todo' = todo \ {d}
  /\ accum' = [accum EXCEPT ![d] = sum]
  /\ remaining' = [remaining EXCEPT ![d] = @ - 1]
  /\ IF Ready(d) THEN Resolve(d, sum) ELSE UNCHANGED <<queue, resolved>>
  /\ UNCHANGED <<edges, template, pos, head>>

Next == Scan \/ Take \/ \E d \in Roles : Feed(d)

Spec == Init /\ [][Next]_vars

-----------------------------------------------------------------------------
Finished == Scanned /\ todo = {} /\ head > Len(queue)

\* The ValueError: some role is left.
Refused == Finished /\ \E r \in Roles : resolved[r] = None

\* A set of roles that each have an upstream in the set holds a cycle.
Cyclic == \E S \in SUBSET Roles : S # {} /\ \A r \in S : Upstreams(r) \cap S # {}

\* "Raises ValueError if the role graph contains a cycle", and only then:
\* duplicate edges and self-edges are no cycle, and a cycle is found wherever
\* it lies and whatever order the roles come in.
RefusedIffCyclic == Finished => (Refused <=> Cyclic)

\* Each role is resolved once, and after all of its upstreams.
TopologicalOrder ==
  /\ \A i, j \in DOMAIN queue : queue[i] = queue[j] => i = j
  /\ \A i \in DOMAIN queue : \A u \in Upstreams(queue[i]) :
       \E j \in 1..(i - 1) : queue[j] = u

\* "N * max(0, a * x_U + b) Mbps", what the comment says an upstream sends.
Contribution(u) ==
  template.count[u] * Max({0, template.a[u] * resolved[u] + template.b[u]})

\* A downstream role's x is the sum of the egress of its upstream roles at
\* their own x, each counted once however many edges repeat it.
ResolvedIsSum ==
  \A r \in Roles : resolved[r] # None =>
    resolved[r] =
      IF Upstreams(r) = {} THEN SourceX(r)
      ELSE SumFunction([u \in Upstreams(r) |-> Contribution(u)])

=============================================================================
