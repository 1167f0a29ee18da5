----------------------------- MODULE MCTopology -----------------------------
(***************************************************************************)
(* Topology on five families of documents over four roles: every app graph *)
(* (with a self-edge or a duplicate on the small ones), every short list   *)
(* of links between three sites, deployments and apps that share roles,    *)
(* lack a deployment or name unknown things, every timeline of one or two  *)
(* phases, and tier and node names that are missing, shared, unknown or no *)
(* strings.                                                                *)
(***************************************************************************)
EXTENDS Topology, TLC

CONSTANTS a, b, c, d,                  \* roles
          nA, nAA, nB, nC, nD,         \* deployment names; nA and nAA give a
          dA, dB, dC, dD,              \* deployment ids
          a1, a2, a3, a4,                  \* app ids
          s1, s2, s3, t1, t2, t3, e1, e2, e3, bad,
          five                         \* the number, where a name belongs

MCRoleOrder == <<c, a, b, d>>
MCSanitise == (nA :> a) @@ (nAA :> a) @@ (nB :> b) @@ (nC :> c) @@ (nD :> d)

Site(id, tier, name) == [site |-> id, tier |-> tier, name |-> name]
Link(x, y, ms, bw) == [from |-> x, to |-> y, ms |-> ms, bw |-> bw]
Desc(id, name, n, tier) ==
  [id |-> id, name |-> name, replicas |-> n, tier |-> tier, node |-> None]
OnNode(desc, node) == [desc EXCEPT !.node = node]
App(id, ref, net) == [id |-> id, ref |-> ref, net |-> net]
Net(x, y) == [a |-> x, b |-> y]
Num(n) == [num |-> n, map |-> << >>]
PerDag(map) == [num |-> None, map |-> map]
At(app, n) == [app |-> app, x |-> n]
Phase(x, y, v) == [from |-> x, to |-> y, x |-> v]

Lists(S, n) == UNION {[1..k -> S] : k \in 0..n}

\* Apps a1, a2, a3, a4 as a, b, c, d; one amplifies, one's load is negative at a
\* low x, one has none.
FourDescs == <<Desc(dA, nA, 2, t1), Desc(dB, nB, 1, t1),
               Desc(dC, nC, 3, None), Desc(dD, nD, 1, None)>>
FourApps == <<App(a1, dA, Net(1, 0)), App(a2, dB, Net(2, 0 - 5)),
              App(a3, dC, Net(0, 2)), App(a4, dD, None)>>

Base == [sites |-> <<Site(s1, t1, e1)>>, links |-> << >>,
         descs |-> FourDescs, apps |-> FourApps, edges |-> << >>,
         x |-> PerDag(<<At(a1, 3), At(a2, 1)>>), phases |-> << >>]

AllEdges == <<<<a1, a2>>, <<a2, a1>>, <<a1, a3>>, <<a3, a1>>, <<a2, a3>>, <<a3, a2>>,
              <<a1, a4>>, <<a4, a1>>, <<a2, a4>>, <<a4, a2>>, <<a3, a4>>, <<a4, a3>>>>
Plain == {SelectSeq(AllEdges, LAMBDA e : e \in E) : E \in SUBSET Range(AllEdges)}
Small == {l \in Plain : Len(l) \in 1..3}
Graphs == UNION {Plain, {Append(l, l[1]) : l \in Small},
                 {Append(l, <<a2, a2>>) : l \in Small}}
GraphDocs == {[Base EXCEPT !.edges = es] : es \in Graphs}

SiteLists == {<<Site(s1, t1, e1), Site(s2, t2, e2), Site(s3, t, n)>> :
                <<t, n>> \in {<<t3, e3>>, <<t3, None>>, <<t3, e1>>, <<t1, e1>>}}
             \cup {<<Site(s1, t1, e1), Site(s2, t2, e2), Site(s2, t3, e3)>>}
Links3 == {Link(s1, s2, 300, None), Link(s2, s1, 600, 100), Link(s1, s3, 25, 100),
           Link(s3, s1, 300, None), Link(s1, s2, 4, 0), Link(s3, s2, 600, None),
           Link(s1, s3, 0 - 10, None), Link(s2, bad, 300, None), Link(s1, s2, 70, 50)}
Pinned == <<Desc(dA, nA, 2, t1), Desc(dB, nB, 1, t2), Desc(dC, nC, 1, None)>>
LinkDocs ==
  {[Base EXCEPT !.sites = ss, !.links = ls, !.descs = Pinned,
                !.apps = SubSeq(FourApps, 1, 3)] :
     ss \in SiteLists, ls \in Lists(Links3, 3)}

DescLists ==
  {<<Desc(dA, nA, 2, t1), Desc(y, nm, 1, t), Desc(dC, nC, 2, None)>> :
     y \in {dA, dB}, nm \in {nAA, nB}, t \in {t2, t3, None}}
  \cup {<<Desc(dA, nA, 0, t1), Desc(dB, nB, 1, None), Desc(dC, nC, 2, None)>>}
AppLists ==
  {<<App(a1, dA, Net(1, 0)), App(a2, x, Net(1, 1)), y>> :
     x \in {dA, dB, None, bad},
     y \in {App(a3, dC, None), App(a3, dA, Net(2, 1)), App(a1, dC, Net(2, 1))}}
EdgeSets == Lists({<<a1, a2>>, <<a2, a3>>, <<a1, bad>>}, 1)
            \cup {<<<<a1, a2>>, <<a2, a3>>>>, <<<<a1, a2>>, <<a2, a1>>>>}
AppDocs ==
  {[Base EXCEPT !.sites = <<Site(s1, t1, e1), Site(s2, t2, e2)>>, !.descs = ds,
                !.apps = as, !.edges = es, !.phases = <<Phase(0, 1, x)>>] :
     ds \in DescLists, as \in AppLists, es \in EdgeSets,
     x \in {Num(2), PerDag(<<At(a1, 2), At(a2, 1)>>), PerDag(<<At(a1, 2)>>)}}

FirstX == {Num(3), PerDag(<<At(a1, 2)>>)}
SecondX == {Num(1), PerDag(<<At(a2, 4)>>), PerDag(<<At(a1, 1), At(a2, 2)>>),
            PerDag(<<At(a3, 1)>>), PerDag(<< >>)}
PhaseDocs ==
  {[Base EXCEPT !.edges = <<<<a1, a3>>, <<a2, a3>>>>, !.phases = ph] :
     ph \in {<<Phase(i, j, x)>> : i, j \in 0..2, x \in FirstX}
            \cup {<<Phase(i, j, x), Phase(k, l, y)>> :
                    i, j, k, l \in 0..2, x \in FirstX, y \in SecondX}}

NameDocs ==
  {[Base EXCEPT !.sites = <<Site(s1, t1, m), Site(s2, t2, n)>>,
                !.links = ls,
                !.descs = <<OnNode(Desc(dA, nA, 2, t), x), OnNode(Desc(dB, nB, 1, t2), y)>>,
                !.apps = SubSeq(FourApps, 1, 2)] :
     m \in {e1, None, five}, n \in {e1, e2, five},
     ls \in {<< >>, <<Link(s1, s2, 300, None)>>, <<Link(s1, s2, 2, None)>>},
     t \in {t1, None}, x \in {None, s1, s2, bad, five}, y \in {None, s2, five}}

MCDocs == <<GraphDocs, LinkDocs, AppDocs, PhaseDocs, NameDocs>>

=============================================================================
