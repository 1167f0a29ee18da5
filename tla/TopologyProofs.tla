--------------------------- MODULE TopologyProofs ---------------------------
(***************************************************************************)
(* For every document: once its VMs are there it is not refused for what   *)
(* it says, its links and pins are those of its tiers, one phase is active *)
(* at a time, and a phase's x reaches the sources it names.                *)
(***************************************************************************)
EXTENDS Topology, XPropagationProofs, SequenceTheorems

-----------------------------------------------------------------------------
(* Lists, and what a dict built from one has *)

LEMMA ListFacts ==
  ASSUME NEW s, IsList(s)
  PROVE  /\ Len(s) \in Nat /\ DOMAIN s = 1..Len(s)
         /\ Range(s) = {s[i] : i \in DOMAIN s}
         /\ s = << >> <=> Len(s) = 0
<1>1. s \in Seq(Range(s))
  BY DEF IsList
<1>2. s \in [1..Len(s) -> Range(s)] /\ Len(s) \in Nat
  BY <1>1
<1>3. s = << >> <=> Len(s) = 0
  BY <1>1
<1>4. QED
  BY <1>2, <1>3 DEF Range

LEMMA MaxIs ==
  ASSUME NEW n \in Nat, NEW S \in SUBSET (1..n), S # {}
  PROVE  Max(S) \in S /\ \A i \in S : i <= Max(S)
<1> DEFINE P == {n - i : i \in S}
<1>1. P \in SUBSET Nat /\ P # {}
  <2>1. \A i \in S : n - i \in Nat
    OBVIOUS
  <2>2. QED
    BY <2>1
<1>2. PICK p \in P : \A q \in P : ~(q < p)
  <2> HIDE DEF P
  <2>1. QED
    BY <1>1, LeastNumber
<1>3. PICK m \in S : p = n - m
  BY <1>2
<1>4. \A i \in S : i <= m
  <2>1. SUFFICES ASSUME NEW i \in S PROVE i <= m
    OBVIOUS
  <2>2. n - i \in P /\ i \in Int /\ m \in Int
    OBVIOUS
  <2>3. ~(n - i < n - m)
    BY <1>2, <1>3, <2>2
  <2>4. QED
    BY <2>2, <2>3
<1>5. \E x \in S : \A y \in S : x >= y
  BY <1>4
<1>6. Max(S) \in S /\ \A y \in S : Max(S) >= y
  BY <1>5 DEF Max
<1>7. QED
  BY <1>6

\* The place of the last entry whose field k is v.
LastWith(s, k, v) == Max({i \in DOMAIN s : s[i][k] = v})

LEMMA LookupIs ==
  ASSUME NEW s, IsList(s), NEW k, NEW v, v \in Field(s, k)
  PROVE  /\ LastWith(s, k, v) \in DOMAIN s
         /\ s[LastWith(s, k, v)][k] = v
         /\ \A f : Lookup(s, k, v, f) = s[LastWith(s, k, v)][f]
<1> DEFINE is == {i \in DOMAIN s : s[i][k] = v}
<1>1. is # {}
  BY DEF Field
<1>2. is \in SUBSET (1..Len(s)) /\ Len(s) \in Nat
  BY ListFacts
<1>3. Max(is) \in is
  <2> HIDE DEF is
  <2>1. QED
    BY <1>1, <1>2, MaxIs
<1>4. QED
  BY <1>1, <1>3 DEF LastWith, Lookup

-----------------------------------------------------------------------------
(* The translation of a document *)

LEMMA RolesOfDoc ==
  ASSUME NEW d, IsDocument(d)
  PROVE  DocRoles(d) \subseteq Roles
<1>1. \A i \in DOMAIN d.descs : d.descs[i] \in Range(d.descs)
  BY ListFacts DEF IsDocument
<1>2. \A i \in DOMAIN d.descs : d.descs[i].name \in DOMAIN Sanitise
  BY <1>1 DEF IsDocument
<1>3. \A n \in Field(d.descs, "name") : n \in DOMAIN Sanitise
  BY <1>2 DEF Field
<1>4. QED
  BY <1>3, DocumentAssumption DEF DocRoles

LEMMA DescOfIs ==
  ASSUME NEW d, IsDocument(d), NEW r \in DocRoles(d)
  PROVE  DescOf(d, r) \in Range(d.descs) /\ Sanitise[DescOf(d, r).name] = r
<1> DEFINE is == {i \in DOMAIN d.descs : Sanitise[d.descs[i].name] = r}
<1>1. IsList(d.descs)
  BY DEF IsDocument
<1>2. is # {}
  BY DEF DocRoles, Field
<1>3. is \in SUBSET (1..Len(d.descs)) /\ Len(d.descs) \in Nat
  BY <1>1, ListFacts
<1>4. Max(is) \in is
  <2> HIDE DEF is
  <2>1. QED
    BY <1>2, <1>3, MaxIs
<1>5. QED
  BY <1>1, <1>4, ListFacts DEF DescOf

LEMMA RoleByAppIn ==
  ASSUME NEW d, IsDocument(d)
  PROVE  /\ \A app \in DOMAIN RoleByApp(d) : RoleByApp(d)[app] \in DocRoles(d)
         /\ DOMAIN RoleByApp(d) \subseteq Field(d.apps, "id")
<1> DEFINE deployed == {i \in DOMAIN d.apps : d.apps[i].ref \in Field(d.descs, "id")}
           is(app) == {i \in deployed : d.apps[i].id = app}
           ref(app) == d.apps[Max(is(app))].ref
           name(app) == Lookup(d.descs, "id", ref(app), "name")
<1>1. IsList(d.apps) /\ IsList(d.descs)
  BY DEF IsDocument
<1>2. DOMAIN RoleByApp(d) = {d.apps[i].id : i \in deployed}
  BY DEF RoleByApp
<1>3. ASSUME NEW app \in DOMAIN RoleByApp(d) PROVE RoleByApp(d)[app] \in DocRoles(d)
  <2>1. is(app) # {} /\ is(app) \in SUBSET (1..Len(d.apps)) /\ Len(d.apps) \in Nat
    BY <1>1, <1>2, <1>3, ListFacts
  <2>2. Max(is(app)) \in is(app)
    <3> HIDE DEF is
    <3>1. QED
      BY <2>1, MaxIs
  <2>3. ref(app) \in Field(d.descs, "id")
    BY <2>2
  <2>4. name(app) \in Field(d.descs, "name")
    <3> HIDE DEF ref
    <3>1. QED
      BY <1>1, <2>3, LookupIs DEF Field
  <2>5. RoleByApp(d)[app] = Sanitise[name(app)]
    BY <1>2, <1>3 DEF RoleByApp
  <2>6. QED
    <3> HIDE DEF name
    <3>1. QED
      BY <2>4, <2>5 DEF DocRoles
<1>4. QED
  BY <1>2, <1>3 DEF Field

\* The list of the first i values of f.
First(f, i) == [j \in 1..i |-> f[j]]

\* ... and one more at its end.
LEMMA AppendNext ==
  ASSUME NEW n \in Nat, NEW f, NEW i \in 1..n
  PROVE  Append(First(f, i - 1), f[i]) = First(f, i)
<1> DEFINE T == {f[j] : j \in 1..n}
           s == [j \in 1..(i - 1) |-> f[j]]
           t == [j \in 1..i |-> f[j]]
<1>1. s \in Seq(T) /\ Len(s) = i - 1 /\ t \in Seq(T) /\ Len(t) = i /\ f[i] \in T
  OBVIOUS
<1>2. /\ \A j \in 1..(i - 1) : s[j] = t[j]
      /\ t[i] = f[i]
  OBVIOUS
<1>3. Append(s, f[i]) = t
  <2> HIDE DEF T, s, t
  <2>1. Append(s, f[i]) \in Seq(T) /\ Len(Append(s, f[i])) = i
    BY <1>1
  <2>2. \A j \in 1..i : Append(s, f[i])[j] = t[j]
    <3>1. \A j \in 1..(i - 1) : Append(s, f[i])[j] = s[j]
      BY <1>1
    <3>2. Append(s, f[i])[i] = f[i]
      BY <1>1
    <3>3. SUFFICES ASSUME NEW j \in 1..i PROVE Append(s, f[i])[j] = t[j]
      OBVIOUS
    <3>4. CASE j = i
      BY <1>2, <3>2, <3>4
    <3>5. CASE j # i
      <4>1. j \in 1..(i - 1)
        BY <3>5
      <4>2. QED
        BY <1>2, <3>1, <4>1
    <3>6. QED
      BY <3>4, <3>5
  <2>3. QED
    BY <1>1, <2>1, <2>2, SeqEqual
<1>4. QED
  BY <1>3 DEF First

\* A loop that appends f[1], f[2], ... to a list.
LEMMA LoopCollects ==
  ASSUME NEW n \in Nat, NEW f, NEW g,
         g[0] = << >>, \A i \in 1..n : g[i] = Append(g[i - 1], f[i])
  PROVE  g[n] = First(f, n)
<1> DEFINE bad == {i \in 0..n : g[i] # First(f, i)}
<1>1. First(f, 0) = << >>
  BY DEF First
<1>2. \A i \in 1..n : Append(First(f, i - 1), f[i]) = First(f, i)
  BY AppendNext
<1>3. ASSUME bad # {} PROVE FALSE
  <2>1. PICK i \in bad : \A k \in bad : ~(k < i)
    <3>1. bad \in SUBSET Nat
      OBVIOUS
    <3> HIDE DEF bad
    <3>2. QED
      BY <1>3, <3>1, LeastNumber
  <2>2. i \in 0..n /\ g[i] # First(f, i)
    BY <2>1
  <2>3. i # 0
    BY <1>1, <2>2
  <2>4. i - 1 \in 0..n /\ i \in 1..n /\ i - 1 < i
    BY <2>2, <2>3
  <2>5. g[i - 1] = First(f, i - 1)
    BY <2>1, <2>4
  <2>6. g[i] = Append(First(f, i - 1), f[i])
    BY <2>4, <2>5
  <2>7. QED
    BY <1>2, <2>2, <2>4, <2>6
<1>4. n \in 0..n
  OBVIOUS
<1>5. QED
  BY <1>3, <1>4

\* Every edge of a valid document joins two roles: none is skipped.
LEMMA RoleEdgesAre ==
  ASSUME NEW d, IsDocument(d), ValidReferences(d)
  PROVE  RoleEdges(d) = [i \in 1..Len(d.edges) |->
           <<RoleByApp(d)[d.edges[i][1]], RoleByApp(d)[d.edges[i][2]]>>]
<1> DEFINE role == RoleByApp(d)
           n == Len(d.edges)
           Kept(i) == {d.edges[i][1], d.edges[i][2]} \subseteq DOMAIN role
           Pair(i) == <<role[d.edges[i][1]], role[d.edges[i][2]]>>
           f == [i \in 1..n |-> Pair(i)]
           all == [i \in 0..n |-> First(f, i)]
           Step(g, i) == IF i = 0 THEN << >>
                         ELSE IF Kept(i) THEN Append(g[i - 1], Pair(i)) ELSE g[i - 1]
           upTo == CHOOSE g : g = [i \in 0..n |-> Step(g, i)]
<1>1. n \in Nat /\ \A i \in 1..n : Kept(i)
  <2>1. IsList(d.edges)
    BY DEF IsDocument
  <2>2. n \in Nat /\ \A i \in 1..n : d.edges[i] \in Range(d.edges)
    BY <2>1, ListFacts
  <2>3. QED
    BY <2>2 DEF ValidReferences
<1>2. RoleEdges(d) = upTo[n]
  BY DEF RoleEdges
<1>3. \A i \in 1..n : f[i] = Pair(i)
  OBVIOUS
<1>4. f = First(f, n)
  BY DEF First
<1> HIDE DEF n, Kept, Pair, f
<1>5. all = [i \in 0..n |-> Step(all, i)]
  <2>1. all[0] = << >>
    BY <1>1 DEF First
  <2>2. \A i \in 1..n : all[i] = Append(all[i - 1], Pair(i))
    <3>1. SUFFICES ASSUME NEW i \in 1..n PROVE all[i] = Append(all[i - 1], Pair(i))
      OBVIOUS
    <3>2. Append(First(f, i - 1), f[i]) = First(f, i)
      BY <1>1, AppendNext
    <3>3. all[i] = First(f, i) /\ all[i - 1] = First(f, i - 1)
      BY <1>1
    <3> HIDE DEF all
    <3>4. QED
      BY <1>3, <3>2, <3>3
  <2>3. DOMAIN all = 0..n /\ all = [i \in 0..n |-> all[i]]
    OBVIOUS
  <2> HIDE DEF all
  <2>4. \A i \in 0..n : all[i] = Step(all, i)
    <3>1. SUFFICES ASSUME NEW i \in 0..n PROVE all[i] = Step(all, i)
      OBVIOUS
    <3>2. CASE i = 0
      BY <2>1, <3>2
    <3>3. CASE i # 0
      <4>1. i \in 1..n
        BY <1>1, <3>3
      <4>2. QED
        BY <1>1, <2>2, <3>3, <4>1
    <3>4. QED
      BY <3>2, <3>3
  <2> HIDE DEF Step
  <2>5. QED
    BY <2>3, <2>4
<1>6. upTo = [i \in 0..n |-> Step(upTo, i)]
  <2> HIDE DEF all, Step
  <2>1. QED
    BY <1>5
<1> HIDE DEF all, upTo
<1>7. upTo[0] = << >> /\ \A i \in 1..n : upTo[i] = Append(upTo[i - 1], f[i])
  <2>1. \A i \in 0..n : upTo[i] = Step(upTo, i)
    <3> HIDE DEF Step
    <3>1. QED
      BY <1>6
  <2>2. 0 \in 0..n /\ \A i \in 1..n : i \in 0..n /\ i # 0
    BY <1>1
  <2>3. upTo[0] = << >>
    BY <2>1, <2>2
  <2>4. \A i \in 1..n : upTo[i] = Append(upTo[i - 1], Pair(i))
    BY <1>1, <2>1, <2>2
  <2>5. QED
    BY <1>3, <2>3, <2>4
<1>8. upTo[n] = First(f, n)
  BY <1>1, <1>7, LoopCollects
<1>9. upTo[n] = f
  BY <1>4, <1>8
<1>10. QED
  BY <1>2, <1>9 DEF f, Pair, n

LEMMA EdgesTyped ==
  ASSUME NEW d, IsDocument(d), ValidReferences(d)
  PROVE  /\ RoleEdges(d) \in Seq(Roles \X Roles)
         /\ \A e \in Range(RoleEdges(d)) : {e[1], e[2]} \subseteq DocRoles(d)
<1> DEFINE n == Len(d.edges)
           u(i) == RoleByApp(d)[d.edges[i][1]]
           v(i) == RoleByApp(d)[d.edges[i][2]]
<1>1. n \in Nat /\ \A i \in 1..n : d.edges[i] \in Range(d.edges)
  BY ListFacts DEF IsDocument
<1>2. \A i \in 1..n : u(i) \in DocRoles(d) /\ v(i) \in DocRoles(d)
  BY <1>1, RoleByAppIn DEF ValidReferences
<1>3. RoleEdges(d) = [i \in 1..n |-> <<u(i), v(i)>>]
  BY RoleEdgesAre
<1> HIDE DEF n, u, v
<1>4. RoleEdges(d) \in [1..n -> Roles \X Roles]
  BY <1>2, <1>3, RolesOfDoc
<1>5. \A e \in Range(RoleEdges(d)) : \E i \in 1..n : e = <<u(i), v(i)>>
  BY <1>3 DEF Range
<1>6. QED
  BY <1>1, <1>2, <1>4, <1>5

LEMMA XToRolesIn ==
  ASSUME NEW d, IsDocument(d), NEW x, IsX(x)
  PROVE  /\ DOMAIN XToRoles(d, x) \subseteq Roles
         /\ \A r \in DOMAIN XToRoles(d, x) : XToRoles(d, x)[r] \in Int
<1>1. CASE x.num # None
  BY <1>1 DEF IsX, XToRoles, SystemWide
<1>2. CASE x.num = None
  <2> DEFINE role == RoleByApp(d)
             known == {i \in DOMAIN x.map : x.map[i].app \in DOMAIN role}
             of(r) == {i \in known : role[x.map[i].app] = r}
             X == XToRoles(d, x)
  <2>1. X = [r \in {role[x.map[i].app] : i \in known} |-> x.map[Max(of(r))].x]
    BY <1>2 DEF XToRoles
  <2>2. Len(x.map) \in Nat /\ DOMAIN x.map = 1..Len(x.map)
        /\ \A i \in DOMAIN x.map : x.map[i].x \in Int
    BY ListFacts DEF IsX
  <2>3. \A i \in known : role[x.map[i].app] \in Roles
    BY RoleByAppIn, RolesOfDoc
  <2>4. ASSUME NEW r \in DOMAIN X PROVE X[r] \in Int
    <3>1. of(r) # {} /\ of(r) \in SUBSET (1..Len(x.map))
      BY <2>1, <2>2, <2>4
    <3>2. Max(of(r)) \in of(r)
      <4> HIDE DEF of
      <4>1. QED
        BY <2>2, <3>1, MaxIs
    <3>3. Max(of(r)) \in DOMAIN x.map
      BY <3>2
    <3> HIDE DEF of
    <3>4. QED
      BY <2>1, <2>2, <2>4, <3>3
  <2>5. QED
    BY <2>1, <2>3, <2>4
<1>3. QED
  BY <1>1, <1>2

LEMMA LoadsTyped ==
  ASSUME NEW d, IsDocument(d), NEW r \in Roles
  PROVE  AppLoads(d)[r].a \in Int /\ AppLoads(d)[r].b \in Int
<1> DEFINE role == RoleByApp(d)
           LoadsOf == {i \in DOMAIN d.apps :
                         /\ d.apps[i].id \in DOMAIN role /\ role[d.apps[i].id] = r
                         /\ d.apps[i].net # None}
<1>1. AppLoads(d)[r] = IF LoadsOf = {} THEN Idle ELSE d.apps[Max(LoadsOf)].net
  BY DEF AppLoads
<1>2. Len(d.apps) \in Nat /\ DOMAIN d.apps = 1..Len(d.apps)
      /\ \A i \in DOMAIN d.apps : d.apps[i].net \in [a : Int, b : Int] \cup {None}
  BY ListFacts DEF IsDocument
<1>3. CASE LoadsOf = {}
  <2>1. AppLoads(d)[r] = Idle
    BY <1>1, <1>3
  <2>2. QED
    BY <2>1 DEF Idle
<1>4. CASE LoadsOf # {}
  <2>1. Max(LoadsOf) \in LoadsOf
    <3>1. LoadsOf \in SUBSET (1..Len(d.apps))
      BY <1>2
    <3> HIDE DEF LoadsOf
    <3>2. QED
      BY <1>2, <1>4, <3>1, MaxIs
  <2>2. d.apps[Max(LoadsOf)].net \in [a : Int, b : Int]
    BY <1>2, <2>1
  <2>3. AppLoads(d)[r] = d.apps[Max(LoadsOf)].net
    BY <1>1, <1>4
  <2> HIDE DEF LoadsOf
  <2>4. QED
    BY <2>2, <2>3
<1>5. QED
  BY <1>3, <1>4

LEMMA TemplateTyped ==
  ASSUME NEW d, IsDocument(d), ValidReferences(d), NEW x, IsX(x)
  PROVE  IsTemplate(TemplateAt(d, XToRoles(d, x)))
<1> DEFINE t == TemplateAt(d, XToRoles(d, x))
<1>1. t.x = XToRoles(d, x)
  BY DEF TemplateAt
<1>2. t.count \in [Roles -> Nat]
  <2>1. \A r \in DocRoles(d) : DescOf(d, r).replicas \in Nat
    BY DescOfIs DEF IsDocument, ValidReferences
  <2>2. QED
    BY <2>1 DEF TemplateAt
<1>3. t.a \in [Roles -> Int] /\ t.b \in [Roles -> Int]
  BY LoadsTyped DEF TemplateAt
<1>4. QED
  BY <1>1, <1>2, <1>3, XToRolesIn DEF IsTemplate

LEMMA InitialTyped ==
  ASSUME NEW d, IsDocument(d), ValidReferences(d)
  PROVE  IsTemplate(TemplateAt(d, InitialX(d)))
<1>1. d.phases # << >> => 1 \in DOMAIN d.phases
  BY ListFacts DEF IsDocument
<1>2. IsX(IF d.phases # << >> THEN d.phases[1].x ELSE d.x)
  BY <1>1, ListFacts DEF IsDocument
<1>3. QED
  BY <1>2, TemplateTyped DEF InitialX

\* What materialise() asks of the translated template was asked before, but
\* for what the roles' tier and node are named by.
LEMMA TemplateAccepted ==
  ASSUME NEW d, IsDocument(d), ValidReferences(d), ValidLinkValues(d),
         \A r \in DocRoles(d) : {TierOf(d, r), NodeOf(d, r)} \cap NonStrings = {}
  PROVE  ValidTemplate(d)
<1>1. \A r \in DocRoles(d) : DescOf(d, r).replicas >= 1
  BY DescOfIs DEF ValidReferences
<1>2. \A r \in DocRoles(d) : TierOf(d, r) \notin NonStrings /\ NodeOf(d, r) \notin NonStrings
  OBVIOUS
<1>3. QED
  BY <1>1, <1>2, EdgesTyped DEF ValidLinkValues, ValidTemplate

-----------------------------------------------------------------------------
(* The start of a propagation *)

LEMMA ResolvingStarts ==
  ASSUME NEW es, es \in Seq(Roles \X Roles), NEW t, IsTemplate(t), Resolving(es, t)
  PROVE  IInv' /\ SumInv'
<1>1. AtStart'
  BY DEF Resolving, AtStart
<1>2. AtStart' => IInv' /\ SumInv'
  BY StartIInv, StartSums, PTL
<1>3. QED
  BY <1>1, <1>2

-----------------------------------------------------------------------------
(* The inductive invariant *)

Accepted == stage \in {"resolving", "valid", "provisioned", "checked", "running"}

\* The document passed its validation on the way to the stage.
DocInv ==
  /\ IsDocument(doc)
  /\ Accepted => ValidReferences(doc) /\ ValidTimeline(doc) /\ ValidLinkValues(doc)

StageInv ==
  /\ Accepted \/ stage \in {"posted", "400", "late 400"}
  /\ LateRefusalForNames

\* What the propagation works on: the document's edges, and the x of the
\* phase that was applied.
RunInv ==
  /\ time \in Nat
  /\ Accepted => edges = RoleEdges(doc)
  /\ phase \in 0..Len(doc.phases)
  /\ phase # 0 =>
       /\ stage = "running"
       /\ template = TemplateAt(doc, XToRoles(doc, doc.phases[phase].x))

\* Every tier that pods are pinned to had a Ready node.
SiteInv ==
  stage \in {"checked", "running"} =>
    /\ ready \subseteq Field(doc.sites, "site")
    /\ \A desc \in Range(doc.descs) : desc.tier # None => ReadyNodes(desc.tier, ready) # {}

TInv == DocInv /\ StageInv /\ RunInv /\ SiteInv /\ IInv /\ SumInv

LEMMA InitTInv == TInit => TInv
<1>1. SUFFICES ASSUME TInit PROVE TInv
  OBVIOUS
<1>2. DocInv
  <2>1. PICK i \in DOMAIN Docs : doc \in Docs[i]
    BY <1>1 DEF TInit
  <2>2. QED
    BY <1>1, <2>1, DocumentAssumption DEF TInit, DocInv, Accepted
<1>3. StageInv /\ SiteInv
  BY <1>1 DEF TInit, StageInv, SiteInv, LateRefusalForNames
<1>4. RunInv
  <2>1. Len(doc.phases) \in Nat
    BY <1>2, ListFacts DEF DocInv, IsDocument
  <2>2. QED
    BY <1>1, <2>1 DEF TInit, RunInv, Accepted
<1>5. AtStart
  <2>1. \A r \in Roles : Upstreams(r) = {}
    BY <1>1 DEF TInit, Upstreams, Links
  <2>2. \A r \in Roles : UpstreamCount(r) = 0
    BY <2>1, FS_EmptySet DEF UpstreamCount
  <2>3. IsTemplate(template) /\ edges \in Seq(Roles \X Roles)
    BY <1>1 DEF TInit, IsTemplate, Nobody
  <2>4. QED
    BY <1>1, <2>2, <2>3 DEF TInit, AtStart
<1>6. IInv /\ SumInv
  BY <1>5, StartIInv, StartSums
<1>7. QED
  BY <1>2, <1>3, <1>4, <1>6 DEF TInv

LEMMA NextKeeps == Next => UNCHANGED <<edges, template>>
BY DEF Next, Scan, Take, Feed

LEMMA ValidateStep == ASSUME TInv, Validate PROVE TInv'
<1>1. stage = "posted" /\ DocInv /\ RunInv /\ UNCHANGED <<doc, ready, time, phase>>
  BY DEF TInv, Validate, Answer
<1>2. phase = 0
  BY <1>1 DEF RunInv
<1>3. CASE ValidReferences(doc) /\ ValidTimeline(doc) /\ ValidLinkValues(doc)
  <2>1. stage' = "resolving" /\ Resolving(RoleEdges(doc), TemplateAt(doc, InitialX(doc)))
    BY <1>3 DEF Validate, Answer
  <2>2. DocInv' /\ StageInv' /\ SiteInv'
    BY <1>1, <1>3, <2>1 DEF DocInv, StageInv, SiteInv, Accepted, LateRefusalForNames
  <2>3. edges' = RoleEdges(doc)'
    BY <1>1, <2>1 DEF Resolving
  <2>4. RunInv'
    BY <1>1, <1>2, <2>3 DEF RunInv
  <2>5. IInv' /\ SumInv'
    BY <1>1, <1>3, <2>1, EdgesTyped, InitialTyped, ResolvingStarts DEF DocInv
  <2>6. QED
    BY <2>2, <2>4, <2>5 DEF TInv
<1>4. CASE ~(ValidReferences(doc) /\ ValidTimeline(doc) /\ ValidLinkValues(doc))
  <2>1. stage' = "400" /\ UNCHANGED vars
    BY <1>4 DEF Validate, Answer
  <2>2. DocInv' /\ StageInv' /\ SiteInv' /\ RunInv'
    BY <1>1, <1>2, <2>1
       DEF DocInv, StageInv, SiteInv, RunInv, Accepted, LateRefusalForNames
  <2>3. IInv' /\ SumInv'
    BY <2>1, InductiveStep, SumStep DEF TInv
  <2>4. QED
    BY <2>2, <2>3 DEF TInv
<1>5. QED
  BY <1>3, <1>4

LEMMA PropagateStep == ASSUME TInv, Propagate PROVE TInv'
<1>1. UNCHANGED <<doc, stage, ready, time, phase, edges, template>>
  BY NextKeeps DEF Propagate, tvars
<1>2. IInv' /\ SumInv'
  BY InductiveStep, SumStep DEF TInv, Propagate
<1>3. DocInv' /\ StageInv' /\ SiteInv'
  BY <1>1 DEF TInv, DocInv, StageInv, SiteInv, Accepted, ReadyNodes, LateRefusalForNames
<1>4. RunInv'
  BY <1>1 DEF TInv, RunInv, Accepted
<1>5. QED
  BY <1>2, <1>3, <1>4 DEF TInv

\* A step of the POST after the x is resolved, or of the clock: the document
\* and the propagation stay.
LEMMA StageStep ==
  ASSUME TInv, UNCHANGED <<vars, doc, phase>>, time' \in Nat,
         Accepted' => Accepted, StageInv', SiteInv', phase # 0 => stage' = "running"
  PROVE  TInv'
<1>1. DocInv'
  BY DEF TInv, DocInv
<1>2. RunInv'
  BY DEF TInv, RunInv, vars
<1>3. IInv' /\ SumInv'
  BY InductiveStep, SumStep DEF TInv
<1>4. QED
  BY <1>1, <1>2, <1>3 DEF TInv

LEMMA RequestStep ==
  ASSUME TInv, Resolved \/ Provision \/ CheckSites \/ Materialise
  PROVE  TInv'
<1>1. /\ UNCHANGED <<vars, doc, phase, time>> /\ Accepted /\ phase = 0
  <2>1. /\ UNCHANGED <<vars, doc, phase, time>>
        /\ stage \in {"resolving", "valid", "provisioned", "checked"}
    BY DEF Resolved, Provision, CheckSites, Materialise, Answer
  <2>2. phase = 0
    BY <2>1 DEF TInv, RunInv
  <2>3. QED
    BY <2>1, <2>2 DEF Accepted
<1>2. StageInv' /\ SiteInv'
  <2>1. CASE Resolved \/ Provision
    BY <2>1
       DEF Resolved, Provision, Answer, StageInv, SiteInv, Accepted, LateRefusalForNames
  <2>2. CASE CheckSites
    <3>1. PICK S \in SUBSET Field(doc.sites, "site") :
            /\ ready' = S
            /\ stage' = IF \E desc \in Range(doc.descs) :
                             desc.tier # None /\ ReadyNodes(desc.tier, S) = {}
                          THEN "400" ELSE "checked"
      BY <2>2 DEF CheckSites
    <3>2. CASE stage' = "400"
      BY <3>2 DEF StageInv, SiteInv, LateRefusalForNames
    <3>3. CASE stage' # "400"
      <4>1. stage' = "checked"
        BY <3>1, <3>3
      <4>2. \A desc \in Range(doc.descs) :
              desc.tier # None => ReadyNodes(desc.tier, ready') # {}
        BY <3>1, <4>1
      <4>3. \A tier : ReadyNodes(tier, ready)' = ReadyNodes(tier, ready')
        BY <1>1 DEF ReadyNodes
      <4>4. QED
        BY <1>1, <3>1, <4>1, <4>2, <4>3
           DEF StageInv, SiteInv, Accepted, LateRefusalForNames
    <3>4. QED
      BY <3>2, <3>3
  <2>3. CASE Materialise
    <3>1. /\ stage = "checked" /\ ready' = ready
          /\ stage' = IF ValidTemplate(doc) THEN "running" ELSE "late 400"
      BY <1>1, <2>3 DEF Materialise, Answer
    <3>2. \A tier : ReadyNodes(tier, ready)' = ReadyNodes(tier, ready)
      BY <1>1, <3>1 DEF ReadyNodes
    <3>3. SiteInv
      BY DEF TInv
    <3>4. CASE ValidTemplate(doc)
      BY <1>1, <3>1, <3>2, <3>3, <3>4 DEF StageInv, SiteInv, Accepted, LateRefusalForNames
    <3>5. CASE ~ValidTemplate(doc)
      <4>1. \E r \in DocRoles(doc) : {TierOf(doc, r), NodeOf(doc, r)} \cap NonStrings # {}
        BY <1>1, <3>5, TemplateAccepted DEF TInv, DocInv
      <4>2. LateRefusalForNames'
        BY <1>1, <4>1 DEF LateRefusalForNames
      <4>3. QED
        BY <3>1, <3>5, <4>2 DEF StageInv, SiteInv
    <3>6. QED
      BY <3>4, <3>5
  <2>4. QED
    BY <2>1, <2>2, <2>3
<1>3. time' \in Nat
  BY <1>1 DEF TInv, RunInv
<1>4. QED
  BY <1>1, <1>2, <1>3, StageStep

LEMMA MinIs ==
  ASSUME NEW S \in SUBSET Nat, S # {}
  PROVE  Min(S) \in S /\ \A i \in S : Min(S) <= i
<1>1. PICK m \in S : \A i \in S : ~(i < m)
  BY LeastNumber
<1>2. \E x \in S : \A y \in S : x <= y
  BY <1>1
<1>3. QED
  BY <1>2 DEF Min

LEMMA ActiveIs ==
  ASSUME IsDocument(doc), ActivePhase # 0
  PROVE  ActivePhase \in DOMAIN doc.phases
<1> DEFINE is == {i \in DOMAIN doc.phases : InWindow(i)}
<1>1. is # {} /\ ActivePhase = Min(is)
  BY DEF ActivePhase
<1>2. is \in SUBSET Nat
  BY ListFacts DEF IsDocument
<1>3. Min(is) \in is
  <2> HIDE DEF is
  <2>1. QED
    BY <1>1, <1>2, MinIs
<1>4. QED
  BY <1>1, <1>3

LEMMA ApplyPhaseStep == ASSUME TInv, ApplyPhase PROVE TInv'
<1> DEFINE x == doc.phases[ActivePhase].x
<1>1. /\ stage = "running" /\ Accepted /\ UNCHANGED <<doc, stage, ready, time>>
      /\ ActivePhase # 0 /\ phase' = ActivePhase
      /\ Resolving(edges, TemplateAt(doc, XToRoles(doc, x)))
  BY DEF ApplyPhase, Accepted
<1>2. /\ IsDocument(doc) /\ ValidReferences(doc)
      /\ edges = RoleEdges(doc)
  BY <1>1 DEF TInv, DocInv, RunInv
<1>3. ActivePhase \in DOMAIN doc.phases /\ DOMAIN doc.phases = 1..Len(doc.phases)
  BY <1>1, <1>2, ActiveIs, ListFacts DEF IsDocument
<1>4. IsX(x)
  BY <1>2, <1>3, ListFacts DEF IsDocument
<1>5. edges' = edges /\ template' = TemplateAt(doc, XToRoles(doc, x))
  BY <1>1 DEF Resolving
<1>6. IInv' /\ SumInv'
  BY <1>1, <1>2, <1>4, EdgesTyped, TemplateTyped, ResolvingStarts
<1>7. DocInv' /\ StageInv' /\ SiteInv'
  BY <1>1 DEF TInv, DocInv, StageInv, SiteInv, Accepted, ReadyNodes, LateRefusalForNames
<1>8. RunInv'
  <2>1. template' = TemplateAt(doc', XToRoles(doc', doc'.phases[phase'].x))
    BY <1>1, <1>5
  <2>2. phase' \in 0..Len(doc'.phases)
    BY <1>1, <1>3
  <2>3. QED
    BY <1>1, <1>2, <1>5, <2>1, <2>2 DEF RunInv, TInv, Accepted
<1>9. QED
  BY <1>6, <1>7, <1>8 DEF TInv

LEMMA ElapseStep == ASSUME TInv, Elapse PROVE TInv'
<1>1. stage = "running" /\ time' = time + 1 /\ UNCHANGED <<vars, doc, stage, ready, phase>>
  BY DEF Elapse
<1>2. time' \in Nat
  BY <1>1 DEF TInv, RunInv
<1>3. StageInv' /\ SiteInv'
  BY <1>1 DEF TInv, StageInv, SiteInv, Accepted, ReadyNodes, LateRefusalForNames
<1>4. Accepted' => Accepted
  BY <1>1 DEF Accepted
<1>5. QED
  BY <1>1, <1>2, <1>3, <1>4, StageStep

LEMMA TopologyStep == TInv /\ [TNext]_<<vars, tvars>> => TInv'
<1>1. SUFFICES ASSUME TInv, [TNext]_<<vars, tvars>> PROVE TInv'
  OBVIOUS
<1>2. CASE Validate
  BY <1>1, <1>2, ValidateStep
<1>3. CASE Propagate
  BY <1>1, <1>3, PropagateStep
<1>4. CASE Resolved \/ Provision \/ CheckSites \/ Materialise
  BY <1>1, <1>4, RequestStep
<1>5. CASE ApplyPhase
  BY <1>1, <1>5, ApplyPhaseStep
<1>6. CASE Elapse
  BY <1>1, <1>6, ElapseStep
<1>7. CASE UNCHANGED <<vars, tvars>>
  <2>1. UNCHANGED <<doc, stage, ready, time, phase, edges, template>>
    BY <1>7 DEF tvars, vars
  <2>2. IInv' /\ SumInv'
    BY <1>1, <1>7, InductiveStep, SumStep DEF TInv
  <2>3. QED
    BY <1>1, <2>1, <2>2
       DEF TInv, DocInv, StageInv, SiteInv, RunInv, Accepted, ReadyNodes, LateRefusalForNames
<1>8. QED
  BY <1>1, <1>2, <1>3, <1>4, <1>5, <1>6, <1>7 DEF TNext

\* A document that got past its validation is valid at every later stage, and
\* what is propagated, shaped and pinned is what it says, phase by phase.
THEOREM TopologyInvariance == TSpec => []TInv
<1>1. QED
  BY InitTInv, TopologyStep, PTL DEF TSpec

-----------------------------------------------------------------------------
(* The timeline *)

LEMMA PhaseFacts ==
  ASSUME NEW d, IsDocument(d), ValidTimeline(d)
  PROVE  /\ Len(d.phases) \in Nat /\ DOMAIN d.phases = 1..Len(d.phases)
         /\ d.phases # << >> <=> Len(d.phases) # 0
         /\ \A i \in DOMAIN d.phases :
              /\ d.phases[i].from \in Int /\ d.phases[i].to \in Int
              /\ d.phases[i].from < d.phases[i].to
              /\ d.phases[i].from = IF i = 1 THEN 0 ELSE d.phases[i - 1].to
<1>1. \A i \in DOMAIN d.phases : d.phases[i].to > d.phases[i].from /\ ContiguousAt(d, i)
  BY DEF ValidTimeline
<1>2. /\ Len(d.phases) \in Nat /\ DOMAIN d.phases = 1..Len(d.phases)
      /\ d.phases # << >> <=> Len(d.phases) # 0
      /\ \A i \in DOMAIN d.phases : d.phases[i].from \in Int /\ d.phases[i].to \in Int
  BY ListFacts DEF IsDocument
<1>3. QED
  BY <1>1, <1>2 DEF ContiguousAt

\* A phase starts after all earlier ones have ended.
LEMMA WindowsApart ==
  ASSUME NEW d, IsDocument(d), ValidTimeline(d)
  PROVE  \A j \in DOMAIN d.phases : \A i \in 1..(j - 1) : d.phases[i].to <= d.phases[j].from
<1> DEFINE from(i) == d.phases[i].from
           to(i) == d.phases[i].to
           n == Len(d.phases)
           Late(j) == \E i \in 1..(j - 1) : ~(to(i) <= from(j))
           bad == {j \in 1..n : Late(j)}
<1>1. /\ n \in Nat /\ DOMAIN d.phases = 1..n
      /\ \A i \in 1..n : /\ from(i) \in Int /\ to(i) \in Int /\ from(i) < to(i)
                         /\ i # 1 => from(i) = to(i - 1)
  BY PhaseFacts
<1> HIDE DEF from, to, n
<1>2. ASSUME bad # {} PROVE FALSE
  <2>1. PICK j \in bad : \A k \in bad : ~(k < j)
    <3>1. bad \in SUBSET Nat
      OBVIOUS
    <3> HIDE DEF bad
    <3>2. QED
      BY <1>2, <3>1, LeastNumber
  <2>2. PICK i \in 1..(j - 1) : ~(to(i) <= from(j))
    BY <2>1
  <2>3. j \in 1..n /\ j # 1 /\ j - 1 \in 1..n /\ i \in 1..n
    BY <1>1, <2>1, <2>2
  <2>4. from(j) = to(j - 1)
    BY <1>1, <2>3
  <2>5. CASE i = j - 1
    BY <1>1, <2>2, <2>3, <2>4, <2>5
  <2>6. CASE i # j - 1
    <3>1. i \in 1..(j - 1 - 1) /\ j - 1 < j
      BY <2>2, <2>3, <2>6
    <3>2. to(i) <= from(j - 1)
      BY <2>1, <2>3, <3>1
    <3>3. QED
      BY <1>1, <2>2, <2>3, <2>4, <3>2
  <2>7. QED
    BY <2>5, <2>6
<1>3. \A j \in 1..n : ~Late(j)
  BY <1>2
<1>4. QED
  BY <1>1, <1>3 DEF from, to

\* Until its end, some phase of the timeline is active.
LEMMA WindowsCover ==
  ASSUME NEW d, IsDocument(d), ValidTimeline(d), d.phases # << >>,
         NEW now \in Nat, now < d.phases[Len(d.phases)].to
  PROVE  \E i \in DOMAIN d.phases : d.phases[i].from <= now /\ now < d.phases[i].to
<1> DEFINE n == Len(d.phases)
           P == {i \in 1..n : now < d.phases[i].to}
<1>1. n \in Nat /\ n # 0 /\ DOMAIN d.phases = 1..n
  BY PhaseFacts
<1>2. n \in P /\ P \in SUBSET Nat
  BY <1>1
<1>3. PICK i \in P : \A j \in P : ~(j < i)
  <2> HIDE DEF P
  <2>1. QED
    BY <1>2, LeastNumber
<1>4. i \in 1..n /\ now < d.phases[i].to
  BY <1>3
<1>5. d.phases[i].from <= now
  <2>1. CASE i = 1
    <3>1. d.phases[i].from = 0
      BY <1>1, <1>4, <2>1, PhaseFacts
    <3>2. QED
      BY <3>1
  <2>2. CASE i # 1
    <3>1. i - 1 \in 1..n /\ i - 1 < i
      BY <1>1, <1>4, <2>2
    <3>2. ~(now < d.phases[i - 1].to)
      BY <1>3, <3>1
    <3>3. d.phases[i].from = d.phases[i - 1].to /\ d.phases[i].from \in Int
      BY <1>1, <1>4, <2>2, PhaseFacts
    <3>4. QED
      BY <3>2, <3>3
  <2>3. QED
    BY <2>1, <2>2
<1>6. QED
  BY <1>1, <1>4, <1>5

LEMMA OneWindow == TInv => OnePhaseAtATime
<1> DEFINE n == Len(doc.phases)
           on == {i \in DOMAIN doc.phases : InWindow(i)}
<1>1. SUFFICES ASSUME TInv, stage = "running"
               PROVE  Cardinality(on) =
                        IF doc.phases # << >> /\ time < doc.phases[n].to THEN 1 ELSE 0
  BY DEF OnePhaseAtATime
<1>2. IsDocument(doc) /\ ValidTimeline(doc) /\ time \in Nat
  BY <1>1 DEF TInv, DocInv, RunInv, Accepted
<1>3. \A i \in on : doc.phases[i].from <= time /\ time < doc.phases[i].to
  BY DEF InWindow
<1>4. \A i, j \in on : i = j
  <2>1. \A i, j \in on : ~(i < j)
    <3>1. SUFFICES ASSUME NEW i \in on, NEW j \in on, i < j PROVE FALSE
      OBVIOUS
    <3>2. i \in DOMAIN doc.phases /\ j \in DOMAIN doc.phases /\ i \in 1..(j - 1)
      BY <1>2, <3>1, PhaseFacts
    <3>3. doc.phases[i].to <= doc.phases[j].from
      BY <1>2, <3>2, WindowsApart
    <3>4. QED
      BY <1>2, <1>3, <3>2, <3>3, PhaseFacts
  <2>2. \A i \in on : i \in Int
    BY <1>2, PhaseFacts
  <2> HIDE DEF on
  <2>3. QED
    BY <2>1, <2>2
<1>5. CASE doc.phases # << >> /\ time < doc.phases[n].to
  <2>1. PICK i \in on : TRUE
    BY <1>2, <1>5, WindowsCover DEF InWindow
  <2>2. on = {i}
    BY <1>4, <2>1
  <2>3. QED
    BY <1>5, <2>2, FS_Singleton
<1>6. CASE ~(doc.phases # << >> /\ time < doc.phases[n].to)
  <2>1. on = {}
    <3>1. SUFFICES ASSUME NEW i \in on PROVE FALSE
      OBVIOUS
    <3>2. i \in DOMAIN doc.phases /\ n \in DOMAIN doc.phases /\ n \in Nat /\ i \in 1..n
      BY <1>2, PhaseFacts
    <3>3. ~(time < doc.phases[n].to)
      BY <1>6, <3>2
    <3>4. i # n
      BY <1>3, <3>3
    <3>5. doc.phases[i].to <= doc.phases[n].from /\ doc.phases[n].from < doc.phases[n].to
      BY <1>2, <3>2, <3>4, WindowsApart, PhaseFacts
    <3>6. QED
      BY <1>2, <1>3, <3>2, <3>3, <3>5, PhaseFacts
  <2>2. QED
    BY <1>6, <2>1, FS_EmptySet
<1>7. QED
  BY <1>5, <1>6

-----------------------------------------------------------------------------
(* Links and pins *)

\* A latency that is not rounded to 0 is one.
LEMMA RoundedPositive ==
  ASSUME NEW t \in Int, Rounded(t) \in LatencyRange
  PROVE  t > 0
<1>1. \A k \in LatencyRange : k >= 1
  BY DEF LatencyRange
<1>2. Rounded(t) >= 1
  BY <1>1
<1> DEFINE ms == t \div 10
           tenths == t % 10
           up == tenths > 5 \/ (tenths = 5 /\ ms % 2 = 1)
<1>3. ms \in Int /\ tenths \in 0..9 /\ t = 10 * ms + tenths
  OBVIOUS
<1>4. Rounded(t) = IF up THEN ms + 1 ELSE ms
  BY DEF Rounded
<1>5. up => tenths >= 5
  BY <1>3
<1> HIDE DEF ms, tenths, up
<1>6. CASE up
  <2>1. tenths >= 5 /\ ms + 1 >= 1
    BY <1>2, <1>4, <1>5, <1>6
  <2>2. QED
    BY <1>3, <2>1
<1>7. CASE ~up
  <2>1. ms >= 1
    BY <1>2, <1>4, <1>7
  <2>2. QED
    BY <1>3, <2>1
<1>8. QED
  BY <1>6, <1>7

LEMMA LatencyOfEnds ==
  ASSUME NEW d, ValidLatency(d), NEW e \in TierPairs(d)
  PROVE  /\ <<e[2], e[1]>> \notin TierPairs(d)
         /\ \A j \in LatencyIndex(d, e[1], e[2]) : Rounded(d.links[j].ms) \in LatencyRange
<1> HIDE DEF TierPairs, LatencyIndex
<1>1. QED
  BY DEF ValidLatency

LEMMA LatencyOfPair ==
  ASSUME NEW d, ValidLatency(d), NEW s, NEW t, <<s, t>> \in TierPairs(d)
  PROVE  /\ <<t, s>> \notin TierPairs(d)
         /\ \A j \in LatencyIndex(d, s, t) : Rounded(d.links[j].ms) \in LatencyRange
<1>1. PICK e \in TierPairs(d) : e = <<s, t>>
  OBVIOUS
<1>2. e[1] = s /\ e[2] = t
  BY <1>1
<1>3. /\ <<e[2], e[1]>> \notin TierPairs(d)
      /\ \A j \in LatencyIndex(d, e[1], e[2]) : Rounded(d.links[j].ms) \in LatencyRange
  BY LatencyOfEnds
<1>4. QED
  BY <1>2, <1>3

LEMMA BandwidthOfEnds ==
  ASSUME NEW d, ValidBandwidth(d), NEW e \in TierPairs(d)
  PROVE  \A j \in BandwidthIndex(d, e[1], e[2]) : d.links[j].bw > 0
<1> HIDE DEF TierPairs, BandwidthIndex
<1>1. QED
  BY DEF ValidBandwidth

LEMMA BandwidthOfPair ==
  ASSUME NEW d, ValidBandwidth(d), NEW s, NEW t, <<s, t>> \in TierPairs(d)
  PROVE  \A j \in BandwidthIndex(d, s, t) : d.links[j].bw > 0
<1>1. PICK e \in TierPairs(d) : e = <<s, t>>
  OBVIOUS
<1>2. e[1] = s /\ e[2] = t
  BY <1>1
<1>3. QED
  BY <1>2, BandwidthOfEnds

LEMMA Shaped == TInv => LinksShaped
<1>1. SUFFICES ASSUME TInv, stage = "running", NEW i \in InterTier(doc)
      PROVE  LET src == Ends(doc, i)[1]
                 dst == Ends(doc, i)[2]
                 same == {j \in InterTier(doc) : Ends(doc, j) \in {<<src, dst>>, <<dst, src>>}}
                 capped == {j \in same : doc.links[j].bw # None}
                 ms == LatencyIndex(doc, src, dst) \cup LatencyIndex(doc, dst, src)
                 bw == BandwidthIndex(doc, src, dst) \cup BandwidthIndex(doc, dst, src)
             IN  /\ ms = {Max(same)} /\ \A j \in ms : doc.links[j].ms > 0
                 /\ bw = (IF capped = {} THEN {} ELSE {Max(capped)})
                 /\ \A j \in bw : doc.links[j].bw > 0
  BY DEF LinksShaped
<1> DEFINE src == Ends(doc, i)[1]
           dst == Ends(doc, i)[2]
           one == {j \in InterTier(doc) : Ends(doc, j) = <<src, dst>>}
           same == {j \in InterTier(doc) : Ends(doc, j) \in {<<src, dst>>, <<dst, src>>}}
           capped == {j \in same : doc.links[j].bw # None}
           ms == LatencyIndex(doc, src, dst) \cup LatencyIndex(doc, dst, src)
           bw == BandwidthIndex(doc, src, dst) \cup BandwidthIndex(doc, dst, src)
<1>2. IsDocument(doc) /\ ValidLatency(doc) /\ ValidBandwidth(doc)
  BY <1>1 DEF TInv, DocInv, Accepted, ValidLinkValues
<1>3. Ends(doc, i) = <<src, dst>> /\ i \in one
  BY <1>1 DEF Ends
<1>4. <<src, dst>> \in TierPairs(doc) /\ <<dst, src>> \notin TierPairs(doc)
  <2>1. <<src, dst>> \in TierPairs(doc)
    BY <1>3 DEF TierPairs
  <2> HIDE DEF src, dst
  <2>2. QED
    BY <1>2, <2>1, LatencyOfPair
<1>5. \A j \in InterTier(doc) : Ends(doc, j) # <<dst, src>>
  BY <1>4 DEF TierPairs
<1>6. same = one
  BY <1>5
<1>7. /\ \A j \in InterTier(doc) : doc.links[j].ms \in Int
      /\ one \in SUBSET (1..Len(doc.links)) /\ Len(doc.links) \in Nat
  BY <1>2, ListFacts DEF IsDocument, InterTier
<1>8. Max(one) \in one
  <2> HIDE DEF one
  <2>1. QED
    BY <1>3, <1>7, MaxIs
<1>9. LatencyIndex(doc, src, dst) = {Max(one)} /\ LatencyIndex(doc, dst, src) = {}
  BY <1>3, <1>5 DEF LatencyIndex
<1>10. doc.links[Max(one)].ms > 0
  <2>1. Max(one) \in InterTier(doc)
    BY <1>8
  <2> HIDE DEF src, dst, one
  <2>2. \A j \in LatencyIndex(doc, src, dst) : Rounded(doc.links[j].ms) \in LatencyRange
    BY <1>2, <1>4, LatencyOfPair
  <2>3. Rounded(doc.links[Max(one)].ms) \in LatencyRange
    BY <1>9, <2>2
  <2>4. doc.links[Max(one)].ms \in Int
    BY <1>7, <2>1
  <2>5. QED
    BY <2>3, <2>4, RoundedPositive
<1>11. ms = {Max(same)} /\ \A j \in ms : doc.links[j].ms > 0
  <2> HIDE DEF src, dst, one, same
  <2>1. QED
    BY <1>6, <1>9, <1>10
<1>12. bw = (IF capped = {} THEN {} ELSE {Max(capped)})
  <2>1. capped = {j \in InterTier(doc) : Ends(doc, j) = <<src, dst>> /\ doc.links[j].bw # None}
    <3> HIDE DEF src, dst
    <3>1. QED
      BY <1>6
  <2>2. BandwidthIndex(doc, src, dst) = (IF capped = {} THEN {} ELSE {Max(capped)})
    <3> HIDE DEF src, dst, capped
    <3>1. QED
      BY <2>1 DEF BandwidthIndex
  <2>3. BandwidthIndex(doc, dst, src) = {}
    <3> HIDE DEF src, dst
    <3>1. QED
      BY <1>5 DEF BandwidthIndex
  <2> HIDE DEF capped, src, dst
  <2>4. QED
    BY <2>2, <2>3
<1>13. \A j \in bw : doc.links[j].bw > 0
  <2>1. BandwidthIndex(doc, dst, src) = {}
    <3> HIDE DEF src, dst
    <3>1. QED
      BY <1>5 DEF BandwidthIndex
  <2> HIDE DEF src, dst
  <2>2. \A j \in BandwidthIndex(doc, src, dst) : doc.links[j].bw > 0
    BY <1>2, <1>4, BandwidthOfPair
  <2>3. QED
    BY <2>1, <2>2
<1>14. QED
  <2> HIDE DEF ms, bw
  <2>1. QED
    BY <1>11, <1>12, <1>13 DEF src, dst, same, capped, ms, bw

LEMMA Pinned == TInv => PinnedToTier
<1>1. SUFFICES ASSUME TInv, stage = "running", NamedTiers, DistinctRoles,
                      NEW desc \in Range(doc.descs), desc.tier # None
      PROVE  LET nodes == Eligible(Sanitise[desc.name])
                 ofTier == ReadyNodes(desc.tier, Field(doc.sites, "site"))
             IN  /\ nodes \subseteq ofTier
                 /\ desc.node = None => nodes = ofTier /\ nodes \cap ready # {}
  BY DEF PinnedToTier
<1> DEFINE r == Sanitise[desc.name]
           F == Field(doc.sites, "site")
           K(site) == LastWith(doc.sites, "site", site)
           L == LastWith(doc.sites, "tier", desc.tier)
<1>2. /\ IsDocument(doc) /\ ValidReferences(doc)
      /\ ready \subseteq F /\ ReadyNodes(desc.tier, ready) # {}
  BY <1>1 DEF TInv, DocInv, SiteInv, Accepted
<1>3. IsList(doc.sites) /\ IsList(doc.descs)
  BY <1>2 DEF IsDocument
<1>4. DescOf(doc, r) = desc
  <2>1. PICK i \in DOMAIN doc.descs : desc = doc.descs[i]
    BY <1>1, <1>3, ListFacts
  <2>2. r \in DocRoles(doc)
    BY <2>1 DEF DocRoles, Field
  <2>3. DescOf(doc, r) \in Range(doc.descs) /\ Sanitise[DescOf(doc, r).name] = r
    BY <1>2, <2>2, DescOfIs
  <2>4. PICK j \in DOMAIN doc.descs : DescOf(doc, r) = doc.descs[j]
    BY <1>3, <2>3, ListFacts
  <2>5. QED
    BY <1>1, <2>1, <2>3, <2>4 DEF DistinctRoles
<1>5. L \in DOMAIN doc.sites /\ doc.sites[L].tier = desc.tier
      /\ TierOf(doc, r) = doc.sites[L].name
  <2>1. desc.tier \in Field(doc.sites, "tier")
    BY <1>1, <1>2 DEF ValidReferences
  <2>2. L \in DOMAIN doc.sites /\ doc.sites[L].tier = desc.tier
        /\ Lookup(doc.sites, "tier", desc.tier, "name") = doc.sites[L].name
    BY <1>3, <2>1, LookupIs
  <2>3. QED
    BY <1>1, <1>4, <2>2 DEF TierOf, TierNameById
<1>6. ASSUME NEW site \in F
      PROVE  /\ K(site) \in DOMAIN doc.sites
             /\ Lookup(doc.sites, "site", site, "name") = doc.sites[K(site)].name
             /\ Lookup(doc.sites, "site", site, "tier") = doc.sites[K(site)].tier
  BY <1>3, LookupIs
<1>7. \A i, j \in DOMAIN doc.sites :
        /\ doc.sites[i].name # None
        /\ doc.sites[i].name = doc.sites[j].name <=> doc.sites[i].tier = doc.sites[j].tier
  BY <1>1, <1>3, ListFacts DEF NamedTiers
<1> HIDE DEF L, K, r
<1>8. /\ Eligible(r) \subseteq ReadyNodes(desc.tier, F)
      /\ desc.node = None => Eligible(r) = ReadyNodes(desc.tier, F)
  <2>1. \A site \in F :
          TierOf(doc, r) \in {None, TierNameBySite(doc, site)}
            <=> Lookup(doc.sites, "site", site, "tier") = desc.tier
    BY <1>5, <1>6, <1>7 DEF TierNameBySite
  <2>2. NodeOf(doc, r) = desc.node
    BY <1>4 DEF NodeOf
  <2>3. QED
    BY <2>1, <2>2 DEF Eligible, ReadyNodes
<1>9. ReadyNodes(desc.tier, ready) \subseteq ReadyNodes(desc.tier, F) \cap ready
  BY <1>2 DEF ReadyNodes
<1>10. QED
  BY <1>2, <1>8, <1>9 DEF r

-----------------------------------------------------------------------------
(* The x of a phase *)

\* The apps that deploy are finitely many; as many roles, and the map from
\* apps to roles has an inverse.
LEMMA OneRolePerApp ==
  ASSUME NEW d, IsDocument(d),
         Cardinality(Range(RoleByApp(d))) = Cardinality(DOMAIN RoleByApp(d))
  PROVE  \A p, q \in DOMAIN RoleByApp(d) : RoleByApp(d)[p] = RoleByApp(d)[q] => p = q
<1> DEFINE role == RoleByApp(d)
           n == Len(d.apps)
           ids == [i \in 1..n |-> d.apps[i].id]
           F == Field(d.apps, "id")
<1>1. n \in Nat /\ DOMAIN d.apps = 1..n
  BY ListFacts DEF IsDocument
<1>2. IsFiniteSet(F)
  <2>1. ids \in Surjection(1..n, F)
    BY <1>1 DEF Surjection, Field
  <2>2. IsFiniteSet(1..n)
    BY <1>1, FS_Interval
  <2> HIDE DEF ids, F, n
  <2>3. QED
    BY <2>1, <2>2, FS_Surjection
<1>3. IsFiniteSet(DOMAIN role)
  <2> HIDE DEF F
  <2>1. DOMAIN role \in SUBSET F
    BY RoleByAppIn DEF F
  <2>2. QED
    BY <1>2, <2>1, FS_Subset
<1>4. role \in Surjection(DOMAIN role, Range(role))
  <2>1. role = [app \in DOMAIN role |-> role[app]]
    BY DEF RoleByApp
  <2> HIDE DEF role
  <2>2. QED
    BY <2>1 DEF Surjection, Range
<1>5. role \in Injection(DOMAIN role, Range(role))
  <2>1. Cardinality(Range(role)) = Cardinality(DOMAIN role)
    OBVIOUS
  <2> HIDE DEF role
  <2>2. QED
    BY <1>3, <1>4, <2>1, FS_Surjection
<1>6. QED
  <2> HIDE DEF role
  <2>1. \A p, q \in DOMAIN role : role[p] = role[q] => p = q
    BY <1>5 DEF Injection, IsInjective
  <2>2. QED
    BY <2>1 DEF role

\* When the propagation has finished, a role without upstreams has the x that
\* the template gives it.
LEMMA SourceResolved ==
  ASSUME IInv, SumInv, Finished, NEW r \in Roles, Upstreams(r) = {}
  PROVE  resolved[r] = SourceX(r)
<1>1. remaining[r] = 0
  <2>1. Pending(r) = {}
    BY DEF Pending
  <2>2. QED
    BY <2>1, NothingPending DEF IInv
<1>2. PICK i \in 1..Len(RoleOrder) : RoleOrder[i] = r
  BY RoleAssumption
<1>3. i \in 1..(pos - 1)
  BY <1>2, RoleFacts DEF Finished, Scanned, IInv, TypeOK
<1>4. resolved[r] # None
  BY <1>1, <1>2, <1>3 DEF IInv, QueueInv
<1>5. QED
  BY <1>4 DEF SumInv, ValueAt

LEMMA SourceAppsAlone ==
  ASSUME TInv, Accepted, OneAppPerRole, NEW app \in SourceApps(doc)
  PROVE  RoleByApp(doc)[app] \in Roles /\ Upstreams(RoleByApp(doc)[app]) = {}
<1> DEFINE role == RoleByApp(doc)
           n == Len(doc.edges)
<1>1. IsDocument(doc) /\ ValidReferences(doc) /\ edges = RoleEdges(doc)
  BY DEF TInv, DocInv, RunInv
<1>2. app \in DOMAIN role /\ app \notin {doc.edges[i][2] : i \in DOMAIN doc.edges}
  BY DEF SourceApps
<1>3. role[app] \in Roles
  BY <1>1, <1>2, RoleByAppIn, RolesOfDoc
<1>4. n \in Nat /\ DOMAIN doc.edges = 1..n
      /\ \A i \in 1..n : doc.edges[i][2] \in DOMAIN role
  <2>1. n \in Nat /\ DOMAIN doc.edges = 1..n
        /\ \A i \in 1..n : doc.edges[i] \in Range(doc.edges)
    BY <1>1, ListFacts DEF IsDocument
  <2>2. QED
    BY <1>1, <2>1 DEF ValidReferences
<1>5. edges = [i \in 1..n |-> <<role[doc.edges[i][1]], role[doc.edges[i][2]]>>]
  BY <1>1, RoleEdgesAre
<1>6. \A p, q \in DOMAIN role : role[p] = role[q] => p = q
  BY <1>1, OneRolePerApp DEF OneAppPerRole
<1> HIDE DEF role, n
<1>7. ASSUME NEW u \in Upstreams(role[app]) PROVE FALSE
  <2>1. <<u, role[app]>> \in {edges[i] : i \in DOMAIN edges}
    BY <1>7 DEF Upstreams, Links
  <2>2. PICK i \in 1..n :
          <<u, role[app]>> = <<role[doc.edges[i][1]], role[doc.edges[i][2]]>>
    BY <1>5, <2>1
  <2>3. role[app] = role[doc.edges[i][2]]
    BY <2>2
  <2>4. app = doc.edges[i][2]
    BY <1>2, <1>4, <1>6, <2>3
  <2>5. QED
    BY <1>2, <1>4, <2>4
<1>8. QED
  BY <1>3, <1>7 DEF role

\* The x a role gets from a map: that of its app's entry, if it has one.
LEMMA MapToRoles ==
  ASSUME NEW d, IsDocument(d), NEW x, IsX(x), x.num = None,
         \A p, q \in DOMAIN RoleByApp(d) : RoleByApp(d)[p] = RoleByApp(d)[q] => p = q,
         NEW app \in DOMAIN RoleByApp(d)
  PROVE  /\ RoleByApp(d)[app] \in DOMAIN XToRoles(d, x) => app \in Field(x.map, "app")
         /\ \A e \in Range(x.map) : e.app = app =>
              /\ RoleByApp(d)[app] \in DOMAIN XToRoles(d, x)
              /\ XToRoles(d, x)[RoleByApp(d)[app]] = e.x
<1> DEFINE role == RoleByApp(d)
           known == {i \in DOMAIN x.map : x.map[i].app \in DOMAIN role}
           of(r) == {i \in known : role[x.map[i].app] = r}
           X == XToRoles(d, x)
<1>1. X = [r \in {role[x.map[i].app] : i \in known} |-> x.map[Max(of(r))].x]
  BY DEF XToRoles
<1>2. IsList(x.map) /\ DOMAIN x.map = 1..Len(x.map) /\ Len(x.map) \in Nat
  BY ListFacts DEF IsX
<1> HIDE DEF role, X
<1>3. ASSUME NEW e \in Range(x.map), e.app = app
      PROVE  role[app] \in DOMAIN X /\ X[role[app]] = e.x
  <2>1. PICK i \in DOMAIN x.map : e = x.map[i]
    BY <1>2, <1>3, ListFacts
  <2>2. i \in known /\ role[x.map[i].app] = role[app]
    BY <1>3, <2>1 DEF role
  <2>3. of(role[app]) = {i}
    <3>1. SUFFICES ASSUME NEW j \in known, role[x.map[j].app] = role[app] PROVE j = i
      BY <2>2
    <3>2. x.map[j].app = app
      BY <3>1 DEF role
    <3>3. QED
      BY <1>3, <2>1, <3>1, <3>2 DEF IsX
  <2>4. Max({i}) = i
    <3>1. i \in Nat
      BY <1>2, <2>1
    <3>2. QED
      BY <3>1 DEF Max
  <2>5. role[app] \in DOMAIN X
    BY <1>1, <2>2
  <2> HIDE DEF of
  <2>6. QED
    BY <1>1, <2>1, <2>3, <2>4, <2>5
<1>4. ASSUME role[app] \in DOMAIN X PROVE app \in Field(x.map, "app")
  <2>1. PICK i \in known : role[x.map[i].app] = role[app]
    BY <1>1, <1>4
  <2>2. x.map[i].app = app
    BY <2>1 DEF role
  <2>3. QED
    BY <2>1, <2>2 DEF Field
<1>5. QED
  BY <1>3, <1>4 DEF role, X

LEMMA Reached == TInv => PhaseReachesSources
<1>1. SUFFICES ASSUME TInv, stage = "running", Finished, phase # 0, OneAppPerRole
      PROVE LET x == doc.phases[phase].x
                XOf(app) == resolved[RoleByApp(doc)[app]]
            IN  IF x.num # None THEN \A app \in SourceApps(doc) : XOf(app) = x.num
                ELSE /\ \A e \in Range(x.map) : XOf(e.app) = e.x
                     /\ \A app \in SourceApps(doc) \ Field(x.map, "app") : XOf(app) = 0
  BY DEF PhaseReachesSources
<1> DEFINE x == doc.phases[phase].x
           role == RoleByApp(doc)
           X == XToRoles(doc, x)
<1>2. Accepted /\ IsDocument(doc) /\ ValidTimeline(doc) /\ template = TemplateAt(doc, X)
  BY <1>1 DEF TInv, DocInv, RunInv, Accepted
<1>3. phase \in DOMAIN doc.phases
  BY <1>1, <1>2, ListFacts DEF TInv, RunInv, IsDocument
<1>4. IsX(x) /\ ValidPhaseX(doc, x)
  BY <1>2, <1>3, ListFacts DEF IsDocument, ValidTimeline
<1>5. template.x = X
  BY <1>2 DEF TemplateAt
<1>6. ASSUME NEW app \in SourceApps(doc)
      PROVE  /\ app \in DOMAIN role /\ role[app] \in Roles
             /\ resolved[role[app]] = IF role[app] \in DOMAIN X THEN X[role[app]] ELSE 0
  <2>1. role[app] \in Roles /\ Upstreams(role[app]) = {}
    BY <1>1, <1>2, SourceAppsAlone
  <2>2. app \in DOMAIN role
    BY DEF SourceApps
  <2> HIDE DEF role, X
  <2>3. resolved[role[app]] = SourceX(role[app])
    BY <1>1, <2>1, SourceResolved DEF TInv
  <2>4. SourceX(role[app]) = IF role[app] \in DOMAIN X THEN X[role[app]] ELSE 0
    BY <1>5 DEF SourceX
  <2>5. QED
    BY <2>1, <2>2, <2>3, <2>4
<1>7. CASE x.num # None
  <2>1. \A r \in Roles : r \in DOMAIN X /\ X[r] = x.num
    BY <1>7 DEF XToRoles, SystemWide
  <2>2. \A app \in SourceApps(doc) : resolved[role[app]] = x.num
    <3> HIDE DEF role, X, x
    <3>1. QED
      BY <1>6, <2>1
  <2>3. QED
    BY <1>7, <2>2
<1>8. CASE x.num = None
  <2>1. \A p, q \in DOMAIN role : role[p] = role[q] => p = q
    BY <1>1, <1>2, OneRolePerApp DEF OneAppPerRole
  <2>2. Field(x.map, "app") \subseteq SourceApps(doc)
    BY <1>4, <1>8 DEF ValidPhaseX
  <2>3. \A e \in Range(x.map) : e.app \in Field(x.map, "app")
    BY <1>4, ListFacts DEF IsX, Field
  <2>4. ASSUME NEW e \in Range(x.map) PROVE resolved[role[e.app]] = e.x
    <3>1. e.app \in SourceApps(doc) /\ e.app \in DOMAIN role
      BY <1>6, <2>2, <2>3
    <3>2. role[e.app] \in DOMAIN X /\ X[role[e.app]] = e.x
      <4> HIDE DEF x
      <4>1. QED
        BY <1>2, <1>4, <1>8, <2>1, <2>4, <3>1, MapToRoles
    <3> HIDE DEF role, X
    <3>3. QED
      BY <1>6, <3>1, <3>2
  <2>5. ASSUME NEW app \in SourceApps(doc) \ Field(x.map, "app")
        PROVE  resolved[role[app]] = 0
    <3>1. app \in SourceApps(doc) /\ app \in DOMAIN role
      BY <1>6, <2>5
    <3>2. role[app] \notin DOMAIN X
      <4> HIDE DEF x
      <4>1. QED
        BY <1>2, <1>4, <1>8, <2>1, <2>5, <3>1, MapToRoles
    <3> HIDE DEF role, X
    <3>3. QED
      BY <1>6, <3>1, <3>2
  <2>6. QED
    BY <1>8, <2>4, <2>5
<1>9. QED
  BY <1>7, <1>8

-----------------------------------------------------------------------------
(* The theorems *)

\* In a running scenario too the propagation's loops stay within their lists.
THEOREM PropagationTyped == TSpec => []TypeOK
<1>1. TInv => TypeOK
  BY DEF TInv, IInv
<1>2. QED
  BY <1>1, TopologyInvariance, PTL

\* "so a bad graph 400s before any provisioning": what validate_topology lets
\* through, validate_template lets through once the VMs are there, unless a
\* node or a tier that pods are pinned to is named by no string.
THEOREM RefusedEarly == TSpec => []LateRefusalForNames
<1>1. TInv => LateRefusalForNames
  BY DEF TInv, StageInv
<1>2. QED
  BY <1>1, TopologyInvariance, PTL

\* Two tiers that links join are shaped by one latency and at most one
\* bandwidth, the last that the links between them give.
THEOREM LinksOfTiers == TSpec => []LinksShaped
BY Shaped, TopologyInvariance, PTL

\* Pods of a running topology are pinned within the nodes of their tier; to
\* all of them, one of which was Ready, unless the document names a node.
THEOREM PodsPinned == TSpec => []PinnedToTier
BY Pinned, TopologyInvariance, PTL

\* A timeline that was accepted has one active phase until it ends, and none
\* after it.
THEOREM OnePhase == TSpec => []OnePhaseAtATime
BY OneWindow, TopologyInvariance, PTL

\* A phase's x is the x its source apps' roles resolve to.
THEOREM SourcesGetPhase == TSpec => []PhaseReachesSources
BY Reached, TopologyInvariance, PTL

\* With the edges of the document and the x of each phase, as for a template
\* taken alone: roles in order, a cycle refused, and sums of the upstreams.
THEOREM PhasesPropagate ==
  TSpec => [](TopologicalOrder /\ RefusedIffCyclic /\ ResolvedIsSum)
<1>1. TInv => TopologicalOrder /\ RefusedIffCyclic /\ ResolvedIsSum
  BY Verdict, SumsAreResolved DEF TInv, IInv
<1>2. QED
  BY <1>1, TopologyInvariance, PTL

=============================================================================
