----------------------------- MODULE HostProofs -----------------------------
(***************************************************************************)
(* What the host side guarantees for any sites, documents and nodes, and   *)
(* for commands that fail, time out and land late in any order.            *)
(***************************************************************************)
EXTENDS Host, FiniteSetTheorems, TLAPS

-----------------------------------------------------------------------------
(* The lists the handlers work through *)

\* SetToSeq lists all of a set.
LEMMA Listing ==
  ASSUME NEW S, IsFiniteSet(S)
  PROVE  SetToSeq(S) \in Seq(S) /\ Range(SetToSeq(S)) = S
<1> DEFINE n == Cardinality(S)
<1>1. n \in Nat /\ ExistsBijection(1..n, S)
  BY FS_CardinalityType
<1>2. \E f \in [1..n -> S] : IsInjective(f)
  BY <1>1 DEF ExistsBijection, Bijection, Injection
<1>3. SetToSeq(S) \in [1..n -> S] /\ IsInjective(SetToSeq(S))
  BY <1>2 DEF SetToSeq
<1>4. SetToSeq(S) \in Injection(1..n, S)
  BY <1>3 DEF Injection
<1>5. Cardinality(1..n) = n
  BY <1>1, FS_Interval
<1>6. SetToSeq(S) \in Surjection(1..n, S)
  BY <1>4, <1>5, FS_Injection
<1>7. SetToSeq(S) \in Seq(S)
  BY <1>1, <1>3
<1>8. Range(SetToSeq(S)) = S
  BY <1>3, <1>6 DEF Range, Surjection
<1>9. QED
  BY <1>7, <1>8

LEMMA ListElement ==
  ASSUME NEW S, NEW s \in Seq(S) PROVE \A i \in DOMAIN s : s[i] \in S
OBVIOUS

\* One element is done, the others are still to do.
LEMMA ListStep ==
  ASSUME NEW S, NEW s \in Seq(S), s # << >>
  PROVE  /\ Head(s) \in S /\ Tail(s) \in Seq(S)
         /\ \A x \in Range(s) : x = Head(s) \/ x \in Range(Tail(s))
<1>1. Head(s) \in S /\ Tail(s) \in Seq(S)
  OBVIOUS
<1>2. SUFFICES ASSUME NEW i \in DOMAIN s, i # 1 PROVE s[i] \in Range(Tail(s))
  BY <1>1 DEF Range
<1>3. /\ Len(s) \in Nat /\ DOMAIN s = 1..Len(s)
      /\ DOMAIN Tail(s) = 1..(Len(s) - 1)
      /\ \A k \in 1..(Len(s) - 1) : Tail(s)[k] = s[k + 1]
  OBVIOUS
<1>4. i - 1 \in DOMAIN Tail(s) /\ Tail(s)[i - 1] = s[i]
  BY <1>2, <1>3
<1>5. QED
  BY <1>4 DEF Range

LEMMA EmptyRange == Range(<< >>) = {}
BY DEF Range

-----------------------------------------------------------------------------
(* Types *)

Provisioning == {"list", "launch", "wait", "label"}
Removing == {"resolve", "drop", "vms", "remove"}

\* Which handler is where, and what it has still to do: the entries of the
\* document while it provisions, cluster nodes while it shapes or removes.
Placed ==
  /\ pc \in Provisioning =>
       op = "post" /\ todo \in Seq([node : Nodes, site : Sites])
  /\ pc \in {"wait", "label"} => todo # << >>
  /\ pc = "label" => kube[Current] = "ready"
  /\ pc = "store" => op \in {"post", "patch"}
  /\ pc = "resolve" => doc # None
  /\ pc \in Removing => op = "delete"
  /\ pc \in {"exec", "remove"} => todo \in Seq(Nodes)
  /\ pc \notin Provisioning \cup {"exec", "remove"} => todo = << >>

\* A script can only land late on a VM that is up.
LateTyped == \A s \in late : s.node \in Nodes /\ vm[s.node] = "up"

HInv == TypeOK /\ Placed /\ LateTyped /\ shape = [n \in Nodes |-> shape[n]]

LEMMA InitHInv == Init => HInv
<1>1. SUFFICES ASSUME Init PROVE HInv
  OBVIOUS
<1>2. PICK there \in SUBSET Adoptable :
        /\ vm   = [n \in Nodes |-> IF n \in there THEN "up" ELSE "none"]
        /\ kube = [n \in Nodes |-> IF n \in there THEN "ready" ELSE "absent"]
  BY <1>1 DEF Init
<1>3. TypeOK
  BY <1>1, <1>2, HostAssumption DEF Init, TypeOK, Clear
<1>4. QED
  BY <1>1, <1>3 DEF Init, HInv, Placed, LateTyped, Provisioning, Removing

\* The entry a POST is at.
LEMMA CurrentEntry ==
  ASSUME HInv, pc \in Provisioning, todo # << >>
  PROVE  /\ Current \in Nodes /\ Head(todo).site \in Sites
         /\ Tail(todo) \in Seq([node : Nodes, site : Sites])
<1>1. todo \in Seq([node : Nodes, site : Sites])
  BY DEF HInv, Placed
<1>2. Head(todo) \in [node : Nodes, site : Sites]
  BY <1>1, ListStep
<1>3. QED
  BY <1>1, <1>2, ListStep DEF Current

LEMMA FaultType ==
  ASSUME HInv, Works \/ Fails
  PROVE  clean' \in BOOLEAN /\ faults' \in 0 .. MaxFaults
<1>1. clean \in BOOLEAN /\ faults \in 0 .. MaxFaults /\ MaxFaults \in Nat
  BY HostAssumption DEF HInv, TypeOK
<1>2. clean' \in BOOLEAN
  BY <1>1 DEF Works, Fails
<1>3. faults' \in 0 .. MaxFaults
  BY <1>1 DEF Works, Fails
<1>4. QED
  BY <1>2, <1>3

\* A step of a handler that leaves the VMs and the links as they are.
LEMMA PlaceType ==
  ASSUME HInv, UNCHANGED <<hostVars, linkVars>>,
         {stored', doc'} \subseteq Documents \cup {None},
         op' \in {"none", "post", "patch", "delete"},
         pc' \in {"idle", "list", "launch", "wait", "label", "store", "nodes", "exec",
                  "resolve", "drop", "vms", "remove"},
         existing' \subseteq Nodes, clean' \in BOOLEAN, faults' \in 0 .. MaxFaults,
         Placed'
  PROVE  HInv'
BY DEF HInv, TypeOK, LateTyped, hostVars, linkVars

LEMMA ProvisionType ==
  ASSUME HInv,
         \/ \E d \in Docs : Post(d)
         \/ ListVMs \/ NoChannel \/ Adopt \/ Launch \/ LaunchFails
         \/ Ready \/ NeverReady \/ Label \/ Provisioned
  PROVE  HInv'
<1> USE DEF Goto, Provisioning, Removing
<1>1. TypeOK /\ Placed
  BY DEF HInv
<1>2. ASSUME NEW d \in Docs, Post(d) PROVE HInv'
  <2>1. d.nodes \in Seq([node : Nodes, site : Sites]) /\ d \in Documents
    BY HostAssumption
  <2>2. Placed'
    BY <1>2, <2>1 DEF Post, Placed
  <2>3. QED
    BY <1>1, <1>2, <2>1, <2>2, PlaceType DEF Post, TypeOK
<1>3. CASE ListVMs
  <2>1. Placed'
    BY <1>1, <1>3 DEF ListVMs, Listed, Placed
  <2>2. clean' \in BOOLEAN /\ faults' \in 0 .. MaxFaults
    BY <1>3, FaultType DEF ListVMs, Listed
  <2>3. QED
    BY <1>1, <1>3, <2>1, <2>2, PlaceType DEF ListVMs, Listed, TypeOK
<1>4. CASE NoChannel
  <2>1. Placed'
    BY <1>1, <1>4 DEF NoChannel, Raise, Placed
  <2>2. QED
    BY <1>1, <1>4, <2>1, FaultType, PlaceType DEF NoChannel, Raise, TypeOK
<1>5. CASE Adopt
  <2>1. Placed'
    BY <1>1, <1>5 DEF Adopt, Placed
  <2>2. QED
    BY <1>1, <1>5, <2>1, FaultType, PlaceType DEF Adopt, TypeOK
<1>6. ASSUME Launch \/ LaunchFails, vm' # vm PROVE HInv'
  <2>1. pc = "launch" /\ todo # << >> /\ vm[Current] = "none"
        /\ vm' = [vm EXCEPT ![Current] = "booting"]
        /\ UNCHANGED <<kube, label, shape, late, stored, op, doc>>
    BY <1>6 DEF Launch, LaunchFails, Raise, linkVars
  <2>2. Current \in Nodes
    BY <2>1, CurrentEntry
  <2>3. \/ pc' = "wait" /\ UNCHANGED <<todo, existing>>
        \/ pc' = "idle" /\ todo' = << >> /\ existing' = {}
    BY <1>6 DEF Launch, LaunchFails, Raise
  <2>4. clean' \in BOOLEAN /\ faults' \in 0 .. MaxFaults
    BY <1>1, <1>6, FaultType DEF Launch, LaunchFails, TypeOK
  <2>5. TypeOK'
    BY <1>1, <2>1, <2>2, <2>3, <2>4 DEF TypeOK
  <2>6. Placed'
    BY <1>1, <2>1, <2>3 DEF Placed
  <2>7. LateTyped'
    BY <1>1, <2>1, <2>2 DEF HInv, LateTyped, TypeOK
  <2>8. QED
    BY <2>1, <2>5, <2>6, <2>7 DEF HInv
<1>7. ASSUME Launch \/ LaunchFails, vm' = vm PROVE HInv'
  <2>1. UNCHANGED <<hostVars, linkVars, stored, op, doc>> /\ pc = "launch" /\ todo # << >>
    BY <1>7 DEF Launch, LaunchFails, Raise, hostVars
  <2>2. \/ pc' = "wait" /\ UNCHANGED <<todo, existing>>
        \/ pc' = "idle" /\ todo' = << >> /\ existing' = {}
    BY <1>7 DEF Launch, LaunchFails, Raise
  <2>3. clean' \in BOOLEAN /\ faults' \in 0 .. MaxFaults
    BY <1>1, <1>7, FaultType DEF Launch, LaunchFails, TypeOK
  <2>4. Placed'
    BY <1>1, <2>1, <2>2 DEF Placed
  <2>5. QED
    BY <1>1, <2>1, <2>2, <2>3, <2>4, PlaceType DEF TypeOK
<1>8. CASE Ready
  <2>1. Placed'
    BY <1>1, <1>8 DEF Ready, Placed, Current, hostVars
  <2>2. QED
    BY <1>1, <1>8, <2>1, FaultType, PlaceType DEF Ready, TypeOK
<1>9. CASE NeverReady
  <2>1. Placed'
    BY <1>1, <1>9 DEF NeverReady, Raise, Placed
  <2>2. QED
    BY <1>1, <1>9, <2>1, PlaceType DEF NeverReady, Raise, TypeOK
<1>10. CASE Label /\ pc' = "launch"
  <2>1. pc = "label" /\ todo # << >> /\ kube[Current] = "ready"
    BY <1>1, <1>10 DEF Label, Raise, Placed
  <2>2. /\ label' = [label EXCEPT ![Current] = Head(todo).site] /\ todo' = Tail(todo)
        /\ UNCHANGED <<vm, kube, shape, late, stored, op, doc, existing, clean, faults>>
    BY <1>10 DEF Label, Raise, Works, linkVars
  <2>3. /\ Current \in Nodes /\ Head(todo).site \in Sites
        /\ Tail(todo) \in Seq([node : Nodes, site : Sites])
    BY <2>1, CurrentEntry
  <2>4. TypeOK'
    BY <1>1, <1>10, <2>1, <2>2, <2>3 DEF TypeOK
  <2>5. Placed'
    BY <1>1, <1>10, <2>1, <2>2, <2>3 DEF Placed
  <2>6. QED
    BY <2>2, <2>4, <2>5 DEF HInv, LateTyped
<1>11. CASE Label /\ pc' # "launch"
  <2>1. Raise("label") /\ Fails /\ UNCHANGED <<vm, kube, label, linkVars, stored>>
    BY <1>11 DEF Label
  <2>2. Placed'
    BY <1>1, <2>1 DEF Raise, Placed
  <2>3. QED
    BY <1>1, <2>1, <2>2, FaultType, PlaceType DEF Raise, TypeOK, hostVars
<1>12. CASE Provisioned
  <2>1. Placed'
    BY <1>1, <1>12 DEF Provisioned, Placed
  <2>2. QED
    BY <1>1, <1>12, <2>1, FaultType, PlaceType DEF Provisioned, TypeOK
<1>13. QED
  BY <1>2, <1>3, <1>4, <1>5, <1>6, <1>7, <1>8, <1>9, <1>10, <1>11, <1>12

LEMMA ShapeType ==
  ASSUME HInv,
         \/ \E l \in LinkSets : Patch(l)
         \/ Store \/ ListNodes \/ ExecOnNode \/ Shaped
  PROVE  HInv'
<1> USE DEF Goto, Provisioning, Removing
<1>1. TypeOK /\ Placed
  BY DEF HInv
<1>2. ASSUME NEW l \in LinkSets, Patch(l) PROVE HInv'
  <2>1. stored \in Documents
    BY <1>1, <1>2 DEF Patch, TypeOK
  <2>2. [stored EXCEPT !.links = l] \in Documents
    BY <2>1 DEF Documents
  <2>3. Placed'
    BY <1>1, <1>2 DEF Patch, Placed
  <2>4. QED
    BY <1>1, <1>2, <2>1, <2>2, <2>3, PlaceType DEF Patch, TypeOK
<1>3. CASE Store
  <2>1. Placed'
    BY <1>1, <1>3 DEF Store, Raise, Placed
  <2>2. clean' \in BOOLEAN /\ faults' \in 0 .. MaxFaults
    BY <1>3, FaultType DEF Store
  <2>3. QED
    BY <1>1, <1>3, <2>1, <2>2, PlaceType DEF Store, Raise, TypeOK
<1>4. CASE ListNodes
  <2>1. TierNodes \subseteq Nodes /\ IsFiniteSet(TierNodes)
    BY HostAssumption, FS_Subset DEF TierNodes
  <2>2. SetToSeq(TierNodes) \in Seq(Nodes)
    BY <2>1, Listing
  <2>3. pc' \in {"exec", "drop", "idle"} /\ (pc' = "drop" => op = "delete")
    BY <1>4 DEF ListNodes, AfterShaping
  <2>4. todo' \in Seq(Nodes) /\ (pc' # "exec" => todo' = << >>) /\ pc = "nodes"
    <3>1. << >> \in Seq(Nodes)
      OBVIOUS
    <3>2. pc = "nodes" /\ todo = << >>
      BY <1>1, <1>4 DEF ListNodes, Placed
    <3>3. CASE todo' = SetToSeq(TierNodes) /\ pc' = "exec"
      BY <2>2, <3>2, <3>3
    <3>4. CASE todo' = todo
      BY <3>1, <3>2, <3>4
    <3>5. QED
      BY <1>4, <3>3, <3>4 DEF ListNodes
  <2>5. Placed'
    BY <1>1, <1>4, <2>3, <2>4 DEF ListNodes, Placed
  <2>6. clean' \in BOOLEAN /\ faults' \in 0 .. MaxFaults
    BY <1>1, <1>4, FaultType DEF ListNodes, TypeOK
  <2>7. QED
    BY <1>1, <1>4, <2>3, <2>5, <2>6, PlaceType DEF ListNodes, TypeOK
<1>5. CASE ExecOnNode
  <2> DEFINE n == Head(todo)
  <2>1. /\ pc = "exec" /\ todo' = Tail(todo)
        /\ n \in Nodes /\ Tail(todo) \in Seq(Nodes)
        /\ UNCHANGED <<hostVars, stored, op, doc, pc, existing>>
    BY <1>1, <1>5, ListStep DEF ExecOnNode, Placed
  <2>2. clean' \in BOOLEAN /\ faults' \in 0 .. MaxFaults
    BY <1>1, <1>5, FaultType DEF ExecOnNode, TypeOK
  <2>3. Placed'
    BY <1>1, <2>1 DEF Placed
  <2>4. shape' = [m \in Nodes |-> shape'[m]]
    BY <1>5 DEF ExecOnNode, HInv, linkVars
  <2>5. /\ \A m \in Nodes : shape'[m] = shape[m] \/ (m = n /\ vm[n] = "up")
        /\ \A s \in late' : s \in late \/ (s.node = n /\ vm[n] = "up")
    BY <1>5 DEF ExecOnNode, HInv, linkVars
  <2>6. TypeOK'
    BY <1>1, <2>1, <2>2, <2>5 DEF TypeOK, hostVars
  <2>7. LateTyped'
    BY <2>1, <2>5 DEF HInv, LateTyped, hostVars
  <2>8. QED
    BY <2>3, <2>4, <2>6, <2>7 DEF HInv
<1>6. CASE Shaped
  <2>1. pc' \in {"drop", "idle"} /\ (pc' = "drop" => op = "delete")
    BY <1>6 DEF Shaped, AfterShaping
  <2>2. Placed'
    BY <1>1, <1>6, <2>1 DEF Shaped, Placed
  <2>3. QED
    BY <1>1, <1>6, <2>1, <2>2, FaultType, PlaceType DEF Shaped, TypeOK
<1>7. QED
  BY <1>2, <1>3, <1>4, <1>5, <1>6

LEMMA RemoveType ==
  ASSUME HInv, Delete \/ Resolve \/ Drop \/ ListToRemove \/ RemoveNode \/ Removed
  PROVE  HInv'
<1> USE DEF Goto, Provisioning, Removing
<1>1. TypeOK /\ Placed
  BY DEF HInv
<1>2. CASE Delete
  <2>1. Placed'
    BY <1>1, <1>2 DEF Delete, Placed
  <2>2. QED
    BY <1>1, <1>2, <2>1, PlaceType DEF Delete, TypeOK
<1>3. CASE Resolve
  <2>1. Placed'
    BY <1>1, <1>3 DEF Resolve, Placed
  <2>2. existing' \subseteq Nodes
    BY <1>3 DEF Resolve, NodesToStrip, TierNodes
  <2>3. clean' \in BOOLEAN /\ faults' \in 0 .. MaxFaults
    BY <1>3, FaultType DEF Resolve
  <2>4. QED
    BY <1>1, <1>3, <2>1, <2>2, <2>3, PlaceType DEF Resolve, TypeOK
<1>4. CASE Drop
  <2>1. Placed'
    BY <1>1, <1>4 DEF Drop, Placed
  <2>2. clean' \in BOOLEAN /\ faults' \in 0 .. MaxFaults
    BY <1>4, FaultType DEF Drop
  <2>3. QED
    BY <1>1, <1>4, <2>1, <2>2, PlaceType DEF Drop, TypeOK
<1>5. CASE ListToRemove
  <2> DEFINE names == {n \in existing : vm[n] # "none"}
  <2>1. names \subseteq Nodes /\ IsFiniteSet(names)
    BY <1>1, HostAssumption, FS_Subset DEF TypeOK
  <2>2. SetToSeq(names) \in Seq(Nodes)
    BY <2>1, Listing
  <2>3. todo' \in Seq(Nodes)
    <3>1. todo' = SetToSeq(names) \/ todo' = << >>
      BY <1>5 DEF ListToRemove
    <3>2. << >> \in Seq(Nodes)
      OBVIOUS
    <3> HIDE DEF names
    <3>3. QED
      BY <2>2, <3>1, <3>2
  <2>4. Placed'
    BY <1>1, <1>5, <2>3 DEF ListToRemove, Placed
  <2>5. clean' \in BOOLEAN /\ faults' \in 0 .. MaxFaults
    BY <1>5, FaultType DEF ListToRemove
  <2>6. QED
    BY <1>1, <1>5, <2>4, <2>5, PlaceType DEF ListToRemove, TypeOK
<1>6. CASE RemoveNode
  <2> DEFINE n == Head(todo)
  <2>1. /\ pc = "remove" /\ todo' = Tail(todo)
        /\ n \in Nodes /\ Tail(todo) \in Seq(Nodes)
        /\ UNCHANGED <<stored, op, doc, pc, existing>>
    BY <1>1, <1>6, ListStep DEF RemoveNode, Placed
  <2>2. PICK unjoined \in BOOLEAN, removed \in BOOLEAN, purged \in BOOLEAN :
       /\ IF unjoined /\ removed /\ purged THEN Works ELSE Fails
       /\ vm' = [m \in Nodes |->
                   LET v == IF m = n /\ removed THEN "deleted" ELSE vm[m]
                   IN  IF v = "deleted" /\ purged THEN "none" ELSE v]
       /\ kube' = [kube EXCEPT ![n] = IF unjoined THEN "absent"
                                      ELSE IF removed /\ @ = "ready" THEN "lost" ELSE @]
       /\ label' = [label EXCEPT ![n] = IF unjoined THEN None ELSE @]
       /\ shape' = [shape EXCEPT ![n] = IF removed THEN Clear ELSE @]
       /\ late' = {s \in late : s.node # n \/ ~removed}
    BY <1>6 DEF RemoveNode
  <2>3. clean' \in BOOLEAN /\ faults' \in 0 .. MaxFaults
    BY <2>2, FaultType
  <2>4. /\ vm' \in [Nodes -> {"none", "booting", "up", "deleted"}]
        /\ kube' \in [Nodes -> {"absent", "ready", "lost"}]
        /\ label' \in [Nodes -> Sites \cup {None}]
    BY <1>1, <2>2 DEF TypeOK
  <2>5. \A m \in Nodes : /\ kube'[m] = "absent" => label'[m] = None
                         /\ kube'[m] = "ready" => vm'[m] = "up"
                         /\ vm'[m] \notin {"up"} => shape'[m] = Clear
    <3>1. SUFFICES ASSUME NEW m \in Nodes
                   PROVE  /\ kube'[m] = "absent" => label'[m] = None
                          /\ kube'[m] = "ready" => vm'[m] = "up"
                          /\ vm'[m] \notin {"up"} => shape'[m] = Clear
      OBVIOUS
    <3>2. shape'[m] = IF m = n /\ removed THEN Clear ELSE shape[m]
      BY <2>1, <2>2 DEF HInv
    <3>3. vm'[m] = "up" <=> vm[m] = "up" /\ ~(m = n /\ removed)
      BY <1>1, <2>2 DEF TypeOK
    <3>4. /\ kube'[m] = IF m = n /\ unjoined THEN "absent"
                        ELSE IF m = n /\ removed /\ kube[m] = "ready" THEN "lost"
                        ELSE kube[m]
          /\ label'[m] = IF m = n /\ unjoined THEN None ELSE label[m]
      BY <1>1, <2>1, <2>2 DEF TypeOK
    <3>5. QED
      BY <1>1, <3>2, <3>3, <3>4 DEF TypeOK
  <2>6. Placed'
    BY <1>1, <2>1 DEF Placed
  <2>7. LateTyped'
    BY <2>2 DEF HInv, LateTyped
  <2>8. TypeOK'
    BY <1>1, <2>1, <2>3, <2>4, <2>5 DEF TypeOK
  <2>9. shape' = [m \in Nodes |-> shape'[m]]
    BY <2>2 DEF HInv
  <2>10. QED
    BY <2>6, <2>7, <2>8, <2>9 DEF HInv
<1>7. CASE Removed
  <2>1. Placed'
    BY <1>1, <1>7 DEF Removed, Placed
  <2>2. QED
    BY <1>1, <1>7, <2>1, FaultType, PlaceType DEF Removed, TypeOK
<1>8. QED
  BY <1>2, <1>3, <1>4, <1>5, <1>6, <1>7

LEMMA MachineType ==
  ASSUME HInv,
         \/ \E n \in Nodes : Join(n) \/ Restart(n)
         \/ \E s \in late : Land(s)
  PROVE  HInv'
<1>1. TypeOK /\ Placed
  BY DEF HInv
<1>2. ASSUME NEW n \in Nodes, Join(n) PROVE HInv'
  <2>1. Placed' /\ LateTyped'
    BY <1>1, <1>2 DEF Join, HInv, Placed, LateTyped, Current, reqVars, linkVars, TypeOK
  <2>2. TypeOK'
    BY <1>1, <1>2 DEF Join, TypeOK, reqVars, linkVars
  <2>3. QED
    BY <1>2, <2>1, <2>2 DEF Join, HInv, linkVars
<1>3. ASSUME NEW n \in Nodes, Restart(n) PROVE HInv'
  <2>1. Placed' /\ LateTyped'
    BY <1>3 DEF Restart, HInv, Placed, LateTyped, Current, reqVars, hostVars
  <2>2. clean' \in BOOLEAN /\ faults' \in 0 .. MaxFaults
    BY <1>3, FaultType DEF Restart
  <2>3. \A m \in Nodes : shape'[m] \in {shape[m], Clear}
    BY <1>3 DEF Restart, HInv
  <2>4. TypeOK'
    BY <1>1, <1>3, <2>2, <2>3 DEF Restart, TypeOK, reqVars, hostVars
  <2>5. QED
    BY <1>3, <2>1, <2>4 DEF Restart, HInv
<1>4. ASSUME NEW s \in late, Land(s) PROVE HInv'
  <2>1. Placed' /\ LateTyped'
    BY <1>4 DEF Land, HInv, Placed, LateTyped, Current, reqVars, hostVars
  <2>2. \A m \in Nodes : shape'[m] = shape[m] \/ vm[m] = "up"
    BY <1>4 DEF Land, HInv, LateTyped
  <2>3. TypeOK'
    BY <1>1, <1>4, <2>2 DEF Land, TypeOK, reqVars, hostVars
  <2>4. QED
    BY <1>4, <2>1, <2>3 DEF Land, HInv
<1>5. QED
  BY <1>2, <1>3, <1>4

LEMMA TypeStep == HInv /\ [Next]_vars => HInv'
<1>1. SUFFICES ASSUME HInv, [Next]_vars PROVE HInv'
  OBVIOUS
<1>2. CASE UNCHANGED vars
  BY <1>1, <1>2 DEF vars, hostVars, linkVars, reqVars, HInv, TypeOK, Placed, LateTyped, Current
<1>3. QED
  BY <1>1, <1>2, ProvisionType, ShapeType, RemoveType, MachineType DEF Next, Serve

\* Every variable keeps its type, a node is in the cluster only with a VM or
\* after it lost it, and only a VM that is up is shaped, whatever fails and
\* whichever script lands late.
THEOREM TypeCorrect == Spec => []TypeOK
<1>1. HInv => TypeOK
  BY DEF HInv
<1>2. QED
  BY <1>1, InitHInv, TypeStep, PTL DEF Spec

-----------------------------------------------------------------------------
(* What a handler in which nothing has failed has done so far *)

\* A POST or a PATCH: the nodes it has been at are shaped as the topology says.
Shaping ==
  clean /\ op \in {"post", "patch"} /\ pc \in {"nodes", "exec", "idle"} =>
    /\ stored = doc
    /\ pc # "nodes" => \A n \in TierNodes : n \in Range(todo) \/ shape[n] = PeersOf(n)

\* A DELETE: it knows every node of the document's sites, has cleared the
\* nodes it has been at, and has removed the VMs it has been at.
Stripping ==
  clean /\ op = "delete" =>
    /\ pc \in {"nodes", "exec", "drop", "vms"} =>
         \A n \in Nodes : label[n] \in SitesOf(doc) => n \in existing
    /\ pc = "exec" => \A n \in TierNodes : n \in Range(todo) \/ shape[n] = Clear
    /\ pc \in {"drop", "vms", "remove", "idle"} => \A n \in TierNodes : shape[n] = Clear
    /\ pc \in {"remove", "idle"} =>
         \A n \in Nodes : label[n] \in SitesOf(doc) => vm[n] = "none" \/ n \in Range(todo)

\* What shaping reads of a node does not change while the labels and the
\* document stay.
LEMMA SameScripts ==
  ASSUME UNCHANGED <<label, doc>>
  PROVE  /\ TierNodes' = TierNodes
         /\ \A n : PeersOf(n)' = PeersOf(n)
         /\ SitesOf(doc)' = SitesOf(doc)
BY DEF TierNodes, PeersOf, TierOf, SitesOf

\* A handler that starts, that raises or that is disturbed claims nothing.
LEMMA NoClaim ==
  ASSUME ~clean' \/ (pc' \notin {"nodes", "exec", "drop", "vms", "remove", "idle"})
  PROVE  Shaping' /\ Stripping'
BY DEF Shaping, Stripping

\* A step that moves within a phase of the handler and leaves what the claims
\* are about.
LEMMA ClaimKept ==
  ASSUME Shaping, Stripping, UNCHANGED <<op, doc, pc, todo, existing, stored, label, shape>>,
         clean' => clean,
         \A n \in Nodes : vm[n] = "none" => vm'[n] = "none"
  PROVE  Shaping' /\ Stripping'
<1>1. TierNodes' = TierNodes /\ (\A n : PeersOf(n)' = PeersOf(n))
      /\ SitesOf(doc)' = SitesOf(doc)
  BY SameScripts
<1>2. Shaping'
  BY <1>1 DEF Shaping
<1>3. Stripping'
  BY <1>1 DEF Stripping
<1>4. QED
  BY <1>2, <1>3

LEMMA InitClaims == Init => Shaping /\ Stripping
BY DEF Init, Shaping, Stripping

LEMMA ShapeClaims ==
  ASSUME HInv, Shaping, Stripping, Store \/ ListNodes \/ ExecOnNode \/ Shaped, clean'
  PROVE  Shaping' /\ Stripping'
<1> USE DEF Goto, hostVars, linkVars
<1>1. TypeOK /\ Placed /\ HInv
  BY DEF HInv
<1>2. CASE Store
  <2>1. pc = "store" /\ pc' = "nodes" /\ stored' = doc /\ UNCHANGED <<op, doc>>
    BY <1>2 DEF Store, Fails
  <2>2. op' # "delete"
    BY <1>1, <2>1 DEF Placed
  <2>3. QED
    BY <2>1, <2>2 DEF Shaping, Stripping
<1>3. CASE ListNodes
  <2>1. /\ pc = "nodes" /\ pc' = "exec" /\ todo' = SetToSeq(TierNodes) /\ clean
        /\ UNCHANGED <<hostVars, linkVars, stored, op, doc, existing>>
    BY <1>3 DEF ListNodes, Works, Fails
  <2>2. Range(todo') = TierNodes
    BY <2>1, Listing, HostAssumption, FS_Subset DEF TierNodes
  <2>3. TierNodes' = TierNodes /\ SitesOf(doc)' = SitesOf(doc)
    BY <2>1, SameScripts
  <2>4. QED
    BY <2>1, <2>2, <2>3 DEF Shaping, Stripping
<1>4. CASE ExecOnNode
  <2> DEFINE n == Head(todo)
  <2>1. /\ pc = "exec" /\ todo # << >> /\ todo' = Tail(todo) /\ clean
        /\ shape' = [shape EXCEPT ![n] = Script(n)]
        /\ UNCHANGED <<hostVars, stored, op, doc, pc, existing>>
    BY <1>4 DEF ExecOnNode, Works, Fails
  <2>2. todo \in Seq(Nodes)
    BY <1>1, <2>1 DEF Placed
  <2>3. n \in Nodes /\ \A m \in Range(todo) : m = n \/ m \in Range(Tail(todo))
    BY <2>1, <2>2, ListStep
  <2>4. \A m \in Nodes : shape'[m] = IF m = n THEN Script(n) ELSE shape[m]
    BY <2>1, <2>3 DEF HInv
  <2>5. TierNodes' = TierNodes /\ (\A m : PeersOf(m)' = PeersOf(m))
        /\ SitesOf(doc)' = SitesOf(doc) /\ TierNodes \subseteq Nodes
    BY <2>1, SameScripts DEF TierNodes
  <2>6. Shaping'
    BY <2>1, <2>3, <2>4, <2>5 DEF Shaping, Script
  <2>7. Stripping'
    BY <2>1, <2>3, <2>4, <2>5 DEF Stripping, Script
  <2>8. QED
    BY <2>6, <2>7
<1>5. CASE Shaped
  <2>1. /\ pc = "exec" /\ pc' = AfterShaping /\ todo = << >> /\ clean
        /\ UNCHANGED <<hostVars, linkVars, stored, op, doc, todo, existing>>
    BY <1>5 DEF Shaped, Works
  <2>2. TierNodes' = TierNodes /\ (\A m : PeersOf(m)' = PeersOf(m))
        /\ SitesOf(doc)' = SitesOf(doc) /\ Range(todo) = {} /\ Range(todo') = {}
    BY <2>1, SameScripts, EmptyRange
  <2>3. pc' = IF op = "delete" THEN "drop" ELSE "idle"
    BY <2>1 DEF AfterShaping
  <2>4. Shaping'
    BY <2>1, <2>2, <2>3 DEF Shaping
  <2>5. Stripping'
    BY <2>1, <2>2, <2>3 DEF Stripping
  <2>6. QED
    BY <2>4, <2>5
<1>6. QED
  BY <1>2, <1>3, <1>4, <1>5

LEMMA RemoveClaims ==
  ASSUME HInv, Shaping, Stripping,
         Resolve \/ Drop \/ ListToRemove \/ RemoveNode \/ Removed, clean'
  PROVE  Shaping' /\ Stripping'
<1> USE DEF Goto, hostVars, linkVars, Removing
<1>1. TypeOK /\ Placed /\ HInv
  BY DEF HInv
<1>2. op = "delete" /\ op' = op /\ doc' = doc /\ clean
  BY <1>1 DEF Resolve, Drop, ListToRemove, RemoveNode, Removed, Works, Fails, Placed
<1>3. Shaping'
  BY <1>2 DEF Shaping
<1>4. CASE Resolve
  <2>1. pc' = "nodes" /\ existing' = NodesToStrip /\ UNCHANGED label
    BY <1>2, <1>4 DEF Resolve, Fails
  <2>2. SitesOf(doc)' = SitesOf(doc) /\ existing' = {n \in TierNodes : label[n] \in SitesOf(doc)}
    BY <1>2, <2>1 DEF NodesToStrip, SitesOf
  <2>3. \A n \in Nodes : label[n] \in SitesOf(doc) => label[n] # None
    <3>1. doc \in Documents
      BY <1>1, <1>4 DEF Resolve, TypeOK, Placed
    <3>2. PICK d \in Docs : doc.nodes = d.nodes
      BY <3>1 DEF Documents
    <3>3. d.nodes \in Seq([node : Nodes, site : Sites])
      BY HostAssumption
    <3>4. SitesOf(doc) \subseteq Sites
      <4>1. \A i \in DOMAIN d.nodes : d.nodes[i] \in [node : Nodes, site : Sites]
        BY <3>3, ListElement
      <4>2. QED
        BY <3>2, <4>1 DEF SitesOf
    <3>5. QED
      BY <3>4, HostAssumption
  <2>4. QED
    BY <1>3, <2>1, <2>2, <2>3 DEF Stripping, TierNodes
<1>5. CASE Drop
  <2>1. pc = "drop" /\ pc' = "vms" /\ UNCHANGED <<hostVars, linkVars, existing>>
    BY <1>5 DEF Drop
  <2>2. TierNodes' = TierNodes /\ SitesOf(doc)' = SitesOf(doc)
    BY <1>2, <2>1, SameScripts
  <2>3. QED
    BY <1>2, <1>3, <2>1, <2>2 DEF Stripping
<1>6. CASE ListToRemove
  <2> DEFINE names == {n \in existing : vm[n] # "none"}
  <2>1. /\ pc = "vms" /\ pc' = "remove" /\ UNCHANGED <<hostVars, linkVars>>
        /\ todo' = SetToSeq(names)
    BY <1>2, <1>6 DEF ListToRemove, Fails
  <2>2. names \subseteq Nodes
    BY <1>1 DEF TypeOK
  <2>3. Range(todo') = names
    BY <2>1, <2>2, Listing, HostAssumption, FS_Subset
  <2>4. TierNodes' = TierNodes /\ SitesOf(doc)' = SitesOf(doc)
    BY <1>2, <2>1, SameScripts
  <2>5. QED
    BY <1>2, <1>3, <2>1, <2>3, <2>4 DEF Stripping
<1>7. CASE RemoveNode
  <2> DEFINE n == Head(todo)
  <2>1. /\ pc = "remove" /\ pc' = pc /\ todo # << >> /\ todo' = Tail(todo)
        /\ vm' = [m \in Nodes |-> LET v == IF m = n THEN "deleted" ELSE vm[m]
                                  IN  IF v = "deleted" THEN "none" ELSE v]
        /\ label' = [label EXCEPT ![n] = None]
        /\ shape' = [shape EXCEPT ![n] = Clear]
    BY <1>2, <1>7 DEF RemoveNode, Fails
  <2>2. todo \in Seq(Nodes)
    BY <1>1, <2>1 DEF Placed
  <2>3. n \in Nodes /\ \A m \in Range(todo) : m = n \/ m \in Range(Tail(todo))
    BY <2>1, <2>2, ListStep
  <2>4. /\ vm'[n] = "none"
        /\ \A m \in Nodes \ {n} : /\ vm[m] = "none" => vm'[m] = "none"
                                  /\ label'[m] = label[m] /\ shape'[m] = shape[m]
        /\ label'[n] = None
    BY <1>1, <2>1, <2>3 DEF TypeOK, HInv
  <2>5. SitesOf(doc)' = SitesOf(doc)
    BY <1>2 DEF SitesOf
  <2>6. \A m \in TierNodes' : shape'[m] = Clear
    BY <1>2, <2>1, <2>4 DEF TierNodes, Stripping
  <2>7. \A m \in Nodes : label'[m] \in SitesOf(doc) => vm'[m] = "none" \/ m \in Range(todo')
    BY <1>2, <2>1, <2>3, <2>4 DEF Stripping
  <2>8. QED
    BY <1>3, <2>1, <2>5, <2>6, <2>7 DEF Stripping
<1>8. CASE Removed
  <2>1. /\ pc = "remove" /\ pc' = "idle" /\ todo = << >> /\ todo' = todo
        /\ UNCHANGED <<hostVars, linkVars>>
    BY <1>8 DEF Removed
  <2>2. TierNodes' = TierNodes /\ SitesOf(doc)' = SitesOf(doc)
    BY <1>2, <2>1, SameScripts
  <2>3. QED
    BY <1>2, <1>3, <2>1, <2>2 DEF Stripping
<1>9. QED
  BY <1>4, <1>5, <1>6, <1>7, <1>8

LEMMA ClaimsStep ==
  ASSUME HInv, Shaping, Stripping, [Next]_vars PROVE Shaping' /\ Stripping'
<1> USE DEF hostVars, linkVars, reqVars
<1>1. CASE ~clean'
  BY <1>1, NoClaim
<1>2. ASSUME \/ \E d \in Docs : Post(d)
             \/ \E l \in LinkSets : Patch(l)
             \/ Delete
             \/ ListVMs \/ Adopt \/ Launch \/ Ready \/ Label \/ Provisioned
      PROVE  pc' \in {"list", "launch", "wait", "label", "store", "resolve"} \/ ~clean'
  BY <1>2 DEF Post, Patch, Delete, ListVMs, Listed, Adopt, Launch, Ready, Label, Provisioned,
              Goto, Fails
<1>3. ASSUME NoChannel \/ LaunchFails \/ NeverReady PROVE ~clean'
  BY <1>3 DEF NoChannel, LaunchFails, NeverReady, Fails
<1>4. ASSUME NEW n \in Nodes, Join(n) PROVE Shaping' /\ Stripping'
  BY <1>4, ClaimKept DEF Join, HInv, TypeOK
<1>5. ASSUME \/ \E n \in Nodes : Restart(n)
             \/ \E s \in late : Land(s)
      PROVE  ~clean'
  BY <1>5 DEF Restart, Land, Fails
<1>6. CASE UNCHANGED vars
  BY <1>6, ClaimKept DEF vars
<1>7. QED
  BY <1>1, <1>2, <1>3, <1>4, <1>5, <1>6, NoClaim, ShapeClaims, RemoveClaims DEF Next, Serve

\* After a POST or a PATCH in which nothing failed, both ends of every link
\* shape it alike and no other pair of nodes is shaped, whatever the requests
\* before it left undone and whatever joined meanwhile.
THEOREM LinksBothWays == Spec => []BothEndsShaped
<1>1. HInv /\ Shaping => BothEndsShaped
  <2>1. SUFFICES ASSUME HInv, Shaping, pc = "idle", clean, op \in {"post", "patch"},
                        NEW n \in TierNodes, NEW m \in TierNodes
        PROVE  LET link == {TierOf(n), TierOf(m)}
               IN  IF link \in DOMAIN stored.links
                     THEN /\ {m} \subseteq DOMAIN shape[n] /\ {n} \subseteq DOMAIN shape[m]
                          /\ shape[n][m] = stored.links[link] /\ shape[m][n] = shape[n][m]
                     ELSE m \notin DOMAIN shape[n]
    BY DEF BothEndsShaped, Idle
  <2>2. Range(todo) = {}
    BY <2>1, EmptyRange DEF HInv, Placed, Provisioning
  <2>3. stored = doc /\ shape[n] = PeersOf(n) /\ shape[m] = PeersOf(m)
    BY <2>1, <2>2 DEF Shaping
  <2>4. {TierOf(n), TierOf(m)} = {TierOf(m), TierOf(n)}
    OBVIOUS
  <2>5. \A i, j \in TierNodes :
          /\ j \in DOMAIN PeersOf(i) <=> {TierOf(i), TierOf(j)} \in DOMAIN doc.links
          /\ {TierOf(i), TierOf(j)} \in DOMAIN doc.links =>
               PeersOf(i)[j] = doc.links[{TierOf(i), TierOf(j)}]
    BY DEF PeersOf
  <2>6. QED
    BY <2>3, <2>4, <2>5
<1>2. HInv /\ Shaping /\ Stripping /\ [Next]_vars => Shaping' /\ Stripping'
  BY ClaimsStep
<1>3. QED
  BY <1>1, <1>2, InitHInv, InitClaims, TypeStep, PTL DEF Spec

\* "Strips the infrastructure too": a DELETE in which nothing failed leaves no
\* VM whose node bears the label of one of the document's sites, whichever
\* version of the document launched it, and no node shaped.
THEOREM DeleteStrips == Spec => []StrippedByDelete
<1>1. HInv /\ Stripping => StrippedByDelete
  <2>1. SUFFICES ASSUME HInv, Stripping, pc = "idle", clean, op = "delete"
                 PROVE  /\ \A n \in Nodes : label[n] \in SitesOf(doc) => vm[n] = "none"
                        /\ \A n \in TierNodes : shape[n] = Clear
    BY DEF StrippedByDelete, Idle
  <2>2. Range(todo) = {}
    BY <2>1, EmptyRange DEF HInv, Placed, Provisioning
  <2>3. QED
    BY <2>1, <2>2 DEF Stripping
<1>2. HInv /\ Shaping /\ Stripping /\ [Next]_vars => Shaping' /\ Stripping'
  BY ClaimsStep
<1>3. QED
  BY <1>1, <1>2, InitHInv, InitClaims, TypeStep, PTL DEF Spec

=============================================================================
