------------------------- MODULE XPropagationProofs -------------------------
(***************************************************************************)
(* For every template: each role is resolved once and after its upstreams, *)
(* to the sum of what they send, and _compute_resolved_x refuses exactly   *)
(* the templates whose role graph has a cycle.                             *)
(***************************************************************************)
EXTENDS XPropagation, SumLemmas

\* The upstreams of d that have fed it: those taken from the queue, the one
\* at hand only if d is not among those it still has to feed.
Passed(d) ==
  {u \in Upstreams(d) :
     \E i \in 1..(head - 1) : queue[i] = u /\ ~(i = head - 1 /\ d \in todo)}

Pending(d) == Upstreams(d) \ Passed(d)

\* `remaining` counts the upstreams that have not fed the role.
CountInv == \A d \in Roles : remaining[d] = Cardinality(Pending(d))

\* Where the loops are: nothing is taken before the scan is over, and the
\* roles left to feed are downstream of the current one.
LoopInv ==
  /\ ~Scanned => head = 1 /\ todo = {}
  /\ todo # {} => head > 1
  /\ \A d \in todo : <<Current, d>> \in Links

\* The queue holds the resolved roles; a role that was scanned is resolved
\* exactly when nothing is left to feed it, and one that was not is not.
QueueInv ==
  /\ \A r \in Roles : resolved[r] # None <=> \E i \in DOMAIN queue : queue[i] = r
  /\ \A i \in 1..(pos - 1) :
       resolved[RoleOrder[i]] # None <=> remaining[RoleOrder[i]] = 0
  /\ \A i \in pos..Len(RoleOrder) : resolved[RoleOrder[i]] = None

IInv ==
  /\ TypeOK
  /\ CountInv
  /\ LoopInv
  /\ QueueInv
  /\ TopologicalOrder

-----------------------------------------------------------------------------
LEMMA RoleFacts ==
  /\ IsFiniteSet(Roles)
  /\ Len(RoleOrder) \in Nat
  /\ \A i \in 1..Len(RoleOrder) : RoleOrder[i] \in Roles
BY RoleAssumption

LEMMA UpstreamsFinite ==
  ASSUME NEW d PROVE IsFiniteSet(Upstreams(d)) /\ IsFiniteSet(Pending(d))
<1>1. Upstreams(d) \in SUBSET Roles /\ Pending(d) \in SUBSET Roles
  BY DEF Upstreams, Pending
<1>2. QED
  BY <1>1, RoleFacts, FS_Subset

\* A set is empty exactly when `remaining` is 0.
LEMMA NothingPending ==
  ASSUME CountInv, NEW d \in Roles
  PROVE  remaining[d] = 0 <=> Pending(d) = {}
BY UpstreamsFinite, FS_EmptySet DEF CountInv

LEMMA TemplateFacts ==
  ASSUME TypeOK, NEW r \in Roles
  PROVE  /\ template.count[r] \in Int
         /\ template.a[r] \in Int /\ template.b[r] \in Int
         /\ r \in DOMAIN template.x => template.x[r] \in Int
BY DEF TypeOK, IsTemplate

LEMMA EgressType ==
  ASSUME TypeOK, NEW r \in Roles, NEW x \in Int
  PROVE  EgressAt(r, x) \in Int
<1> DEFINE net == template.a[r] * x + template.b[r]
<1> DEFINE perPod == IF net > 0 THEN net ELSE 0
<1>1. template.count[r] \in Int /\ net \in Int
  BY TemplateFacts
<1>2. perPod \in Int
  <2> HIDE DEF net
  <2>1. QED
    BY <1>1
<1>3. template.count[r] * perPod \in Int
  <2> HIDE DEF perPod
  <2>1. QED
    BY <1>1, <1>2
<1>4. QED
  BY <1>3 DEF EgressAt

LEMMA SourceType ==
  ASSUME TypeOK, NEW r \in Roles
  PROVE  SourceX(r) \in Int
BY TemplateFacts DEF SourceX

\* Resolving a role that has no x: the queue grows by one, at its end.
LEMMA ResolveFacts ==
  ASSUME TypeOK, NEW r \in Roles, NEW x \in Int, Resolve(r, x)
  PROVE  /\ queue' \in Seq(Roles)
         /\ Len(queue') = Len(queue) + 1
         /\ DOMAIN queue' = 1..(Len(queue) + 1) /\ DOMAIN queue = 1..Len(queue)
         /\ \A i \in DOMAIN queue : queue'[i] = queue[i]
         /\ queue'[Len(queue) + 1] = r
         /\ resolved' \in [Roles -> Int \cup {None}]
         /\ resolved'[r] = x /\ resolved'[r] # None
         /\ \A s \in Roles \ {r} : resolved'[s] = resolved[s]
<1>1. queue \in Seq(Roles) /\ queue' = Append(queue, r)
  BY DEF TypeOK, Resolve
<1>2. resolved' = [resolved EXCEPT ![r] = x] /\ resolved \in [Roles -> Int \cup {None}]
  BY DEF TypeOK, Resolve
<1>3. None \notin Int
  BY TemplateAssumption
<1>4. QED
  BY <1>1, <1>2, <1>3

\* The start of a propagation, whatever the edges and the template.
AtStart ==
  /\ edges \in Seq(Roles \X Roles) /\ IsTemplate(template)
  /\ pos = 1 /\ queue = << >> /\ head = 1 /\ todo = {}
  /\ resolved = [r \in Roles |-> None]
  /\ accum = [r \in Roles |-> 0]
  /\ remaining = [r \in Roles |-> UpstreamCount(r)]

LEMMA InitStarts == Init => AtStart
BY TemplateAssumption DEF Init, AtStart

LEMMA StartIInv == AtStart => IInv
<1>1. SUFFICES ASSUME AtStart PROVE IInv
  OBVIOUS
<1>2. \A d \in Roles : Pending(d) = Upstreams(d)
  BY <1>1 DEF AtStart, Pending, Passed
<1>3. \A d \in Roles : remaining[d] = Cardinality(Upstreams(d)) /\ remaining[d] \in Nat
  BY <1>1, UpstreamsFinite, FS_CardinalityType DEF AtStart, UpstreamCount
<1>4. TypeOK
  <2>1. remaining \in [Roles -> Nat]
    BY <1>1, <1>3 DEF AtStart
  <2>2. QED
    BY <1>1, <2>1, RoleFacts DEF AtStart, TypeOK
<1>5. CountInv
  BY <1>2, <1>3 DEF CountInv
<1>6. LoopInv /\ TopologicalOrder
  BY <1>1 DEF AtStart, LoopInv, TopologicalOrder
<1>7. QueueInv
  BY <1>1, RoleFacts DEF AtStart, QueueInv
<1>8. QED
  BY <1>4, <1>5, <1>6, <1>7 DEF IInv

-----------------------------------------------------------------------------
\* A role that is resolved now, has no x yet and nothing pending, keeps the
\* order of the queue.
LEMMA OrderKept ==
  ASSUME IInv, NEW r \in Roles, NEW x \in Int, Resolve(r, x),
         resolved[r] = None, UNCHANGED edges,
         \A u \in Upstreams(r) : \E i \in DOMAIN queue : queue[i] = u
  PROVE  /\ TopologicalOrder'
         /\ \A s \in Roles : resolved'[s] # None <=> \E i \in DOMAIN queue' : queue'[i] = s
<1>1. TypeOK /\ TopologicalOrder /\ QueueInv
  BY DEF IInv
<1>2. \A i \in DOMAIN queue : queue[i] # r
  BY <1>1 DEF QueueInv
<1>3. Len(queue) \in Nat
  BY <1>1 DEF TypeOK
<1>4. \A s : Upstreams(s)' = Upstreams(s)
  BY DEF Upstreams, Links
<1>5. \A i, j \in DOMAIN queue' : queue'[i] = queue'[j] => i = j
  BY <1>1, <1>2, <1>3, ResolveFacts DEF TopologicalOrder
<1>6. ASSUME NEW i \in DOMAIN queue', NEW u \in Upstreams(queue'[i])
      PROVE  \E j \in 1..(i - 1) : queue'[j] = u
  <2>1. CASE i \in DOMAIN queue
    BY <1>1, <1>3, <1>6, <2>1, ResolveFacts DEF TopologicalOrder
  <2>2. CASE i = Len(queue) + 1
    BY <1>1, <1>3, <1>6, <2>2, ResolveFacts
  <2>3. QED
    BY <1>1, <1>3, <2>1, <2>2, ResolveFacts
<1>7. TopologicalOrder'
  BY <1>4, <1>5, <1>6 DEF TopologicalOrder
<1>8. ASSUME NEW s \in Roles
      PROVE  resolved'[s] # None <=> \E i \in DOMAIN queue' : queue'[i] = s
  <2>1. CASE s = r
    BY <1>1, <1>3, <2>1, ResolveFacts
  <2>2. CASE s # r
    BY <1>1, <1>3, <2>2, ResolveFacts DEF QueueInv
  <2>3. QED
    BY <2>1, <2>2
<1>9. QED
  BY <1>7, <1>8

LEMMA ScanStep == IInv /\ Scan => IInv'
<1>1. SUFFICES ASSUME IInv, Scan PROVE IInv'
  OBVIOUS
<1> DEFINE r == RoleOrder[pos]
<1>2. /\ TypeOK /\ CountInv /\ LoopInv /\ QueueInv /\ TopologicalOrder
  BY <1>1 DEF IInv
<1>3. /\ pos \in 1..Len(RoleOrder) /\ pos' = pos + 1 /\ r \in Roles
      /\ head = 1 /\ todo = {} /\ UNCHANGED <<edges, template, head, todo, accum, remaining>>
  BY <1>1, <1>2, RoleFacts DEF Scan, Scanned, LoopInv, TypeOK
<1>4. resolved[r] = None
  BY <1>2, <1>3 DEF QueueInv
<1>5. \A d : Passed(d) = {} /\ Passed(d)' = {}
  BY <1>3 DEF Passed
<1>6. \A d : Upstreams(d)' = Upstreams(d) /\ Pending(d)' = Pending(d)
  BY <1>3, <1>5 DEF Upstreams, Links, Pending
<1>7. CountInv'
  BY <1>2, <1>3, <1>6 DEF CountInv
<1>8. \A i \in 1..Len(RoleOrder) : i # pos => RoleOrder[i] # r
  BY <1>3, RoleAssumption
<1>9. CASE remaining[r] = 0
  <2>1. Resolve(r, SourceX(r)) /\ SourceX(r) \in Int
    BY <1>1, <1>2, <1>3, <1>9, SourceType DEF Scan
  <2>2. Upstreams(r) = {}
    BY <1>2, <1>3, <1>5, <1>9, NothingPending DEF Pending
  <2>3. /\ TopologicalOrder'
        /\ \A s \in Roles : resolved'[s] # None <=> \E i \in DOMAIN queue' : queue'[i] = s
    BY <1>1, <1>3, <1>4, <2>1, <2>2, OrderKept
  <2>4. TypeOK'
    BY <1>2, <1>3, <2>1, ResolveFacts DEF TypeOK
  <2>5. QueueInv'
    <3>1. \A i \in 1..(pos' - 1) :
            resolved'[RoleOrder[i]] # None <=> remaining'[RoleOrder[i]] = 0
      <4>1. ASSUME NEW i \in 1..(pos' - 1)
            PROVE  resolved'[RoleOrder[i]] # None <=> remaining'[RoleOrder[i]] = 0
        <5>1. CASE i = pos
          BY <1>2, <1>3, <1>9, <2>1, <5>1, ResolveFacts
        <5>2. CASE i # pos
          BY <1>2, <1>3, <1>8, <2>1, <5>2, ResolveFacts, RoleFacts DEF QueueInv
        <5>3. QED
          BY <5>1, <5>2
      <4>2. QED
        BY <4>1
    <3>2. \A i \in pos'..Len(RoleOrder) : resolved'[RoleOrder[i]] = None
      BY <1>2, <1>3, <1>8, <2>1, ResolveFacts, RoleFacts DEF QueueInv
    <3>3. QED
      BY <2>3, <3>1, <3>2 DEF QueueInv
  <2>6. LoopInv'
    BY <1>3 DEF LoopInv
  <2>7. QED
    BY <1>7, <2>3, <2>4, <2>5, <2>6 DEF IInv
<1>10. CASE remaining[r] # 0
  <2>1. UNCHANGED <<queue, resolved>>
    BY <1>1, <1>10 DEF Scan
  <2>2. TypeOK' /\ LoopInv'
    BY <1>2, <1>3, <2>1 DEF TypeOK, LoopInv
  <2>3. TopologicalOrder'
    BY <1>2, <1>6, <2>1 DEF TopologicalOrder
  <2>4. QueueInv'
    BY <1>2, <1>3, <1>4, <1>10, <2>1, RoleFacts DEF QueueInv
  <2>5. QED
    BY <1>7, <2>2, <2>3, <2>4 DEF IInv
<1>11. QED
  BY <1>9, <1>10

\* Taking a role passes nobody: all it has to feed is left to do.
LEMMA TakePassed ==
  ASSUME IInv, Take
  PROVE  \A d \in Roles : Passed(d)' = Passed(d) /\ Upstreams(d)' = Upstreams(d)
<1>1. /\ todo = {} /\ head \in 1..Len(queue) /\ head' = head + 1
      /\ todo' = Downstreams(queue[head])
      /\ UNCHANGED <<edges, queue>> /\ Len(queue) \in Nat
  BY DEF Take, IInv, TypeOK
<1>2. \A d : Upstreams(d)' = Upstreams(d)
  BY <1>1 DEF Upstreams, Links
<1>3. ASSUME NEW d \in Roles, NEW u \in Upstreams(d)
      PROVE  u \in Passed(d)' <=> u \in Passed(d)
  <2>1. u \in Passed(d) <=> \E i \in 1..(head - 1) : queue[i] = u
    BY <1>1, <1>3 DEF Passed
  <2>2. u \in Passed(d)' <=>
          \E i \in 1..head : queue[i] = u /\ ~(i = head /\ d \in todo')
    BY <1>1, <1>2, <1>3 DEF Passed
  <2>3. queue[head] = u => d \in todo'
    BY <1>1, <1>3 DEF Upstreams, Downstreams
  <2>4. QED
    BY <1>1, <2>1, <2>2, <2>3
<1>4. QED
  BY <1>2, <1>3 DEF Passed

LEMMA TakeStep == IInv /\ Take => IInv'
<1>1. SUFFICES ASSUME IInv, Take PROVE IInv'
  OBVIOUS
<1>2. /\ TypeOK /\ CountInv /\ LoopInv /\ QueueInv /\ TopologicalOrder
  BY <1>1 DEF IInv
<1>3. /\ Scanned /\ todo = {} /\ head \in 1..Len(queue) /\ head' = head + 1
      /\ todo' = Downstreams(queue[head])
      /\ UNCHANGED <<edges, template, pos, queue, resolved, accum, remaining>>
      /\ Len(queue) \in Nat
  BY <1>1, <1>2 DEF Take, TypeOK
<1>4. \A d : Upstreams(d)' = Upstreams(d)
  BY <1>3 DEF Upstreams, Links
<1>5. \A d \in Roles : Passed(d)' = Passed(d)
  BY <1>1, TakePassed
<1>6. CountInv'
  BY <1>2, <1>3, <1>4, <1>5 DEF CountInv, Pending
<1>7. TypeOK'
  BY <1>2, <1>3 DEF TypeOK, Downstreams
<1>8. LoopInv'
  BY <1>3 DEF LoopInv, Scanned, Current, Downstreams, Links
<1>9. QueueInv' /\ TopologicalOrder'
  BY <1>2, <1>3, <1>4 DEF QueueInv, TopologicalOrder
<1>10. QED
  BY <1>6, <1>7, <1>8, <1>9 DEF IInv

-----------------------------------------------------------------------------
\* One upstream less is pending for the role that is fed, and no role else.
LEMMA FeedPending ==
  ASSUME IInv, NEW d \in Roles, Feed(d)
  PROVE  /\ Current \in Pending(d)
         /\ Pending(d)' = Pending(d) \ {Current}
         /\ \A e \in Roles \ {d} : Pending(e)' = Pending(e)
<1>1. TypeOK /\ LoopInv /\ QueueInv /\ TopologicalOrder
  BY DEF IInv
<1>2. /\ d \in todo /\ todo' = todo \ {d} /\ UNCHANGED <<edges, template, head>>
      /\ head - 1 \in 1..Len(queue) /\ Len(queue) \in Nat /\ Current \in Roles
  BY <1>1 DEF Feed, LoopInv, TypeOK, Current
<1>3. \A i \in 1..Len(queue) : queue'[i] = queue[i]
  <2>1. CASE UNCHANGED queue
    BY <2>1
  <2>2. CASE \E x : queue' = Append(queue, d)
    BY <1>1, <2>2 DEF TypeOK
  <2>3. QED
    BY <2>1, <2>2 DEF Feed, Resolve
<1>4. \A e : Upstreams(e)' = Upstreams(e)
  BY <1>2 DEF Upstreams, Links
<1>5. Current \in Upstreams(d)
  BY <1>1, <1>2 DEF LoopInv, Upstreams
<1>6. \A i \in 1..(head - 1) : queue[i] = Current => i = head - 1
  <2>1. DOMAIN queue = 1..Len(queue) /\ queue[head - 1] = Current
    BY <1>1 DEF TypeOK, Current
  <2>2. \A i \in 1..(head - 1) : i \in DOMAIN queue
    BY <1>2, <2>1
  <2>3. QED
    BY <1>1, <1>2, <2>1, <2>2 DEF TopologicalOrder
<1>7. Current \notin Passed(d)
  BY <1>2, <1>6 DEF Passed
<1>8. \A e \in Roles : Passed(e)' =
        {u \in Upstreams(e) :
           \E i \in 1..(head - 1) : queue[i] = u /\ ~(i = head - 1 /\ e \in todo')}
  BY <1>2, <1>3, <1>4 DEF Passed
<1>9. \A e \in Roles \ {d} : Passed(e)' = Passed(e)
  BY <1>2, <1>8 DEF Passed
<1>10. Passed(d)' = Passed(d) \cup {Current}
  <2>1. ASSUME NEW u \in Upstreams(d)
        PROVE  u \in Passed(d)' <=> u \in Passed(d) \/ u = Current
    <3>1. u \in Passed(d)' <=> \E i \in 1..(head - 1) : queue[i] = u
      BY <1>2, <1>8, <2>1
    <3>2. u \in Passed(d) <=> \E i \in 1..(head - 1) : queue[i] = u /\ i # head - 1
      BY <1>2, <2>1 DEF Passed
    <3>3. QED
      BY <1>2, <3>1, <3>2 DEF Current
  <2>2. QED
    BY <1>4, <1>5, <2>1 DEF Passed
<1>11. QED
  BY <1>4, <1>5, <1>7, <1>9, <1>10 DEF Pending

\* The role at hand has an x to send.
LEMMA CurrentResolved ==
  ASSUME IInv, NEW d \in Roles, Feed(d)
  PROVE  /\ head - 1 \in 1..Len(queue) /\ Len(queue) \in Nat
         /\ Current \in Roles /\ resolved[Current] \in Int
<1>1. TypeOK /\ LoopInv /\ QueueInv
  BY DEF IInv
<1>2. head - 1 \in 1..Len(queue) /\ Len(queue) \in Nat /\ Current \in Roles
  BY <1>1 DEF Feed, LoopInv, TypeOK, Current
<1>3. queue[head - 1] = Current /\ head - 1 \in DOMAIN queue
  BY <1>1, <1>2 DEF Current, TypeOK
<1>4. resolved[Current] # None
  BY <1>1, <1>2, <1>3 DEF QueueInv
<1>5. QED
  BY <1>1, <1>2, <1>4 DEF TypeOK

LEMMA FeedStep == ASSUME IInv, NEW d \in Roles, Feed(d) PROVE IInv'
<1> DEFINE sum == accum[d] + EgressAt(Current, resolved[Current])
<1>1. TypeOK /\ CountInv /\ LoopInv /\ QueueInv /\ TopologicalOrder
  BY DEF IInv
<1>2. /\ d \in todo /\ todo' = todo \ {d} /\ UNCHANGED <<edges, template, pos, head>>
      /\ accum' = [accum EXCEPT ![d] = sum]
      /\ remaining' = [remaining EXCEPT ![d] = remaining[d] - 1]
  BY DEF Feed
<1>3. head - 1 \in 1..Len(queue) /\ Len(queue) \in Nat /\ Current \in Roles /\ Scanned
  BY <1>1, <1>2 DEF LoopInv, TypeOK, Current
<1>4. resolved[Current] \in Int
  BY CurrentResolved
<1>5. sum \in Int
  <2>1. EgressAt(Current, resolved[Current]) \in Int
    BY <1>1, <1>3, <1>4, EgressType
  <2>2. accum[d] \in Int
    BY <1>1 DEF TypeOK
  <2>3. QED
    BY <2>1, <2>2
<1> HIDE DEF sum
<1>6. IsFiniteSet(Pending(d)) /\ Pending(d) # {} /\ Cardinality(Pending(d)) \in Nat
  BY FeedPending, UpstreamsFinite, FS_CardinalityType
<1>7. remaining[d] = Cardinality(Pending(d)) /\ remaining[d] # 0
  BY <1>1, <1>6, NothingPending DEF CountInv
<1>8. /\ Cardinality(Pending(d)') = remaining[d] - 1
      /\ remaining[d] - 1 \in Nat
  BY <1>6, <1>7, FeedPending, FS_RemoveElement
<1>9. remaining' \in [Roles -> Nat] /\ remaining'[d] = remaining[d] - 1
      /\ \A e \in Roles \ {d} : remaining'[e] = remaining[e]
  BY <1>1, <1>2, <1>8 DEF TypeOK
<1>10. CountInv'
  BY <1>1, <1>8, <1>9, FeedPending DEF CountInv
<1>11. \A r \in Roles : resolved[r] # None <=> remaining[r] = 0
  <2>1. ASSUME NEW r \in Roles PROVE resolved[r] # None <=> remaining[r] = 0
    <3>1. PICK i \in 1..Len(RoleOrder) : RoleOrder[i] = r
      BY RoleAssumption
    <3>2. i \in 1..(pos - 1)
      BY <1>1, <1>3, <3>1, RoleFacts DEF Scanned, TypeOK
    <3>3. QED
      BY <1>1, <3>1, <3>2 DEF QueueInv
  <2>2. QED
    BY <2>1
<1>12. resolved[d] = None
  BY <1>7, <1>11
<1>13. todo' \subseteq Roles /\ accum' \in [Roles -> Int]
  BY <1>1, <1>2, <1>5 DEF TypeOK
<1>14. \A i \in 1..(pos - 1) : RoleOrder[i] \in Roles
  BY <1>1, RoleFacts DEF TypeOK
<1>15. CASE Ready(d)
  <2>1. Resolve(d, sum)
    BY <1>15 DEF Feed, sum
  <2>2. Pending(d) = {Current}
    <3>1. Cardinality(Pending(d)') = 0 /\ IsFiniteSet(Pending(d) \ {Current})
      BY <1>6, <1>8, <1>15, FS_RemoveElement DEF Ready
    <3>2. Pending(d) \ {Current} = {}
      BY <3>1, FeedPending, FS_EmptySet
    <3>3. QED
      BY <3>2, FeedPending
  <2>3. \A u \in Upstreams(d) : \E i \in DOMAIN queue : queue[i] = u
    <3>1. DOMAIN queue = 1..Len(queue)
      BY <1>1 DEF TypeOK
    <3>2. \A u \in Passed(d) : \E i \in DOMAIN queue : queue[i] = u
      BY <1>3, <3>1 DEF Passed
    <3>3. \A u \in Upstreams(d) : u \in Passed(d) \/ u = Current
      BY <2>2 DEF Pending
    <3>4. QED
      BY <1>3, <3>1, <3>2, <3>3 DEF Current
  <2>4. /\ TopologicalOrder'
        /\ \A s \in Roles : resolved'[s] # None <=> \E i \in DOMAIN queue' : queue'[i] = s
    BY <1>2, <1>5, <1>12, <2>1, <2>3, OrderKept
  <2>5. TypeOK'
    <3>1. /\ queue' \in Seq(Roles) /\ Len(queue') = Len(queue) + 1
          /\ resolved' \in [Roles -> Int \cup {None}]
      BY <1>1, <1>5, <2>1, ResolveFacts
    <3>2. head' \in 1..(Len(queue') + 1)
      BY <1>1, <1>2, <1>3, <3>1 DEF TypeOK
    <3>3. QED
      BY <1>1, <1>2, <1>9, <1>13, <3>1, <3>2 DEF TypeOK
  <2>6. \A r \in Roles : resolved'[r] # None <=> remaining'[r] = 0
    <3>1. remaining'[d] = 0
      BY <1>9, <1>15 DEF Ready
    <3>2. resolved'[d] # None /\ \A r \in Roles \ {d} : resolved'[r] = resolved[r]
      BY <1>1, <1>5, <2>1, ResolveFacts
    <3>3. QED
      BY <1>9, <1>11, <3>1, <3>2
  <2>7. QueueInv'
    <3>1. \A i \in pos'..Len(RoleOrder) : resolved'[RoleOrder[i]] = None
      BY <1>1, <1>2, <1>3, RoleFacts DEF Scanned, TypeOK
    <3>2. QED
      BY <1>2, <1>14, <2>4, <2>6, <3>1 DEF QueueInv
  <2>8. LoopInv'
    <3>1. Current' = Current
      <4>1. head - 1 \in DOMAIN queue
        BY <1>1, <1>3 DEF TypeOK
      <4>2. queue'[head - 1] = queue[head - 1]
        BY <1>1, <1>5, <2>1, <4>1, ResolveFacts
      <4>3. QED
        BY <1>2, <4>2 DEF Current
    <3>2. QED
      BY <1>1, <1>2, <1>3, <3>1 DEF LoopInv, Scanned, Links
  <2>9. QED
    BY <1>10, <2>4, <2>5, <2>7, <2>8 DEF IInv
<1>16. CASE ~Ready(d)
  <2>1. UNCHANGED <<queue, resolved>>
    BY <1>16 DEF Feed
  <2>2. TypeOK'
    BY <1>1, <1>2, <1>9, <1>13, <2>1 DEF TypeOK
  <2>3. LoopInv'
    BY <1>1, <1>2, <2>1 DEF LoopInv, Scanned, Current, Links
  <2>4. TopologicalOrder'
    BY <1>1, <1>2, <2>1 DEF TopologicalOrder, Upstreams, Links
  <2>5. \A r \in Roles : resolved'[r] # None <=> remaining'[r] = 0
    <3>1. remaining'[d] # 0
      BY <1>7, <1>8, <1>9, <1>16 DEF Ready
    <3>2. QED
      BY <1>9, <1>11, <1>12, <2>1, <3>1
  <2>6. QueueInv'
    BY <1>1, <1>2, <1>14, <2>1, <2>5 DEF QueueInv
  <2>7. QED
    BY <1>10, <2>2, <2>3, <2>4, <2>6 DEF IInv
<1>17. QED
  BY <1>15, <1>16

LEMMA InductiveStep == IInv /\ [Next]_vars => IInv'
<1>1. SUFFICES ASSUME IInv, [Next]_vars PROVE IInv'
  OBVIOUS
<1>2. CASE UNCHANGED vars
  <2>1. UNCHANGED <<edges, template, pos, queue, head, todo, resolved, accum, remaining>>
    BY <1>2 DEF vars
  <2>2. \A d : Upstreams(d)' = Upstreams(d) /\ Pending(d)' = Pending(d)
    BY <2>1 DEF Pending, Passed, Upstreams, Links
  <2>3. TypeOK' /\ CountInv'
    BY <1>1, <2>1, <2>2 DEF IInv, TypeOK, CountInv
  <2>4. LoopInv' /\ QueueInv' /\ TopologicalOrder'
    BY <1>1, <2>1, <2>2 DEF IInv, LoopInv, Scanned, Current, Links, QueueInv, TopologicalOrder
  <2>5. QED
    BY <2>3, <2>4 DEF IInv
<1>3. QED
  BY <1>1, <1>2, ScanStep, TakeStep, FeedStep DEF Next

-----------------------------------------------------------------------------
(* The verdict *)

\* When the loops are over, what is not resolved waits for something that is
\* not resolved either.
LEMMA UnresolvedWait ==
  ASSUME IInv, Finished, NEW r \in Roles, resolved[r] = None
  PROVE  \E u \in Upstreams(r) : resolved[u] = None
<1>1. TypeOK /\ CountInv /\ QueueInv
  BY DEF IInv
<1>2. PICK k \in 1..Len(RoleOrder) : RoleOrder[k] = r
  BY RoleAssumption
<1>3. k \in 1..(pos - 1)
  BY <1>1, <1>2, RoleFacts DEF Finished, Scanned, TypeOK
<1>4. remaining[r] # 0
  BY <1>1, <1>2, <1>3 DEF QueueInv
<1>5. PICK u \in Upstreams(r) : u \notin Passed(r)
  BY <1>1, <1>4, NothingPending DEF Pending
<1>6. head - 1 = Len(queue) /\ DOMAIN queue = 1..Len(queue) /\ todo = {}
  <2>1. /\ queue \in Seq(Roles) /\ Len(queue) \in Nat
        /\ head \in 1..(Len(queue) + 1)
    BY <1>1 DEF TypeOK
  <2>2. todo = {} /\ head > Len(queue)
    BY DEF Finished
  <2>3. QED
    BY <2>1, <2>2
<1>7. \A i \in DOMAIN queue : queue[i] # u
  BY <1>5, <1>6 DEF Passed
<1>8. u \in Roles
  BY DEF Upstreams
<1>9. QED
  BY <1>1, <1>7, <1>8 DEF QueueInv

\* Resolved roles are in a topological order, and such an order rules a cycle
\* out: the first role of the cycle in it has an upstream before it.
LEMMA ResolvedAcyclic ==
  ASSUME IInv, \A r \in Roles : resolved[r] # None
  PROVE  ~Cyclic
<1>1. TypeOK /\ QueueInv /\ TopologicalOrder
  BY DEF IInv
<1>2. SUFFICES ASSUME NEW S \in SUBSET Roles, S # {},
                      \A r \in S : Upstreams(r) \cap S # {}
               PROVE  FALSE
  BY DEF Cyclic
<1> DEFINE P == {i \in DOMAIN queue : queue[i] \in S}
<1>3. DOMAIN queue = 1..Len(queue) /\ Len(queue) \in Nat
  BY <1>1 DEF TypeOK
<1>4. P \in SUBSET Nat
  BY <1>3
<1>5. P # {}
  <2>1. PICK r \in S : TRUE
    BY <1>2
  <2>2. PICK i \in DOMAIN queue : queue[i] = r
    BY <1>1, <1>2, <2>1 DEF QueueInv
  <2>3. i \in P
    BY <2>1, <2>2
  <2>4. QED
    BY <2>3
<1>6. PICK i \in P : \A j \in P : ~(j < i)
  <2> HIDE DEF P
  <2>1. QED
    BY <1>4, <1>5, LeastNumber
<1>7. PICK u \in Upstreams(queue[i]) : u \in S
  BY <1>2, <1>6
<1>8. PICK j \in 1..(i - 1) : queue[j] = u
  BY <1>1, <1>6, <1>7 DEF TopologicalOrder
<1>9. i \in 1..Len(queue) /\ j \in DOMAIN queue /\ j < i
  BY <1>3, <1>6, <1>8
<1>10. j \in P
  BY <1>7, <1>8, <1>9
<1>11. QED
  BY <1>6, <1>9, <1>10

LEMMA Verdict == IInv => RefusedIffCyclic
<1>1. SUFFICES ASSUME IInv, Finished PROVE Refused <=> Cyclic
  BY DEF RefusedIffCyclic
<1>2. ASSUME Refused PROVE Cyclic
  <2> DEFINE S == {r \in Roles : resolved[r] = None}
  <2>1. S # {} /\ S \in SUBSET Roles
    BY <1>2 DEF Refused
  <2>2. \A r \in S : \E u \in Upstreams(r) : u \in S
    BY <1>1, UnresolvedWait DEF Upstreams
  <2>3. \A r \in S : Upstreams(r) \cap S # {}
    BY <2>2
  <2> HIDE DEF S
  <2>4. QED
    BY <2>1, <2>3 DEF Cyclic
<1>3. ASSUME ~Refused PROVE ~Cyclic
  BY <1>1, <1>3, ResolvedAcyclic DEF Refused
<1>4. QED
  BY <1>2, <1>3

-----------------------------------------------------------------------------
(* The sums *)

Fed(d) == [u \in Passed(d) |-> EgressAt(u, resolved[u])]

\* What a role has accumulated is what its passed upstreams send.
AccumAt(d) == accum[d] = SumFunction(Fed(d))

\* A resolved role was passed by all of its upstreams, and has what they sent.
ValueAt(r) ==
  resolved[r] # None =>
    /\ Pending(r) = {}
    /\ resolved[r] = IF Upstreams(r) = {} THEN SourceX(r) ELSE accum[r]

SumInv == \A r \in Roles : AccumAt(r) /\ ValueAt(r)

LEMMA PassedResolved ==
  ASSUME IInv, NEW d \in Roles
  PROVE  /\ Passed(d) \subseteq Roles /\ IsFiniteSet(Passed(d))
         /\ \A u \in Passed(d) : resolved[u] \in Int /\ EgressAt(u, resolved[u]) \in Int
<1>1. TypeOK /\ QueueInv
  BY DEF IInv
<1>2. Passed(d) \subseteq Roles /\ IsFiniteSet(Passed(d))
  BY RoleFacts, FS_Subset DEF Passed, Upstreams
<1>3. ASSUME NEW u \in Passed(d)
      PROVE  resolved[u] \in Int /\ EgressAt(u, resolved[u]) \in Int
  <2>1. PICK i \in 1..(head - 1) : queue[i] = u
    BY DEF Passed
  <2>2. i \in DOMAIN queue /\ u \in Roles
    BY <1>1, <1>2 DEF TypeOK
  <2>3. resolved[u] \in Int
    BY <1>1, <2>1, <2>2 DEF QueueInv, TypeOK
  <2>4. QED
    BY <1>1, <2>2, <2>3, EgressType
<1>4. QED
  BY <1>2, <1>3

\* The sum of a role that is not fed stays, as what resolved roles send does.
LEMMA AccumKept ==
  ASSUME NEW d \in Roles, AccumAt(d), UNCHANGED template,
         accum'[d] = accum[d], Passed(d)' = Passed(d),
         \A u \in Passed(d) : resolved'[u] = resolved[u]
  PROVE  AccumAt(d)'
<1>1. \A u \in Passed(d) : EgressAt(u, resolved[u])' = EgressAt(u, resolved[u])
  BY DEF EgressAt
<1>2. Fed(d)' = Fed(d)
  BY <1>1 DEF Fed
<1>3. QED
  BY <1>2 DEF AccumAt

LEMMA ValueKept ==
  ASSUME NEW r \in Roles, ValueAt(r), UNCHANGED <<edges, template>>,
         resolved'[r] = resolved[r], accum'[r] = accum[r], Pending(r)' = Pending(r)
  PROVE  ValueAt(r)'
BY DEF ValueAt, SourceX, Upstreams, Links

LEMMA StartSums == AtStart => SumInv
<1>1. SUFFICES ASSUME AtStart, NEW r \in Roles PROVE AccumAt(r) /\ ValueAt(r)
  BY DEF SumInv
<1>2. Passed(r) = {} /\ accum[r] = 0 /\ resolved[r] = None
  BY <1>1 DEF AtStart, Passed
<1>3. DOMAIN Fed(r) = {}
  BY <1>2 DEF Fed
<1>4. QED
  BY <1>2, <1>3, SumEmpty DEF AccumAt, ValueAt, SumFunction

LEMMA ScanSums == ASSUME IInv, SumInv, Scan PROVE SumInv'
<1> DEFINE s == RoleOrder[pos]
<1>1. TypeOK /\ CountInv /\ LoopInv /\ QueueInv
  BY DEF IInv
<1>2. /\ s \in Roles /\ head = 1 /\ todo = {} /\ resolved[s] = None
      /\ UNCHANGED <<edges, template, head, todo, accum, remaining>>
  BY <1>1, RoleFacts DEF Scan, Scanned, LoopInv, TypeOK, QueueInv
<1>3. \A d : Passed(d) = {} /\ Passed(d)' = {} /\ Upstreams(d)' = Upstreams(d)
  BY <1>2 DEF Passed, Upstreams, Links
<1>4. \A d \in Roles : AccumAt(d)'
  BY <1>2, <1>3, AccumKept DEF SumInv
<1>5. ASSUME NEW r \in Roles PROVE ValueAt(r)'
  <2>1. CASE resolved'[r] = resolved[r]
    BY <1>2, <1>3, <2>1, ValueKept DEF SumInv, Pending
  <2>2. CASE resolved'[r] # resolved[r]
    <3>1. remaining[s] = 0 /\ Resolve(s, SourceX(s)) /\ SourceX(s) \in Int
      BY <1>1, <1>2, <2>2, SourceType DEF Scan
    <3>2. r = s /\ resolved'[r] = SourceX(r)
      BY <1>1, <1>2, <2>2, <3>1, ResolveFacts
    <3>3. Upstreams(r) = {}
      BY <1>1, <1>2, <1>3, <3>1, <3>2, NothingPending DEF Pending
    <3>4. QED
      BY <1>2, <1>3, <3>2, <3>3 DEF ValueAt, Pending, SourceX
  <2>3. QED
    BY <2>1, <2>2
<1>6. QED
  BY <1>4, <1>5 DEF SumInv

LEMMA TakeSums == ASSUME IInv, SumInv, Take PROVE SumInv'
<1>1. UNCHANGED <<edges, template, resolved, accum>>
  BY DEF Take
<1>2. ASSUME NEW r \in Roles PROVE AccumAt(r)' /\ ValueAt(r)'
  <2>1. Passed(r)' = Passed(r) /\ Pending(r)' = Pending(r)
    BY TakePassed DEF Pending
  <2>2. QED
    BY <1>1, <2>1, AccumKept, ValueKept DEF SumInv
<1>3. QED
  BY <1>2 DEF SumInv

LEMMA FeedSums == ASSUME IInv, SumInv, NEW d \in Roles, Feed(d) PROVE SumInv'
<1> DEFINE c == Current
           sum == accum[d] + EgressAt(c, resolved[c])
<1>1. TypeOK /\ CountInv /\ LoopInv /\ QueueInv /\ IInv'
  BY FeedStep DEF IInv
<1>2. /\ accum' = [accum EXCEPT ![d] = sum] /\ UNCHANGED <<edges, template>>
      /\ \/ Ready(d) /\ Resolve(d, sum)
         \/ ~Ready(d) /\ UNCHANGED resolved
  BY DEF Feed
<1>3. /\ c \in Pending(d) /\ Pending(d)' = Pending(d) \ {c}
      /\ \A e \in Roles \ {d} : Pending(e)' = Pending(e)
      /\ \A e \in Roles : Upstreams(e)' = Upstreams(e)
  BY <1>2, FeedPending DEF Upstreams, Links
<1>4. /\ c \notin Passed(d) /\ Passed(d)' = Passed(d) \cup {c}
      /\ \A e \in Roles \ {d} : Passed(e)' = Passed(e)
  BY <1>3 DEF Pending, Passed
\* d had no x: something was pending for it.
<1>5. resolved[d] = None
  BY <1>3 DEF SumInv, ValueAt
<1>6. ASSUME NEW u \in Roles, u # d PROVE resolved'[u] = resolved[u]
  BY <1>1, <1>2, <1>6 DEF Resolve, TypeOK
<1>7. ASSUME NEW e \in Roles PROVE d \notin Passed(e)
  BY <1>5, PassedResolved, TemplateAssumption
<1>8. ASSUME NEW e \in Roles, e # d PROVE AccumAt(e)' /\ ValueAt(e)'
  <2>1. accum'[e] = accum[e] /\ resolved'[e] = resolved[e]
    BY <1>1, <1>2, <1>6, <1>8 DEF TypeOK
  <2>2. \A u \in Passed(e) : resolved'[u] = resolved[u]
    BY <1>6, <1>7, PassedResolved
  <2>3. QED
    BY <1>2, <1>3, <1>4, <1>8, <2>1, <2>2, AccumKept, ValueKept DEF SumInv
<1>9. c \in Upstreams(d) /\ c \in Roles /\ c # d
  BY <1>3 DEF Pending, Upstreams, Links
<1>10. AccumAt(d)'
  <2>1. accum'[d] = accum[d] + EgressAt(c, resolved[c])
    BY <1>1, <1>2 DEF TypeOK
  <2>2. \A u \in Passed(d)' : EgressAt(u, resolved[u])' = EgressAt(u, resolved[u])
    BY <1>2, <1>4, <1>6, <1>7, <1>9, PassedResolved DEF EgressAt
  <2>3. \A u \in Passed(d)' : Fed(d)'[u] \in Int /\ Fed(d)'[u] = EgressAt(u, resolved[u])
    <3>1. \A u \in Passed(d)' : EgressAt(u, resolved[u])' \in Int
      <4>1. \A u \in Passed(d) : EgressAt(u, resolved[u]) \in Int
        BY PassedResolved
      <4>2. EgressAt(c, resolved[c]) \in Int
        BY <1>1, <1>9, EgressType, CurrentResolved
      <4>3. QED
        BY <1>4, <2>2, <4>1, <4>2
    <3>2. QED
      BY <2>2, <3>1 DEF Fed
  <2>4. \A u \in Passed(d) : Fed(d)[u] = Fed(d)'[u]
    BY <1>4, <2>3 DEF Fed
  <2>5. SumFunctionOnSet(Fed(d)', Passed(d) \cup {c})
          = SumFunctionOnSet(Fed(d), Passed(d)) + Fed(d)'[c]
    <3>1. \A y \in Passed(d) \cup {c} : Fed(d)'[y] \in Int
      BY <1>4, <2>3
    <3> HIDE DEF c
    <3>2. QED
      BY <1>4, <2>4, <3>1, PassedResolved, SumAdd
  <2>6. DOMAIN Fed(d) = Passed(d) /\ DOMAIN Fed(d)' = Passed(d) \cup {c}
    BY <1>4 DEF Fed
  <2>7. accum[d] = SumFunctionOnSet(Fed(d), Passed(d))
    BY <2>6 DEF SumInv, AccumAt, SumFunction
  <2>8. Fed(d)'[c] = EgressAt(c, resolved[c])
    BY <1>4, <2>3
  <2>9. QED
    BY <2>1, <2>5, <2>6, <2>7, <2>8 DEF AccumAt, SumFunction
<1>11. ValueAt(d)'
  <2>1. SUFFICES ASSUME resolved'[d] # None
                 PROVE  Pending(d)' = {} /\ resolved'[d] = accum'[d]
    BY <1>3, <1>9 DEF ValueAt
  <2>2. Ready(d) /\ resolved'[d] = sum /\ accum'[d] = sum
    BY <1>1, <1>2, <1>5, <2>1 DEF Resolve, TypeOK
  <2>3. remaining'[d] = 0
    BY <1>1, <2>2 DEF Feed, Ready, TypeOK
  <2>4. Cardinality(Pending(d)') = 0 /\ IsFiniteSet(Pending(d)')
    BY <1>1, <1>3, <2>3, UpstreamsFinite, FS_RemoveElement DEF IInv, CountInv
  <2>5. QED
    BY <2>2, <2>4, FS_EmptySet
<1>12. QED
  BY <1>8, <1>10, <1>11 DEF SumInv

LEMMA SumStep == IInv /\ SumInv /\ [Next]_vars => SumInv'
<1>1. SUFFICES ASSUME IInv, SumInv, [Next]_vars PROVE SumInv'
  OBVIOUS
<1>2. CASE UNCHANGED vars
  <2>1. UNCHANGED <<edges, template, queue, head, todo, resolved, accum>>
    BY <1>2 DEF vars
  <2>2. ASSUME NEW r \in Roles PROVE AccumAt(r)' /\ ValueAt(r)'
    <3>1. Passed(r)' = Passed(r) /\ Pending(r)' = Pending(r)
      BY <2>1 DEF Pending, Passed, Upstreams, Links
    <3>2. QED
      BY <1>1, <2>1, <3>1, AccumKept, ValueKept DEF SumInv
  <2>3. QED
    BY <2>2 DEF SumInv
<1>3. QED
  BY <1>1, <1>2, ScanSums, TakeSums, FeedSums DEF Next

\* The comment's formula for what an upstream sends is what the code computes.
LEMMA ContributionIs ==
  ASSUME TypeOK, NEW u \in Roles, resolved[u] \in Int
  PROVE  Contribution(u) = EgressAt(u, resolved[u])
<1> DEFINE net == template.a[u] * resolved[u] + template.b[u]
<1>1. net \in Int
  BY TemplateFacts
<1>2. Max({0, net}) = IF net > 0 THEN net ELSE 0
  <2> HIDE DEF net
  <2>1. QED
    BY <1>1 DEF Max
<1>3. QED
  BY <1>2 DEF Contribution, EgressAt

LEMMA SumsAreResolved == IInv /\ SumInv => ResolvedIsSum
<1>1. SUFFICES ASSUME IInv, SumInv, NEW r \in Roles, resolved[r] # None, Upstreams(r) # {}
               PROVE  resolved[r] = SumFunction([u \in Upstreams(r) |-> Contribution(u)])
  BY DEF ResolvedIsSum, SumInv, ValueAt
<1>2. Pending(r) = {} /\ resolved[r] = SumFunction(Fed(r))
  BY <1>1 DEF SumInv, ValueAt, AccumAt
<1>3. Passed(r) = Upstreams(r)
  BY <1>2 DEF Pending, Passed
<1>4. \A u \in Upstreams(r) : Contribution(u) = EgressAt(u, resolved[u])
  BY <1>1, <1>3, PassedResolved, ContributionIs DEF IInv
<1>5. Fed(r) = [u \in Upstreams(r) |-> Contribution(u)]
  BY <1>3, <1>4 DEF Fed
<1>6. QED
  BY <1>2, <1>5

\* IInv holds in every state of the propagation.
THEOREM Invariance == Spec => []IInv
<1>1. Init => IInv
  BY InitStarts, StartIInv
<1>2. IInv /\ [Next]_vars => IInv'
  BY InductiveStep
<1>3. QED
  BY <1>1, <1>2, PTL DEF Spec

\* The loops of _compute_resolved_x stay within their lists, and no role is
\* fed more often than it has upstreams.
THEOREM TypeCorrect == Spec => []TypeOK
<1>1. IInv => TypeOK
  BY DEF IInv
<1>2. QED
  BY <1>1, Invariance, PTL

\* Every role that gets an x gets it once, and after all roles it depends on.
THEOREM UpstreamsFirst == Spec => []TopologicalOrder
<1>1. IInv => TopologicalOrder
  BY DEF IInv
<1>2. QED
  BY <1>1, Invariance, PTL

\* _compute_resolved_x raises exactly for the role graphs with a cycle, for
\* every template, duplicate edges and self-edges included.
THEOREM CycleVerdict == Spec => []RefusedIffCyclic
<1>1. IInv => RefusedIffCyclic
  BY Verdict
<1>2. QED
  BY <1>1, Invariance, PTL

\* A downstream role's x is the sum of what its upstream roles send at their
\* own x, each counted once, for every graph, template and order of the roles
\* and of the sets of downstream roles.
THEOREM SumOfUpstreams == Spec => []ResolvedIsSum
<1>1. Init => IInv /\ SumInv
  BY InitStarts, StartIInv, StartSums
<1>2. IInv /\ SumInv /\ [Next]_vars => IInv' /\ SumInv'
  BY InductiveStep, SumStep
<1>3. QED
  BY <1>1, <1>2, SumsAreResolved, PTL DEF Spec

-----------------------------------------------------------------------------
(* The loops end *)

\* What is left of the loops: the roles to scan, and for each role that may yet
\* be taken from the queue the downstream roles it may have to feed.
StepsLeft ==
  (Len(RoleOrder) + 1 - pos)
    + (Cardinality(Roles) + 1 - head) * (Cardinality(Roles) + 1) + Cardinality(todo)

\* The queue holds every role once at most.
LEMMA QueueBound ==
  ASSUME IInv
  PROVE  /\ Cardinality(Roles) \in Nat /\ Len(queue) \in Nat
         /\ Len(queue) <= Cardinality(Roles)
<1>1. queue \in Seq(Roles) /\ Len(queue) \in Nat /\ DOMAIN queue = 1..Len(queue)
  BY DEF IInv, TypeOK
<1>2. queue \in Injection(1..Len(queue), Roles)
  BY <1>1 DEF IInv, TopologicalOrder, Injection, IsInjective
<1>3. Cardinality(1..Len(queue)) = Len(queue)
  BY <1>1, FS_Interval
<1>4. QED
  BY <1>1, <1>2, <1>3, RoleFacts, FS_Injection, FS_CardinalityType

LEMMA StepsNatural ==
  ASSUME IInv
  PROVE  /\ StepsLeft \in Nat
         /\ Len(RoleOrder) \in Nat /\ pos \in 1..(Len(RoleOrder) + 1)
         /\ head \in 1..(Cardinality(Roles) + 1)
         /\ IsFiniteSet(todo) /\ Cardinality(todo) \in Nat
<1> DEFINE n == Cardinality(Roles)
           k == n + 1 - head
<1>1. /\ Len(RoleOrder) \in Nat /\ pos \in 1..(Len(RoleOrder) + 1)
      /\ head \in 1..(Len(queue) + 1)
  BY RoleFacts DEF IInv, TypeOK
<1>2. n \in Nat /\ head \in 1..(n + 1) /\ k \in Nat
  BY <1>1, QueueBound
<1>3. IsFiniteSet(todo) /\ Cardinality(todo) \in Nat
  BY RoleFacts, FS_Subset, FS_CardinalityType DEF IInv, TypeOK
<1>4. StepsLeft = (Len(RoleOrder) + 1 - pos) + k * (n + 1) + Cardinality(todo)
  BY DEF StepsLeft
<1>5. QED
  <2>1. k * (n + 1) \in Nat
    BY <1>2
  <2> HIDE DEF n, k
  <2>2. StepsLeft \in Nat
    BY <1>1, <1>3, <1>4, <2>1
  <2>3. QED
    BY <1>1, <1>2, <1>3, <2>2 DEF n

LEMMA StepsShrink ==
  ASSUME IInv, Next PROVE StepsLeft' < StepsLeft
<1> DEFINE n == Cardinality(Roles)
           k == n + 1 - head
           a == Len(RoleOrder) + 1 - pos
           c == Cardinality(todo)
<1>1. /\ n \in Nat /\ k \in Nat /\ a \in Nat /\ c \in Nat /\ k * (n + 1) \in Nat
      /\ pos \in Nat /\ head \in Nat /\ Len(RoleOrder) \in Nat /\ IsFiniteSet(todo)
  <2>1. n \in Nat
    BY QueueBound
  <2>2. QED
    BY <2>1, StepsNatural
<1>2. StepsLeft = a + k * (n + 1) + c
  BY DEF StepsLeft
<1>3. CASE Scan
  <2>1. pos' = pos + 1 /\ UNCHANGED <<head, todo>>
    BY <1>3 DEF Scan
  <2>2. Len(RoleOrder) + 1 - pos' = a - 1
    BY <1>1, <2>1
  <2>3. StepsLeft' = (a - 1) + k * (n + 1) + c
    BY <2>1, <2>2 DEF StepsLeft
  <2> DEFINE m == k * (n + 1)
  <2> HIDE DEF a, c, m
  <2>4. QED
    BY <1>1, <1>2, <2>3 DEF m
<1>4. CASE Take
  <2>1. pos' = pos /\ head' = head + 1 /\ todo = {} /\ todo' \subseteq Roles
    BY <1>4 DEF Take, Downstreams
  <2>2. Cardinality(todo') \in Nat /\ Cardinality(todo') <= n /\ c = 0
    BY <2>1, RoleFacts, FS_Subset, FS_CardinalityType, FS_EmptySet
  <2>3. n + 1 - head' = k - 1
    BY <1>1, <2>1
  <2>4. StepsLeft' = a + (k - 1) * (n + 1) + Cardinality(todo')
    BY <2>1, <2>3 DEF StepsLeft
  <2> DEFINE d == Cardinality(todo')
             m == k * (n + 1)
  <2>5. (k - 1) * (n + 1) = m - (n + 1) /\ m \in Nat
    BY <1>1
  <2> HIDE DEF a, c, d, k, n, m
  <2>6. QED
    BY <1>1, <1>2, <2>2, <2>4, <2>5 DEF m, d
<1>5. CASE \E d \in Roles : Feed(d)
  <2>1. PICK d \in todo : todo' = todo \ {d} /\ pos' = pos /\ head' = head
    BY <1>5 DEF Feed
  <2>2. Cardinality(todo') = c - 1
    BY <1>1, <2>1, FS_RemoveElement
  <2>3. StepsLeft' = a + k * (n + 1) + (c - 1)
    BY <2>1, <2>2 DEF StepsLeft
  <2> DEFINE m == k * (n + 1)
  <2> HIDE DEF a, c, m
  <2>4. QED
    BY <1>1, <1>2, <2>3 DEF m
<1>6. QED
  BY <1>3, <1>4, <1>5 DEF Next

\* The propagation comes to an end for every graph, the cyclic ones included:
\* each iteration of the three loops takes one of the steps that are left, and
\* these are a natural number.
THEOREM PropagationEnds ==
  Spec => [](StepsLeft \in Nat) /\ [][StepsLeft' < StepsLeft]_vars
<1>1. IInv => StepsLeft \in Nat
  BY StepsNatural
<1>2. IInv /\ [Next]_vars => [StepsLeft' < StepsLeft]_vars
  BY StepsShrink
<1>3. QED
  BY <1>1, <1>2, Invariance, PTL DEF Spec
=============================================================================
