---------------------------- MODULE PortOffsets ----------------------------
(***************************************************************************)
(* The greedy colouring of controller/materialiser.py:_resolve_peer_ips.   *)
(* A source pod connects to every pod of every target role of its role, on *)
(* one port, base + offset, and an iperf3 server takes one session: two    *)
(* pods that share a target role need different offsets.  The pods are     *)
(* visited by role, then by name; each takes the smallest offset that none *)
(* of its target roles has in use.                                         *)
(***************************************************************************)
EXTENDS Naturals, Sequences, FiniteSets

CONSTANTS
  Roles,      \* the template's roles
  Pods,       \* the pods of all roles
  RoleOf,     \* the role of each pod
  PodOrder,   \* all pods, sorted by role and then by name
  Targets,    \* the roles each role has an edge to
  LatePods    \* pods that may be missing from the Endpoints after 30 s

ASSUME PortAssumption ==
  /\ RoleOf \in [Pods -> Roles]
  /\ PodOrder \in Seq(Pods)
  /\ \A i, j \in 1..Len(PodOrder) : PodOrder[i] = PodOrder[j] => i = j
  /\ \A p \in Pods : \E i \in 1..Len(PodOrder) : PodOrder[i] = p
  /\ Targets \in [Roles -> SUBSET Roles]
  /\ LatePods \subseteq Pods

VARIABLES
  ready,     \* pods the Endpoints listed, by name, when the wait was over
  pos,       \* position of the loop in PodOrder
  cand,      \* the variable `offset` of the inner loop
  assigned,  \* the keys of `offsets`, over all roles
  offset,    \* its values; 0, the worker's default, where there is no key
  used       \* used_by_target

vars == <<ready, pos, cand, assigned, offset, used>>

TargetsOf(p) == Targets[RoleOf[p]]

\* Two source pods that meet on the servers of some target role.
Share(p, q) == TargetsOf(p) \cap TargetsOf(q) # {}

\* Ranges of the variables; the loop visits each pod once.
TypeOK ==
  /\ ready \in SUBSET Pods
  /\ pos \in 1..(Len(PodOrder) + 1)
  /\ cand \in Nat
  /\ assigned \in SUBSET {PodOrder[i] : i \in 1..(pos - 1)}
  /\ offset \in [Pods -> Nat]
  /\ used \in [Roles -> SUBSET Nat]

\* _wait_for_endpoint_pods gives up after 30 s and answers with what it has.
Listed == {S \in SUBSET Pods : Pods \ LatePods \subseteq S}

Init ==
  /\ ready \in Listed
  /\ pos = 1
  /\ cand = 0
  /\ assigned = {}
  /\ offset = [p \in Pods |-> 0]
  /\ used = [r \in Roles |-> {}]

-----------------------------------------------------------------------------
Done == pos > Len(PodOrder)

\* Only listed pods of roles with outbound peers are in src_pods_by_role.
Coloured(p) == p \in ready /\ TargetsOf(p) # {}

\* Mutant: the outer loop stays at the pod.
Advance_Stuck == UNCHANGED pos

Advance == pos' = pos + 1

SkipPod ==
  /\ ~Done
  /\ ~Coloured(PodOrder[pos])
  /\ Advance
  /\ UNCHANGED <<ready, cand, assigned, offset, used>>

\* any(offset in used_by_target[t] for t in target_roles)
Taken(p) == \E t \in TargetsOf(p) : cand \in used[t]

\* Mutant: the inner loop does not move on.
NextCandidate_Stuck == cand

\* Mutant: every other offset is skipped.
NextCandidate_ByTwo == cand + 2

NextCandidate == cand + 1

TryNext ==
  /\ ~Done
  /\ Coloured(PodOrder[pos])
  /\ Taken(PodOrder[pos])
  /\ cand' = NextCandidate
  /\ UNCHANGED <<ready, pos, assigned, offset, used>>

\* Mutant: the offset is claimed on the first target only.
Claim_OneTarget(p) ==
  LET first == CHOOSE t \in TargetsOf(p) : TRUE IN
  used' = [used EXCEPT ![first] = @ \cup {cand}]

Claim(p) ==
  used' = [t \in Roles |->
             IF t \in TargetsOf(p) THEN used[t] \cup {cand} ELSE used[t]]

\* Mutant: `offset = 0` is outside the loop over the pods.
ResetCandidate_Never == UNCHANGED cand

ResetCandidate == cand' = 0

Assign ==
  LET p == PodOrder[pos] IN
  /\ ~Done
  /\ Coloured(p)
  /\ ~Taken(p)
  /\ offset' = [offset EXCEPT ![p] = cand]
  /\ assigned' = assigned \cup {p}
  /\ Claim(p)
  /\ Advance
  /\ ResetCandidate
  /\ UNCHANGED ready

Next == SkipPod \/ TryNext \/ Assign

Spec == Init /\ [][Next]_vars

FairSpec == Spec /\ WF_vars(Next)

-----------------------------------------------------------------------------
\* "Any two source pods that share a target must get distinct offsets":
\* whatever the edges, fan-out over several shared sinks included.
NoCollision ==
  \A p, q \in assigned : p # q /\ Share(p, q) => offset[p] # offset[q]

\* An offset is in use at a role exactly when some pod connecting to the role
\* has it, so the server count, the largest offset in use plus one, covers
\* every client and no server is counted for nobody.
UsedIsAssigned ==
  \A t \in Roles :
    used[t] = {offset[p] : p \in {q \in assigned : t \in TargetsOf(q)}}

\* The colouring is not minimal, but it never needs more offsets than there
\* are source pods: no offset reaches the number of pods coloured so far.
OffsetsBounded ==
  \A p \in assigned : offset[p] < Cardinality(assigned)

\* The offsets are the smallest possible: every smaller offset was taken by a
\* pod sharing a target that came earlier.
NoGap ==
  \A p \in assigned : \A o \in 0..(offset[p] - 1) :
    \E q \in assigned : q # p /\ Share(p, q) /\ offset[q] = o

\* The loops end with every listed source pod coloured.
Colours ==
  <>(Done /\ assigned = {p \in Pods : Coloured(p)})

=============================================================================
