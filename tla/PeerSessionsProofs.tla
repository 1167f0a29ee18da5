-------------------------- MODULE PeerSessionsProofs --------------------------
(***************************************************************************)
(* The colouring of PortOffsets is collision free, bounded by the number   *)
(* of source pods and gap free, for every set of roles and pods, every     *)
(* graph and every set of late pods.  Phase 2 and the worker pods of       *)
(* PeerSessions leave it alone, and the server counts derived from it give *)
(* each client a server.                                                   *)
(***************************************************************************)
EXTENDS PeerSessions, SumLemmas

\* The inner loop's candidate has only passed over offsets in use at some
\* target of the pod it is for; the pod at the loop's position is Taken there.
CandidatesTaken ==
  cand > 0 =>
    /\ ~Done
    /\ Coloured(PodOrder[pos])
    /\ \A o \in 0..(cand - 1) : \E t \in TargetsOf(PodOrder[pos]) : o \in used[t]

\* Offsets in use, and with them the candidate, stay within the number of
\* pods coloured.
UseBounded ==
  /\ IsFiniteSet(assigned)
  /\ cand <= Cardinality(assigned)
  /\ \A t \in Roles : \A o \in used[t] : o < Cardinality(assigned)

IInv ==
  /\ TypeOK
  /\ UsedIsAssigned
  /\ NoCollision
  /\ CandidatesTaken
  /\ UseBounded
  /\ OffsetsBounded
  /\ NoGap

-----------------------------------------------------------------------------
\* The pod at the loop's position is a pod, and was not visited before.
LEMMA CurrentPod ==
  ASSUME TypeOK, ~Done
  PROVE  /\ PodOrder[pos] \in Pods
         /\ PodOrder[pos] \notin assigned
         /\ pos \in 1..Len(PodOrder)
         /\ TargetsOf(PodOrder[pos]) \subseteq Roles
<1>1. pos \in 1..Len(PodOrder)
  BY PortAssumption DEF TypeOK, Done
<1>2. PodOrder[pos] \in Pods
  BY <1>1, PortAssumption
<1>3. PodOrder[pos] \notin assigned
  <2>1. SUFFICES ASSUME NEW i \in 1..(pos - 1), PodOrder[pos] = PodOrder[i]
                 PROVE  FALSE
    BY DEF TypeOK
  <2>2. i \in 1..Len(PodOrder) /\ i # pos
    BY <1>1
  <2>3. QED
    BY <1>1, <2>1, <2>2, PortAssumption
<1>4. TargetsOf(PodOrder[pos]) \subseteq Roles
  BY <1>2, PortAssumption DEF TargetsOf
<1>5. QED
  BY <1>1, <1>2, <1>3, <1>4

LEMMA InitIInv == Init => IInv
<1>1. SUFFICES ASSUME Init PROVE IInv
  OBVIOUS
<1>2. Len(PodOrder) \in Nat
  BY PortAssumption
<1>3. TypeOK
  BY <1>1, <1>2 DEF Init, Listed, TypeOK
<1>4. UseBounded
  BY <1>1, FS_EmptySet DEF Init, UseBounded
<1>5. UsedIsAssigned /\ NoCollision /\ CandidatesTaken /\ OffsetsBounded /\ NoGap
  BY <1>1 DEF Init, UsedIsAssigned, NoCollision, CandidatesTaken, OffsetsBounded, NoGap
<1>6. QED
  BY <1>3, <1>4, <1>5 DEF IInv

LEMMA TypeStep == TypeOK /\ [Next]_vars => TypeOK'
<1>1. SUFFICES ASSUME TypeOK, [Next]_vars PROVE TypeOK'
  OBVIOUS
<1>2. CASE SkipPod
  <2>1. pos \in 1..Len(PodOrder)
    BY <1>1, <1>2, CurrentPod DEF SkipPod
  <2>2. pos' \in 1..(Len(PodOrder) + 1) /\ pos' = pos + 1
    BY <1>2, <2>1, PortAssumption DEF SkipPod, Advance
  <2>3. {PodOrder[i] : i \in 1..(pos - 1)} \subseteq {PodOrder[i] : i \in 1..(pos' - 1)}
    BY <2>1, <2>2
  <2>4. QED
    BY <1>1, <1>2, <2>2, <2>3 DEF SkipPod, TypeOK
<1>3. CASE TryNext
  BY <1>1, <1>3 DEF TryNext, TypeOK, NextCandidate
<1>4. CASE Assign
  <2>1. pos \in 1..Len(PodOrder) /\ PodOrder[pos] \in Pods
    BY <1>1, <1>4, CurrentPod DEF Assign
  <2>2. pos' \in 1..(Len(PodOrder) + 1) /\ pos' = pos + 1
    BY <1>4, <2>1, PortAssumption DEF Assign, Advance
  <2>3. assigned' \subseteq {PodOrder[i] : i \in 1..(pos' - 1)}
    <3>1. {PodOrder[i] : i \in 1..(pos - 1)} \subseteq {PodOrder[i] : i \in 1..(pos' - 1)}
      BY <2>1, <2>2
    <3>2. PodOrder[pos] \in {PodOrder[i] : i \in 1..(pos' - 1)}
      BY <2>1, <2>2
    <3>3. QED
      BY <1>1, <1>4, <3>1, <3>2 DEF Assign, TypeOK
  <2>4. offset' \in [Pods -> Nat] /\ used' \in [Roles -> SUBSET Nat]
    BY <1>1, <1>4 DEF Assign, Claim, TypeOK
  <2>5. QED
    BY <1>1, <1>4, <2>2, <2>3, <2>4 DEF Assign, ResetCandidate, TypeOK
<1>5. CASE UNCHANGED vars
  BY <1>1, <1>5 DEF vars, TypeOK
<1>6. QED
  BY <1>1, <1>2, <1>3, <1>4, <1>5 DEF Next

-----------------------------------------------------------------------------
(* Assign is the only step that disturbs the colouring itself. *)

LEMMA AssignStep == IInv /\ Assign => IInv'
<1> SUFFICES ASSUME IInv, Assign PROVE IInv'
  OBVIOUS
<1> DEFINE p == PodOrder[pos]
<1>1. TypeOK /\ TypeOK'
  BY TypeStep DEF IInv, Next
<1>2. /\ p \in Pods /\ p \notin assigned /\ TargetsOf(p) \subseteq Roles
  BY <1>1, CurrentPod DEF Assign
<1>3. /\ assigned' = assigned \cup {p}
      /\ offset' = [offset EXCEPT ![p] = cand]
      /\ used' = [t \in Roles |-> IF t \in TargetsOf(p) THEN used[t] \cup {cand} ELSE used[t]]
      /\ cand' = 0
      /\ \A t \in TargetsOf(p) : cand \notin used[t]
  BY DEF Assign, Claim, Taken, ResetCandidate
<1>4. /\ offset'[p] = cand
      /\ \A q \in assigned : offset'[q] = offset[q]
  BY <1>1, <1>2, <1>3 DEF TypeOK
<1>5. assigned \subseteq Pods
  <2>1. SUFFICES ASSUME NEW q \in assigned PROVE q \in Pods
    OBVIOUS
  <2>2. PICK i \in 1..(pos - 1) : q = PodOrder[i]
    BY <1>1, <2>1 DEF TypeOK
  <2>3. i \in 1..Len(PodOrder)
    BY <1>1, <2>2, PortAssumption DEF TypeOK
  <2>4. QED
    BY <2>2, <2>3, PortAssumption
<1>6. UsedIsAssigned'
  <2>1. SUFFICES ASSUME NEW t \in Roles
                 PROVE  used'[t] = {offset'[q] : q \in {r \in assigned' : t \in TargetsOf(r)}}
    BY DEF UsedIsAssigned, TargetsOf
  <2>2. used[t] = {offset[q] : q \in {r \in assigned : t \in TargetsOf(r)}}
    BY DEF IInv, UsedIsAssigned
  <2>3. used[t] = {offset'[q] : q \in {r \in assigned : t \in TargetsOf(r)}}
    BY <1>4, <2>2
  <2>4. CASE t \in TargetsOf(p)
    <3>1. {r \in assigned' : t \in TargetsOf(r)} = {r \in assigned : t \in TargetsOf(r)} \cup {p}
      BY <1>3, <2>4
    <3>2. used'[t] = used[t] \cup {cand}
      BY <1>3, <2>4
    <3>3. QED
      BY <1>4, <2>3, <3>1, <3>2
  <2>5. CASE t \notin TargetsOf(p)
    <3>1. {r \in assigned' : t \in TargetsOf(r)} = {r \in assigned : t \in TargetsOf(r)}
      BY <1>3, <2>5
    <3>2. used'[t] = used[t]
      BY <1>3, <2>5
    <3>3. QED
      BY <2>3, <3>1, <3>2
  <2>6. QED
    BY <2>4, <2>5
\* A pod that shares a target with the new one has its offset in use there.
<1>7. \A q \in assigned : Share(p, q) => offset[q] # cand
  <2>1. SUFFICES ASSUME NEW q \in assigned, NEW t \in TargetsOf(p) \cap TargetsOf(q)
                 PROVE  offset[q] # cand
    BY DEF Share
  <2>2. t \in Roles /\ offset[q] \in used[t]
    BY <1>2, <2>1 DEF IInv, UsedIsAssigned
  <2>3. QED
    BY <1>3, <2>1, <2>2
<1>8. NoCollision'
  <2>1. SUFFICES ASSUME NEW q \in assigned', NEW r \in assigned', q # r, Share(q, r)
                 PROVE  offset'[q] # offset'[r]
    BY DEF NoCollision, Share, TargetsOf
  <2>2. CASE q \in assigned /\ r \in assigned
    BY <1>4, <2>1, <2>2 DEF IInv, NoCollision
  <2>3. CASE q = p /\ r \in assigned
    BY <1>4, <1>7, <2>1, <2>3
  <2>4. CASE r = p /\ q \in assigned
    <3>1. Share(p, q)
      BY <2>1, <2>4 DEF Share
    <3>2. QED
      BY <1>4, <1>7, <2>4, <3>1
  <2>5. QED
    BY <1>3, <2>1, <2>2, <2>3, <2>4
<1>9. UseBounded'
  <2>1. IsFiniteSet(assigned) /\ cand <= Cardinality(assigned)
        /\ \A t \in Roles : \A o \in used[t] : o < Cardinality(assigned)
    BY DEF IInv, UseBounded
  <2>2. IsFiniteSet(assigned') /\ Cardinality(assigned') = Cardinality(assigned) + 1
    BY <1>2, <1>3, <2>1, FS_AddElement
  <2>3. Cardinality(assigned) \in Nat /\ cand \in Nat
    BY <1>1, <2>1, FS_CardinalityType DEF TypeOK
  <2>4. ASSUME NEW t \in Roles, NEW o \in used'[t]
        PROVE  o < Cardinality(assigned')
    <3>1. o \in used[t] \/ o = cand
      BY <1>3, <2>4
    <3>2. o \in Nat
      BY <1>1, <2>4 DEF TypeOK
    <3>3. QED
      BY <2>1, <2>2, <2>3, <3>1, <3>2
  <2>5. cand' <= Cardinality(assigned')
    BY <1>3, <2>2, <2>3
  <2>6. \A t \in Roles : \A o \in used'[t] : o < Cardinality(assigned')
    BY <2>4
  <2>7. QED
    BY <2>2, <2>5, <2>6 DEF UseBounded
<1>10. OffsetsBounded'
  <2>1. IsFiniteSet(assigned) /\ cand <= Cardinality(assigned)
    BY DEF IInv, UseBounded
  <2>2. Cardinality(assigned') = Cardinality(assigned) + 1
    BY <1>2, <1>3, <2>1, FS_AddElement
  <2>3. Cardinality(assigned) \in Nat /\ cand \in Nat
    BY <1>1, <2>1, FS_CardinalityType DEF TypeOK
  <2>4. \A q \in assigned : offset[q] \in Nat /\ offset[q] < Cardinality(assigned)
    BY <1>1, <1>5 DEF IInv, OffsetsBounded, TypeOK
  <2>5. QED
    BY <1>3, <1>4, <2>1, <2>2, <2>3, <2>4 DEF OffsetsBounded
<1>11. NoGap'
  <2>1. SUFFICES ASSUME NEW q \in assigned', NEW o \in 0..(offset'[q] - 1)
                 PROVE  \E r \in assigned' : r # q /\ Share(q, r) /\ offset'[r] = o
    BY DEF NoGap, Share, TargetsOf
  <2>2. CASE q \in assigned
    <3>1. PICK r \in assigned : r # q /\ Share(q, r) /\ offset[r] = o
      BY <1>4, <2>1, <2>2 DEF IInv, NoGap
    <3>2. QED
      BY <1>3, <1>4, <3>1
  <2>3. CASE q = p
    <3>1. cand \in Nat /\ o \in 0..(cand - 1) /\ cand > 0
      BY <1>1, <1>4, <2>1, <2>3 DEF TypeOK
    <3>2. PICK t \in TargetsOf(p) : o \in used[t]
      BY <3>1 DEF IInv, CandidatesTaken
    <3>3. PICK r \in assigned : t \in TargetsOf(r) /\ offset[r] = o
      BY <1>2, <3>2 DEF IInv, UsedIsAssigned
    <3>4. QED
      BY <1>2, <1>3, <1>4, <2>3, <3>2, <3>3 DEF Share
  <2>4. QED
    BY <1>3, <2>1, <2>2, <2>3
<1>12. CandidatesTaken'
  BY <1>3 DEF CandidatesTaken
<1>13. QED
  BY <1>1, <1>6, <1>8, <1>9, <1>10, <1>11, <1>12 DEF IInv

\* Passing over a candidate keeps it within the offsets in use.
LEMMA TryNextStep == IInv /\ TryNext => IInv'
<1> SUFFICES ASSUME IInv, TryNext PROVE IInv'
  OBVIOUS
<1>1. TypeOK /\ TypeOK'
  BY TypeStep DEF IInv, Next
<1>2. cand' = cand + 1 /\ UNCHANGED <<ready, pos, assigned, offset, used>>
  BY DEF TryNext, NextCandidate
<1>3. PICK t \in TargetsOf(PodOrder[pos]) : cand \in used[t]
  BY DEF TryNext, Taken
<1>4. t \in Roles
  BY <1>1, <1>3, CurrentPod DEF TryNext
<1>5. UseBounded'
  <2>1. Cardinality(assigned) \in Nat /\ cand \in Nat /\ cand < Cardinality(assigned)
    BY <1>1, <1>3, <1>4, FS_CardinalityType DEF IInv, UseBounded, TypeOK
  <2>2. QED
    BY <1>2, <2>1 DEF IInv, UseBounded
<1>6. CandidatesTaken'
  <2>1. cand \in Nat
    BY <1>1 DEF TypeOK
  <2>2. \A o \in 0..cand : \E s \in TargetsOf(PodOrder[pos]) : o \in used[s]
    <3>1. SUFFICES ASSUME NEW o \in 0..cand
                   PROVE  \E s \in TargetsOf(PodOrder[pos]) : o \in used[s]
      OBVIOUS
    <3>2. CASE o = cand
      BY <1>3, <3>2
    <3>3. CASE o # cand
      <4>1. cand > 0 /\ o \in 0..(cand - 1)
        BY <2>1, <3>1, <3>3
      <4>2. QED
        BY <4>1 DEF IInv, CandidatesTaken
    <3>4. QED
      BY <3>2, <3>3
  <2>3. ~Done' /\ Coloured(PodOrder[pos])'
    BY <1>2 DEF TryNext, Done, Coloured, TargetsOf
  <2>4. (cand + 1) - 1 = cand
    BY <2>1
  <2>5. QED
    BY <1>2, <2>2, <2>3, <2>4 DEF CandidatesTaken, TargetsOf
<1>7. UsedIsAssigned' /\ NoCollision' /\ OffsetsBounded' /\ NoGap'
  BY <1>2 DEF IInv, UsedIsAssigned, NoCollision, OffsetsBounded, NoGap, Share, TargetsOf
<1>8. QED
  BY <1>1, <1>5, <1>6, <1>7 DEF IInv

\* A pod that is not coloured is passed over before any candidate was tried.
LEMMA SkipStep == IInv /\ SkipPod => IInv'
<1> SUFFICES ASSUME IInv, SkipPod PROVE IInv'
  OBVIOUS
<1>1. TypeOK'
  BY TypeStep DEF IInv, Next
<1>2. UNCHANGED <<ready, cand, assigned, offset, used>>
  BY DEF SkipPod
<1>3. UsedIsAssigned' /\ NoCollision' /\ UseBounded' /\ OffsetsBounded' /\ NoGap'
  BY <1>2 DEF IInv, UsedIsAssigned, NoCollision, UseBounded, OffsetsBounded, NoGap,
              Share, TargetsOf
<1>4. CandidatesTaken'
  <2>1. ~(cand > 0)
    BY DEF SkipPod, IInv, CandidatesTaken
  <2>2. QED
    BY <1>2, <2>1 DEF CandidatesTaken
<1>5. QED
  BY <1>1, <1>3, <1>4 DEF IInv

LEMMA InductiveStep == IInv /\ [Next]_vars => IInv'
<1>1. SUFFICES ASSUME IInv, [Next]_vars PROVE IInv'
  OBVIOUS
<1>2. CASE SkipPod
  BY <1>1, <1>2, SkipStep
<1>3. CASE TryNext
  BY <1>1, <1>3, TryNextStep
<1>4. CASE Assign
  BY <1>1, <1>4, AssignStep
<1>5. CASE UNCHANGED vars
  <2>1. UNCHANGED <<ready, pos, cand, assigned, offset, used>>
    BY <1>5 DEF vars
  <2>2. TypeOK'
    BY <1>1, TypeStep DEF IInv
  <2>3. UsedIsAssigned' /\ NoCollision' /\ NoGap'
    BY <1>1, <2>1 DEF IInv, UsedIsAssigned, NoCollision, NoGap, Share, TargetsOf
  <2>4. UseBounded' /\ OffsetsBounded'
    BY <1>1, <2>1 DEF IInv, UseBounded, OffsetsBounded
  <2>5. CandidatesTaken'
    BY <1>1, <2>1 DEF IInv, CandidatesTaken, Done, Coloured, TargetsOf
  <2>6. QED
    BY <2>2, <2>3, <2>4, <2>5 DEF IInv
<1>6. QED
  BY <1>1, <1>2, <1>3, <1>4, <1>5 DEF Next

-----------------------------------------------------------------------------
\* IInv holds in every state of the colouring.
THEOREM Invariance == Spec => []IInv
<1>1. Init => IInv
  BY InitIInv
<1>2. IInv /\ [Next]_vars => IInv'
  BY InductiveStep
<1>3. QED
  BY <1>1, <1>2, PTL DEF Spec

\* The variables of the colouring keep their ranges; the loop visits each pod
\* at most once.
THEOREM TypeCorrect == Spec => []TypeOK
<1>1. IInv => TypeOK
  BY DEF IInv
<1>2. QED
  BY <1>1, Invariance, PTL

\* Two source pods that share a target role never get the same offset: the
\* guarantee of _resolve_peer_ips, for every role graph and set of pods.
THEOREM CollisionFree == Spec => []NoCollision
<1>1. IInv => NoCollision
  BY DEF IInv
<1>2. QED
  BY <1>1, Invariance, PTL

\* used_by_target holds the offsets of the coloured pods of each target and
\* nothing else, so the server count derived from it covers every client.
THEOREM UsedOffsets == Spec => []UsedIsAssigned
<1>1. IInv => UsedIsAssigned
  BY DEF IInv
<1>2. QED
  BY <1>1, Invariance, PTL

\* No offset reaches the number of pods coloured.
THEOREM BoundedOffsets == Spec => []OffsetsBounded
<1>1. IInv => OffsetsBounded
  BY DEF IInv
<1>2. QED
  BY <1>1, Invariance, PTL

\* Every offset below a pod's own was in use by a pod sharing a target.
THEOREM SmallestOffsets == Spec => []NoGap
<1>1. IInv => NoGap
  BY DEF IInv
<1>2. QED
  BY <1>1, Invariance, PTL

-----------------------------------------------------------------------------
(* The loops end *)

\* The pods the loop has passed are coloured if they are to be, and each took
\* an iteration.
PassedColoured ==
  /\ \A i \in 1..(pos - 1) : PodOrder[i] \in assigned <=> Coloured(PodOrder[i])
  /\ Cardinality(assigned) <= pos - 1

\* What is left of the loops: the candidates of the pods to come, of which
\* there are never more than pods, and the rest of those of the current one.
CandidatesLeft == (Len(PodOrder) + 1 - pos) * (Len(PodOrder) + 1) - cand

LEMMA InitPassed == Init => PassedColoured
<1>1. SUFFICES ASSUME Init PROVE PassedColoured
  OBVIOUS
<1>2. Cardinality(assigned) = 0
  BY <1>1, FS_EmptySet DEF Init
<1>3. QED
  BY <1>1, <1>2 DEF Init, PassedColoured

LEMMA PassedStep == IInv /\ PassedColoured /\ [Next]_vars => PassedColoured'
<1>1. SUFFICES ASSUME IInv, PassedColoured, [Next]_vars PROVE PassedColoured'
  OBVIOUS
<1>2. /\ TypeOK /\ IsFiniteSet(assigned) /\ Cardinality(assigned) \in Nat
      /\ Len(PodOrder) \in Nat /\ pos \in Nat
  BY <1>1, FS_CardinalityType, PortAssumption DEF IInv, UseBounded, TypeOK
<1>3. ASSUME ~Done, pos' = pos + 1, ready' = ready PROVE \A i \in 1..(pos' - 1) :
        /\ i \in 1..pos /\ (i = pos \/ i \in 1..(pos - 1))
        /\ Coloured(PodOrder[i])' = Coloured(PodOrder[i])
  BY <1>2, <1>3 DEF Coloured, TargetsOf
<1>4. CASE SkipPod
  <2>1. /\ ~Done /\ pos' = pos + 1 /\ UNCHANGED <<ready, assigned>>
        /\ ~Coloured(PodOrder[pos])
    BY <1>4 DEF SkipPod, Advance
  <2>2. PodOrder[pos] \notin assigned
    BY <1>2, <2>1, CurrentPod
  <2>3. QED
    BY <1>1, <1>2, <1>3, <2>1, <2>2 DEF PassedColoured
<1>5. CASE Assign
  <2> DEFINE p == PodOrder[pos]
  <2>1. /\ ~Done /\ pos' = pos + 1 /\ ready' = ready
        /\ assigned' = assigned \cup {p} /\ Coloured(p)
    BY <1>5 DEF Assign, Advance
  <2>2. p \notin assigned /\ pos \in 1..Len(PodOrder)
    BY <1>2, <2>1, CurrentPod
  <2>3. \A i \in 1..(pos - 1) : PodOrder[i] # p
    BY <1>2, <2>2, PortAssumption
  <2>4. Cardinality(assigned') = Cardinality(assigned) + 1
    BY <1>2, <2>1, <2>2, FS_AddElement
  <2>5. \A i \in 1..(pos' - 1) : PodOrder[i] \in assigned' <=> Coloured(PodOrder[i])'
    BY <1>1, <1>3, <2>1, <2>3 DEF PassedColoured
  <2>6. QED
    BY <1>1, <1>2, <2>1, <2>4, <2>5 DEF PassedColoured
<1>6. CASE TryNext \/ UNCHANGED vars
  BY <1>1, <1>6 DEF TryNext, vars, PassedColoured, Coloured, TargetsOf
<1>7. QED
  BY <1>1, <1>4, <1>5, <1>6 DEF Next

\* A candidate is a pod's number at most.
LEMMA CandidateBound ==
  ASSUME IInv, PassedColoured
  PROVE  /\ Len(PodOrder) \in Nat /\ pos \in 1..(Len(PodOrder) + 1) /\ cand \in Nat
         /\ cand <= pos - 1 /\ (Done => cand = 0) /\ CandidatesLeft \in Nat
<1>1. Len(PodOrder) \in Nat /\ pos \in 1..(Len(PodOrder) + 1) /\ cand \in Nat
  BY PortAssumption DEF IInv, TypeOK
<1>2. cand <= pos - 1
  <2>1. Cardinality(assigned) \in Nat
    BY FS_CardinalityType DEF IInv, UseBounded
  <2>2. QED
    BY <1>1, <2>1 DEF IInv, UseBounded, PassedColoured
<1>3. Done => cand = 0
  BY <1>1 DEF IInv, CandidatesTaken
<1>4. CandidatesLeft \in Nat
  <2>1. CASE Done
    <3>1. Len(PodOrder) + 1 - pos = 0
      BY <1>1, <2>1 DEF Done
    <3>2. QED
      BY <1>1, <1>3, <2>1, <3>1 DEF CandidatesLeft
  <2>2. CASE ~Done
    <3> DEFINE k == Len(PodOrder) + 1 - pos
               n == Len(PodOrder) + 1
    <3>1. k \in Nat /\ k >= 1 /\ n \in Nat /\ cand <= n
      BY <1>1, <1>2, <2>2 DEF Done
    <3>2. CandidatesLeft = k * n - cand
      BY DEF CandidatesLeft
    <3> HIDE DEF k, n
    <3>3. k * n \in Nat /\ k * n >= n
      BY <3>1
    <3>4. QED
      BY <1>1, <3>1, <3>2, <3>3
  <2>3. QED
    BY <2>1, <2>2
<1>5. QED
  BY <1>1, <1>2, <1>3, <1>4

LEMMA CandidatesShrink ==
  ASSUME IInv, PassedColoured, Next PROVE CandidatesLeft' < CandidatesLeft
<1> DEFINE k == Len(PodOrder) + 1 - pos
           n == Len(PodOrder) + 1
<1>1. ~Done
  BY DEF Next, SkipPod, TryNext, Assign
<1>2. k \in Nat /\ k >= 1 /\ n \in Nat /\ cand \in Nat /\ cand < n /\ pos \in Nat
  BY <1>1, CandidateBound DEF Done
<1>3. CandidatesLeft = k * n - cand /\ k * n \in Nat
  BY <1>2 DEF CandidatesLeft
<1>4. CASE TryNext
  <2>1. CandidatesLeft' = k * n - (cand + 1)
    BY <1>4 DEF TryNext, NextCandidate, CandidatesLeft
  <2> HIDE DEF k, n
  <2>2. QED
    BY <1>2, <1>3, <2>1
<1>5. CASE SkipPod \/ Assign
  <2>1. pos' = pos + 1 /\ (cand' = cand \/ cand' = 0)
    BY <1>5 DEF SkipPod, Assign, Advance, ResetCandidate
  <2>2. Len(PodOrder) + 1 - pos' = k - 1
    BY <1>2, <2>1, PortAssumption
  <2>3. CandidatesLeft' = (k - 1) * n - cand'
    BY <2>2 DEF CandidatesLeft
  <2> HIDE DEF k, n
  <2>4. (k - 1) * n = k * n - n
    BY <1>2
  <2>5. QED
    BY <1>2, <1>3, <2>1, <2>3, <2>4
<1>6. QED
  BY <1>4, <1>5 DEF Next

LEMMA PassedInvariance == Spec => []PassedColoured
<1>1. IInv /\ PassedColoured /\ [Next]_vars => IInv' /\ PassedColoured'
  BY InductiveStep, PassedStep
<1>2. QED
  BY <1>1, InitIInv, InitPassed, PTL DEF Spec

\* When the loops are through, the pods with an offset are exactly the source
\* pods the Endpoints listed: no pod is passed over, none is coloured besides.
THEOREM AllColoured == Spec => [](Done => assigned = {p \in Pods : Coloured(p)})
<1>1. IInv /\ PassedColoured => (Done => assigned = {p \in Pods : Coloured(p)})
  <2>1. SUFFICES ASSUME IInv, PassedColoured, Done PROVE assigned = {p \in Pods : Coloured(p)}
    OBVIOUS
  <2>2. pos - 1 = Len(PodOrder) /\ Len(PodOrder) \in Nat
    BY <2>1, PortAssumption DEF IInv, TypeOK, Done
  <2>3. \A p \in Pods : p \in assigned <=> Coloured(p)
    BY <2>1, <2>2, PortAssumption DEF PassedColoured
  <2>4. assigned \subseteq Pods
    <3>1. \A i \in 1..Len(PodOrder) : PodOrder[i] \in Pods
      BY PortAssumption
    <3>2. assigned \subseteq {PodOrder[i] : i \in 1..Len(PodOrder)}
      BY <2>1, <2>2 DEF IInv, TypeOK
    <3>3. QED
      BY <3>1, <3>2
  <2>5. QED
    BY <2>3, <2>4
<1>2. QED
  BY <1>1, Invariance, PassedInvariance, PTL

\* The colouring comes to an end for every graph and every number of pods: each
\* iteration of either loop takes one of the candidates that are left, and
\* these are a natural number.
THEOREM ColouringEnds ==
  Spec => [](CandidatesLeft \in Nat) /\ [][CandidatesLeft' < CandidatesLeft]_vars
<1>1. IInv /\ PassedColoured => CandidatesLeft \in Nat
  BY CandidateBound
<1>2. IInv /\ PassedColoured /\ [Next]_vars => [CandidatesLeft' < CandidatesLeft]_vars
  BY CandidatesShrink
<1>3. QED
  BY <1>1, <1>2, Invariance, PassedInvariance, PTL DEF Spec

-----------------------------------------------------------------------------
(* Phase 2 and the worker pods *)

\* All other steps leave the colouring alone: what Spec gives, SSpec gives.
LEMMA SessionsColour == SSpec => Spec
<1>1. SInit => Init
  BY DEF SInit
<1>2. [SNext]_svars => [Next]_vars
  BY DEF SNext, svars, Resolve, PatchRole, StartClients, ReplacePod
<1>3. QED
  BY <1>1, <1>2, PTL DEF SSpec, Spec

\* The largest of a bounded set of numbers.
LEMMA MaxIs ==
  ASSUME NEW S \in SUBSET Nat, S # {}, NEW n \in Nat, \A o \in S : o < n
  PROVE  Max(S) \in S /\ \A o \in S : o <= Max(S)
<1> DEFINE U == {u \in Nat : \A o \in S : o <= u}
<1>1. U \in SUBSET Nat /\ n \in U
  OBVIOUS
<1>2. PICK u \in U : \A v \in U : ~(v < u)
  <2> HIDE DEF U
  <2>1. QED
    BY <1>1, LeastNumber
<1>3. u \in S
  <2>1. SUFFICES ASSUME u \notin S PROVE FALSE
    OBVIOUS
  <2>2. \A o \in S : o < u
    BY <1>2, <2>1
  <2>3. u # 0
    <3>1. PICK o \in S : o \in Nat
      OBVIOUS
    <3>2. o < u
      BY <2>2
    <3>3. QED
      BY <3>1, <3>2
  <2>4. u - 1 \in U
    BY <1>2, <2>2, <2>3
  <2>5. QED
    BY <1>2, <2>4
<1>4. \E x \in S : \A y \in S : x >= y
  BY <1>2, <1>3
<1>5. Max(S) \in S /\ \A y \in S : Max(S) >= y
  BY <1>4 DEF Max
<1>6. QED
  BY <1>5

LEMMA PodsFinite == IsFiniteSet(Pods)
<1>1. Len(PodOrder) \in Nat /\ PodOrder \in [1..Len(PodOrder) -> Pods]
  BY PortAssumption
<1>2. PodOrder \in Surjection(1..Len(PodOrder), Pods)
  BY <1>1, PortAssumption DEF Surjection
<1>3. IsFiniteSet(1..Len(PodOrder))
  <2>1. 1 \in Int /\ Len(PodOrder) \in Int
    BY <1>1
  <2>2. QED
    BY <2>1, FS_Interval
<1>4. QED
  BY <1>2, <1>3, FS_Surjection DEF ExistsSurjection

\* A role that some pod connects to has a fan-in.
LEMMA FaninPositive ==
  ASSUME NEW p \in Pods, NEW r \in Targets[RoleOf[p]]
  PROVE  Fanin(r) > 0
<1> DEFINE In == {j \in DOMAIN Edges : Edges[j][2] = r}
           Counts == [i \in In |-> CountOf(Edges[i][1])]
<1>1. IsFiniteSet(In)
  <2>1. DOMAIN Edges = 1..Len(Edges) /\ Len(Edges) \in Nat
    BY SessionAssumption
  <2>2. IsFiniteSet(DOMAIN Edges)
    BY <2>1, FS_Interval
  <2>3. QED
    BY <2>2, FS_Subset
<1>2. \A s : IsFiniteSet({q \in Pods : RoleOf[q] = s}) /\ CountOf(s) \in Nat
  BY PodsFinite, FS_Subset, FS_CardinalityType DEF CountOf
<1>3. CountOf(RoleOf[p]) > 0
  <2>1. {q \in Pods : RoleOf[q] = RoleOf[p]} # {}
    OBVIOUS
  <2>2. Cardinality({q \in Pods : RoleOf[q] = RoleOf[p]}) # 0
    BY <1>2, <2>1, FS_EmptySet
  <2>3. QED
    BY <1>2, <2>2 DEF CountOf
<1>4. PICK i \in In : Edges[i][1] = RoleOf[p]
  <2>1. RoleOf[p] \in Roles
    BY PortAssumption
  <2>2. Targets[RoleOf[p]] =
          {Edges[i][2] : i \in {j \in DOMAIN Edges : Edges[j][1] = RoleOf[p]}}
    BY <2>1, SessionAssumption
  <2>3. PICK i \in {j \in DOMAIN Edges : Edges[j][1] = RoleOf[p]} : r = Edges[i][2]
    BY <2>2
  <2>4. QED
    BY <2>3
<1>5. Fanin(r) = SumFunctionOnSet(Counts, In)
  BY DEF Fanin, SumFunction
<1>6. /\ \A j \in In : Counts[j] \in Nat
      /\ Counts[i] = CountOf(RoleOf[p])
  BY <1>2, <1>4
<1> HIDE DEF In, Counts
<1>7. SumFunctionOnSet(Counts, In) \in Nat /\ Counts[i] <= SumFunctionOnSet(Counts, In)
  BY <1>1, <1>6, SumNat
<1>8. QED
  BY <1>2, <1>3, <1>5, <1>6, <1>7

-----------------------------------------------------------------------------
\* A ConfigMap has the estimate of Phase 1 or the count of Phase 2, and a
\* role without offsets in use keeps the estimate unless its peers are patched.
CountAt(r) ==
  /\ count[r] = Fanin(r) \/ (Done /\ count[r] = ServerCount(r))
  /\ used[r] = {} /\ r \notin patched => count[r] = Fanin(r)

CountsInv ==
  /\ DOMAIN count = Roles /\ clients \subseteq Pods
  /\ turn \in Nat \ {0} /\ (~Done => turn = 1)
  /\ \A r \in Roles : CountAt(r)

\* Phase 2 got the counts through to the roles it is past.
ThroughInv == \A i \in 1..(turn - 1) : ~Stale(RoleOrder[i])

LEMMA InitCounts == SInit => CountsInv /\ ThroughInv
<1>1. SUFFICES ASSUME SInit PROVE CountsInv /\ ThroughInv
  OBVIOUS
<1>2. \A r \in Roles : CountAt(r)
  BY <1>1 DEF SInit, CountAt
<1>3. QED
  BY <1>1, <1>2 DEF SInit, CountsInv, ThroughInv

\* The current role is a role, and its count is what the patch makes it.
LEMMA PatchFacts ==
  ASSUME CountsInv, PatchRole
  PROVE  /\ turn \in 1..Len(RoleOrder) /\ RoleOrder[turn] \in Roles /\ Done /\ turn' = turn + 1
         /\ DOMAIN count' = Roles
         /\ \A r \in Roles \ {RoleOrder[turn]} : count'[r] = count[r]
         /\ \/ count' = count /\ patched' = patched
            \/ /\ count'[RoleOrder[turn]] = ServerCount(RoleOrder[turn])
               /\ patched \subseteq patched'
               /\ RoleOrder[turn] \in patched' \/ ServerCount(RoleOrder[turn]) # 0
<1>1. /\ turn \in 1..Len(RoleOrder) /\ RoleOrder[turn] \in Roles /\ Done /\ turn' = turn + 1
  BY SessionAssumption DEF PatchRole, CountsInv, Phase2Done
<1>2. \/ count' = count /\ patched' = patched
      \/ /\ count' = [count EXCEPT ![RoleOrder[turn]] = ServerCount(RoleOrder[turn])]
         /\ patched' = IF PeersOf(RoleOrder[turn]) # {}
                         THEN patched \cup {RoleOrder[turn]} ELSE patched
         /\ PeersOf(RoleOrder[turn]) # {} \/ NeedsCount(RoleOrder[turn])
  BY DEF PatchRole
<1>3. QED
  BY <1>1, <1>2 DEF CountsInv, NeedsCount

LEMMA CountsStep == CountsInv /\ [SNext]_svars => CountsInv'
<1>1. SUFFICES ASSUME CountsInv, [SNext]_svars PROVE CountsInv'
  OBVIOUS
<1>2. CASE Resolve
  <2>1. ~Done /\ UNCHANGED <<turn, count, patched, clients>>
    BY <1>2 DEF Resolve, Next, SkipPod, TryNext, Assign
  <2>2. \A r \in Roles : CountAt(r)'
    BY <1>1, <2>1 DEF CountsInv, CountAt, Fanin, CountOf
  <2>3. QED
    BY <1>1, <2>1, <2>2 DEF CountsInv
<1>3. CASE PatchRole
  <2>1. UNCHANGED <<vars, clients>>
    BY <1>3 DEF PatchRole
  <2>2. \A r \in Roles : ServerCount(r)' = ServerCount(r) /\ Fanin(r)' = Fanin(r)
    BY <2>1 DEF vars, ServerCount, Fanin
  <2>3. \A r \in Roles : ServerCount(r) # 0 => used[r] # {}
    BY DEF ServerCount
  <2>4. used' = used /\ Done'
    BY <1>1, <1>3, <2>1, PatchFacts DEF vars, Done
  <2>5. ASSUME NEW r \in Roles PROVE CountAt(r)'
    <3>1. CASE count'[r] = count[r] /\ (r \in patched => r \in patched')
      BY <1>1, <1>3, <2>2, <2>4, <3>1, PatchFacts DEF CountsInv, CountAt
    <3>2. CASE r = RoleOrder[turn] /\ count'[r] = ServerCount(r)
               /\ (r \in patched' \/ ServerCount(r) # 0)
      BY <2>2, <2>3, <2>4, <3>2 DEF CountAt
    <3>3. QED
      BY <1>1, <1>3, <3>1, <3>2, PatchFacts
  <2>6. QED
    BY <1>1, <1>3, <2>1, <2>4, <2>5, PatchFacts DEF CountsInv
<1>4. CASE \E p \in Pods : StartClients(p) \/ ReplacePod(p)
  <2>1. UNCHANGED <<vars, turn, count, patched>> /\ clients' \subseteq Pods
    BY <1>1, <1>4 DEF StartClients, ReplacePod, CountsInv
  <2>2. \A r \in Roles : CountAt(r)'
    BY <1>1, <2>1 DEF CountsInv, CountAt, vars, Done, ServerCount, Fanin
  <2>3. QED
    BY <1>1, <2>1, <2>2 DEF CountsInv, vars, Done
<1>5. CASE UNCHANGED svars
  <2>1. UNCHANGED <<vars, turn, count, patched, clients>>
    BY <1>5 DEF svars
  <2>2. \A r \in Roles : CountAt(r)'
    BY <1>1, <2>1 DEF CountsInv, CountAt, vars, Done, ServerCount, Fanin
  <2>3. QED
    BY <1>1, <2>1, <2>2 DEF CountsInv, vars, Done
<1>6. QED
  BY <1>1, <1>2, <1>3, <1>4, <1>5 DEF SNext

LEMMA ThroughStep ==
  ASSUME ~PatchMayFail, CountsInv, ThroughInv, [SNext]_svars
  PROVE  ThroughInv'
<1>1. CASE Resolve
  <2>1. ~Done /\ turn' = turn
    BY <1>1 DEF Resolve, Next, SkipPod, TryNext, Assign
  <2>2. 1..(turn' - 1) = {}
    BY <2>1 DEF CountsInv
  <2>3. QED
    BY <2>2 DEF ThroughInv
<1>2. CASE PatchRole
  <2>1. \A r : ServerCount(r)' = ServerCount(r) /\ NeedsCount(r)' = NeedsCount(r)
    BY <1>2 DEF PatchRole, vars, ServerCount, NeedsCount, Fanin
  <2>2. NeedsCount(RoleOrder[turn]) => count'[RoleOrder[turn]] = ServerCount(RoleOrder[turn])
    <3>1. turn \in 1..Len(RoleOrder) /\ RoleOrder[turn] \in DOMAIN count
      BY <1>2, PatchFacts DEF CountsInv
    <3>2. QED
      BY <1>2, <3>1 DEF PatchRole
  <2>3. ASSUME NEW i \in 1..(turn' - 1) PROVE ~Stale(RoleOrder[i])'
    <3>1. RoleOrder[i] \in Roles /\ (i # turn => i \in 1..(turn - 1))
      BY <1>2, PatchFacts, SessionAssumption
    <3>2. CASE RoleOrder[i] = RoleOrder[turn]
      BY <2>1, <2>2, <3>2 DEF Stale
    <3>3. CASE RoleOrder[i] # RoleOrder[turn]
      BY <1>2, <2>1, <3>1, <3>3, PatchFacts DEF Stale, ThroughInv
    <3>4. QED
      BY <3>2, <3>3
  <2>4. QED
    BY <2>3 DEF ThroughInv
<1>3. CASE UNCHANGED <<vars, turn, count>>
  BY <1>3 DEF ThroughInv, Stale, NeedsCount, ServerCount, Fanin, vars
<1>4. QED
  BY <1>1, <1>2, <1>3 DEF SNext, StartClients, ReplacePod, svars

-----------------------------------------------------------------------------
\* A port below the count: the count covers every offset in use at the role,
\* and where none is in use all clients are on the first port.
LEMMA ServerThere ==
  ASSUME IInv, CountsInv, NEW p \in Pods, NEW q \in Reaches(p),
         ~Stale(RoleOf[q]), ~EstimateLost(RoleOf[q])
  PROVE  Port(p) < PoolSize(RoleOf[q])
<1> DEFINE r == RoleOf[q]
<1>1. r \in Targets[RoleOf[p]] /\ r \in Roles
  BY PortAssumption DEF Reaches, PeersOf
<1>2. TypeOK /\ UsedIsAssigned /\ UseBounded
  BY DEF IInv
<1>3. p \in assigned => offset[p] \in used[r]
  BY <1>1, <1>2 DEF UsedIsAssigned, TargetsOf
<1>4. CountAt(r)
  BY <1>1 DEF CountsInv
<1>5. CASE used[r] # {}
  <2>1. Max(used[r]) \in used[r] /\ \A o \in used[r] : o <= Max(used[r])
    <3>1. /\ used[r] \in SUBSET Nat /\ Cardinality(assigned) \in Nat
          /\ \A o \in used[r] : o < Cardinality(assigned)
      BY <1>1, <1>2, FS_CardinalityType DEF TypeOK, UseBounded
    <3> HIDE DEF r
    <3>2. QED
      BY <1>5, <3>1, MaxIs
  <2>2. Max(used[r]) \in Nat /\ ServerCount(r) = Max(used[r]) + 1
    BY <1>1, <1>2, <1>5, <2>1 DEF ServerCount, TypeOK
  <2>3. count[r] = ServerCount(r)
    BY <1>4, <2>2 DEF CountAt, Stale, NeedsCount
  <2>4. Port(p) \in Nat /\ Port(p) <= Max(used[r])
    BY <1>2, <1>3, <2>1, <2>2 DEF Port, TypeOK
  <2>5. QED
    BY <2>2, <2>3, <2>4 DEF PoolSize
<1>6. CASE used[r] = {}
  <2>1. Port(p) = 0
    BY <1>3, <1>6 DEF Port
  <2>2. CASE r \in patched
    BY <1>6, <2>1, <2>2, SessionAssumption DEF EstimateLost, PoolSize
  <2>3. CASE r \notin patched
    <3>1. count[r] = Fanin(r)
      BY <1>4, <1>6, <2>3 DEF CountAt
    <3>2. Fanin(r) > 0
      BY <1>1, FaninPositive
    <3>3. QED
      BY <2>1, <3>1, <3>2 DEF PoolSize
  <2>4. QED
    BY <2>2, <2>3
<1>7. QED
  BY <1>5, <1>6

\* A client finds a server on its port at every pod it reaches, unless the
\* patch of the server count has not come through or the estimate was lost:
\* the counts derived from the colouring cover every offset a client can use,
\* the default 0 of replaced and late pods included.
THEOREM ServersForClients == SSpec => []EveryClientHasServer
<1>1. SInit => CountsInv
  BY InitCounts
<1>2. CountsInv /\ [SNext]_svars => CountsInv'
  BY CountsStep
<1>3. IInv /\ CountsInv => EveryClientHasServer
  BY ServerThere DEF EveryClientHasServer, CountsInv
<1>4. QED
  BY <1>1, <1>2, <1>3, SessionsColour, Invariance, PTL DEF SSpec

\* Where no patch fails, Phase 2 leaves no role with a stale server count: it
\* skips a role only if the estimate of Phase 1 already is its count.
THEOREM CountsGetThrough ==
  ASSUME ~PatchMayFail
  PROVE  SSpec => [](Phase2Done => \A r \in Roles : ~Stale(r))
<1>1. SInit => CountsInv /\ ThroughInv
  BY InitCounts
<1>2. CountsInv /\ ThroughInv /\ [SNext]_svars => CountsInv' /\ ThroughInv'
  BY CountsStep, ThroughStep
<1>3. CountsInv /\ ThroughInv => (Phase2Done => \A r \in Roles : ~Stale(r))
  <2>1. SUFFICES ASSUME CountsInv, ThroughInv, Phase2Done, NEW r \in Roles
                 PROVE  ~Stale(r)
    OBVIOUS
  <2>2. PICK i \in DOMAIN RoleOrder : RoleOrder[i] = r
    BY SessionAssumption
  <2>3. i \in 1..(turn - 1)
    BY <2>1, SessionAssumption DEF Phase2Done, CountsInv
  <2>4. QED
    BY <2>1, <2>2, <2>3 DEF ThroughInv
<1>4. QED
  BY <1>1, <1>2, <1>3, PTL DEF SSpec
=============================================================================
