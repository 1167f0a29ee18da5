------------------------- MODULE PeerClientsProofs -------------------------
(***************************************************************************)
(* What holds of a worker pod's outbound links for any set of peers, any   *)
(* number of supervisor threads and however long clients hang.  The order  *)
(* of stop_current (signal, kill, join, kill again, forget) is what the    *)
(* invariant follows: each of its parts is what one of those steps adds.   *)
(***************************************************************************)
EXTENDS PeerClients, TLAPS

\* What start_network is given is the peer set of a config.
TInv ==
  /\ TypeOK
  /\ \A r \in Reloaders : pc[r] \in {"signal", "kill", "join", "forget", "clear"} =>
       payload[r] \in PeerSets \cup {Zero}
  /\ \A r \in Reloaders : pc[r] \in {"start", "publish"} => payload[r] \in PeerSets

-----------------------------------------------------------------------------
(* Types *)

LEMMA InitTInv == Init => TInv
<1>1. SupOff \in SupState /\ SupOff.child = "none" /\ SupOff.st = "off"
  BY DEF SupOff, SupState
<1>2. SUFFICES ASSUME Init PROVE TInv
  OBVIOUS
<1>3. disk \in Configs /\ (disk # Bad => disk \in PeerSets \cup {Zero})
  BY <1>2 DEF Init, Configs
<1>4. TypeOK
  BY <1>1, <1>2, <1>3 DEF Init, TypeOK, PCs, Outside
<1>5. QED
  BY <1>2, <1>4 DEF Init, TInv

\* A step of the pod's clients or of a supervisor: it changes that supervisor
\* only, which keeps its peer and its stop event until it exits; it exits only
\* when told to stop, and then spawns no more.
LEMMA SupervisorFrame ==
  ASSUME TypeOK, NEW s \in Sups,
         Supervise(s) \/ ClientExits(s) \/ ClientHangs(s) \/ ClientRecovers(s)
  PROVE  /\ UNCHANGED <<watching, reloads, listed, poolUp, applied>>
         /\ \A t \in Sups \ {s} : sup'[t] = sup[t] /\ (t \in children' <=> t \in children)
         /\ sup' \in [Sups -> SupState] /\ children' \in SUBSET Sups
         /\ hangs' \in Nat
         /\ sup'[s].child = "none" <=> sup'[s].st \in {"off", "check", "backoff"}
         /\ sup[s].st # "off"
         /\ \/ sup[s].stop /\ sup'[s] = SupOff
            \/ /\ sup'[s].st # "off" /\ sup'[s].peer = sup[s].peer
               /\ sup'[s].stop = sup[s].stop
         /\ sup'[s].st = "spawned" => ~sup[s].stop \/ sup[s].st = "spawned"
         /\ Sending(s)' => ~sup[s].stop \/ Sending(s)
         /\ sup'[s].st \in {"reading", "ended"} =>
              s \in children' \/ (sup[s].st \in {"reading", "ended"} /\ s \notin children)
<1> USE DEF watching, reloads, Sending
<1>1. /\ sup \in [Sups -> SupState] /\ children \in SUBSET Sups /\ hangs \in Nat
      /\ sup[s].child = "none" <=> sup[s].st \in {"off", "check", "backoff"}
      /\ sup[s] \in SupState
      /\ SupOff \in SupState /\ SupOff.child = "none" /\ SupOff.st = "off"
  BY DEF TypeOK, SupOff, SupState
<1>2. CASE Spawn(s)
  <2>1. CASE sup[s].stop
    BY <1>1, <1>2, <2>1 DEF Spawn, Exit
  <2>2. CASE ~sup[s].stop
    BY <1>1, <1>2, <2>2 DEF Spawn, SupState
  <2>3. QED
    BY <2>1, <2>2
<1>3. CASE Register(s)
  BY <1>1, <1>3 DEF Register, SupState
<1>4. CASE ReadLine(s)
  BY <1>1, <1>4 DEF ReadLine, SupState
<1>5. CASE EndOfOutput(s)
  BY <1>1, <1>5 DEF EndOfOutput, SupState
<1>6. CASE Reap(s)
  BY <1>1, <1>6 DEF Reap, SupState
<1>7. CASE Retry(s)
  <2>1. CASE sup[s].stop
    BY <1>1, <1>7, <2>1 DEF Retry, Exit
  <2>2. CASE ~sup[s].stop
    BY <1>1, <1>7, <2>2 DEF Retry, SupState
  <2>3. QED
    BY <2>1, <2>2
<1>8. CASE ClientExits(s)
  BY <1>1, <1>8 DEF ClientExits, SupState
<1>9. CASE ClientHangs(s)
  BY <1>1, <1>9 DEF ClientHangs, SupState
<1>10. CASE ClientRecovers(s)
  BY <1>1, <1>10 DEF ClientRecovers, SupState
<1>11. QED
  BY <1>2, <1>3, <1>4, <1>5, <1>6, <1>7, <1>8, <1>9, <1>10 DEF Supervise

LEMMA AnyOfIs == ASSUME NEW S, NEW e \in AnyOf(S) PROVE e \in S
BY DEF AnyOf

Fresh(p) == [SupOff EXCEPT !.st = "check", !.peer = p]

LEMMA FreshIs ==
  ASSUME NEW p \in Peers
  PROVE  /\ Fresh(p) \in SupState /\ Fresh(p).child = "none" /\ Fresh(p).st = "check"
         /\ Fresh(p).peer = p /\ ~Fresh(p).stop
BY DEF Fresh, SupOff, SupState

\* start_network gives every peer a supervisor of its own, on threads that are
\* free and not listed.
LEMMA StartFrame ==
  ASSUME TInv, NEW r \in Reloaders, StartNetwork(r), poolUp'
  PROVE  \E f \in [payload[r] -> Sups] :
           /\ \A p, q \in payload[r] : f[p] = f[q] => p = q
           /\ \A p \in payload[r] : sup[f[p]].st = "off" /\ f[p] \notin listed
           /\ listed' = listed \cup {f[p] : p \in payload[r]}
           /\ \A p \in payload[r] : sup'[f[p]] = Fresh(p)
           /\ \A s \in Sups : (\A p \in payload[r] : f[p] # s) => sup'[s] = sup[s]
           /\ sup' = [s \in Sups |-> sup'[s]]
<1>1. PICK f \in SupervisorsFor(payload[r]) :
         /\ listed' = listed \cup Range(f)
         /\ sup' = [s \in Sups |->
              IF s \in Range(f)
                THEN [SupOff EXCEPT !.st = "check", !.peer = AntiFunction(f)[s]]
                ELSE sup[s]]
  BY DEF StartNetwork
<1>2. /\ f \in [payload[r] -> {s \in Sups : sup[s].st = "off" /\ s \notin listed}]
      /\ \A p, q \in payload[r] : f[p] = f[q] => p = q
  <2>1. f \in Injection(payload[r], {s \in Sups : sup[s].st = "off" /\ s \notin listed})
    BY <1>1, AnyOfIs DEF SupervisorsFor
  <2>2. QED
    BY <2>1 DEF Injection, IsInjective
<1>3. Range(f) = {f[p] : p \in payload[r]}
  BY <1>2 DEF Range
<1>4. \A p \in payload[r] : AntiFunction(f)[f[p]] = p
  BY <1>2, <1>3 DEF AntiFunction, Inverse
<1>5. \A p \in payload[r] : f[p] \in Range(f) /\ f[p] \in Sups
  BY <1>2, <1>3
<1>6. \A p \in payload[r] : sup'[f[p]] = Fresh(p)
  BY <1>1, <1>4, <1>5 DEF Fresh
<1>7. \A s \in Sups : (\A p \in payload[r] : f[p] # s) => sup'[s] = sup[s]
  BY <1>1, <1>3
<1>8. sup' = [s \in Sups |-> sup'[s]]
  BY <1>1
<1>9. f \in [payload[r] -> Sups] /\ \A p \in payload[r] : sup[f[p]].st = "off" /\ f[p] \notin listed
  BY <1>2
<1> USE <1>9
<1> WITNESS f \in [payload[r] -> Sups]
<1>10. QED
  BY <1>1, <1>2, <1>3, <1>6, <1>7, <1>8, <1>9

\* configure() keeps the types, step by step.
LEMMA ConfigureType ==
  ASSUME TInv, NEW r \in Reloaders, Configure(r) PROVE TInv'
<1> USE DEF Goto, watching, reloads, links
<1>1. /\ pc \in [Reloaders -> PCs] /\ payload \in [Reloaders -> Configs \cup {None}]
      /\ toJoin \in [Reloaders -> SUBSET Sups] /\ sup \in [Sups -> SupState]
      /\ listed \in SUBSET Sups /\ children \in SUBSET Sups
      /\ \A s \in Sups : sup[s].child = "none" <=> sup[s].st \in {"off", "check", "backoff"}
  BY DEF TInv, TypeOK
<1>2. CASE SignalStop(r)
  <2>1. \A s \in Sups : sup'[s] \in {sup[s], [sup[s] EXCEPT !.stop = TRUE]}
    BY <1>2 DEF SignalStop
  <2>2. \A s \in Sups : /\ sup'[s] \in SupState
                        /\ sup'[s].st = sup[s].st /\ sup'[s].child = sup[s].child
    <3>1. SUFFICES ASSUME NEW s \in Sups
                   PROVE  /\ sup'[s] \in SupState
                          /\ sup'[s].st = sup[s].st /\ sup'[s].child = sup[s].child
      OBVIOUS
    <3>2. sup[s] \in SupState
      BY <1>1
    <3>3. [sup[s] EXCEPT !.stop = TRUE] \in SupState
      BY <3>2 DEF SupState
    <3>4. /\ [sup[s] EXCEPT !.stop = TRUE].st = sup[s].st
          /\ [sup[s] EXCEPT !.stop = TRUE].child = sup[s].child
      BY <3>2 DEF SupState
    <3>5. QED
      BY <2>1, <3>2, <3>3, <3>4
  <2>3. sup' \in [Sups -> SupState]
    BY <1>2, <2>2 DEF SignalStop
  <2>4. QED
    BY <1>1, <1>2, <2>2, <2>3 DEF SignalStop, TInv, TypeOK, PCs, Outside
<1>3. ASSUME sup' = Killed(children)
      PROVE  /\ sup' \in [Sups -> SupState]
             /\ \A s \in Sups : sup'[s].child = "none" <=>
                                  sup'[s].st \in {"off", "check", "backoff"}
  <2>1. \A s \in Sups : /\ sup'[s] \in SupState /\ sup'[s].st = sup[s].st
                        /\ sup'[s].child = "none" <=> sup[s].child = "none"
    BY <1>1, <1>3 DEF Killed, SupState
  <2>2. QED
    BY <1>1, <1>3, <2>1 DEF Killed
<1>4. CASE KillChildren(r)
  BY <1>1, <1>3, <1>4 DEF KillChildren, TInv, TypeOK, PCs, Outside
<1>5. CASE JoinSupervisor(r)
  BY <1>1, <1>5 DEF JoinSupervisor, TInv, TypeOK
<1>6. CASE KillAgain(r)
  BY <1>1, <1>3, <1>6 DEF KillAgain, TInv, TypeOK, PCs, Outside
<1>7. CASE Forget(r)
  BY <1>1, <1>7 DEF Forget, TInv, TypeOK, PCs, Outside
<1>8. CASE ClearState(r)
  BY <1>1, <1>8, ConfigAssumption DEF ClearState, TInv, TypeOK, PCs, Outside, Configs
<1>9. CASE StartNetwork(r)
  <2>1. pc[r] = "start" /\ payload[r] \in PeerSets /\ payload[r] \subseteq Peers
    BY <1>9, ConfigAssumption DEF StartNetwork, TInv
  <2>2. /\ sup' \in [Sups -> SupState] /\ listed' \in SUBSET Sups
        /\ \A s \in Sups : sup'[s].child = "none" <=>
                             sup'[s].st \in {"off", "check", "backoff"}
    <3>1. CASE poolUp'
      <4>1. PICK f \in [payload[r] -> Sups] :
              /\ listed' = listed \cup {f[p] : p \in payload[r]}
              /\ \A p \in payload[r] : sup'[f[p]] = Fresh(p)
              /\ \A s \in Sups : (\A p \in payload[r] : f[p] # s) => sup'[s] = sup[s]
              /\ sup' = [s \in Sups |-> sup'[s]]
        BY <1>9, <3>1, StartFrame
      <4>2. ASSUME NEW s \in Sups
            PROVE  /\ sup'[s] \in SupState
                   /\ sup'[s].child = "none" <=> sup'[s].st \in {"off", "check", "backoff"}
        <5>1. CASE \E p \in payload[r] : f[p] = s
          BY <2>1, <4>1, <5>1, FreshIs
        <5>2. CASE \A p \in payload[r] : f[p] # s
          BY <1>1, <4>1, <5>2
        <5>3. QED
          BY <5>1, <5>2
      <4>3. sup' \in [Sups -> SupState]
        BY <4>1, <4>2
      <4>4. QED
        BY <1>1, <4>1, <4>2, <4>3
    <3>2. CASE ~poolUp'
      BY <1>1, <1>9, <3>2 DEF StartNetwork
    <3>3. QED
      BY <3>1, <3>2
  <2>3. QED
    BY <1>1, <1>9, <2>1, <2>2 DEF StartNetwork, TInv, TypeOK, PCs, Outside
<1>10. CASE Publish(r)
  BY <1>1, <1>10, ConfigAssumption DEF Publish, TInv, TypeOK, PCs, Outside, Configs
<1>11. QED
  BY <1>2, <1>4, <1>5, <1>6, <1>7, <1>8, <1>9, <1>10 DEF Configure

\* An event may cancel a timer and arms another, outside configure().
LEMMA EventFrame ==
  ASSUME TypeOK, OnAnyEvent
  PROVE  /\ events' \in Nat /\ timer' \in Reloaders
         /\ pc' \in [Reloaders -> PCs]
         /\ \A r \in Reloaders :
              pc'[r] = pc[r] \/ (pc[r] \in Outside /\ pc'[r] \in Outside)
<1>1. pc \in [Reloaders -> PCs] /\ events \in Nat
  BY DEF TypeOK
<1>2. PICK r \in AnyOf({q \in Reloaders \ {Main} : Cancelled[q] = "idle"}) :
        pc' = [Cancelled EXCEPT ![r] = "armed"] /\ timer' = r
  BY DEF OnAnyEvent, MaybeReload
<1>3. r \in Reloaders /\ Cancelled[r] = "idle"
  BY <1>2, AnyOfIs
<1>4. \A q \in Reloaders : Cancelled[q] = pc[q] \/ (pc[q] = "armed" /\ Cancelled[q] = "idle")
  BY DEF Cancelled
<1>5. Cancelled \in [Reloaders -> PCs]
  BY <1>1 DEF Cancelled, PCs, Outside
<1>6. pc[r] \in Outside
  BY <1>3, <1>4 DEF Outside
<1>7. events' \in Nat
  BY <1>1 DEF OnAnyEvent
<1>8. pc' \in [Reloaders -> PCs] /\ pc'[r] = "armed"
      /\ \A q \in Reloaders \ {r} : pc'[q] = Cancelled[q]
  BY <1>2, <1>3, <1>5 DEF PCs, Outside
<1>9. QED
  BY <1>2, <1>3, <1>4, <1>6, <1>7, <1>8 DEF Outside

LEMMA TypeStep == TInv /\ [Next]_vars => TInv'
<1> USE DEF watching, reloads, links
<1>1. SUFFICES ASSUME TInv, [Next]_vars PROVE TInv'
  OBVIOUS
<1>2. ASSUME NEW c \in Configs, WriteNew(c) PROVE TInv'
  BY <1>1, <1>2 DEF WriteNew, Raise, TInv, TypeOK
<1>3. CASE SwapLink \/ RemoveOld
  <2>1. CASE SwapLink
    <3>1. /\ disk' \in Configs /\ incoming' = None /\ stale' = TRUE /\ events' \in Nat
          /\ UNCHANGED <<timer, updates, reloads, links, applied, hangs>>
      BY <1>1, <2>1 DEF SwapLink, Raise, TInv, TypeOK
    <3>2. QED
      BY <1>1, <3>1 DEF TInv, TypeOK
  <2>2. CASE RemoveOld
    <3>1. stale' = FALSE
          /\ UNCHANGED <<disk, incoming, timer, updates, reloads, links, applied, hangs>>
      BY <2>2 DEF RemoveOld
    <3>2. stale' \in BOOLEAN
      BY <3>1
    <3>3. events' \in Nat
      BY <1>1, <2>2 DEF RemoveOld, Raise, TInv, TypeOK
    <3>4. QED
      BY <1>1, <3>1, <3>2, <3>3 DEF TInv, TypeOK
  <2>3. QED
    BY <1>3, <2>1, <2>2
<1>4. CASE OnAnyEvent
  <2>1. /\ UNCHANGED <<disk, incoming, stale, updates, payload, toJoin, links, applied, hangs>>
        /\ events' \in Nat /\ timer' \in Reloaders
        /\ pc' \in [Reloaders -> PCs]
        /\ \A r \in Reloaders : pc'[r] = pc[r] \/ pc'[r] \in Outside
    BY <1>1, <1>4, EventFrame DEF TInv, TypeOK, OnAnyEvent
  <2>2. \A r \in Reloaders : pc'[r] \notin Outside => pc'[r] = pc[r]
    BY <2>1
  <2>3. QED
    BY <1>1, <2>1, <2>2 DEF TInv, TypeOK, Outside
<1>5. ASSUME NEW r \in Reloaders, Reload(r) PROVE TInv'
  <2>1. CASE Fire(r) \/ Unset(r)
    BY <1>1, <2>1 DEF Fire, Unset, Goto, TInv, TypeOK, PCs, Outside
  <2>2. CASE Load(r)
    BY <1>1, <2>2 DEF Load, Goto, TInv, TypeOK, Configs, PCs, Outside
  <2>3. QED
    BY <1>5, <2>1, <2>2 DEF Reload
<1>6. ASSUME NEW s \in Sups,
             Supervise(s) \/ ClientExits(s) \/ ClientHangs(s) \/ ClientRecovers(s)
      PROVE  TInv'
  <2>1. TypeOK'
    BY <1>1, <1>6, SupervisorFrame DEF TInv, TypeOK
  <2>2. QED
    BY <1>1, <1>6, <2>1, SupervisorFrame DEF TInv
<1>7. CASE UNCHANGED vars
  BY <1>1, <1>7 DEF vars, TInv, TypeOK
<1>8. QED
  BY <1>1, <1>2, <1>3, <1>4, <1>5, <1>6, <1>7, ConfigureType DEF Next

\* Every variable keeps its type and every supervisor has a client exactly
\* between spawning and reaping it, even where configure() runs twice at once.
THEOREM TypeCorrect == Spec => []TypeOK
<1>1. TInv => TypeOK
  BY DEF TInv
<1>2. QED
  BY <1>1, InitTInv, TypeStep, PTL DEF Spec

-----------------------------------------------------------------------------
(* One client per peer *)

\* No two threads are inside configure().
Alone == \A r, q \in Reloaders : pc[r] \notin Outside /\ pc[q] \notin Outside => r = q

\* A supervisor that runs no client and will start none.
Harmless(s) == sup[s].stop /\ ~Sending(s) /\ sup[s].st # "spawned"
Gone(s) == sup[s].st = "off" \/ Harmless(s)

\* What the steps of stop_current have established where thread r stands.
Stopping(r) ==
  /\ pc[r] \in {"kill", "join", "forget"} =>
       \A s \in listed : sup[s].st = "off" \/ sup[s].stop
  /\ pc[r] = "kill" => toJoin[r] = listed
  /\ pc[r] = "join" => \A s \in listed \ toJoin[r] : sup[s].st # "spawned"
  /\ pc[r] = "forget" => \A s \in listed : Gone(s)
  /\ pc[r] \in {"clear", "start"} => listed = {}

LinkInv ==
  /\ Alone
  /\ \A r \in Reloaders : Stopping(r)
  /\ \A s \in Sups \ listed : Gone(s)
  /\ \A s, t \in listed :
       sup[s].st # "off" /\ sup[t].st # "off" /\ sup[s].peer = sup[t].peer => s = t
  /\ \A s \in listed : sup[s].st \in {"reading", "ended"} => s \in children

\* What is listed outside stop_current is alive and is what was asked for.
ListedPeers == {sup[s].peer : s \in listed}

MatchInv ==
  /\ (\A r \in Reloaders : pc[r] \notin {"kill", "join", "forget"}) =>
       \A s \in listed : sup[s].st # "off" /\ ~sup[s].stop
  /\ (\A r \in Reloaders : pc[r] \in Outside \cup {"signal"}) =>
       ListedPeers = IF applied = None \/ ~poolUp THEN {} ELSE applied
  /\ \A r \in Reloaders : pc[r] = "publish" =>
       ListedPeers = IF poolUp THEN payload[r] ELSE {}

LEMMA InitLink == Init => LinkInv /\ MatchInv
<1>1. SUFFICES ASSUME Init PROVE LinkInv /\ MatchInv
  OBVIOUS
<1>2. /\ listed = {} /\ applied = None
      /\ \A s \in Sups : sup[s].st = "off"
      /\ \A r \in Reloaders : pc[r] \in Outside
  BY <1>1 DEF Init, SupOff, Outside
<1>3. LinkInv
  BY <1>2 DEF LinkInv, Alone, Stopping, Gone, Outside
<1>4. QED
  BY <1>2, <1>3 DEF MatchInv, ListedPeers, Outside

\* Where no two reloads overlap, every other thread is outside configure().
LEMMA ConfigureAlone ==
  ASSUME TInv, Alone, NEW r \in Reloaders, Configure(r)
  PROVE  /\ pc[r] \notin Outside
         /\ \A q \in Reloaders \ {r} : pc[q] \in Outside /\ pc'[q] = pc[q]
<1>1. pc \in [Reloaders -> PCs]
  BY DEF TInv, TypeOK
<1>2. pc[r] \notin Outside /\ (pc' = pc \/ \E l : pc' = [pc EXCEPT ![r] = l])
  BY DEF Configure, SignalStop, KillChildren, JoinSupervisor, KillAgain, Forget,
         ClearState, StartNetwork, Publish, Goto, Outside
<1>3. QED
  BY <1>1, <1>2 DEF Alone

\* What killing the registered clients changes.
LEMMA KilledFrame ==
  ASSUME TInv, sup' = Killed(children)
  PROVE  \A s \in Sups :
           /\ sup'[s].st = sup[s].st /\ sup'[s].stop = sup[s].stop
           /\ sup'[s].peer = sup[s].peer
           /\ Sending(s)' => Sending(s) /\ s \notin children
<1>1. SUFFICES ASSUME NEW s \in Sups
               PROVE  /\ sup'[s].st = sup[s].st /\ sup'[s].stop = sup[s].stop
                      /\ sup'[s].peer = sup[s].peer
                      /\ Sending(s)' => Sending(s) /\ s \notin children
  OBVIOUS
<1>2. sup[s] \in SupState
  BY DEF TInv, TypeOK
<1>3. sup'[s] = IF s \in children /\ Sending(s) THEN [sup[s] EXCEPT !.child = "dead"]
                                                ELSE sup[s]
  BY DEF Killed, Sending
<1>4. QED
  BY <1>2, <1>3 DEF Sending, SupState

\* stop_current: the order of its steps is what makes each of them count.
LEMMA LinkConfigure ==
  ASSUME TInv, LinkInv, NEW r \in Reloaders, Configure(r)
  PROVE  LinkInv'
<1> USE DEF Goto, watching, reloads, links
<1>1. /\ pc \in [Reloaders -> PCs] /\ toJoin \in [Reloaders -> SUBSET Sups]
      /\ listed \in SUBSET Sups /\ sup \in [Sups -> SupState]
      /\ \A s \in Sups : sup[s].child = "none" <=> sup[s].st \in {"off", "check", "backoff"}
  BY DEF TInv, TypeOK
<1>2. \A q \in Reloaders \ {r} : pc[q] \in Outside /\ pc'[q] \in Outside
  BY ConfigureAlone DEF LinkInv
<1>3. Alone' /\ \A q \in Reloaders \ {r} : Stopping(q)'
  BY <1>2 DEF Alone, Stopping, Outside
<1>4. SUFFICES /\ Stopping(r)'
               /\ \A s \in Sups \ listed' : Gone(s)'
               /\ \A s, t \in listed' :
                    sup'[s].st # "off" /\ sup'[t].st # "off" /\ sup'[s].peer = sup'[t].peer
                      => s = t
               /\ \A s \in listed' : sup'[s].st \in {"reading", "ended"} => s \in children'
  BY <1>3 DEF LinkInv
<1>5. CASE SignalStop(r)
  <2>1. \A s \in Sups : /\ sup'[s].st = sup[s].st /\ sup'[s].peer = sup[s].peer
                        /\ sup'[s].child = sup[s].child
                        /\ s \in listed => sup'[s].stop
                        /\ s \notin listed => sup'[s] = sup[s]
    BY <1>1, <1>5 DEF SignalStop, SupState
  <2>2. pc'[r] = "kill" /\ toJoin'[r] = listed /\ listed' = listed /\ children' = children
    BY <1>1, <1>5 DEF SignalStop
  <2>3. Stopping(r)'
    BY <1>1, <2>1, <2>2 DEF Stopping
  <2>4. QED
    BY <1>1, <2>1, <2>2, <2>3 DEF LinkInv, Stopping, Gone, Harmless, Sending
<1>6. CASE KillChildren(r)
  BY <1>1, <1>6, KilledFrame DEF KillChildren, LinkInv, Stopping, Gone, Harmless
<1>7. CASE JoinSupervisor(r)
  BY <1>1, <1>7 DEF JoinSupervisor, Joined, LinkInv, Stopping, Gone, Harmless, Sending
<1>8. CASE KillAgain(r)
  <2>1. \A s \in Sups : /\ sup'[s].st = sup[s].st /\ sup'[s].stop = sup[s].stop
                        /\ sup'[s].peer = sup[s].peer
                        /\ Sending(s)' => Sending(s) /\ s \notin children
    BY <1>8, KilledFrame DEF KillAgain
  <2>2. pc[r] = "join" /\ toJoin[r] = {} /\ pc'[r] = "forget"
        /\ listed' = listed /\ children' = children
    BY <1>1, <1>8 DEF KillAgain
  <2>3. \A s \in listed : Gone(s)'
    <3>1. SUFFICES ASSUME NEW s \in listed, sup[s].st # "off" PROVE Harmless(s)'
      BY <1>1, <2>1 DEF Gone
    <3>2. sup[s].stop /\ sup[s].st # "spawned"
      BY <2>2, <3>1 DEF LinkInv, Stopping
    <3>3. sup[s].st \in {"reading", "ended"} => ~Sending(s)'
      BY <1>1, <2>1, <3>1 DEF LinkInv
    <3>4. sup[s].st \in {"check", "backoff"} => ~Sending(s)'
      BY <1>1, <2>1, <3>1 DEF Sending
    <3>5. sup[s].st \in {"off", "check", "spawned", "reading", "ended", "backoff"}
      BY <1>1, <3>1 DEF SupState
    <3>6. QED
      BY <1>1, <2>1, <3>1, <3>2, <3>3, <3>4, <3>5 DEF Harmless
  <2>4. QED
    BY <1>1, <2>1, <2>2, <2>3 DEF LinkInv, Stopping, Gone, Harmless
<1>9. CASE Forget(r)
  BY <1>1, <1>9 DEF Forget, LinkInv, Stopping, Gone, Harmless, Sending
<1>10. CASE ClearState(r)
  BY <1>1, <1>10 DEF ClearState, LinkInv, Stopping, Gone, Harmless, Sending
<1>11. CASE StartNetwork(r)
  <2>1. pc'[r] = "publish" /\ listed = {} /\ children' = children
    BY <1>1, <1>11 DEF StartNetwork, LinkInv, Stopping
  <2>2. Stopping(r)'
    BY <2>1 DEF Stopping
  <2>3. CASE poolUp'
    <3>1. PICK f \in [payload[r] -> Sups] :
            /\ \A p \in payload[r] : sup[f[p]].st = "off" /\ f[p] \notin listed
            /\ listed' = listed \cup {f[p] : p \in payload[r]}
            /\ \A p \in payload[r] : sup'[f[p]] = Fresh(p)
            /\ \A s \in Sups : (\A p \in payload[r] : f[p] # s) => sup'[s] = sup[s]
      BY <1>11, <2>3, StartFrame
    <3>2. \A s \in listed' : \E p \in payload[r] : s = f[p]
      BY <2>1, <3>1
    <3>3. payload[r] \subseteq Peers
      BY <1>11, ConfigAssumption DEF StartNetwork, TInv
    <3>4. \A s \in listed' : \E p \in payload[r] :
            s = f[p] /\ sup'[s].st = "check" /\ sup'[s].peer = p
      BY <3>1, <3>2, <3>3, FreshIs
    <3>5. \A s \in Sups \ listed' : Gone(s)'
      <4>1. SUFFICES ASSUME NEW s \in Sups \ listed' PROVE Gone(s)'
        OBVIOUS
      <4>2. sup'[s] = sup[s] /\ s \notin listed
        BY <2>1, <3>1, <4>1
      <4>3. QED
        BY <4>1, <4>2 DEF LinkInv, Gone, Harmless, Sending
    <3>6. QED
      BY <2>2, <3>4, <3>5
  <2>4. CASE ~poolUp'
    BY <1>11, <2>1, <2>2, <2>4 DEF StartNetwork, LinkInv, Gone, Harmless, Sending
  <2>5. QED
    BY <2>3, <2>4
<1>12. CASE Publish(r)
  BY <1>1, <1>12 DEF Publish, LinkInv, Stopping, Gone, Harmless, Sending
<1>13. QED
  BY <1>5, <1>6, <1>7, <1>8, <1>9, <1>10, <1>11, <1>12 DEF Configure

\* A supervisor that has been told to stop can only become harmless.
LEMMA LinkSupervise ==
  ASSUME TInv, LinkInv, NEW s \in Sups,
         Supervise(s) \/ ClientExits(s) \/ ClientHangs(s) \/ ClientRecovers(s)
  PROVE  LinkInv'
<1> USE DEF watching, reloads, links
<1>1. /\ UNCHANGED <<pc, toJoin, listed>> /\ sup[s].st # "off" /\ listed \in SUBSET Sups
      /\ \A t \in Sups \ {s} : sup'[t] = sup[t] /\ (t \in children' <=> t \in children)
      /\ SupOff.st = "off"
  BY SupervisorFrame DEF TInv, TypeOK, SupOff
<1>2. \A t \in Sups : Gone(t) => Gone(t)'
  BY <1>1, SupervisorFrame DEF TInv, Gone, Harmless, Sending
<1>3. \A t \in Sups : /\ sup'[t].st # "off" => sup[t].st # "off" /\ sup'[t].peer = sup[t].peer
                      /\ sup[t].stop => sup'[t].st = "off" \/ sup'[t].stop
                      /\ sup[t].stop /\ sup[t].st # "spawned" => sup'[t].st # "spawned"
  BY <1>1, SupervisorFrame DEF TInv
<1>4. \A r \in Reloaders : Stopping(r)'
  <2>1. SUFFICES ASSUME NEW r \in Reloaders PROVE Stopping(r)'
    OBVIOUS
  <2>2. Stopping(r)
    BY DEF LinkInv
  <2>3. \A t \in listed : sup[t].st = "off" => sup'[t].st = "off"
    BY <1>1, <1>3
  <2>4. QED
    BY <1>1, <1>2, <1>3, <2>2, <2>3 DEF Stopping
<1>5. \A t \in listed : sup'[t].st \in {"reading", "ended"} => t \in children'
  BY <1>1, SupervisorFrame DEF TInv, LinkInv
<1>6. QED
  BY <1>1, <1>2, <1>3, <1>4, <1>5 DEF LinkInv, Alone

LEMMA LinkStep ==
  ASSUME ~MayOverlap, TInv, LinkInv, [Next]_vars PROVE LinkInv'
<1> USE DEF watching, reloads, links
<1>1. CASE (\E c \in Configs : WriteNew(c)) \/ SwapLink \/ RemoveOld \/ UNCHANGED vars
  BY <1>1 DEF WriteNew, SwapLink, RemoveOld, vars, LinkInv, Alone, Stopping, Gone, Harmless,
              Sending
<1>2. CASE OnAnyEvent
  <2>1. UNCHANGED links /\ UNCHANGED toJoin
    BY <1>2 DEF OnAnyEvent
  <2>2. \A r \in Reloaders : pc'[r] \notin Outside => pc'[r] = pc[r]
    BY <1>2, EventFrame DEF TInv
  <2>3. \A r \in Reloaders : Stopping(r)'
    <3>1. SUFFICES ASSUME NEW r \in Reloaders PROVE Stopping(r)'
      OBVIOUS
    <3>2. CASE pc'[r] \in Outside
      BY <3>2 DEF Stopping, Outside
    <3>3. CASE pc'[r] = pc[r]
      BY <2>1, <3>3 DEF LinkInv, Stopping, Gone, Harmless, Sending
    <3>4. QED
      BY <2>2, <3>2, <3>3
  <2>4. QED
    BY <2>1, <2>2, <2>3 DEF LinkInv, Alone, Gone, Harmless, Sending
<1>3. ASSUME NEW r \in Reloaders, Reload(r) PROVE LinkInv'
  <2>1. UNCHANGED links /\ UNCHANGED toJoin /\ pc[r] \in Outside
        /\ \E l \in Outside \cup {"signal"} : pc' = [pc EXCEPT ![r] = l]
        /\ (pc'[r] = "signal" => Idle)
    BY <1>3 DEF Reload, Fire, Unset, Load, Goto, Outside, TInv, TypeOK
  <2>2. \A q \in Reloaders : Stopping(q)'
    <3>1. SUFFICES ASSUME NEW q \in Reloaders PROVE Stopping(q)'
      OBVIOUS
    <3>2. CASE q = r
      <4>1. pc'[q] \in Outside \cup {"signal"}
        BY <2>1, <3>2 DEF TInv, TypeOK
      <4>2. QED
        BY <4>1 DEF Stopping, Outside
    <3>3. CASE q # r
      <4>1. pc'[q] = pc[q]
        BY <2>1, <3>3 DEF TInv, TypeOK
      <4>2. QED
        BY <2>1, <4>1 DEF LinkInv, Stopping, Gone, Harmless, Sending
    <3>4. QED
      BY <3>2, <3>3
  <2>3. Alone'
    BY <2>1 DEF LinkInv, Alone, Idle, TInv, TypeOK
  <2>4. QED
    BY <2>1, <2>2, <2>3 DEF LinkInv, Gone, Harmless, Sending
<1>4. QED
  BY <1>1, <1>2, <1>3, LinkConfigure, LinkSupervise DEF Next

\* "No client survives to double up with the next configure's client": however
\* long clients hang and wherever in stop_current one is spawned, a peer never
\* has two live clients of this pod.  That no two reloads overlap is assumed:
\* it is what the code relies on and does not enforce.
THEOREM NoDoubledClient ==
  ASSUME ~MayOverlap PROVE Spec => []OneClientPerPeer
<1>1. LinkInv /\ TInv => OneClientPerPeer
  <2>1. SUFFICES ASSUME LinkInv, TInv, NEW s \in Sups, NEW t \in Sups,
                        Sending(s), Sending(t), sup[s].peer = sup[t].peer
                 PROVE  s = t
    BY DEF OneClientPerPeer
  <2>2. sup[s].st # "off" /\ sup[t].st # "off"
    BY <2>1 DEF TInv, TypeOK, Sending
  <2>3. s \in listed /\ t \in listed
    BY <2>1, <2>2 DEF LinkInv, Gone, Harmless
  <2>4. QED
    BY <2>1, <2>2, <2>3 DEF LinkInv
<1>2. TInv /\ LinkInv /\ [Next]_vars => LinkInv'
  BY LinkStep
<1>3. Init => LinkInv
  BY InitLink
<1>4. QED
  BY <1>1, <1>2, <1>3, InitTInv, TypeStep, PTL DEF Spec

-----------------------------------------------------------------------------
(* The supervisors are those of the config that runs *)

\* Where a thread stands inside configure(), MatchInv is about that thread.
LEMMA MatchAt ==
  ASSUME NEW r \in Reloaders, \A q \in Reloaders \ {r} : pc'[q] \in Outside,
         pc'[r] \notin {"kill", "join", "forget"} =>
           \A s \in listed' : sup'[s].st # "off" /\ ~sup'[s].stop,
         pc'[r] \in Outside \cup {"signal"} =>
           ListedPeers' = IF applied' = None \/ ~poolUp' THEN {} ELSE applied',
         pc'[r] = "publish" => ListedPeers' = IF poolUp' THEN payload'[r] ELSE {}
  PROVE  MatchInv'
<1>1. \A q \in Reloaders : pc'[q] = "publish" => q = r
  BY DEF Outside
<1>2. QED
  BY <1>1 DEF MatchInv

LEMMA MatchConfigure ==
  ASSUME TInv, LinkInv, MatchInv, NEW r \in Reloaders, Configure(r)
  PROVE  MatchInv'
<1> USE DEF Goto, watching, reloads, links
<1>1. /\ pc \in [Reloaders -> PCs] /\ listed \in SUBSET Sups
      /\ payload \in [Reloaders -> Configs \cup {None}]
  BY DEF TInv, TypeOK
<1>2. \A q \in Reloaders \ {r} : pc[q] \in Outside /\ pc'[q] \in Outside
  BY ConfigureAlone DEF LinkInv
<1>3. CASE pc'[r] \in {"kill", "join", "forget"}
  BY <1>2, <1>3, MatchAt DEF Outside
<1>4. CASE Forget(r) \/ ClearState(r)
  <2>1. listed' = {} /\ pc'[r] \in {"clear", "start", "idle"}
    BY <1>1, <1>4 DEF Forget, ClearState, LinkInv, Stopping
  <2>2. pc'[r] = "idle" => applied' = None
    BY <1>1, <1>4 DEF Forget, ClearState
  <2>3. ListedPeers' = {}
    BY <2>1 DEF ListedPeers
  <2>4. QED
    BY <1>2, <2>1, <2>2, <2>3, MatchAt DEF Outside
<1>5. CASE StartNetwork(r)
  <2>1. pc'[r] = "publish" /\ listed = {} /\ payload' = payload
    BY <1>1, <1>5 DEF StartNetwork, LinkInv, Stopping
  <2>2. CASE poolUp'
    <3>1. PICK f \in [payload[r] -> Sups] :
            /\ listed' = listed \cup {f[p] : p \in payload[r]}
            /\ \A p \in payload[r] : sup'[f[p]] = Fresh(p)
      BY <1>5, <2>2, StartFrame
    <3>2. payload[r] \subseteq Peers
      BY <1>5, ConfigAssumption DEF StartNetwork, TInv
    <3>3. \A p \in payload[r] : /\ f[p] \in listed' /\ sup'[f[p]].peer = p
                                /\ sup'[f[p]].st # "off" /\ ~sup'[f[p]].stop
      BY <3>1, <3>2, FreshIs
    <3>4. \A s \in listed' : \E p \in payload[r] : s = f[p]
      BY <2>1, <3>1
    <3>5. ListedPeers' = payload[r]
      BY <3>3, <3>4 DEF ListedPeers
    <3>6. \A s \in listed' : sup'[s].st # "off" /\ ~sup'[s].stop
      BY <3>3, <3>4
    <3>7. QED
      BY <1>2, <2>1, <2>2, <3>5, <3>6, MatchAt DEF Outside
  <2>3. CASE ~poolUp'
    <3>1. listed' = {} /\ ListedPeers' = {}
      BY <1>5, <2>1, <2>3 DEF StartNetwork, ListedPeers
    <3>2. QED
      BY <1>2, <2>1, <2>3, <3>1, MatchAt DEF Outside
  <2>4. QED
    BY <2>2, <2>3
<1>6. CASE Publish(r)
  <2>1. pc[r] = "publish" /\ pc'[r] = "idle" /\ applied' = payload[r]
        /\ UNCHANGED <<listed, sup, poolUp>>
    BY <1>1, <1>6 DEF Publish
  <2>2. applied' # None
    BY <2>1, ConfigAssumption DEF TInv, Configs
  <2>3. ListedPeers' = IF poolUp THEN payload[r] ELSE {}
    BY <2>1 DEF MatchInv, ListedPeers
  <2>4. \A s \in listed : sup[s].st # "off" /\ ~sup[s].stop
    BY <1>2, <2>1 DEF MatchInv, Outside
  <2>5. QED
    BY <1>2, <2>1, <2>2, <2>3, <2>4, MatchAt DEF Outside
<1>7. CASE SignalStop(r) \/ KillChildren(r) \/ JoinSupervisor(r) \/ KillAgain(r)
  <2>1. pc'[r] \in {"kill", "join", "forget"}
    BY <1>1, <1>7 DEF SignalStop, KillChildren, JoinSupervisor, KillAgain
  <2>2. QED
    BY <1>3, <2>1
<1>8. QED
  BY <1>4, <1>5, <1>6, <1>7 DEF Configure

\* Outside stop_current nobody who is listed has been told to stop, so nobody
\* who is listed exits.
LEMMA MatchSupervise ==
  ASSUME TInv, LinkInv, MatchInv, NEW s \in Sups,
         Supervise(s) \/ ClientExits(s) \/ ClientHangs(s) \/ ClientRecovers(s)
  PROVE  MatchInv'
<1>1. UNCHANGED <<pc, payload, listed, applied, poolUp>> /\ listed \in SUBSET Sups
  BY SupervisorFrame DEF TInv, TypeOK, watching, reloads
<1>2. ASSUME \A r \in Reloaders : pc[r] \notin {"kill", "join", "forget"}
      PROVE  /\ \A t \in listed : /\ sup'[t].st # "off" /\ ~sup'[t].stop
                                  /\ sup'[t].peer = sup[t].peer
             /\ ListedPeers' = ListedPeers
  <2>1. \A t \in listed : sup[t].st # "off" /\ ~sup[t].stop
    BY <1>2 DEF MatchInv
  <2>2. \A t \in listed : /\ sup'[t].st # "off" /\ ~sup'[t].stop
                          /\ sup'[t].peer = sup[t].peer
    BY <1>1, <2>1, SupervisorFrame DEF TInv
  <2>3. QED
    BY <1>1, <2>2 DEF ListedPeers
<1>3. \A r \in Reloaders : pc[r] = "publish" =>
        \A q \in Reloaders : pc[q] \notin {"kill", "join", "forget"}
  BY DEF LinkInv, Alone, Outside
<1>4. (\A r \in Reloaders : pc[r] \in Outside \cup {"signal"}) =>
        \A q \in Reloaders : pc[q] \notin {"kill", "join", "forget"}
  BY DEF Outside
<1>5. QED
  BY <1>1, <1>2, <1>3, <1>4 DEF MatchInv

\* What threads do outside configure() leaves the links as they are.
LEMMA MatchOutside ==
  ASSUME MatchInv, UNCHANGED links, UNCHANGED applied,
         \A r \in Reloaders : pc'[r] = pc[r] \/ (pc[r] \in Outside /\ pc'[r] \in Outside),
         \A r \in Reloaders : pc[r] = "publish" => payload'[r] = payload[r]
  PROVE  MatchInv'
<1> USE DEF links
<1>1. ListedPeers' = ListedPeers
  BY DEF ListedPeers
<1>2. \A r \in Reloaders :
        /\ pc'[r] \notin {"kill", "join", "forget"} => pc[r] \notin {"kill", "join", "forget"}
        /\ pc'[r] \in Outside \cup {"signal"} => pc[r] \in Outside \cup {"signal"}
        /\ pc'[r] = "publish" => pc[r] = "publish"
  BY DEF Outside
<1>3. QED
  BY <1>1, <1>2 DEF MatchInv

LEMMA MatchStep ==
  ASSUME ~MayOverlap, TInv, LinkInv, MatchInv, [Next]_vars PROVE MatchInv'
<1> USE DEF watching, reloads, links
<1>1. CASE (\E c \in Configs : WriteNew(c)) \/ SwapLink \/ RemoveOld \/ UNCHANGED vars
  BY <1>1 DEF WriteNew, SwapLink, RemoveOld, vars, MatchInv, ListedPeers
<1>2. CASE OnAnyEvent
  <2>1. UNCHANGED links /\ UNCHANGED <<payload, applied>>
    BY <1>2 DEF OnAnyEvent
  <2>2. \A r \in Reloaders : pc'[r] = pc[r] \/ (pc[r] \in Outside /\ pc'[r] \in Outside)
    BY <1>2, EventFrame DEF TInv
  <2>3. QED
    BY <2>1, <2>2, MatchOutside
<1>3. ASSUME NEW r \in Reloaders, Reload(r) PROVE MatchInv'
  <2>1. UNCHANGED links /\ UNCHANGED applied /\ pc \in [Reloaders -> PCs]
    BY <1>3 DEF Reload, Fire, Unset, Load, TInv, TypeOK
  <2>2. CASE Fire(r) \/ Unset(r) \/ (Load(r) /\ pc'[r] \in Outside)
    <3>1. \A q \in Reloaders :
            pc'[q] = pc[q] \/ (pc[q] \in Outside /\ pc'[q] \in Outside)
      BY <2>1, <2>2 DEF Fire, Unset, Load, Goto, Outside
    <3>2. \A q \in Reloaders : pc[q] = "publish" => payload'[q] = payload[q]
      <4>1. CASE Fire(r) \/ Unset(r)
        BY <4>1 DEF Fire, Unset
      <4>2. CASE Load(r)
        <5>1. pc[r] = "load" /\ \A q \in Reloaders \ {r} : payload'[q] = payload[q]
          BY <4>2 DEF Load, Goto, TInv, TypeOK
        <5>2. QED
          BY <5>1
      <4>3. QED
        BY <2>2, <4>1, <4>2
    <3>3. QED
      BY <2>1, <3>1, <3>2, MatchOutside
  <2>3. CASE Load(r) /\ pc'[r] \notin Outside
    <3>1. Idle /\ \A q \in Reloaders : pc'[q] \in Outside \cup {"signal"}
      BY <2>1, <2>3 DEF Load, Goto, Idle, Outside
    <3>2. \A q \in Reloaders : pc[q] \in Outside
      BY <3>1 DEF Idle
    <3>3. ListedPeers' = ListedPeers
      BY <2>1 DEF ListedPeers
    <3>4. QED
      BY <2>1, <3>1, <3>2, <3>3 DEF MatchInv, Outside
  <2>4. QED
    BY <1>3, <2>2, <2>3 DEF Reload
<1>4. QED
  BY <1>1, <1>2, <1>3, MatchConfigure, MatchSupervise DEF Next

\* Whenever no reload is at work, the supervisors of PEER_SUPS are alive, have
\* not been told to stop, and serve the peers of the config that STATE reports,
\* or none if the server pool did not come up.
THEOREM SupervisorsOfConfig ==
  ASSUME ~MayOverlap PROVE Spec => []SupervisorsMatch
<1>1. MatchInv => SupervisorsMatch
  BY DEF MatchInv, SupervisorsMatch, Idle, ListedPeers, Outside
<1>2. TInv /\ LinkInv /\ [Next]_vars => LinkInv'
  BY LinkStep
<1>3. TInv /\ LinkInv /\ MatchInv /\ [Next]_vars => MatchInv'
  BY MatchStep
<1>4. Init => LinkInv /\ MatchInv
  BY InitLink
<1>5. QED
  BY <1>1, <1>2, <1>3, <1>4, InitTInv, TypeStep, PTL DEF Spec

\* From the time stop_current has forgotten its supervisors to the start of the
\* next ones no client runs, and outside configure() a client that runs,
\* whichever thread owns it, sends to a peer of the config that STATE reports.
NoneLeft ==
  /\ \A r \in Reloaders : pc[r] \in {"clear", "start"} =>
       \A s \in Sups : ~Sending(s)
  /\ Idle => \A s \in Sups : Sending(s) =>
       s \in listed /\ poolUp /\ applied # None /\ sup[s].peer \in applied

\* stop_current is complete: no client of an earlier config is left when it
\* returns, nor any time later, however long clients hung and wherever in it
\* one was spawned.
THEOREM NoStrayClient ==
  ASSUME ~MayOverlap PROVE Spec => []NoneLeft
<1>1. ASSUME TInv, LinkInv, NEW s \in Sups, Sending(s) PROVE s \in listed
  BY <1>1 DEF LinkInv, Gone, Harmless, TInv, TypeOK, Sending
<1>2. ASSUME TInv, LinkInv, NEW r \in Reloaders, pc[r] \in {"clear", "start"},
             NEW s \in Sups
      PROVE  ~Sending(s)
  BY <1>1, <1>2 DEF LinkInv, Stopping
<1>3. ASSUME TInv, LinkInv, MatchInv, Idle, NEW s \in Sups, Sending(s)
      PROVE  s \in listed /\ poolUp /\ applied # None /\ sup[s].peer \in applied
  <2>1. s \in listed /\ sup[s].peer \in ListedPeers
    BY <1>1, <1>3 DEF ListedPeers
  <2>2. ListedPeers = IF applied = None \/ ~poolUp THEN {} ELSE applied
    BY <1>3 DEF MatchInv, Idle
  <2>3. QED
    BY <2>1, <2>2
<1>4. TInv /\ LinkInv /\ MatchInv => NoneLeft
  BY <1>2, <1>3 DEF NoneLeft
<1>5. TInv /\ LinkInv /\ [Next]_vars => LinkInv'
  BY LinkStep
<1>6. TInv /\ LinkInv /\ MatchInv /\ [Next]_vars => MatchInv'
  BY MatchStep
<1>7. Init => LinkInv /\ MatchInv
  BY InitLink
<1>8. QED
  BY <1>4, <1>5, <1>6, <1>7, InitTInv, TypeStep, PTL DEF Spec

=============================================================================
