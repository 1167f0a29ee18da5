-------------------------- MODULE ControllerProofs --------------------------
(***************************************************************************)
(* What the control plane guarantees for every set of documents, threads   *)
(* and runners, every bound and every failure.  Three layers: the types of *)
(* the loops (TInv), the two locks (LockInv), and on top of them the       *)
(* invariants a user of the API relies on.                                 *)
(***************************************************************************)
EXTENDS ControllerSlot, TLAPS

Joining == {"startjoin", "stopjoin"}
Starting == {"start", "startjoin"}
TearingDown == {"stop", "stopjoin", "deldep", "delcm"}

\* The program points inside `with _write_lock`.
Critical == Materialising \cup TearingDown

\* A live runner has a document and a clock; one inside patch_system_x also has a phase,
\* a template and a role of it; one about to write has read a config.
RunnerTyped(r) ==
  /\ runner[r].st # "off" => runner[r].doc \in Docs /\ runner[r].clock >= 1
  /\ runner[r].st \in {"read", "write"} =>
       /\ runner[r].tmpl \in Docs
       /\ runner[r].i \in DOMAIN DocRoles[runner[r].tmpl]
       /\ runner[r].phase \in DOMAIN PhaseIds[runner[r].doc]
  /\ runner[r].st = "write" => runner[r].buf \in ConfigMap

TInv ==
  /\ TypeOK
  /\ \A t \in Threads : pc[t] \in Starting => req[t] \in Docs
  /\ \A t \in Threads : pc[t] \in TearingDown => target[t] \in Names
  /\ \A r \in Runners : RunnerTyped(r)

-----------------------------------------------------------------------------
(* Types *)

LEMMA InitTInv == Init => TInv
<1>1. SUFFICES ASSUME Init PROVE TInv
  OBVIOUS
<1>2. RunnerOff \in RunnerState /\ RunnerOff.st = "off"
  BY DEF RunnerOff, RunnerState
<1>3. TypeOK
  BY <1>1, <1>2 DEF Init, TypeOK, PCs, Materialising
<1>4. QED
  BY <1>1, <1>2, <1>3 DEF Init, TInv, Starting, TearingDown, RunnerTyped

\* The documents' constants, as the proofs use them.
LEMMA DocFacts ==
  ASSUME NEW d \in Docs
  PROVE  /\ DocName[d] \in Names
         /\ DocRoles[d] \in Seq(Roles) /\ Len(DocRoles[d]) \in Nat
         /\ Len(DocRoles[d]) >= 1
         /\ DOMAIN DocRoles[d] = 1..Len(DocRoles[d])
         /\ \A i \in DOMAIN DocRoles[d] : DocRoles[d][i] \in Roles
         /\ PhaseIds[d] \in Seq(Nat \ {0}) /\ Len(PhaseIds[d]) \in Nat
         /\ DOMAIN PhaseIds[d] = 1..Len(PhaseIds[d])
         /\ \A i \in DOMAIN PhaseIds[d] : PhaseIds[d][i] \in Nat
         /\ InitialX(d) \in X
<1>1. DocRoles[d] \in Seq(Roles) /\ DocRoles[d] # << >>
      /\ PhaseIds[d] \in Seq(Nat \ {0}) /\ DocName[d] \in Names
  BY DocAssumption
<1>2. Len(DocRoles[d]) >= 1 /\ Len(DocRoles[d]) \in Nat
  BY <1>1
<1>3. InitialX(d) \in X
  BY DEF InitialX, X
<1>4. QED
  BY <1>1, <1>2, <1>3

\* A fault uses up a unit of its bound.
LEMMA FaultType == ASSUME faults \in Nat, NEW k, Fault(k) PROVE faults' \in Nat
BY DEF Fault

LEMMA AcceptType ==
  ASSUME TInv, NEW t \in Threads, NEW label \in PCs, NEW n \in Names,
         NEW d \in Docs \cup {None}, Accept(t, label, n, d), faults' \in Nat,
         \/ label = "config" /\ d \in Docs /\ n = DocName[d]
         \/ label = "stop"
  PROVE  TInv'
<1>1. /\ pc' = [pc EXCEPT ![t] = label]
      /\ req' = [req EXCEPT ![t] = d]
      /\ target' = [target EXCEPT ![t] = n]
      /\ idx' = [idx EXCEPT ![t] = 1]
      /\ writeLock' = t /\ requests' = requests + 1
      /\ UNCHANGED <<cm, dep, runnerLock, current, runner, stopping, crashes>>
  BY DEF Accept, Goto, cluster, scenario
<1>2. \A s \in Threads : pc'[s] \in Materialising => LoopTyped(s)'
  <2>1. SUFFICES ASSUME NEW s \in Threads, pc'[s] \in Materialising
                 PROVE  LoopTyped(s)'
    OBVIOUS
  <2>2. CASE s = t
    <3>1. label = "config"
      BY <1>1, <2>1, <2>2 DEF TInv, TypeOK, Materialising
    <3>2. d \in Docs /\ 1 \in DOMAIN DocRoles[d]
      BY <3>1, DocFacts
    <3>3. QED
      BY <1>1, <2>2, <3>1, <3>2 DEF TInv, TypeOK, LoopTyped
  <2>3. CASE s # t
    BY <1>1, <2>1, <2>3 DEF TInv, TypeOK, LoopTyped
  <2>4. QED
    BY <2>2, <2>3
<1>3. TypeOK'
  BY <1>1, <1>2 DEF TInv, TypeOK
<1>4. QED
  BY <1>1, <1>3 DEF TInv, TypeOK, Starting, TearingDown, RunnerTyped

\* Steps that move one thread on, with what the label asks for.
LEMMA ThreadType ==
  ASSUME TInv, NEW t \in Threads, NEW label \in PCs, Goto(t, label),
         cm' \in [Names -> [Roles -> ConfigMap \cup {None}]],
         dep' \in [Names -> SUBSET Roles],
         writeLock' \in Threads \cup {None},
         runnerLock' \in Threads \cup {None},
         current' \in Runners \cup {None},
         runner' \in [Runners -> RunnerState],
         \A r \in Runners : RunnerTyped(r)',
         stopping' \in SUBSET Runners,
         faults' \in Nat, UNCHANGED <<crashes, requests>>,
         \/ UNCHANGED <<req, target>> /\ \E k \in Nat : idx' = [idx EXCEPT ![t] = k]
         \/ UNCHANGED <<req, target, idx>>
         \/ /\ label = "idle" /\ req' = [req EXCEPT ![t] = None]
            /\ target' = [target EXCEPT ![t] = None] /\ idx' = [idx EXCEPT ![t] = 0],
         label \in Materialising => LoopTyped(t)',
         label \in Starting => req[t] \in Docs,
         label \in TearingDown => target[t] \in Names
  PROVE  TInv'
<1>1. pc' = [pc EXCEPT ![t] = label]
  BY DEF Goto
<1>2. /\ req' \in [Threads -> Docs \cup {None}]
      /\ target' \in [Threads -> Names \cup {None}]
      /\ idx' \in [Threads -> Nat]
      /\ pc' \in [Threads -> PCs]
  <2>1. /\ pc \in [Threads -> PCs] /\ req \in [Threads -> Docs \cup {None}]
        /\ target \in [Threads -> Names \cup {None}] /\ idx \in [Threads -> Nat]
    BY DEF TInv, TypeOK
  <2>2. CASE UNCHANGED <<req, target>> /\ \E k \in Nat : idx' = [idx EXCEPT ![t] = k]
    BY <1>1, <2>1, <2>2
  <2>3. CASE UNCHANGED <<req, target, idx>>
    BY <1>1, <2>1, <2>3
  <2>4. CASE /\ req' = [req EXCEPT ![t] = None]
             /\ target' = [target EXCEPT ![t] = None] /\ idx' = [idx EXCEPT ![t] = 0]
    BY <1>1, <2>1, <2>4
  <2>5. QED
    BY <2>2, <2>3, <2>4
<1>3. \A s \in Threads \ {t} : /\ pc'[s] = pc[s] /\ req'[s] = req[s]
                               /\ target'[s] = target[s] /\ idx'[s] = idx[s]
  BY <1>1 DEF TInv, TypeOK
<1>4. pc'[t] = label
  BY <1>1 DEF TInv, TypeOK
<1>5. \A s \in Threads : pc'[s] \in Materialising => LoopTyped(s)'
  <2>1. \A s \in Threads \ {t} : pc'[s] \in Materialising => LoopTyped(s)'
    BY <1>3 DEF TInv, TypeOK, LoopTyped
  <2>2. QED
    BY <1>4, <2>1
<1>6. TypeOK'
  BY <1>2, <1>5 DEF TInv, TypeOK
<1>7. \A s \in Threads : /\ pc'[s] \in Starting => req'[s] \in Docs
                         /\ pc'[s] \in TearingDown => target'[s] \in Names
  <2>1. label \in Starting \cup TearingDown => req'[t] = req[t] /\ target'[t] = target[t]
    BY DEF Starting, TearingDown
  <2>2. QED
    BY <1>3, <1>4, <2>1 DEF TInv
<1>8. QED
  BY <1>6, <1>7 DEF TInv

LEMMA LaunchType ==
  ASSUME TInv, NEW r \in Runners, NEW d \in Docs, Launch(r, d)
  PROVE  /\ runner' \in [Runners -> RunnerState]
         /\ \A s \in Runners : RunnerTyped(s)'
         /\ current' \in Runners \cup {None}
<1>1. DEFINE fresh == [RunnerOff EXCEPT !.st = "wait", !.doc = d, !.clock = 1]
<1>2. fresh \in RunnerState /\ fresh.st = "wait" /\ fresh.doc = d /\ fresh.clock = 1
  BY DEF RunnerOff, RunnerState
<1>3. runner' = [runner EXCEPT ![r] = fresh] /\ current' = r
  BY DEF Launch
<1> HIDE DEF fresh
<1>4. QED
  BY <1>2, <1>3 DEF TInv, TypeOK, RunnerTyped

\* The steps of a request in progress keep the types.
LEMMA HandlerType ==
  ASSUME TInv, NEW t \in Threads, Handler(t)
  PROVE  TInv'
<1> USE DEF cluster, threads, scenario, bounds
<1>0. /\ \A l \in {"idle", "config", "workload", "peers", "finish", "start",
                   "startjoin", "stop", "stopjoin", "deldep", "delcm"} : l \in PCs
      /\ \A r \in Runners : RunnerTyped(r)
  BY DEF PCs, TInv
<1>1. ASSUME pc[t] \in Materialising
      PROVE  /\ req[t] \in Docs /\ target[t] = DocName[req[t]] /\ target[t] \in Names
             /\ idx[t] \in 1..Len(DocRoles[req[t]])
             /\ RoleAt(t) \in Roles
             /\ [tmpl |-> req[t], load |-> req[t], x |-> InitialX(req[t]),
                 peers |-> None] \in ConfigMap
             /\ Len(DocRoles[req[t]]) \in Nat /\ Len(DocRoles[req[t]]) >= 1
  <2>1. req[t] \in Docs /\ target[t] = DocName[req[t]] /\ idx[t] \in DOMAIN DocRoles[req[t]]
    BY <1>1 DEF TInv, TypeOK, LoopTyped
  <2>2. QED
    BY <2>1, DocFacts DEF RoleAt, ConfigMap
<1>2. CASE ApplyConfigMap(t)
  <2>1. pc[t] = "config" /\ pc[t] \in Materialising
    BY <1>2 DEF ApplyConfigMap, Materialising
  <2>2. cm' \in [Names -> [Roles -> ConfigMap \cup {None}]]
    <3>1. cm \in [Names -> [Roles -> ConfigMap \cup {None}]]
      BY DEF TInv, TypeOK
    <3>2. CASE UNCHANGED cm
      BY <3>1, <3>2
    <3>3. CASE ConfigMapApplied(t)
      BY <1>1, <2>1, <3>1, <3>3 DEF ConfigMapApplied
    <3>4. QED
      BY <1>2, <3>2, <3>3 DEF ApplyConfigMap
  <2>3. faults' \in Nat
    BY <1>2, FaultType DEF ApplyConfigMap, TInv, TypeOK
  <2>4. CASE Goto(t, "workload") /\ UNCHANGED <<writeLock, req, target, idx>>
    <3>1. LoopTyped(t)'
      BY <2>1, <2>4 DEF TInv, TypeOK, LoopTyped
    <3>2. QED
      BY <1>0, <1>2, <2>2, <2>3, <2>4, <3>1, ThreadType
         DEF ApplyConfigMap, TInv, TypeOK, RunnerTyped, Starting, TearingDown
  <2>5. CASE Abort(t)
    BY <1>0, <1>2, <2>2, <2>3, <2>5, ThreadType
       DEF ApplyConfigMap, Abort, Return, TInv, TypeOK, RunnerTyped, Starting, TearingDown,
           Materialising
  <2>6. QED
    BY <1>2, <2>4, <2>5 DEF ApplyConfigMap
<1>3. ASSUME pc[t] \in Materialising, NEW again \in Materialising,
             NEW after \in Materialising, NextRole(t, again, after),
             cm' \in [Names -> [Roles -> ConfigMap \cup {None}]],
             dep' \in [Names -> SUBSET Roles], faults' \in Nat,
             UNCHANGED <<writeLock, req, target, scenario, crashes, requests>>
      PROVE  TInv'
  <2>1. /\ req[t] \in Docs /\ target[t] = DocName[req[t]]
        /\ idx[t] \in 1..Len(DocRoles[req[t]])
        /\ Len(DocRoles[req[t]]) \in Nat /\ Len(DocRoles[req[t]]) >= 1
        /\ DOMAIN DocRoles[req[t]] = 1..Len(DocRoles[req[t]])
    BY <1>1, <1>3, DocFacts
  <2>2. PICK label \in {again, after}, k \in 1..Len(DocRoles[req[t]]) :
          Goto(t, label) /\ idx' = [idx EXCEPT ![t] = k]
    <3>1. CASE idx[t] < Len(DocRoles[req[t]])
      <4>1. idx[t] + 1 \in 1..Len(DocRoles[req[t]])
        BY <2>1, <3>1
      <4>2. Goto(t, again) /\ idx' = [idx EXCEPT ![t] = idx[t] + 1]
        BY <1>3, <3>1 DEF NextRole
      <4>3. QED
        BY <4>1, <4>2
    <3>2. CASE ~(idx[t] < Len(DocRoles[req[t]]))
      <4>1. Goto(t, after) /\ idx' = [idx EXCEPT ![t] = 1]
        BY <1>3, <3>2 DEF NextRole
      <4>2. 1 \in 1..Len(DocRoles[req[t]])
        BY <2>1
      <4>3. QED
        BY <4>1, <4>2
    <3>3. QED
      BY <3>1, <3>2
  <2>3. LoopTyped(t)'
    BY <1>3, <2>1, <2>2 DEF LoopTyped, TInv, TypeOK
  <2>4. label \in PCs /\ label \notin Starting /\ label \notin TearingDown
    BY <1>3, <2>2 DEF PCs, Materialising, Starting, TearingDown
  <2>5. k \in Nat
    BY <2>1
  <2>6. QED
    BY <1>3, <2>2, <2>3, <2>4, <2>5, ThreadType DEF TInv, TypeOK, RunnerTyped
<1>4. CASE ApplyWorkload(t)
  <2>1. pc[t] = "workload" /\ pc[t] \in Materialising
    BY <1>4 DEF ApplyWorkload, Materialising
  <2>2. dep' \in [Names -> SUBSET Roles]
    BY <1>1, <1>4, <2>1 DEF ApplyWorkload, WorkloadApplied, TInv, TypeOK
  <2>3. faults' \in Nat
    BY <1>4, FaultType DEF ApplyWorkload, TInv, TypeOK
  <2>4. CASE NextRole(t, "config", "peers") /\ UNCHANGED <<writeLock, req, target>>
    BY <1>3, <1>4, <2>1, <2>2, <2>3, <2>4 DEF ApplyWorkload, Materialising, TInv, TypeOK
  <2>5. CASE Abort(t)
    BY <1>0, <1>4, <2>2, <2>3, <2>5, ThreadType
       DEF ApplyWorkload, Abort, Return, TInv, TypeOK, RunnerTyped, Starting, TearingDown,
           Materialising
  <2>6. QED
    BY <1>4, <2>4, <2>5 DEF ApplyWorkload
<1>5. CASE PatchPeers(t)
  <2>1. pc[t] = "peers" /\ pc[t] \in Materialising
    BY <1>5 DEF PatchPeers, Materialising
  <2>2. cm' \in [Names -> [Roles -> ConfigMap \cup {None}]]
    <3>1. CASE UNCHANGED cm
      BY <3>1 DEF TInv, TypeOK
    <3>2. CASE /\ cm[target[t]][RoleAt(t)] # None
               /\ cm' = [cm EXCEPT ![target[t]][RoleAt(t)] =
                    [@ EXCEPT !.load = req[t], !.x = InitialX(req[t]),
                              !.peers = req[t]]]
      <4>1. cm[target[t]][RoleAt(t)] \in ConfigMap
        BY <1>1, <2>1, <3>2 DEF TInv, TypeOK
      <4>2. [cm[target[t]][RoleAt(t)] EXCEPT !.load = req[t], !.x = InitialX(req[t]),
              !.peers = req[t]] \in ConfigMap
        BY <1>1, <2>1, <4>1, DocFacts DEF ConfigMap
      <4>3. QED
        BY <1>1, <2>1, <3>2, <4>2 DEF TInv, TypeOK
    <3>3. QED
      BY <1>5, <3>1, <3>2 DEF PatchPeers, PeersPatched
  <2>3. faults' \in Nat
    BY <1>5, FaultType DEF PatchPeers, TInv, TypeOK
  <2>4. CASE NextRole(t, "peers", "finish") /\ UNCHANGED <<writeLock, req, target>>
    BY <1>3, <1>5, <2>1, <2>2, <2>3, <2>4 DEF PatchPeers, Materialising, TInv, TypeOK
  <2>5. CASE Abort(t)
    BY <1>0, <1>5, <2>2, <2>3, <2>5, ThreadType
       DEF PatchPeers, Abort, Return, TInv, TypeOK, RunnerTyped, Starting, TearingDown,
           Materialising
  <2>6. QED
    BY <1>5, <2>4, <2>5 DEF PatchPeers
<1>6. CASE FinishMaterialise(t)
  <2>1. pc[t] \in Materialising
    BY <1>6 DEF FinishMaterialise, Materialising
  <2>2. CASE Return(t)
    BY <1>0, <1>6, <2>2, ThreadType
       DEF FinishMaterialise, Return, TInv, TypeOK, RunnerTyped, Starting, TearingDown,
           Materialising
  <2>3. CASE Goto(t, "start") /\ UNCHANGED <<req, target, idx>>
    BY <1>0, <1>1, <1>6, <2>1, <2>3, ThreadType
       DEF FinishMaterialise, TInv, TypeOK, RunnerTyped, TearingDown, Materialising
  <2>4. QED
    BY <1>6, <2>2, <2>3 DEF FinishMaterialise
<1>7. ASSUME NEW label \in {"startjoin", "stopjoin"}, SignalStop(t, label),
             UNCHANGED <<cluster, writeLock, req, target, idx, bounds>>,
             label \in Starting => req[t] \in Docs,
             label \in TearingDown => target[t] \in Names
      PROVE  TInv'
  BY <1>0, <1>7, ThreadType DEF SignalStop, TInv, TypeOK, RunnerTyped, Materialising
<1>8. CASE RunnerStart(t)
  <2>1. req[t] \in Docs
    BY <1>8 DEF RunnerStart, TInv, Starting
  <2>2. CASE SignalStop(t, "startjoin") /\ UNCHANGED <<req, target, idx>>
    BY <1>7, <1>8, <2>1, <2>2 DEF RunnerStart, TearingDown
  <2>3. CASE /\ current = None /\ Return(t) /\ UNCHANGED <<runnerLock, stopping>>
             /\ \E r \in Runners : Launch(r, req[t])
    <3>1. PICK r \in Runners : Launch(r, req[t])
      BY <2>3
    <3>2. QED
      BY <1>0, <1>8, <2>1, <2>3, <3>1, LaunchType, ThreadType
         DEF RunnerStart, Return, TInv, TypeOK, Starting, TearingDown, Materialising
  <2>4. QED
    BY <1>8, <2>2, <2>3 DEF RunnerStart
<1>9. CASE RunnerStartJoin(t)
  <2>1. req[t] \in Docs
    BY <1>9 DEF RunnerStartJoin, TInv, Starting
  <2>2. PICK r \in Runners : Launch(r, req[t])
    BY <1>9 DEF RunnerStartJoin
  <2>3. QED
    BY <1>0, <1>9, <2>1, <2>2, LaunchType, ThreadType
       DEF RunnerStartJoin, Return, TInv, TypeOK, Starting, TearingDown, Materialising
<1>10. CASE RunnerStop(t)
  <2>1. target[t] \in Names
    BY <1>10 DEF RunnerStop, TInv, TearingDown
  <2>2. CASE SignalStop(t, "stopjoin")
    BY <1>7, <1>10, <2>1, <2>2 DEF RunnerStop, Starting
  <2>3. CASE Goto(t, "deldep") /\ UNCHANGED scenario
    BY <1>0, <1>10, <2>1, <2>3, ThreadType
       DEF RunnerStop, TInv, TypeOK, RunnerTyped, Starting, Materialising
  <2>4. QED
    BY <1>10, <2>2, <2>3 DEF RunnerStop
<1>11. CASE RunnerStopJoin(t)
  <2>1. target[t] \in Names
    BY <1>11 DEF RunnerStopJoin, TInv, TearingDown
  <2>2. QED
    BY <1>0, <1>11, <2>1, ThreadType
       DEF RunnerStopJoin, TInv, TypeOK, RunnerTyped, Starting, Materialising
<1>12. CASE DeleteWorkloads(t)
  <2>1. target[t] \in Names
    BY <1>12 DEF DeleteWorkloads, TInv, TearingDown
  <2>2. dep' \in [Names -> SUBSET Roles] /\ faults' \in Nat
    BY <1>12, FaultType DEF DeleteWorkloads, WorkloadsDeleted, TInv, TypeOK
  <2>3. CASE Goto(t, "delcm") /\ UNCHANGED <<writeLock, req, target, idx>>
    BY <1>0, <1>12, <2>1, <2>2, <2>3, ThreadType
       DEF DeleteWorkloads, TInv, TypeOK, RunnerTyped, Starting, Materialising
  <2>4. CASE Abort(t)
    BY <1>0, <1>12, <2>2, <2>4, ThreadType
       DEF DeleteWorkloads, Abort, Return, TInv, TypeOK, RunnerTyped, Starting,
           TearingDown, Materialising
  <2>5. QED
    BY <1>12, <2>3, <2>4 DEF DeleteWorkloads
<1>13. CASE DeleteConfigMaps(t)
  <2>1. cm' \in [Names -> [Roles -> ConfigMap \cup {None}]] /\ faults' \in Nat
    BY <1>13, FaultType DEF DeleteConfigMaps, ConfigMapsDeleted, TInv, TypeOK
  <2>2. QED
    BY <1>0, <1>13, <2>1, ThreadType
       DEF DeleteConfigMaps, Return, TInv, TypeOK, RunnerTyped, Starting, TearingDown,
           Materialising
<1>14. QED
  BY <1>2, <1>4, <1>5, <1>6, <1>8, <1>9, <1>10, <1>11, <1>12, <1>13 DEF Handler

\* A step that replaces the state of one runner by a well-typed one.
LEMMA RunnerReplaced ==
  ASSUME TInv, NEW r \in Runners, NEW me \in RunnerState,
         me.st # "off" => me.doc \in Docs /\ me.clock >= 1,
         me.st \in {"read", "write"} =>
           /\ me.tmpl \in Docs /\ me.i \in DOMAIN DocRoles[me.tmpl]
           /\ me.phase \in DOMAIN PhaseIds[me.doc],
         me.st = "write" => me.buf \in ConfigMap,
         runner' = [runner EXCEPT ![r] = me],
         cm' \in [Names -> [Roles -> ConfigMap \cup {None}]],
         stopping' \in SUBSET Runners, faults' \in Nat,
         UNCHANGED <<dep, writeLock, pc, req, target, idx, runnerLock, current,
                     crashes, requests>>
  PROVE  TInv'
<1>1. runner' \in [Runners -> RunnerState]
  BY DEF TInv, TypeOK
<1>2. \A s \in Runners : RunnerTyped(s)'
  BY DEF TInv, TypeOK, RunnerTyped
<1>3. \A t \in Threads : pc'[t] \in Materialising => LoopTyped(t)'
  BY DEF TInv, TypeOK, LoopTyped
<1>4. TypeOK'
  BY <1>1, <1>3 DEF TInv, TypeOK
<1>5. QED
  BY <1>2, <1>4 DEF TInv

LEMMA RunnerNextType ==
  ASSUME TInv, NEW r \in Runners, runner[r].st \in {"read", "write"}, RunnerNext(r),
         cm' \in [Names -> [Roles -> ConfigMap \cup {None}]], faults' \in Nat,
         UNCHANGED <<dep, writeLock, pc, req, target, idx, runnerLock, current,
                     stopping, crashes, requests>>
  PROVE  TInv'
<1> DEFINE me == runner[r]
           again == [me EXCEPT !.st = "read", !.i = me.i + 1, !.buf = None]
           done == [RunnerIdle(r) EXCEPT !.last = PhaseIds[me.doc][me.phase]]
<1>1. /\ me \in RunnerState /\ me.doc \in Docs /\ me.tmpl \in Docs /\ me.clock >= 1
      /\ me.i \in DOMAIN DocRoles[me.tmpl] /\ me.phase \in DOMAIN PhaseIds[me.doc]
      /\ stopping \in SUBSET Runners
  BY DEF TInv, TypeOK, RunnerTyped
<1>2. /\ DOMAIN DocRoles[me.tmpl] = 1..Len(DocRoles[me.tmpl])
      /\ Len(DocRoles[me.tmpl]) \in Nat /\ PhaseIds[me.doc][me.phase] \in Nat
  BY <1>1, DocFacts
<1>3. CASE me.i < Len(DocRoles[me.tmpl])
  <2>1. runner' = [runner EXCEPT ![r] = again]
    BY <1>3 DEF RunnerNext
  <2>2. /\ again \in RunnerState /\ again.st = "read" /\ again.doc \in Docs /\ again.clock >= 1
        /\ again.tmpl \in Docs /\ again.phase \in DOMAIN PhaseIds[again.doc]
    <3>1. me.i + 1 \in Nat
      BY <1>1 DEF RunnerState
    <3>2. again \in RunnerState
      BY <1>1, <3>1 DEF RunnerState
    <3>3. /\ again.st = "read" /\ again.doc = me.doc /\ again.clock = me.clock
          /\ again.tmpl = me.tmpl /\ again.phase = me.phase
      BY <1>1 DEF RunnerState
    <3> HIDE DEF again
    <3>4. QED
      BY <1>1, <3>2, <3>3
  <2>3. again.i \in DOMAIN DocRoles[again.tmpl]
    <3>1. again.i = me.i + 1 /\ again.tmpl = me.tmpl
      BY <1>1 DEF RunnerState
    <3> HIDE DEF again
    <3>2. me.i \in Nat
      BY <1>1 DEF RunnerState
    <3>3. me.i + 1 \in 1..Len(DocRoles[me.tmpl])
      BY <1>2, <1>3, <3>2
    <3>4. QED
      BY <1>2, <3>1, <3>3
  <2> HIDE DEF again
  <2>4. QED
    BY <1>1, <2>1, <2>2, <2>3, RunnerReplaced
<1>4. CASE ~(me.i < Len(DocRoles[me.tmpl]))
  <2>1. runner' = [runner EXCEPT ![r] = done]
    BY <1>4 DEF RunnerNext, PhasesOf
  <2>2. done \in RunnerState /\ done.st = "wait" /\ done.doc \in Docs /\ done.clock >= 1
    BY <1>1, <1>2 DEF RunnerIdle, RunnerState
  <2> HIDE DEF done
  <2>3. QED
    BY <1>1, <2>1, <2>2, RunnerReplaced
<1>5. QED
  BY <1>3, <1>4

\* A runner whose call raised is idle until its next tick.
LEMMA RunnerRaisesType ==
  ASSUME TInv, NEW r \in Runners, runner[r].st \in {"read", "write"}, RunnerRaises(r),
         cm' \in [Names -> [Roles -> ConfigMap \cup {None}]],
         UNCHANGED <<dep, writeLock, pc, req, target, idx, runnerLock, current,
                     stopping, crashes, requests>>
  PROVE  TInv'
<1> DEFINE me == RunnerIdle(r)
<1>1. /\ runner[r] \in RunnerState /\ runner[r].doc \in Docs /\ runner[r].clock >= 1
      /\ stopping \in SUBSET Runners
  BY DEF TInv, TypeOK, RunnerTyped
<1>2. me \in RunnerState /\ me.st = "wait" /\ me.doc \in Docs /\ me.clock >= 1
  BY <1>1 DEF RunnerIdle, RunnerState
<1>3. runner' = [runner EXCEPT ![r] = me] /\ faults' \in Nat
  BY FaultType DEF RunnerRaises, TInv, TypeOK
<1> HIDE DEF me
<1>4. QED
  BY <1>1, <1>2, <1>3, RunnerReplaced

\* The steps of a runner thread, and of the clock, keep the types.
LEMMA RunnerType ==
  ASSUME TInv, NEW r \in Runners, RunnerThread(r) \/ AdvanceClock(r)
  PROVE  TInv'
<1> USE DEF cluster, threads, bounds
<1>1. /\ runner[r] \in RunnerState /\ RunnerTyped(r) /\ stopping \in SUBSET Runners
      /\ cm \in [Names -> [Roles -> ConfigMap \cup {None}]] /\ faults \in Nat
  BY DEF TInv, TypeOK
<1>2. CASE AdvanceClock(r)
  <2> DEFINE me == [runner[r] EXCEPT !.clock = @ + 1]
  <2>1. /\ me \in RunnerState /\ me.st = runner[r].st /\ me.doc = runner[r].doc
        /\ me.tmpl = runner[r].tmpl /\ me.i = runner[r].i
        /\ me.phase = runner[r].phase /\ me.buf = runner[r].buf
        /\ me.clock = runner[r].clock + 1
    BY <1>1 DEF RunnerState
  <2>2. runner' = [runner EXCEPT ![r] = me]
    BY <1>2 DEF AdvanceClock
  <2> HIDE DEF me
  <2>3. me.clock >= 1
    BY <1>1, <2>1 DEF RunnerState
  <2>4. QED
    BY <1>1, <1>2, <2>1, <2>2, <2>3, RunnerReplaced DEF AdvanceClock, RunnerTyped
<1>3. CASE Tick(r)
  <2>1. /\ runner[r].st = "wait" /\ runner[r].doc \in Docs
        /\ runner[r].clock <= Len(PhaseIds[runner[r].doc])
    BY <1>1, <1>3 DEF Tick, RunnerTyped, PhasesOf
  <2>2. PICK found \in StoredTemplates(DocName[runner[r].doc]) :
          runner' = [runner EXCEPT ![r] =
            [@ EXCEPT !.st = "read", !.phase = runner[r].clock, !.tmpl = found, !.i = 1]]
    BY <1>3 DEF Tick
  <2>3. DocName[runner[r].doc] \in Names
    BY <2>1, DocFacts
  <2>4. found \in Docs
    BY <1>1, <2>2, <2>3 DEF StoredTemplates, ConfigMap
  <2> DEFINE me == [runner[r] EXCEPT !.st = "read", !.phase = runner[r].clock,
                                     !.tmpl = found, !.i = 1]
  <2>5. /\ me \in RunnerState /\ me.st = "read" /\ me.doc = runner[r].doc
        /\ me.tmpl = found /\ me.i = 1 /\ me.phase = runner[r].clock
        /\ me.clock = runner[r].clock /\ runner[r].clock >= 1
    BY <1>1, <2>1, <2>4 DEF RunnerState, RunnerTyped
  <2>6. 1 \in DOMAIN DocRoles[found]
    BY <2>4, DocFacts
  \* The clock of a runner starts at 1 and only grows.
  <2>7. runner[r].clock \in DOMAIN PhaseIds[runner[r].doc]
    BY <1>1, <2>1, DocFacts DEF RunnerState, RunnerTyped
  <2>8. runner' = [runner EXCEPT ![r] = me]
    BY <2>2
  <2> HIDE DEF me
  <2>9. QED
    BY <1>1, <1>3, <2>1, <2>4, <2>5, <2>6, <2>7, <2>8, RunnerReplaced DEF Tick
<1>4. CASE ReadConfig(r)
  <2>1. runner[r].st = "read" /\ faults' \in Nat
    BY <1>1, <1>4, FaultType DEF ReadConfig, RunnerRaises
  <2>2. CASE RunnerNext(r)
    BY <1>1, <1>4, <2>1, <2>2, RunnerNextType DEF ReadConfig
  <2>3. CASE /\ RunnerConfig(r) # None
             /\ runner' = [runner EXCEPT ![r] =
                  [@ EXCEPT !.st = "write", !.buf = RunnerConfig(r)]]
    <3> DEFINE me == [runner[r] EXCEPT !.st = "write", !.buf = RunnerConfig(r)]
    <3>1. /\ runner[r].doc \in Docs /\ runner[r].tmpl \in Docs /\ runner[r].clock >= 1
          /\ runner[r].i \in DOMAIN DocRoles[runner[r].tmpl]
          /\ runner[r].phase \in DOMAIN PhaseIds[runner[r].doc]
      BY <1>1, <2>1 DEF RunnerTyped
    <3>2. RunnerConfig(r) \in ConfigMap
      <4>1. RunnerRole(r) \in Roles
        BY <3>1, DocFacts DEF RunnerRole
      <4>2. DocName[runner[r].doc] \in Names
        BY <3>1, DocFacts
      <4>3. cm[DocName[runner[r].doc]][RunnerRole(r)] \in ConfigMap \cup {None}
        BY <1>1, <4>1, <4>2
      <4>4. QED
        BY <2>3, <4>3 DEF RunnerConfig
    <3>3. /\ me \in RunnerState /\ me.st = "write" /\ me.buf \in ConfigMap
          /\ me.doc = runner[r].doc /\ me.tmpl = runner[r].tmpl
          /\ me.i = runner[r].i /\ me.phase = runner[r].phase
          /\ me.clock = runner[r].clock
      BY <1>1, <3>2 DEF RunnerState
    <3>4. runner' = [runner EXCEPT ![r] = me]
      BY <2>3
    <3> HIDE DEF me
    <3>5. QED
      BY <1>1, <1>4, <2>1, <3>1, <3>3, <3>4, RunnerReplaced DEF ReadConfig
  <2>4. CASE RunnerRaises(r)
    BY <1>1, <1>4, <2>1, <2>4, RunnerRaisesType DEF ReadConfig
  <2>5. QED
    BY <1>4, <2>2, <2>3, <2>4 DEF ReadConfig
<1>5. CASE WriteConfig(r)
  <2>1. runner[r].st = "write" /\ faults' \in Nat
    BY <1>1, <1>5, FaultType DEF WriteConfig, RunnerRaises
  <2>2. cm' \in [Names -> [Roles -> ConfigMap \cup {None}]]
    <3>1. CASE UNCHANGED cm
      BY <1>1, <3>1
    <3>2. CASE RunnerConfig(r) # None /\ ~UNCHANGED cm
      <4> DEFINE name == DocName[runner[r].doc]
                 new == [cm[name][RunnerRole(r)] EXCEPT
                           !.load = runner[r].buf.load,
                           !.peers = runner[r].buf.peers,
                           !.x = [graph |-> runner[r].tmpl, src |-> runner[r].doc,
                                  phase |-> runner[r].phase]]
      <4>1. /\ runner[r].doc \in Docs /\ runner[r].tmpl \in Docs
            /\ runner[r].i \in DOMAIN DocRoles[runner[r].tmpl]
            /\ runner[r].phase \in Nat /\ runner[r].buf \in ConfigMap
        BY <1>1, <2>1 DEF RunnerTyped, RunnerState
      <4>2. name \in Names /\ RunnerRole(r) \in Roles
        BY <4>1, DocFacts DEF RunnerRole
      <4>3. cm[name][RunnerRole(r)] \in ConfigMap
        BY <1>1, <3>2, <4>2 DEF RunnerConfig
      <4>4. new \in ConfigMap
        BY <4>1, <4>3 DEF ConfigMap, X
      <4>5. cm' = [cm EXCEPT ![name][RunnerRole(r)] = new]
        BY <1>5, <3>2 DEF WriteConfig, ConfigWritten, RunnerConfig
      <4> HIDE DEF name, new
      <4>6. QED
        BY <1>1, <4>2, <4>4, <4>5
    <3>3. QED
      BY <1>5, <3>1, <3>2 DEF WriteConfig, ConfigWritten
  <2>3. CASE RunnerNext(r)
    BY <1>1, <1>5, <2>1, <2>2, <2>3, RunnerNextType DEF WriteConfig
  <2>4. CASE RunnerRaises(r)
    BY <1>1, <1>5, <2>1, <2>2, <2>4, RunnerRaisesType DEF WriteConfig
  <2>5. QED
    BY <1>5, <2>3, <2>4 DEF WriteConfig
<1>6. CASE RunnerExit(r)
  <2>1. RunnerOff \in RunnerState /\ RunnerOff.st = "off"
    BY DEF RunnerOff, RunnerState
  <2>2. QED
    BY <1>1, <1>6, <2>1, RunnerReplaced DEF RunnerExit
<1>7. QED
  BY <1>2, <1>3, <1>4, <1>5, <1>6 DEF RunnerThread

LEMMA TypeStep == TInv /\ [Next]_vars => TInv'
<1>1. SUFFICES ASSUME TInv, [Next]_vars PROVE TInv'
  OBVIOUS
<1>2. ASSUME NEW t \in Threads, Request(t) PROVE TInv'
  <2>1. "config" \in PCs /\ "stop" \in PCs /\ faults \in Nat
    BY <1>1 DEF PCs, TInv, TypeOK
  <2>2. ASSUME NEW d \in Docs, PostTemplate(t, d) PROVE TInv'
    BY <1>1, <2>1, <2>2, AcceptType, FaultType, DocFacts DEF PostTemplate
  <2>3. ASSUME NEW d \in Docs, PatchTemplate(t, d) PROVE TInv'
    BY <1>1, <2>1, <2>3, AcceptType, DocFacts DEF PatchTemplate
  <2>4. ASSUME NEW n \in Names, DeleteTemplate(t, n) PROVE TInv'
    BY <1>1, <2>1, <2>4, AcceptType DEF DeleteTemplate
  <2>5. QED
    BY <1>2, <2>2, <2>3, <2>4 DEF Request
<1>3. CASE Crash
  <2>1. RunnerOff \in RunnerState /\ RunnerOff.st = "off"
    BY DEF RunnerOff, RunnerState
  <2>2. TypeOK'
    BY <1>1, <1>3, <2>1 DEF Crash, TInv, TypeOK, PCs, Materialising, cluster
  <2>3. QED
    BY <1>3, <2>1, <2>2 DEF Crash, TInv, Starting, TearingDown, RunnerTyped
<1>4. CASE UNCHANGED vars
  BY <1>1, <1>4 DEF vars, cluster, threads, scenario, bounds, TInv, TypeOK, LoopTyped,
                    RunnerTyped
<1>5. QED
  BY <1>1, <1>2, <1>3, <1>4, HandlerType, RunnerType DEF Next

\* Every variable keeps its type, whatever is posted and whatever fails; in
\* particular the role loops of materialise() and of the runner never leave
\* the documents' role lists.
THEOREM TypeCorrect == Spec => []TypeOK
<1>1. Init => TInv
  BY InitTInv
<1>2. TInv /\ [Next]_vars => TInv'
  BY TypeStep
<1>3. TInv => TypeOK
  BY DEF TInv
<1>4. QED
  BY <1>1, <1>2, <1>3, PTL DEF Spec

-----------------------------------------------------------------------------
(* The write lock *)

LockInv == \A t \in Threads : writeLock = t <=> pc[t] \in Critical

\* A thread that is not inside the lock touches neither the cluster nor the
\* lock; a step moves only the thread that takes it.
LEMMA HandlerFrame ==
  ASSUME TInv, NEW t \in Threads, Handler(t)
  PROVE  /\ pc[t] \in Critical \cup Starting
         /\ pc[t] \in Starting => UNCHANGED <<cm, dep, writeLock>> /\ pc'[t] \notin Critical
         /\ pc[t] \in Critical =>
              \/ /\ writeLock' = writeLock /\ pc'[t] \in Critical
                 /\ req'[t] = req[t] /\ target'[t] = target[t]
              \/ writeLock' = None /\ pc'[t] \notin Critical
         /\ \A s \in Threads \ {t} : /\ pc'[s] = pc[s] /\ req'[s] = req[s]
                                     /\ target'[s] = target[s] /\ idx'[s] = idx[s]
         /\ \A n \in Names \ {target[t]} : cm'[n] = cm[n] /\ dep'[n] = dep[n]
<1> USE DEF Critical, Starting, Materialising, TearingDown, cluster, threads, scenario,
            Goto, Return
<1>1. /\ pc \in [Threads -> PCs] /\ req \in [Threads -> Docs \cup {None}]
      /\ target \in [Threads -> Names \cup {None}] /\ idx \in [Threads -> Nat]
      /\ cm \in [Names -> [Roles -> ConfigMap \cup {None}]]
      /\ dep \in [Names -> SUBSET Roles]
  BY DEF TInv, TypeOK
<1>2. CASE ApplyConfigMap(t)
  BY <1>1, <1>2 DEF ApplyConfigMap, ConfigMapApplied, Abort
<1>3. CASE ApplyWorkload(t)
  BY <1>1, <1>3 DEF ApplyWorkload, WorkloadApplied, NextRole, Abort
<1>4. CASE PatchPeers(t)
  BY <1>1, <1>4 DEF PatchPeers, PeersPatched, NextRole, Abort
<1>5. CASE FinishMaterialise(t)
  BY <1>1, <1>5 DEF FinishMaterialise
<1>6. CASE RunnerStart(t)
  BY <1>1, <1>6 DEF RunnerStart, SignalStop
<1>7. CASE RunnerStartJoin(t)
  BY <1>1, <1>7 DEF RunnerStartJoin
<1>8. CASE RunnerStop(t)
  BY <1>1, <1>8 DEF RunnerStop, SignalStop
<1>9. CASE RunnerStopJoin(t)
  BY <1>1, <1>9 DEF RunnerStopJoin
<1>10. CASE DeleteWorkloads(t)
  BY <1>1, <1>10 DEF DeleteWorkloads, WorkloadsDeleted, Abort
<1>11. CASE DeleteConfigMaps(t)
  BY <1>1, <1>11 DEF DeleteConfigMaps, ConfigMapsDeleted
<1>12. QED
  BY <1>2, <1>3, <1>4, <1>5, <1>6, <1>7, <1>8, <1>9, <1>10, <1>11 DEF Handler

\* A runner changes no program point of a request and no lock; it patches
\* configs that exist and leaves their template annotation.
LEMMA RunnerFrame ==
  ASSUME TInv, NEW r \in Runners, RunnerThread(r) \/ AdvanceClock(r)
  PROVE  /\ UNCHANGED <<dep, writeLock, pc, req, target, idx, runnerLock, current>>
         /\ \A n \in Names : \A role \in Roles :
              /\ cm'[n][role] = None <=> cm[n][role] = None
              /\ cm[n][role] # None => cm'[n][role].tmpl = cm[n][role].tmpl
<1> USE DEF cluster, threads, bounds
<1>1. cm \in [Names -> [Roles -> ConfigMap \cup {None}]] /\ RunnerTyped(r)
  BY DEF TInv, TypeOK
<1>2. CASE UNCHANGED cm
  BY <1>2 DEF RunnerThread, AdvanceClock, Tick, ReadConfig, WriteConfig, RunnerExit
<1>3. CASE ~UNCHANGED cm
  <2>1. WriteConfig(r) /\ runner[r].st = "write" /\ RunnerConfig(r) # None
    BY <1>3 DEF RunnerThread, AdvanceClock, Tick, ReadConfig, WriteConfig, ConfigWritten,
                RunnerExit
  <2> DEFINE name == DocName[runner[r].doc]
             new == [cm[name][RunnerRole(r)] EXCEPT
                       !.load = runner[r].buf.load, !.peers = runner[r].buf.peers,
                       !.x = [graph |-> runner[r].tmpl, src |-> runner[r].doc,
                              phase |-> runner[r].phase]]
  <2>2. /\ runner[r].doc \in Docs /\ runner[r].tmpl \in Docs
        /\ runner[r].i \in DOMAIN DocRoles[runner[r].tmpl]
    BY <1>1, <2>1 DEF RunnerTyped
  <2>3. name \in Names /\ RunnerRole(r) \in Roles
    BY <2>2, DocFacts DEF RunnerRole
  <2>4. cm[name][RunnerRole(r)] \in ConfigMap
    BY <1>1, <2>1, <2>3 DEF RunnerConfig
  <2>5. /\ new.tmpl = cm[name][RunnerRole(r)].tmpl
        /\ DOMAIN new = DOMAIN cm[name][RunnerRole(r)]
    BY <2>4 DEF ConfigMap
  <2>6. new # None
    <3>1. runner[r].buf \in ConfigMap /\ runner[r].phase \in Nat
      BY <1>1, <2>1 DEF RunnerTyped, TInv, TypeOK, RunnerState
    <3>2. new \in ConfigMap
      BY <2>2, <2>4, <3>1 DEF ConfigMap, X
    <3> HIDE DEF new
    <3>3. QED
      BY <3>2, NoneAssumption
  <2>7. cm' = [cm EXCEPT ![name][RunnerRole(r)] = new]
    BY <1>3, <2>1 DEF WriteConfig, ConfigWritten, RunnerConfig
  <2> HIDE DEF name, new
  <2>8. \A n \in Names : \A role \in Roles :
          cm'[n][role] = IF n = name /\ role = RunnerRole(r) THEN new ELSE cm[n][role]
    BY <1>1, <2>3, <2>7
  <2>9. QED
    BY <2>1, <2>4, <2>5, <2>6, <2>8, NoneAssumption DEF WriteConfig
<1>4. QED
  BY <1>2, <1>3

LEMMA LockStep == TInv /\ LockInv /\ [Next]_vars => LockInv'
<1>1. SUFFICES ASSUME TInv, LockInv, [Next]_vars PROVE LockInv'
  OBVIOUS
<1>2. ASSUME NEW t \in Threads, Request(t) PROVE LockInv'
  <2>1. PICK label, n, d : label \in {"config", "stop"} /\ Accept(t, label, n, d)
    BY <1>2 DEF Request, PostTemplate, PatchTemplate, DeleteTemplate
  <2>2. /\ writeLock = None /\ writeLock' = t /\ pc' = [pc EXCEPT ![t] = label]
    BY <2>1 DEF Accept, Goto
  <2>3. label \in Critical
    BY <2>1 DEF Critical, Materialising, TearingDown
  <2>4. QED
    BY <1>1, <2>2, <2>3, NoneAssumption DEF LockInv, TInv, TypeOK
<1>3. ASSUME NEW t \in Threads, Handler(t) PROVE LockInv'
  <2>1. Critical \cap Starting = {}
    BY DEF Critical, Starting, Materialising, TearingDown
  <2>2. QED
    BY <1>1, <1>3, <2>1, HandlerFrame, NoneAssumption DEF LockInv
<1>4. ASSUME NEW r \in Runners, RunnerThread(r) \/ AdvanceClock(r) PROVE LockInv'
  BY <1>1, <1>4, RunnerFrame DEF LockInv
<1>5. CASE Crash
  BY <1>5, NoneAssumption DEF Crash, LockInv, Critical, Materialising, TearingDown
<1>6. CASE UNCHANGED vars
  BY <1>1, <1>6 DEF vars, threads, LockInv
<1>7. QED
  BY <1>1, <1>2, <1>3, <1>4, <1>5, <1>6 DEF Next

LEMMA InitLock == Init => LockInv
BY NoneAssumption DEF Init, LockInv, Critical, Materialising, TearingDown

\* A thread inside the lock is alone: any other step leaves its variables and
\* what exists in the cluster.
LEMMA Alone ==
  ASSUME TInv, LockInv, [Next]_vars, NEW t \in Threads, writeLock = t,
         ~Handler(t), ~Crash
  PROVE  /\ pc'[t] = pc[t] /\ req'[t] = req[t] /\ target'[t] = target[t] /\ idx'[t] = idx[t]
         /\ UNCHANGED <<dep, writeLock>>
         /\ \A n \in Names : \A role \in Roles :
              /\ cm'[n][role] = None <=> cm[n][role] = None
              /\ cm[n][role] # None => cm'[n][role].tmpl = cm[n][role].tmpl
<1>1. ASSUME NEW s \in Threads, Request(s) PROVE FALSE
  BY <1>1, NoneAssumption DEF Request, PostTemplate, PatchTemplate, DeleteTemplate, Accept
<1>2. ASSUME NEW s \in Threads, Handler(s)
      PROVE  /\ pc'[t] = pc[t] /\ req'[t] = req[t] /\ target'[t] = target[t]
             /\ idx'[t] = idx[t] /\ UNCHANGED <<cm, dep, writeLock>>
  <2>1. s # t /\ pc[s] \notin Critical
    BY <1>2 DEF LockInv
  <2>2. QED
    BY <1>2, <2>1, HandlerFrame
<1>3. ASSUME NEW r \in Runners, RunnerThread(r) \/ AdvanceClock(r)
      PROVE  /\ UNCHANGED <<dep, writeLock, pc, req, target, idx>>
             /\ \A n \in Names : \A role \in Roles :
                  /\ cm'[n][role] = None <=> cm[n][role] = None
                  /\ cm[n][role] # None => cm'[n][role].tmpl = cm[n][role].tmpl
  BY <1>3, RunnerFrame
<1>4. CASE UNCHANGED vars
  BY <1>4 DEF vars, threads, cluster
<1>5. QED
  BY <1>1, <1>2, <1>3, <1>4 DEF Next

-----------------------------------------------------------------------------
(* One template *)

CoreInv == TInv /\ LockInv

LEMMA InitCore == Init => CoreInv
BY InitTInv, InitLock DEF CoreInv

LEMMA CoreStep == CoreInv /\ [Next]_vars => CoreInv'
BY TypeStep, LockStep DEF CoreInv

\* ConfigMaps come and go only for the template of the lock's holder.
LEMMA OnlyWriter ==
  ASSUME CoreInv, [Next]_vars, NEW n \in Names, NEW role \in Roles,
         (cm[n][role] = None) # (cm'[n][role] = None)
  PROVE  writeLock \in Threads /\ Handler(writeLock) /\ target[writeLock] = n
<1>1. ASSUME NEW t \in Threads, Request(t) PROVE UNCHANGED cm
  BY <1>1 DEF Request, PostTemplate, PatchTemplate, DeleteTemplate, Accept, cluster
<1>2. ASSUME NEW r \in Runners, RunnerThread(r) \/ AdvanceClock(r) PROVE FALSE
  BY <1>2, RunnerFrame DEF CoreInv
<1>3. Crash \/ UNCHANGED vars => UNCHANGED cm
  BY DEF Crash, vars, cluster
<1>4. PICK t \in Threads : Handler(t)
  BY <1>1, <1>2, <1>3 DEF Next
<1>5. n = target[t] /\ pc[t] \in Critical
  BY <1>4, HandlerFrame DEF CoreInv
<1>6. writeLock = t
  BY <1>5 DEF CoreInv, LockInv
<1>7. QED
  BY <1>4, <1>5, <1>6

\* The check-then-act of POST and DELETE is atomic for the set of ConfigMaps:
\* they are created and deleted only under the write lock, only for the name
\* its holder works on.  A runner late for a DELETE brings nothing back.
THEOREM CheckThenActAtomic == Spec => OnlyWriterCreatesAndDeletes
<1>1. CoreInv /\ [Next]_vars =>
        [\A n \in Names : \A role \in Roles :
           (cm[n][role] = None) # (cm'[n][role] = None)
             => writeLock # None /\ target[writeLock] = n]_vars
  BY OnlyWriter, NoneAssumption
<1>2. QED
  BY <1>1, InitCore, CoreStep, PTL DEF Spec, OnlyWriterCreatesAndDeletes

\* No ConfigMap of another template exists while a writer is at work.
OneName ==
  /\ AtMostOneTemplate
  /\ writeLock # None => Managed \subseteq {target[writeLock]}

\* A request that is accepted takes the lock for a name that may be worked on.
LEMMA RequestAccepted ==
  ASSUME "list" \notin FaultKinds, CoreInv, NEW t \in Threads, Request(t)
  PROVE  /\ writeLock = None /\ writeLock' = t /\ UNCHANGED cm
         /\ target'[t] \in Names /\ Managed \subseteq {target'[t]}
<1>1. ASSUME NEW label, NEW n \in Names, NEW d, Accept(t, label, n, d)
      PROVE  writeLock = None /\ writeLock' = t /\ UNCHANGED cm /\ target'[t] = n
  BY <1>1 DEF Accept, CoreInv, TInv, TypeOK, cluster
<1>2. ASSUME NEW d \in Docs, PostTemplate(t, d)
      PROVE  Managed \subseteq {DocName[d]} /\ Accept(t, "config", DocName[d], d)
  BY <1>2 DEF PostTemplate, NoConflict, Fault
<1>3. ASSUME NEW d \in Docs, PatchTemplate(t, d)
      PROVE  Managed \subseteq {DocName[d]} /\ Accept(t, "config", DocName[d], d)
  BY <1>3 DEF PatchTemplate
<1>4. ASSUME NEW n \in Names, DeleteTemplate(t, n)
      PROVE  Managed \subseteq {n} /\ Accept(t, "stop", n, None)
  BY <1>4 DEF DeleteTemplate
<1>5. \A d \in Docs : DocName[d] \in Names
  BY DocFacts
<1>6. QED
  BY <1>1, <1>2, <1>3, <1>4, <1>5 DEF Request

\* Nothing but a request takes the lock, and its holder keeps to its name.
LEMMA LockKept ==
  ASSUME CoreInv, [Next]_vars, \A t \in Threads : ~Request(t)
  PROVE  /\ writeLock = None => writeLock' = None
         /\ writeLock # None => writeLock \in Threads /\ target[writeLock] \in Names
         /\ writeLock # None =>
              \/ writeLock' = None
              \/ writeLock' = writeLock /\ target'[writeLock] = target[writeLock]
<1>1. CASE writeLock = None
  <2>1. ASSUME NEW t \in Threads, Handler(t) PROVE writeLock' = None
    BY <1>1, <2>1, HandlerFrame DEF CoreInv
  <2>2. ASSUME NEW r \in Runners, RunnerThread(r) \/ AdvanceClock(r)
        PROVE  writeLock' = None
    BY <1>1, <2>2, RunnerFrame DEF CoreInv
  <2>3. QED
    BY <1>1, <2>1, <2>2 DEF Next, Crash, vars
<1>2. CASE writeLock # None
  <2>1. writeLock \in Threads
    BY <1>2 DEF CoreInv, TInv, TypeOK
  <2>2. pc[writeLock] \in Materialising \/ pc[writeLock] \in TearingDown
    BY <2>1 DEF CoreInv, LockInv, Critical
  <2>3. target[writeLock] \in Names
    BY <2>1, <2>2, DocFacts DEF CoreInv, TInv, TypeOK, LoopTyped
  <2>4. CASE Handler(writeLock)
    BY <2>1, <2>3, <2>4, HandlerFrame DEF CoreInv, LockInv
  <2>5. CASE Crash
    BY <2>1, <2>3, <2>5 DEF Crash
  <2>6. CASE ~Handler(writeLock) /\ ~Crash
    BY <1>2, <2>1, <2>3, <2>6, Alone DEF CoreInv
  <2>7. QED
    BY <2>4, <2>5, <2>6
<1>3. QED
  BY <1>1, <1>2

\* What comes to be managed or ceases to be is the name of the lock's holder.
LEMMA ManagedChange ==
  ASSUME CoreInv, [Next]_vars, NEW n, (n \in Managed) # (n \in Managed')
  PROVE  writeLock \in Threads /\ n \in Names /\ n = target[writeLock]
<1>1. PICK role \in Roles : (cm[n][role] = None) # (cm'[n][role] = None)
  BY DEF Managed
<1>2. n \in Names
  BY DEF Managed
<1>3. QED
  BY <1>1, <1>2, OnlyWriter

LEMMA OneNameStep ==
  ASSUME "list" \notin FaultKinds, CoreInv, OneName, [Next]_vars
  PROVE  OneName'
<1>1. ASSUME NEW t \in Threads, Request(t) PROVE OneName'
  <2>1. Managed' = Managed
    BY <1>1, RequestAccepted DEF Managed
  <2>2. QED
    BY <1>1, <2>1, RequestAccepted DEF OneName, AtMostOneTemplate
<1>2. CASE writeLock = None /\ \A t \in Threads : ~Request(t)
  <2>1. Managed' \subseteq Managed
    BY <1>2, ManagedChange, NoneAssumption
  <2>2. QED
    BY <1>2, <2>1, LockKept DEF OneName, AtMostOneTemplate
<1>3. CASE writeLock # None /\ \A t \in Threads : ~Request(t)
  <2>1. Managed' \subseteq {target[writeLock]}
    BY <1>3, ManagedChange DEF OneName
  <2>2. QED
    BY <1>3, <2>1, LockKept DEF OneName, AtMostOneTemplate
<1>4. QED
  BY <1>1, <1>2, <1>3

\* "One controller manages exactly ONE template": as long as list_managed
\* gets its answer, no two names ever have ConfigMaps, whatever else fails and
\* wherever the controller is restarted.
THEOREM SingleTemplate ==
  ASSUME "list" \notin FaultKinds PROVE Spec => []AtMostOneTemplate
<1>1. Init => OneName
  BY DEF Init, OneName, AtMostOneTemplate, Managed
<1>2. CoreInv /\ OneName /\ [Next]_vars => OneName'
  BY OneNameStep
<1>3. OneName => AtMostOneTemplate
  BY DEF OneName
<1>4. QED
  BY <1>1, <1>2, <1>3, InitCore, CoreStep, PTL DEF Spec

-----------------------------------------------------------------------------
(* The abstract slot *)

\* list_managed finds the one name there is, or none.
LEMMA ManagedNameIs ==
  ASSUME OneName
  PROVE  /\ ManagedName = None <=> Managed = {}
         /\ \A n \in Managed : ManagedName = n
<1>1. Managed \subseteq Names
  BY DEF Managed
<1>2. QED
  BY <1>1, SlotAssumption DEF OneName, AtMostOneTemplate, ManagedName

\* A request accepted is Accept, a change of what is managed is Fill or Empty
\* by the holder, the end of a handler is Release, and the rest stutters.
LEMMA SlotStep ==
  ASSUME "list" \notin FaultKinds, CoreInv, OneName, OneName', [Next]_vars
  PROVE  [Slot!Next]_<<ManagedName, LockedName>>
<1>1. ASSUME NEW t \in Threads, Request(t) PROVE Slot!Next
  <2>1. LockedName = None /\ LockedName' = target'[t]
    BY <1>1, RequestAccepted, NoneAssumption DEF LockedName
  <2>2. Managed' = Managed /\ ManagedName' = ManagedName
    BY <1>1, RequestAccepted DEF Managed, ManagedName
  <2>3. ManagedName \in {None, target'[t]}
    BY <1>1, RequestAccepted, ManagedNameIs
  <2>4. Slot!Accept(target'[t])
    BY <2>1, <2>2, <2>3 DEF Slot!Accept
  <2>5. QED
    BY <1>1, <2>4, RequestAccepted DEF Slot!Next
<1>2. CASE \A t \in Threads : ~Request(t)
  <2>1. /\ LockedName # None <=> writeLock # None
        /\ LockedName = None => LockedName' = None
        /\ LockedName' \in {LockedName, None}
    BY <1>2, LockKept, SlotAssumption, NoneAssumption DEF LockedName
  <2>2. CASE Managed' = Managed
    <3>1. ManagedName' = ManagedName
      BY <2>2 DEF ManagedName
    <3>2. CASE LockedName' = LockedName
      BY <3>1, <3>2
    <3>3. CASE LockedName' # LockedName
      BY <2>1, <3>1, <3>3 DEF Slot!Next, Slot!Release
    <3>4. QED
      BY <3>2, <3>3
  <2>3. CASE Managed' # Managed
    <3>1. PICK n : (n \in Managed) # (n \in Managed')
      BY <2>3
    <3>2. writeLock \in Threads /\ n \in Names /\ LockedName = n /\ writeLock # None
      BY <3>1, ManagedChange, NoneAssumption DEF LockedName
    <3>3. Managed \subseteq {n} /\ Managed' \subseteq {n}
      BY <3>2, ManagedChange DEF OneName, LockedName
    <3>4. CASE n \in Managed'
      <4>1. ManagedName = None
        BY <3>1, <3>3, <3>4, ManagedNameIs
      <4>2. ManagedName' = n
        BY <3>3, <3>4 DEF ManagedName
      <4>3. QED
        BY <2>1, <3>2, <4>1, <4>2 DEF Slot!Next, Slot!Fill
    <3>5. CASE n \in Managed
      <4>1. ManagedName = n
        BY <3>5, ManagedNameIs
      <4>2. ManagedName' = None
        BY <3>1, <3>3, <3>5 DEF ManagedName
      <4>3. QED
        BY <2>1, <3>2, <4>1, <4>2 DEF Slot!Next, Slot!Empty
    <3>6. QED
      BY <3>1, <3>4, <3>5
  <2>4. QED
    BY <2>2, <2>3
<1>3. QED
  BY <1>1, <1>2

\* The whole controller, with its threads, runners, failures and restarts, is
\* one slot that one request at a time may fill or empty: the promise of the
\* API ("one controller manages exactly ONE template") holds step by step, as
\* long as list_managed gets its answer.
THEOREM SlotImplemented ==
  ASSUME "list" \notin FaultKinds PROVE Spec => ImplementsSlot
<1>1. Init => OneName
  BY DEF Init, OneName, AtMostOneTemplate, Managed
<1>2. Init => Slot!Init
  BY DEF Init, Slot!Init, ManagedName, LockedName, Managed
<1>3. CoreInv /\ OneName /\ [Next]_vars => OneName'
  BY OneNameStep
<1>4. CoreInv /\ OneName /\ OneName' /\ [Next]_vars
        => [Slot!Next]_<<ManagedName, LockedName>>
  BY SlotStep
<1>5. QED
  BY <1>1, <1>2, <1>3, <1>4, InitCore, CoreStep, PTL DEF Spec, ImplementsSlot, Slot!Spec

-----------------------------------------------------------------------------
(* What materialise() leaves behind *)

\* Role i of the thread's document carries its annotation.
Annotated(t, i) ==
  LET role == DocRoles[req[t]][i] IN
  cm[target[t]][role] # None /\ cm[target[t]][role].tmpl = req[t]

\* Phase 1 is done with role i.
Applied(t, i) == Annotated(t, i) /\ DocRoles[req[t]][i] \in dep[target[t]]

Progress(t) ==
  /\ pc[t] \in {"config", "workload"} => \A i \in 1..(idx[t] - 1) : Applied(t, i)
  /\ pc[t] = "workload" => Annotated(t, idx[t])
  /\ pc[t] \in {"peers", "finish"} => \A i \in DOMAIN DocRoles[req[t]] : Applied(t, i)

LEMMA ProgressHandler ==
  ASSUME CoreInv, NEW t \in Threads, Progress(t), Handler(t)
  PROVE  Progress(t)'
<1> USE DEF Goto, cluster, threads
<1>1. /\ pc \in [Threads -> PCs] /\ idx \in [Threads -> Nat]
      /\ cm \in [Names -> [Roles -> ConfigMap \cup {None}]]
      /\ dep \in [Names -> SUBSET Roles]
  BY DEF CoreInv, TInv, TypeOK
<1> DEFINE d == req[t]
           n == target[t]
<1>2. ASSUME pc[t] \in Materialising
      PROVE  /\ d \in Docs /\ n \in Names /\ n = DocName[d]
             /\ DOMAIN DocRoles[d] = 1..Len(DocRoles[d]) /\ Len(DocRoles[d]) \in Nat
             /\ idx[t] \in 1..Len(DocRoles[d])
             /\ \A i \in 1..Len(DocRoles[d]) : DocRoles[d][i] \in Roles
  BY <1>2, DocFacts DEF CoreInv, TInv, TypeOK, LoopTyped
<1>3. CASE pc'[t] \notin Materialising
  BY <1>3 DEF Progress, Materialising
<1>4. CASE ApplyConfigMap(t) /\ pc'[t] \in Materialising
  <2>1. pc[t] = "config" /\ pc'[t] = "workload" /\ UNCHANGED <<dep, req, target, idx>>
        /\ ConfigMapApplied(t)
    BY <1>1, <1>4 DEF ApplyConfigMap, Abort, Return, Materialising
  <2> DEFINE new == [tmpl |-> d, load |-> d, x |-> InitialX(d), peers |-> None]
  <2>2. new \in ConfigMap /\ new.tmpl = d
    BY <1>2, <2>1, DocFacts DEF ConfigMap, Materialising
  <2> HIDE DEF new
  <2>3. \A role \in Roles : cm'[n][role] = IF role = RoleAt(t) THEN new ELSE cm[n][role]
    BY <1>1, <1>2, <2>1 DEF ConfigMapApplied, new, Materialising
  <2>4. Annotated(t, idx[t])'
    BY <1>2, <2>1, <2>2, <2>3, NoneAssumption DEF Annotated, RoleAt, Materialising
  <2>5. \A i \in 1..(idx[t] - 1) : Applied(t, i)'
    <3>1. SUFFICES ASSUME NEW i \in 1..(idx[t] - 1) PROVE Applied(t, i)'
      OBVIOUS
    <3>2. i \in 1..Len(DocRoles[d]) /\ Applied(t, i)
      BY <1>2, <2>1, <3>1 DEF Progress, Materialising
    <3>3. QED
      BY <1>2, <2>1, <2>2, <2>3, <3>2, NoneAssumption DEF Applied, Annotated, Materialising
  <2>6. QED
    BY <2>1, <2>4, <2>5 DEF Progress
<1>5. CASE ApplyWorkload(t) /\ pc'[t] \in Materialising
  <2>1. pc[t] = "workload" /\ UNCHANGED <<cm, req, target>> /\ WorkloadApplied(t)
        /\ NextRole(t, "config", "peers")
    BY <1>1, <1>5 DEF ApplyWorkload, Abort, Return, Materialising
  <2>2. dep'[n] = dep[n] \cup {RoleAt(t)}
    BY <1>1, <1>2, <2>1 DEF WorkloadApplied, Materialising
  <2>3. \A i \in 1..idx[t] : Applied(t, i)'
    <3>1. SUFFICES ASSUME NEW i \in 1..idx[t] PROVE Applied(t, i)'
      OBVIOUS
    <3>2. CASE i = idx[t]
      BY <2>1, <2>2, <3>2 DEF Progress, Applied, Annotated, RoleAt
    <3>3. CASE i # idx[t]
      <4>1. i \in 1..(idx[t] - 1)
        BY <1>2, <2>1, <3>1, <3>3 DEF Materialising
      <4>2. QED
        BY <2>1, <2>2, <4>1 DEF Progress, Applied, Annotated
    <3>4. QED
      BY <3>2, <3>3
  <2>4. CASE idx[t] < Len(DocRoles[d])
    <3>1. pc'[t] = "config" /\ idx'[t] = idx[t] + 1
      BY <1>1, <2>1, <2>4 DEF NextRole
    <3>2. 1..(idx'[t] - 1) = 1..idx[t]
      BY <1>1, <3>1
    <3>3. QED
      BY <2>3, <3>1, <3>2 DEF Progress
  <2>5. CASE ~(idx[t] < Len(DocRoles[d]))
    <3>1. pc'[t] = "peers" /\ DOMAIN DocRoles[d] = 1..idx[t]
      BY <1>1, <1>2, <2>1, <2>5 DEF NextRole, Materialising
    <3>2. QED
      BY <2>1, <2>3, <3>1 DEF Progress
  <2>6. QED
    BY <2>4, <2>5
<1>6. CASE PatchPeers(t) /\ Abort(t)
  <2>1. pc'[t] \notin Materialising
    BY <1>1, <1>6 DEF Abort, Return, Materialising
  <2>2. QED
    BY <1>3, <2>1
<1>7. CASE PatchPeers(t) /\ ~Abort(t)
  <2>1. pc[t] = "peers" /\ UNCHANGED <<dep, req, target>> /\ pc'[t] \in {"peers", "finish"}
    BY <1>1, <1>7 DEF PatchPeers, NextRole
  <2>2. \A role \in Roles : cm[n][role] # None =>
          cm'[n][role] # None /\ cm'[n][role].tmpl = cm[n][role].tmpl
    <3>1. CASE UNCHANGED cm
      BY <3>1
    <3>2. CASE ~UNCHANGED cm
      <4> DEFINE new == [cm[n][RoleAt(t)] EXCEPT !.load = d, !.x = InitialX(d), !.peers = d]
      <4>1. cm[n][RoleAt(t)] # None /\ cm' = [cm EXCEPT ![n][RoleAt(t)] = new]
        BY <1>7, <3>2 DEF PatchPeers, PeersPatched
      <4>2. cm[n][RoleAt(t)] \in ConfigMap
        BY <1>1, <1>2, <2>1, <4>1 DEF RoleAt, Materialising
      <4>3. new \in ConfigMap /\ new.tmpl = cm[n][RoleAt(t)].tmpl
        BY <1>2, <2>1, <4>2, DocFacts DEF ConfigMap, Materialising
      <4> HIDE DEF new
      <4>4. QED
        BY <1>1, <1>2, <2>1, <4>1, <4>3, NoneAssumption DEF Materialising
    <3>3. QED
      BY <3>1, <3>2
  <2>3. QED
    BY <1>2, <2>1, <2>2 DEF Progress, Applied, Annotated, Materialising
<1>8. CASE ~ApplyConfigMap(t) /\ ~ApplyWorkload(t) /\ ~PatchPeers(t)
  <2>1. pc'[t] \notin Materialising
    BY <1>1, <1>8 DEF Handler, FinishMaterialise, RunnerStart, RunnerStartJoin, RunnerStop,
      RunnerStopJoin, DeleteWorkloads, DeleteConfigMaps, SignalStop, Abort, Return,
      Materialising
  <2>2. QED
    BY <1>3, <2>1
<1>9. QED
  BY <1>3, <1>4, <1>5, <1>6, <1>7, <1>8

LEMMA ProgressStep ==
  ASSUME CoreInv, \A t \in Threads : Progress(t), [Next]_vars, NEW t \in Threads
  PROVE  Progress(t)'
<1>1. CASE Handler(t)
  BY <1>1, ProgressHandler
<1>2. CASE Crash
  BY <1>2 DEF Crash, Progress
<1>3. CASE ~Handler(t) /\ ~Crash /\ writeLock = t
  <2>1. /\ pc'[t] = pc[t] /\ req'[t] = req[t] /\ target'[t] = target[t] /\ idx'[t] = idx[t]
        /\ UNCHANGED dep
        /\ \A n \in Names : \A role \in Roles :
             cm[n][role] # None =>
               cm'[n][role] # None /\ cm'[n][role].tmpl = cm[n][role].tmpl
    BY <1>3, Alone DEF CoreInv
  <2>2. CASE pc[t] \in Materialising
    <3>1. /\ req[t] \in Docs /\ target[t] \in Names /\ idx[t] \in DOMAIN DocRoles[req[t]]
          /\ DOMAIN DocRoles[req[t]] = 1..Len(DocRoles[req[t]])
          /\ Len(DocRoles[req[t]]) \in Nat
          /\ \A i \in DOMAIN DocRoles[req[t]] : DocRoles[req[t]][i] \in Roles
      BY <2>2, DocFacts DEF CoreInv, TInv, TypeOK, LoopTyped
    <3>2. 1..(idx[t] - 1) \subseteq DOMAIN DocRoles[req[t]]
      BY <3>1
    <3>3. \A i \in DOMAIN DocRoles[req[t]] :
            LET role == DocRoles[req[t]][i] IN
            cm[target[t]][role] # None =>
              cm'[target[t]][role] # None /\ cm'[target[t]][role].tmpl = cm[target[t]][role].tmpl
      BY <2>1, <3>1
    <3>4. idx[t] \in DOMAIN DocRoles[req[t]] /\ DocRoles'[req'[t]] = DocRoles[req[t]]
      BY <2>1, <3>1
    <3>5. Progress(t)
      OBVIOUS
    <3>6. (pc[t] \in {"config", "workload"} => \A i \in 1..(idx[t] - 1) : Applied(t, i))'
      BY <2>1, <3>2, <3>3, <3>4, <3>5 DEF Progress, Applied, Annotated
    <3>7. (pc[t] = "workload" => Annotated(t, idx[t]))'
      BY <2>1, <3>3, <3>4, <3>5 DEF Progress, Annotated
    <3>8. (pc[t] \in {"peers", "finish"} => \A i \in DOMAIN DocRoles[req[t]] : Applied(t, i))'
      BY <2>1, <3>3, <3>4, <3>5 DEF Progress, Applied, Annotated
    <3>9. QED
      BY <3>6, <3>7, <3>8 DEF Progress
  <2>3. CASE pc[t] \notin Materialising
    BY <2>1, <2>3 DEF Progress, Materialising
  <2>4. QED
    BY <2>2, <2>3
<1>4. CASE ~Handler(t) /\ ~Crash /\ writeLock # t
  \* The thread is outside the lock, or has just taken it.
  <2>1. pc[t] \notin Critical
    BY <1>4 DEF CoreInv, LockInv
  <2>2. CASE Request(t)
    <3>1. PICK label, n, d : label \in {"config", "stop"} /\ Accept(t, label, n, d)
      BY <2>2 DEF Request, PostTemplate, PatchTemplate, DeleteTemplate
    <3>2. pc'[t] = label /\ idx'[t] = 1
      BY <3>1 DEF Accept, Goto, CoreInv, TInv, TypeOK
    <3>3. QED
      BY <3>1, <3>2 DEF Progress
  <2>3. CASE ~Request(t)
    <3>1. ASSUME NEW s \in Threads, Handler(s) PROVE pc'[t] = pc[t]
      BY <1>4, <3>1, HandlerFrame DEF CoreInv
    <3>2. ASSUME NEW s \in Threads \ {t}, Request(s) PROVE pc'[t] = pc[t]
      BY <3>2 DEF Request, PostTemplate, PatchTemplate, DeleteTemplate, Accept, Goto,
                  CoreInv, TInv, TypeOK
    <3>3. ASSUME NEW r \in Runners, RunnerThread(r) \/ AdvanceClock(r) PROVE pc'[t] = pc[t]
      BY <3>3, RunnerFrame DEF CoreInv
    <3>4. pc'[t] = pc[t]
      BY <1>4, <2>3, <3>1, <3>2, <3>3 DEF Next, vars, threads
    <3>5. QED
      BY <2>1, <3>4 DEF Progress, Critical, Materialising
  <2>4. QED
    BY <2>2, <2>3
<1>5. QED
  BY <1>1, <1>2, <1>3, <1>4

\* A POST or PATCH whose materialise() reaches its end has given every role
\* of its document the document's annotation and a workload, whatever earlier
\* requests, failures, restarts and runners left behind or do meanwhile.
THEOREM MaterialiseLeavesAll == Spec => []MaterialiseComplete
<1> DEFINE P == \A t \in Threads : Progress(t)
<1>1. Init => P
  BY DEF Init, Progress
<1>2. CoreInv /\ P /\ [Next]_vars => P'
  BY ProgressStep
<1>3. CoreInv /\ P => MaterialiseComplete
  <2>1. SUFFICES ASSUME CoreInv, P, NEW t \in Threads, pc[t] = "finish",
                        NEW role \in RangeOf(DocRoles[req[t]])
                 PROVE  /\ cm[target[t]][role] # None
                        /\ cm[target[t]][role].tmpl = req[t]
                        /\ role \in dep[target[t]]
    BY DEF MaterialiseComplete
  <2>2. PICK i \in DOMAIN DocRoles[req[t]] : role = DocRoles[req[t]][i]
    BY <2>1 DEF RangeOf
  <2>3. QED
    BY <2>1, <2>2 DEF Progress, Applied, Annotated
<1> HIDE DEF P
<1>4. QED
  BY <1>1, <1>2, <1>3, InitCore, CoreStep, PTL DEF Spec

-----------------------------------------------------------------------------
(* The runner's lock and the one current runner *)

Alive(r) == runner[r].st # "off"

\* A thread holds runner._lock exactly while it joins the old runner, which
\* has been told to stop.  Threads told to stop are alive until they end, so
\* a new runner is never born stopped.
RunnerInv ==
  /\ \A t \in Threads : runnerLock = t <=> pc[t] \in Joining
  /\ OneCurrentRunner
  /\ \A r \in stopping : Alive(r)
  /\ runnerLock = None /\ current # None => Alive(current) /\ current \notin stopping
  /\ runnerLock # None => current # None /\ (Alive(current) => current \in stopping)

LEMMA InitRunnerInv == Init => RunnerInv
BY NoneAssumption DEF Init, RunnerInv, Joining, OneCurrentRunner, RunnerOff

\* A runner thread's step keeps it alive, except its last.
LEMMA RunnerLife ==
  ASSUME TInv, NEW r \in Runners, RunnerThread(r) \/ AdvanceClock(r)
  PROVE  /\ \A s \in Runners \ {r} : runner'[s] = runner[s]
         /\ Alive(r)
         /\ \/ Alive(r)' /\ stopping' = stopping
            \/ ~Alive(r)' /\ r \in stopping /\ stopping' = stopping \ {r}
<1> USE DEF cluster, threads, bounds
<1>1. runner \in [Runners -> RunnerState]
  BY DEF TInv, TypeOK
<1>2. /\ DOMAIN runner[r] = DOMAIN RunnerOff
      /\ "st" \in DOMAIN runner[r]
  BY <1>1 DEF RunnerState, RunnerOff
<1>3. CASE AdvanceClock(r)
  BY <1>1, <1>2, <1>3 DEF AdvanceClock, Alive, RunnerState
<1>4. CASE Tick(r)
  BY <1>1, <1>2, <1>4 DEF Tick, Alive, RunnerState
<1>5. ASSUME RunnerNext(r), runner[r].st # "off", UNCHANGED stopping
      PROVE  /\ \A s \in Runners \ {r} : runner'[s] = runner[s]
             /\ Alive(r) /\ Alive(r)' /\ stopping' = stopping
  BY <1>1, <1>2, <1>5 DEF RunnerNext, RunnerIdle, Alive, RunnerState
<1>6. ASSUME RunnerRaises(r), runner[r].st # "off", UNCHANGED stopping
      PROVE  /\ \A s \in Runners \ {r} : runner'[s] = runner[s]
             /\ Alive(r) /\ Alive(r)' /\ stopping' = stopping
  BY <1>1, <1>2, <1>6 DEF RunnerRaises, RunnerIdle, Alive, RunnerState
<1>7. CASE ReadConfig(r)
  <2>1. runner[r].st = "read" /\ UNCHANGED stopping
    BY <1>7 DEF ReadConfig
  <2>2. CASE RunnerNext(r) \/ RunnerRaises(r)
    BY <1>5, <1>6, <2>1, <2>2
  <2>3. CASE ~RunnerNext(r) /\ ~RunnerRaises(r)
    BY <1>1, <1>2, <1>7, <2>1, <2>3 DEF ReadConfig, Alive, RunnerState
  <2>4. QED
    BY <2>2, <2>3
<1>8. CASE WriteConfig(r)
  BY <1>5, <1>6, <1>8 DEF WriteConfig
<1>9. CASE RunnerExit(r)
  BY <1>1, <1>9 DEF RunnerExit, Alive, RunnerOff
<1>10. QED
  BY <1>3, <1>4, <1>7, <1>8, <1>9 DEF RunnerThread

LEMMA RunnerInvHandler ==
  ASSUME TInv, RunnerInv, NEW t \in Threads, Handler(t)
  PROVE  RunnerInv'
<1> USE DEF cluster, threads, scenario, bounds, Goto, Return
<1>1. /\ pc \in [Threads -> PCs] /\ runner \in [Runners -> RunnerState]
      /\ stopping \in SUBSET Runners /\ current \in Runners \cup {None}
      /\ runnerLock \in Threads \cup {None}
      /\ None \notin Threads /\ None \notin Runners
  BY NoneAssumption DEF TInv, TypeOK
<1>2. ASSUME UNCHANGED scenario, pc[t] \notin Joining,
             NEW label \in PCs \ Joining, pc' = [pc EXCEPT ![t] = label]
      PROVE  RunnerInv'
  BY <1>1, <1>2 DEF RunnerInv, OneCurrentRunner, Alive
<1>3. ASSUME runnerLock = None, NEW label \in Joining, SignalStop(t, label)
      PROVE  RunnerInv'
  <2>1. /\ current \in Runners /\ stopping' = stopping \cup {current}
        /\ runnerLock' = t /\ pc' = [pc EXCEPT ![t] = label]
        /\ UNCHANGED <<current, runner>> /\ Alive(current)
    BY <1>1, <1>3 DEF SignalStop, RunnerInv
  <2>2. \A s \in Threads : pc[s] \notin Joining
    BY <1>1, <1>3 DEF RunnerInv
  <2>3. (\A s \in Threads : runnerLock = s <=> pc[s] \in Joining)'
    BY <1>1, <1>3, <2>1, <2>2
  <2>4. QED
    BY <1>1, <2>1, <2>3 DEF RunnerInv, OneCurrentRunner, Alive
<1>4. ASSUME NEW r \in Runners, NEW d, Launch(r, d),
             \A s \in Runners : Alive(s) => s \in stopping,
             pc' = [pc EXCEPT ![t] = "idle"], UNCHANGED stopping,
             runnerLock' = None, \A s \in Threads \ {t} : pc[s] \notin Joining
      PROVE  RunnerInv'
  <2>1. /\ current' = r /\ ~Alive(r)
        /\ \A s \in Runners \ {r} : runner'[s] = runner[s]
        /\ runner'[r].st = "wait"
    BY <1>1, <1>4 DEF Launch, Alive, RunnerOff
  <2>2. r \notin stopping
    BY <2>1 DEF RunnerInv
  <2>3. (\A s \in Threads : runnerLock = s <=> pc[s] \in Joining)'
    BY <1>1, <1>4 DEF Joining
  <2>4. OneCurrentRunner'
    BY <1>4, <2>1 DEF OneCurrentRunner, Alive
  <2>5. (\A s \in stopping : Alive(s))'
    BY <1>1, <1>4, <2>1, <2>2 DEF RunnerInv, Alive
  <2>6. QED
    BY <1>4, <2>1, <2>2, <2>3, <2>4, <2>5 DEF RunnerInv, Alive
<1>5. CASE ApplyConfigMap(t)
  BY <1>1, <1>2, <1>5 DEF ApplyConfigMap, Abort, Joining, PCs
<1>6. CASE ApplyWorkload(t)
  BY <1>1, <1>2, <1>6 DEF ApplyWorkload, NextRole, Abort, Joining, PCs
<1>7. CASE PatchPeers(t)
  BY <1>1, <1>2, <1>7 DEF PatchPeers, NextRole, Abort, Return, Joining, PCs
<1>8. CASE FinishMaterialise(t)
  BY <1>1, <1>2, <1>8 DEF FinishMaterialise, Joining, PCs
<1>9. CASE RunnerStart(t)
  <2>1. runnerLock = None /\ pc[t] = "start"
    BY <1>9 DEF RunnerStart
  <2>2. CASE SignalStop(t, "startjoin")
    BY <1>3, <2>1, <2>2 DEF Joining
  <2>3. CASE ~SignalStop(t, "startjoin")
    <3>1. PICK r \in Runners : Launch(r, req[t])
      BY <1>9, <2>3 DEF RunnerStart
    <3>2. /\ current = None /\ UNCHANGED <<runnerLock, stopping>>
          /\ pc' = [pc EXCEPT ![t] = "idle"]
      BY <1>9, <2>3 DEF RunnerStart
    <3>3. \A s \in Runners : Alive(s) => s \in stopping
      BY <1>1, <3>2 DEF RunnerInv, OneCurrentRunner, Alive
    <3>4. \A s \in Threads : pc[s] \notin Joining
      BY <1>1, <2>1 DEF RunnerInv
    <3>5. QED
      BY <1>4, <2>1, <3>1, <3>2, <3>3, <3>4
  <2>4. QED
    BY <2>2, <2>3
\* Whoever joins holds the lock; the old runner has ended or was told to.
<1>10. ASSUME pc[t] \in Joining
       PROVE  /\ runnerLock = t /\ \A s \in Threads \ {t} : pc[s] \notin Joining
              /\ \A s \in Runners : Alive(s) => s \in stopping
  BY <1>1, <1>10 DEF RunnerInv, OneCurrentRunner, Alive
<1>11. CASE RunnerStartJoin(t)
  <2>1. PICK r \in Runners : Launch(r, req[t])
    BY <1>11 DEF RunnerStartJoin
  <2>2. QED
    BY <1>4, <1>10, <1>11, <2>1 DEF RunnerStartJoin, Joining
<1>12. CASE RunnerStop(t)
  <2>1. runnerLock = None /\ pc[t] = "stop"
    BY <1>12 DEF RunnerStop
  <2>2. CASE SignalStop(t, "stopjoin")
    BY <1>3, <2>1, <2>2 DEF Joining
  <2>3. CASE ~SignalStop(t, "stopjoin")
    BY <1>2, <1>12, <2>1, <2>3 DEF RunnerStop, Joining, PCs
  <2>4. QED
    BY <2>2, <2>3
<1>13. CASE RunnerStopJoin(t)
  <2>1. /\ current' = None /\ runnerLock' = None /\ UNCHANGED <<runner, stopping>>
        /\ pc' = [pc EXCEPT ![t] = "deldep"] /\ pc[t] \in Joining
    BY <1>13 DEF RunnerStopJoin, Joining
  <2>2. (\A s \in Threads : runnerLock = s <=> pc[s] \in Joining)'
    BY <1>1, <1>10, <2>1 DEF Joining
  <2>3. OneCurrentRunner'
    BY <1>1, <1>10, <2>1 DEF OneCurrentRunner, Alive
  <2>4. QED
    BY <1>1, <2>1, <2>2, <2>3 DEF RunnerInv, Alive
<1>14. CASE DeleteWorkloads(t)
  BY <1>1, <1>2, <1>14 DEF DeleteWorkloads, Abort, Return, Joining, PCs
<1>15. CASE DeleteConfigMaps(t)
  BY <1>1, <1>2, <1>15 DEF DeleteConfigMaps, Joining, PCs
<1>16. QED
  BY <1>5, <1>6, <1>7, <1>8, <1>9, <1>11, <1>12, <1>13, <1>14, <1>15 DEF Handler

LEMMA RunnerInvStep == TInv /\ RunnerInv /\ [Next]_vars => RunnerInv'
<1>1. SUFFICES ASSUME TInv, RunnerInv, [Next]_vars PROVE RunnerInv'
  OBVIOUS
<1>2. ASSUME NEW t \in Threads, Request(t) PROVE RunnerInv'
  <2>1. PICK label, n, d : label \in {"config", "stop"} /\ Accept(t, label, n, d)
    BY <1>2 DEF Request, PostTemplate, PatchTemplate, DeleteTemplate
  <2>2. /\ pc[t] = "idle" /\ pc' = [pc EXCEPT ![t] = label]
        /\ UNCHANGED <<runnerLock, current, runner, stopping>>
    BY <2>1 DEF Accept, Goto, scenario
  <2>3. \A s \in Threads : pc'[s] \in Joining <=> pc[s] \in Joining
    BY <1>1, <2>1, <2>2 DEF Joining, TInv, TypeOK
  <2>4. QED
    BY <1>1, <2>2, <2>3 DEF RunnerInv, OneCurrentRunner, Alive
<1>3. ASSUME NEW r \in Runners, RunnerThread(r) \/ AdvanceClock(r) PROVE RunnerInv'
  <2>1. UNCHANGED <<pc, runnerLock, current>>
    BY <1>1, <1>3, RunnerFrame
  <2>2. /\ \A s \in Runners \ {r} : runner'[s] = runner[s]
        /\ Alive(r)
        /\ \/ Alive(r)' /\ stopping' = stopping
           \/ ~Alive(r)' /\ r \in stopping /\ stopping' = stopping \ {r}
    BY <1>1, <1>3, RunnerLife
  <2>3. current \in Runners \cup {None} /\ stopping \subseteq Runners
    BY <1>1 DEF TInv, TypeOK
  <2>4. QED
    BY <1>1, <2>1, <2>2, <2>3 DEF RunnerInv, OneCurrentRunner, Alive
<1>4. CASE Crash
  BY <1>4, NoneAssumption DEF Crash, RunnerInv, Joining, OneCurrentRunner, RunnerOff
<1>5. CASE UNCHANGED vars
  BY <1>1, <1>5 DEF vars, threads, scenario, RunnerInv, OneCurrentRunner, Alive
<1>6. QED
  BY <1>1, <1>2, <1>3, <1>4, <1>5, RunnerInvHandler DEF Next

\* start() and stop() never lose track of a runner that will enter another
\* phase: whatever the joins time out on, every thread that is alive and has
\* not been told to stop is _current.
THEOREM CurrentRunner == Spec => []OneCurrentRunner
<1>1. RunnerInv => OneCurrentRunner
  BY DEF RunnerInv
<1>2. QED
  BY <1>1, InitTInv, TypeStep, InitRunnerInv, RunnerInvStep, PTL DEF Spec

-----------------------------------------------------------------------------
(* Workloads and their configs *)

\* Between the two calls of a role its config is there; between the two
\* deletes of teardown no workload of the template is left.
ConfigInv ==
  /\ WorkloadsHaveConfig
  /\ \A t \in Threads :
       /\ pc[t] = "workload" => cm[target[t]][RoleAt(t)] # None
       /\ pc[t] = "delcm" => dep[target[t]] = {}

\* Only teardown's last call takes ConfigMaps away.
LEMMA ConfigsStay ==
  ASSUME CoreInv, NEW t \in Threads, Handler(t), pc[t] # "delcm"
  PROVE  \A n \in Names : \A role \in Roles : cm[n][role] # None => cm'[n][role] # None
<1> USE DEF cluster
<1>1. cm \in [Names -> [Roles -> ConfigMap \cup {None}]]
  BY DEF CoreInv, TInv, TypeOK
<1>2. ASSUME pc[t] \in Materialising
      PROVE  /\ req[t] \in Docs /\ target[t] \in Names /\ RoleAt(t) \in Roles
             /\ InitialX(req[t]) \in X
  BY <1>2, DocFacts DEF CoreInv, TInv, TypeOK, LoopTyped, RoleAt
<1>3. CASE cm' = cm
  BY <1>3
<1>4. CASE ApplyConfigMap(t) /\ cm' # cm
  <2> DEFINE new == [tmpl |-> req[t], load |-> req[t], x |-> InitialX(req[t]), peers |-> None]
  <2>1. pc[t] \in Materialising
    BY <1>4 DEF ApplyConfigMap, Materialising
  <2>2. new # None
    <3>1. new \in ConfigMap
      BY <1>2, <2>1 DEF ConfigMap
    <3> HIDE DEF new
    <3>2. QED
      BY <3>1, NoneAssumption
  <2>3. cm' = [cm EXCEPT ![target[t]][RoleAt(t)] = new]
    BY <1>4 DEF ApplyConfigMap, ConfigMapApplied
  <2> HIDE DEF new
  <2>4. QED
    BY <1>1, <1>2, <2>1, <2>2, <2>3
<1>5. CASE PatchPeers(t) /\ cm' # cm
  <2> DEFINE new == [cm[target[t]][RoleAt(t)] EXCEPT !.load = req[t],
                       !.x = InitialX(req[t]), !.peers = req[t]]
  <2>1. /\ pc[t] \in Materialising /\ cm[target[t]][RoleAt(t)] # None
        /\ cm' = [cm EXCEPT ![target[t]][RoleAt(t)] = new]
    BY <1>5 DEF PatchPeers, PeersPatched, Materialising
  <2>2. new # None
    <3>1. cm[target[t]][RoleAt(t)] \in ConfigMap
      BY <1>1, <1>2, <2>1
    <3>2. new \in ConfigMap
      BY <1>2, <2>1, <3>1 DEF ConfigMap
    <3> HIDE DEF new
    <3>3. QED
      BY <3>2, NoneAssumption
  <2> HIDE DEF new
  <2>3. QED
    BY <1>1, <1>2, <2>1, <2>2
<1>6. QED
  BY <1>3, <1>4, <1>5 DEF Handler, ApplyWorkload, FinishMaterialise, RunnerStart,
    RunnerStartJoin, RunnerStop, RunnerStopJoin, DeleteWorkloads, DeleteConfigMaps

LEMMA ConfigHandler ==
  ASSUME "deldep" \notin FaultKinds, CoreInv, ConfigInv, NEW t \in Threads, Handler(t)
  PROVE  WorkloadsHaveConfig'
<1> USE DEF cluster, threads, scenario, bounds
<1>1. /\ cm \in [Names -> [Roles -> ConfigMap \cup {None}]]
      /\ dep \in [Names -> SUBSET Roles]
      /\ WorkloadsHaveConfig
  BY DEF CoreInv, TInv, TypeOK, ConfigInv
<1>2. ASSUME dep' = dep,
             \A n \in Names : \A role \in Roles : cm[n][role] # None => cm'[n][role] # None
      PROVE  WorkloadsHaveConfig'
  BY <1>1, <1>2 DEF WorkloadsHaveConfig
<1>3. ASSUME pc[t] \in Materialising
      PROVE  /\ req[t] \in Docs /\ target[t] \in Names /\ RoleAt(t) \in Roles
             /\ InitialX(req[t]) \in X
  BY <1>3, DocFacts DEF CoreInv, TInv, TypeOK, LoopTyped, RoleAt
<1>4. CASE ApplyConfigMap(t) \/ PatchPeers(t)
  <2>1. pc[t] # "delcm" /\ dep' = dep
    BY <1>4 DEF ApplyConfigMap, PatchPeers
  <2>2. QED
    BY <1>2, <2>1, ConfigsStay
<1>5. CASE ApplyWorkload(t)
  <2>1. pc[t] \in Materialising /\ cm' = cm /\ cm[target[t]][RoleAt(t)] # None
        /\ (dep' = dep \/ dep' = [dep EXCEPT ![target[t]] = @ \cup {RoleAt(t)}])
    BY <1>5 DEF ApplyWorkload, WorkloadApplied, Materialising, ConfigInv
  <2>2. QED
    BY <1>1, <1>3, <2>1 DEF WorkloadsHaveConfig
<1>6. CASE DeleteWorkloads(t)
  <2>1. cm' = cm /\ (dep' = dep \/ dep' = [dep EXCEPT ![target[t]] = {}])
    BY <1>6 DEF DeleteWorkloads, WorkloadsDeleted
  <2>2. QED
    BY <1>1, <2>1 DEF WorkloadsHaveConfig
<1>7. CASE DeleteConfigMaps(t)
  <2>1. /\ dep' = dep /\ dep[target[t]] = {}
        /\ \A n \in Names : n # target[t] => cm'[n] = cm[n]
    BY <1>1, <1>7 DEF DeleteConfigMaps, ConfigMapsDeleted, ConfigInv
  <2>2. QED
    BY <1>1, <2>1 DEF WorkloadsHaveConfig
<1>8. CASE FinishMaterialise(t) \/ RunnerStart(t) \/ RunnerStartJoin(t)
           \/ RunnerStop(t) \/ RunnerStopJoin(t)
  <2>1. cm' = cm /\ dep' = dep
    BY <1>8 DEF FinishMaterialise, RunnerStart, RunnerStartJoin, RunnerStop, RunnerStopJoin
  <2>2. QED
    BY <1>2, <2>1
<1>9. QED
  BY <1>4, <1>5, <1>6, <1>7, <1>8 DEF Handler

\* The thread's own step to "workload" or "delcm" establishes what it needs.
LEMMA ConfigLabels ==
  ASSUME "deldep" \notin FaultKinds, CoreInv, NEW t \in Threads, Handler(t)
  PROVE  /\ pc'[t] = "workload" => (cm[target[t]][RoleAt(t)] # None)'
         /\ pc'[t] = "delcm" => (dep[target[t]] = {})'
<1> USE DEF cluster, threads, Goto, Return
<1>1. /\ pc \in [Threads -> PCs]
      /\ cm \in [Names -> [Roles -> ConfigMap \cup {None}]]
      /\ dep \in [Names -> SUBSET Roles]
  BY DEF CoreInv, TInv, TypeOK
<1>2. CASE pc'[t] = "workload"
  <2>1. ConfigMapApplied(t) /\ pc[t] = "config" /\ UNCHANGED <<req, target, idx>>
    BY <1>1, <1>2 DEF Handler, ApplyConfigMap, ApplyWorkload, PatchPeers, FinishMaterialise,
      RunnerStart, RunnerStartJoin, RunnerStop, RunnerStopJoin, DeleteWorkloads,
      DeleteConfigMaps, SignalStop, NextRole, Abort
  <2>2. /\ req[t] \in Docs /\ target[t] \in Names /\ RoleAt(t) \in Roles
        /\ InitialX(req[t]) \in X
    BY <2>1, DocFacts DEF CoreInv, TInv, TypeOK, LoopTyped, RoleAt, Materialising
  <2> DEFINE new == [tmpl |-> req[t], load |-> req[t], x |-> InitialX(req[t]), peers |-> None]
  <2>3. new \in ConfigMap
    BY <2>2 DEF ConfigMap
  <2>4. cm' = [cm EXCEPT ![target[t]][RoleAt(t)] = new]
    BY <2>1 DEF ConfigMapApplied
  <2> HIDE DEF new
  <2>5. cm'[target[t]][RoleAt(t)] # None
    BY <1>1, <2>2, <2>3, <2>4, NoneAssumption
  <2>6. QED
    BY <1>2, <2>1, <2>5 DEF RoleAt
<1>3. CASE pc'[t] = "delcm"
  <2>1. DeleteWorkloads(t)
    BY <1>1, <1>3 DEF Handler, ApplyConfigMap, ApplyWorkload, PatchPeers, FinishMaterialise,
      RunnerStart, RunnerStartJoin, RunnerStop, RunnerStopJoin,
      DeleteConfigMaps, SignalStop, NextRole, Abort
  <2>2. /\ dep' = [dep EXCEPT ![target[t]] = {}] /\ target' = target
        /\ target[t] \in Names
    BY <1>1, <1>3, <2>1
       DEF DeleteWorkloads, WorkloadsDeleted, Fault, Abort, CoreInv, TInv, TearingDown
  <2>3. QED
    BY <1>1, <1>3, <2>2
<1>4. QED
  BY <1>2, <1>3

LEMMA ConfigStep ==
  ASSUME "deldep" \notin FaultKinds, CoreInv, ConfigInv, [Next]_vars
  PROVE  ConfigInv'
<1>1. ASSUME NEW t \in Threads, Handler(t) PROVE ConfigInv'
  <2>1. ASSUME NEW s \in Threads \ {t}
        PROVE  /\ pc'[s] = "workload" => (cm[target[s]][RoleAt(s)] # None)'
               /\ pc'[s] = "delcm" => (dep[target[s]] = {})'
    <3>1. /\ pc'[s] = pc[s] /\ req'[s] = req[s] /\ target'[s] = target[s]
          /\ idx'[s] = idx[s]
      BY <1>1, <2>1, HandlerFrame DEF CoreInv
    <3>2. CASE pc[s] \in Critical
      <4>1. pc[t] \in Starting /\ UNCHANGED <<cm, dep>>
        BY <1>1, <2>1, <3>2, HandlerFrame DEF CoreInv, LockInv
      <4>2. QED
        BY <3>1, <4>1 DEF ConfigInv, RoleAt
    <3>3. CASE pc[s] \notin Critical
      BY <3>1, <3>3 DEF Critical, Materialising, TearingDown
    <3>4. QED
      BY <3>2, <3>3
  <2>2. /\ pc'[t] = "workload" => (cm[target[t]][RoleAt(t)] # None)'
        /\ pc'[t] = "delcm" => (dep[target[t]] = {})'
    BY <1>1, ConfigLabels
  <2>3. QED
    BY <1>1, <2>1, <2>2, ConfigHandler DEF ConfigInv
<1>2. ASSUME NEW t \in Threads, Request(t) PROVE ConfigInv'
  <2>1. PICK label, n, d : label \in {"config", "stop"} /\ Accept(t, label, n, d)
    BY <1>2 DEF Request, PostTemplate, PatchTemplate, DeleteTemplate
  <2>2. /\ UNCHANGED <<cm, dep>> /\ pc' = [pc EXCEPT ![t] = label]
        /\ req' = [req EXCEPT ![t] = d] /\ target' = [target EXCEPT ![t] = n]
        /\ idx' = [idx EXCEPT ![t] = 1]
    BY <2>1 DEF Accept, Goto, cluster
  <2>3. QED
    BY <2>1, <2>2 DEF ConfigInv, WorkloadsHaveConfig, RoleAt, CoreInv, TInv, TypeOK
<1>3. ASSUME NEW r \in Runners, RunnerThread(r) \/ AdvanceClock(r) PROVE ConfigInv'
  <2>1. /\ UNCHANGED <<dep, pc, req, target, idx>>
        /\ \A n \in Names : \A role \in Roles : cm[n][role] # None => cm'[n][role] # None
    BY <1>3, RunnerFrame DEF CoreInv
  <2>2. WorkloadsHaveConfig'
    BY <2>1 DEF ConfigInv, WorkloadsHaveConfig, CoreInv, TInv, TypeOK
  <2>3. ASSUME NEW t \in Threads, pc[t] = "workload"
        PROVE  target[t] \in Names /\ RoleAt(t) \in Roles
    BY <2>3, DocFacts DEF CoreInv, TInv, TypeOK, LoopTyped, RoleAt, Materialising
  <2>4. QED
    BY <2>1, <2>2, <2>3 DEF ConfigInv, RoleAt
<1>4. CASE Crash
  BY <1>4 DEF Crash, cluster, ConfigInv, WorkloadsHaveConfig
<1>5. CASE UNCHANGED vars
  BY <1>5 DEF vars, cluster, threads, ConfigInv, WorkloadsHaveConfig, RoleAt
<1>6. QED
  BY <1>1, <1>2, <1>3, <1>4, <1>5 DEF Next

\* A worker pod's ConfigMap outlives its Deployment: created before it, gone
\* after it, as long as the API server deletes the workloads of a template
\* when it is asked to.
THEOREM ConfigOutlivesWorkload ==
  ASSUME "deldep" \notin FaultKinds PROVE Spec => []WorkloadsHaveConfig
<1>1. Init => ConfigInv
  BY DEF Init, ConfigInv, WorkloadsHaveConfig
<1>2. CoreInv /\ ConfigInv /\ [Next]_vars => ConfigInv'
  BY ConfigStep
<1>3. ConfigInv => WorkloadsHaveConfig
  BY DEF ConfigInv
<1>4. QED
  BY <1>1, <1>2, <1>3, InitCore, CoreStep, PTL DEF Spec

-----------------------------------------------------------------------------
(* The runner and DELETE, one client at a time *)

\* No runner is current when nothing is managed, nor once teardown has begun,
\* and the handler that starts one has something managed.
StopInv ==
  /\ Managed = {} => current = None
  /\ \A t \in Threads :
       /\ pc[t] \in {"deldep", "delcm"} => current = None
       /\ pc[t] \in Starting => Managed # {}

LEMMA ManagedGrows ==
  ASSUME \A n \in Names : \A role \in Roles : cm[n][role] # None => cm'[n][role] # None,
         Managed # {}
  PROVE  Managed' # {}
BY DEF Managed

LEMMA StopHandler ==
  ASSUME CoreInv, StopInv, NEW t \in Threads, \A s \in Threads : s = t,
         Progress(t), Handler(t)
  PROVE  StopInv'
<1> USE DEF Goto, scenario
<1>1. pc \in [Threads -> PCs]
  BY DEF CoreInv, TInv, TypeOK
<1>2. /\ Managed = {} => current = None
      /\ pc[t] \in {"deldep", "delcm"} => current = None
      /\ pc[t] \in Starting => Managed # {}
  BY DEF StopInv
<1>3. SUFFICES /\ Managed' = {} => current' = None
               /\ pc'[t] \in {"deldep", "delcm"} => current' = None
               /\ pc'[t] \in Starting => Managed' # {}
  BY DEF StopInv
<1>4. pc[t] # "delcm" => (Managed # {} => Managed' # {})
  BY ConfigsStay, ManagedGrows
<1>5. CASE ApplyConfigMap(t) \/ ApplyWorkload(t) \/ PatchPeers(t)
  <2>1. current' = current /\ pc[t] # "delcm" /\ pc'[t] \notin {"deldep", "delcm"} \cup Starting
    BY <1>1, <1>5 DEF ApplyConfigMap, ApplyWorkload, PatchPeers, NextRole, Abort, Return,
      Starting
  <2>2. QED
    BY <1>2, <1>4, <2>1
<1>6. CASE FinishMaterialise(t)
  <2>1. /\ current' = current /\ cm' = cm /\ pc[t] = "finish"
        /\ pc'[t] \notin {"deldep", "delcm"}
    BY <1>1, <1>6 DEF FinishMaterialise, Return, cluster
  <2>2. Managed # {}
    <3>1. /\ req[t] \in Docs /\ target[t] \in Names
          /\ Len(DocRoles[req[t]]) \in Nat /\ DocRoles[req[t]] # << >>
          /\ DOMAIN DocRoles[req[t]] = 1..Len(DocRoles[req[t]])
          /\ DocRoles[req[t]] \in Seq(Roles)
      BY <2>1, DocFacts, DocAssumption DEF CoreInv, TInv, TypeOK, LoopTyped, Materialising
    <3>2. 1 \in DOMAIN DocRoles[req[t]] /\ DocRoles[req[t]][1] \in Roles
      BY <3>1
    <3>3. cm[target[t]][DocRoles[req[t]][1]] # None
      BY <2>1, <3>2 DEF Progress, Applied, Annotated
    <3>4. QED
      BY <3>1, <3>2, <3>3 DEF Managed
  <2>3. Managed' = Managed
    BY <2>1 DEF Managed
  <2>4. QED
    BY <1>2, <2>1, <2>2, <2>3
<1>7. CASE RunnerStart(t) \/ RunnerStartJoin(t)
  <2>1. /\ pc[t] \in Starting /\ cm' = cm
        /\ pc'[t] \notin {"deldep", "delcm"}
    BY <1>1, <1>7 DEF RunnerStart, RunnerStartJoin, SignalStop, Return, Starting, cluster
  <2>2. Managed' = Managed
    BY <2>1 DEF Managed
  <2>3. QED
    BY <1>2, <2>1, <2>2
<1>8. CASE RunnerStop(t)
  <2>1. /\ pc[t] = "stop" /\ cm' = cm /\ current' = current
        /\ \/ current = None /\ pc'[t] = "deldep"
           \/ pc'[t] = "stopjoin"
    BY <1>1, <1>8 DEF RunnerStop, SignalStop, cluster
  <2>2. Managed' = Managed
    BY <2>1 DEF Managed
  <2>3. QED
    BY <1>2, <2>1, <2>2 DEF Starting
<1>9. CASE RunnerStopJoin(t) \/ DeleteWorkloads(t) \/ DeleteConfigMaps(t)
  <2>1. current' = None /\ pc'[t] \in {"deldep", "delcm", "idle"}
    BY <1>1, <1>2, <1>9 DEF RunnerStopJoin, DeleteWorkloads, DeleteConfigMaps, Abort, Return
  <2>2. QED
    BY <2>1 DEF Starting
<1>10. QED
  BY <1>5, <1>6, <1>7, <1>8, <1>9 DEF Handler

LEMMA StopStep ==
  ASSUME \A s, t \in Threads : s = t,
         CoreInv, StopInv, \A t \in Threads : Progress(t), [Next]_vars
  PROVE  StopInv'
<1>1. ASSUME NEW t \in Threads, Handler(t) PROVE StopInv'
  BY <1>1, StopHandler
<1>2. ASSUME NEW t \in Threads, Request(t) PROVE StopInv'
  <2>1. PICK label, n, d : label \in {"config", "stop"} /\ Accept(t, label, n, d)
    BY <1>2 DEF Request, PostTemplate, PatchTemplate, DeleteTemplate
  <2>2. cm' = cm /\ current' = current /\ pc' = [pc EXCEPT ![t] = label]
    BY <2>1 DEF Accept, Goto, cluster, scenario
  <2>3. Managed' = Managed
    BY <2>2 DEF Managed
  <2>4. QED
    BY <2>1, <2>2, <2>3 DEF StopInv, Starting, CoreInv, TInv, TypeOK
<1>3. ASSUME NEW r \in Runners, RunnerThread(r) \/ AdvanceClock(r) PROVE StopInv'
  <2>1. UNCHANGED <<pc, current>> /\ Managed' = Managed
    BY <1>3, RunnerFrame DEF CoreInv, Managed
  <2>2. QED
    BY <2>1 DEF StopInv
<1>4. CASE Crash
  BY <1>4 DEF Crash, StopInv, Starting
<1>5. CASE UNCHANGED vars
  BY <1>5 DEF vars, cluster, threads, scenario, StopInv, Managed
<1>6. QED
  BY <1>1, <1>2, <1>3, <1>4, <1>5 DEF Next

\* The runner is stopped on DELETE when the clients' requests come one after
\* another, whatever fails, times out or restarts.  (When two overlap it may
\* not be: a POST that has released the write lock starts it after a DELETE.)
THEOREM RunnerStopped ==
  ASSUME \A s, t \in Threads : s = t PROVE Spec => []StoppedOnDelete
<1> DEFINE P == \A t \in Threads : Progress(t)
<1>1. Init => P /\ StopInv
  BY DEF Init, Progress, StopInv, Starting
<1>2. CoreInv /\ P /\ [Next]_vars => P'
  BY ProgressStep
<1>3. CoreInv /\ P /\ StopInv /\ [Next]_vars => StopInv'
  BY StopStep
<1>4. TInv /\ RunnerInv /\ StopInv => StoppedOnDelete
  <2>1. SUFFICES ASSUME TInv, RunnerInv, StopInv, Managed = {}, NEW r \in Runners
                 PROVE  runner[r].st = "off" \/ r \in stopping
    BY DEF StoppedOnDelete
  <2>2. current = None
    BY <2>1 DEF StopInv
  <2>3. QED
    BY <2>1, <2>2, NoneAssumption DEF RunnerInv, OneCurrentRunner
<1>5. CoreInv => TInv
  BY DEF CoreInv
<1> HIDE DEF P
<1>6. QED
  BY <1>1, <1>2, <1>3, <1>4, <1>5, InitCore, CoreStep, InitRunnerInv, RunnerInvStep, PTL
    DEF Spec
=============================================================================
