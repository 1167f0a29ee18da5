----------------------------- MODULE Controller -----------------------------
(***************************************************************************)
(* The control plane of the emulator: the HTTP writers of controller/      *)
(* app.py, the materialiser they call, the scenario runner thread, and the *)
(* Kubernetes objects all of them read and write.                          *)
(*                                                                         *)
(* Every Kubernetes call that changes the cluster is a step of its own, so *)
(* the requests, the runner threads and a restart of the controller pod    *)
(* interleave between calls.  What is abstracted:                          *)
(*   - a template or topology is a member of Docs; its content is given by *)
(*     the constant functions DocName, DocRoles, PeerRoles and PhaseIds;   *)
(*   - a role's Deployment and Service are one "workload";                 *)
(*   - a role's resolved x is the triple it is computed from: the role     *)
(*     graph of one document and one phase of one timeline;                *)
(*   - the peers, offsets and server count that Phase 2 writes are the     *)
(*     document they were computed for.                                    *)
(* The controller image holds no multipass binary, so POST and DELETE do   *)
(* not provision; link shaping (Phase 3) touches no Kubernetes object.     *)
(***************************************************************************)
EXTENDS Naturals, FiniteSets, Sequences

CONSTANTS
  Docs,          \* the templates and topologies a user may post
  Names,         \* template names
  Roles,         \* role names
  Threads,       \* threads of the endpoint thread pool
  Runners,       \* scenario-runner threads (a bound on those alive at once)
  None,          \* Python's None
  DocName,       \* the name of each document
  DocRoles,      \* its roles, in the order of its "roles" object
  PeerRoles,     \* its roles whose config Phase 2 rewrites
  PhaseIds,      \* ids of its runtime_scenarios, <<>> for a legacy template
  FaultKinds,    \* the Kubernetes calls that may fail in this instance
  JoinMayTimeOut,\* may a runner be busy longer than stop() waits for it?
  MaxFaults, MaxCrashes, MaxRequests   \* bounds of the instance

\* What each fault kind stands for.  Calls answered with an error status: the
\* list of list_managed, a create or update of Phase 1, a patch of Phase 2 (or
\* endpoints that never populate), the two collection deletes of teardown, a
\* read or patch of the runner.  And "timeout": k8s.request turns HTTPError and
\* URLError into a status, but an answer that is cut off or too late raises in
\* the caller, and the call may have taken effect.
AllFaultKinds ==
  {"list", "apply", "peers", "deldep", "delcm", "runner", "timeout"}

RangeOf(s) == {s[i] : i \in DOMAIN s}

X == [graph : Docs, src : Docs, phase : Nat]

\* tmpl is the template annotation; load, x and peers are the parts of
\* config.json: the load formulas, the resolved x and the peer list.
ConfigMap ==
  [tmpl : Docs, load : Docs, x : X, peers : Docs \cup {None}]

ASSUME DocAssumption ==
  /\ DocName \in [Docs -> Names]
  /\ DocRoles \in [Docs -> Seq(Roles)]
  /\ \A d \in Docs : DocRoles[d] # << >>
  /\ PeerRoles \in [Docs -> SUBSET Roles]
  /\ PhaseIds \in [Docs -> Seq(Nat \ {0})]

ASSUME NoneAssumption ==
  /\ None \notin Docs /\ None \notin Threads /\ None \notin Runners
  /\ None \notin ConfigMap

ASSUME BoundAssumption ==
  /\ FaultKinds \subseteq AllFaultKinds
  /\ JoinMayTimeOut \in BOOLEAN
  /\ MaxFaults \in Nat /\ MaxCrashes \in Nat /\ MaxRequests \in Nat

VARIABLES
  cm,         \* cm[n][r]: the ConfigMap of role r of template n, or None
  dep,        \* dep[n]: the roles of template n that have a workload
  writeLock,  \* holder of app._write_lock
  pc,         \* what each endpoint thread does next
  req,        \* the document it materialises
  target,     \* the template name it works on
  idx,        \* the role its loop is at
  runnerLock, \* holder of runner._lock
  current,    \* runner._current
  runner,     \* the state of each runner thread
  stopping,   \* the runners whose _stop_event is set
  faults, crashes, requests   \* how much of each bound is used

cluster  == <<cm, dep>>
threads  == <<pc, req, target, idx>>
scenario == <<runnerLock, current, runner, stopping>>
bounds   == <<faults, crashes, requests>>
vars     == <<cluster, writeLock, threads, scenario, bounds>>

-----------------------------------------------------------------------------
(* Types and null values *)

PCs == {"idle", "config", "workload", "peers", "finish",
        "start", "startjoin", "stop", "stopjoin", "deldep", "delcm"}

Materialising == {"config", "workload", "peers", "finish"}

\* A thread inside materialise() has a document, works on that document's
\* name, and its loop index is one of the document's roles.
LoopTyped(t) ==
  /\ req[t] \in Docs
  /\ target[t] = DocName[req[t]]
  /\ idx[t] \in DOMAIN DocRoles[req[t]]

RunnerState ==
  [st : {"off", "wait", "read", "write"}, doc : Docs \cup {None},
   clock : Nat, last : Nat, phase : Nat, tmpl : Docs \cup {None},
   i : Nat, buf : ConfigMap \cup {None}]

RunnerOff ==
  [st |-> "off", doc |-> None, clock |-> 0, last |-> 0, phase |-> 0,
   tmpl |-> None, i |-> 0, buf |-> None]

\* The values every variable may take, and the bounds of the role loops.
TypeOK ==
  /\ cm \in [Names -> [Roles -> ConfigMap \cup {None}]]
  /\ dep \in [Names -> SUBSET Roles]
  /\ writeLock \in Threads \cup {None}
  /\ pc \in [Threads -> PCs]
  /\ req \in [Threads -> Docs \cup {None}]
  /\ target \in [Threads -> Names \cup {None}]
  /\ idx \in [Threads -> Nat]
  /\ \A t \in Threads : pc[t] \in Materialising => LoopTyped(t)
  /\ runnerLock \in Threads \cup {None}
  /\ current \in Runners \cup {None}
  /\ runner \in [Runners -> RunnerState]
  /\ stopping \in SUBSET Runners
  /\ faults \in Nat /\ crashes \in Nat /\ requests \in Nat

Init ==
  /\ cm = [n \in Names |-> [r \in Roles |-> None]]
  /\ dep = [n \in Names |-> {}]
  /\ writeLock = None
  /\ pc = [t \in Threads |-> "idle"]
  /\ req = [t \in Threads |-> None]
  /\ target = [t \in Threads |-> None]
  /\ idx = [t \in Threads |-> 0]
  /\ runnerLock = None
  /\ current = None
  /\ runner = [r \in Runners |-> RunnerOff]
  /\ stopping = {}
  /\ faults = 0 /\ crashes = 0 /\ requests = 0

-----------------------------------------------------------------------------
(* Helpers *)

\* list_managed(): the names some ConfigMap is labelled with.
Managed == {n \in Names : \E r \in Roles : cm[n][r] # None}

\* get_managed(): the template is read from the first annotation found, so
\* from any ConfigMap of the name.
StoredTemplates(n) ==
  {cm[n][role].tmpl : role \in {r \in Roles : cm[n][r] # None}}

\* _initial_x: the first phase of the timeline, else the document's own x.
InitialX(d) ==
  [graph |-> d, src |-> d, phase |-> IF PhaseIds[d] = << >> THEN 0 ELSE 1]

\* A Kubernetes call of this kind fails.
Fault(kind) ==
  /\ kind \in FaultKinds
  /\ faults < MaxFaults
  /\ faults' = faults + 1

\* The role the materialise loop of thread t is at.
RoleAt(t) == DocRoles[req[t]][idx[t]]

Goto(t, label) == pc' = [pc EXCEPT ![t] = label]

\* The handler returns, and with it its local variables are gone.
Return(t) ==
  /\ Goto(t, "idle")
  /\ req' = [req EXCEPT ![t] = None]
  /\ target' = [target EXCEPT ![t] = None]
  /\ idx' = [idx EXCEPT ![t] = 0]

\* Mutant: the lock is taken and released by hand, and an exception skips
\* the release.
Abort_KeepLock(t) ==
  /\ UNCHANGED writeLock
  /\ Return(t)

\* An exception unwinds the handler: `with _write_lock` releases the lock.
Abort(t) ==
  /\ writeLock' = None
  /\ Return(t)

-----------------------------------------------------------------------------
(* POST, PATCH and DELETE take the write lock and look up what is managed. *)
(* A request that is refused (404, 409, a failed lookup) changes nothing.  *)

Accept(t, label, n, d) ==
  /\ pc[t] = "idle"
  /\ writeLock = None
  /\ requests < MaxRequests
  /\ requests' = requests + 1
  /\ writeLock' = t
  /\ Goto(t, label)
  /\ req' = [req EXCEPT ![t] = d]
  /\ target' = [target EXCEPT ![t] = n]
  /\ idx' = [idx EXCEPT ![t] = 1]
  /\ UNCHANGED <<cluster, scenario, crashes>>

\* Mutant: only a second template of the same name is refused.
NoConflict_SameNameOnly(d) == DocName[d] \notin Managed

\* `if existing and existing != [name]` is the 409 of POST.
NoConflict(d) == Managed \subseteq {DocName[d]}

\* list_managed answers [] when its call to the API server fails.
PostTemplate(t, d) ==
  /\ Accept(t, "config", DocName[d], d)
  /\ \/ NoConflict(d) /\ UNCHANGED faults
     \/ Fault("list")

\* The patch is merged onto the template found in some annotation; a merge
\* adds and changes roles but removes none, and the result is materialised
\* as a legacy template.
PatchTemplate(t, d) ==
  /\ Managed = {DocName[d]}
  /\ PhaseIds[d] = << >>
  /\ \E existing \in StoredTemplates(DocName[d]) :
       RangeOf(DocRoles[existing]) \subseteq RangeOf(DocRoles[d])
  /\ Accept(t, "config", DocName[d], d)
  /\ UNCHANGED faults

DeleteTemplate(t, n) ==
  /\ Managed = {n}
  /\ Accept(t, "stop", n, None)
  /\ UNCHANGED faults

-----------------------------------------------------------------------------
(* materialise(): Phase 1 creates or updates each role's ConfigMap and     *)
(* workload, Phase 2 rewrites the configs that have peers.  A call whose   *)
(* answer is lost has failed for the handler although it took effect.      *)

\* Mutant: a 409 counts as applied, so an existing object keeps its content.
ConfigMapApplied_CreateOnly(t) ==
  IF cm[target[t]][RoleAt(t)] # None
    THEN UNCHANGED cm
    ELSE cm' = [cm EXCEPT ![target[t]][RoleAt(t)] =
                  [tmpl |-> req[t], load |-> req[t], x |-> InitialX(req[t]),
                   peers |-> None]]

ConfigMapApplied(t) ==
  cm' = [cm EXCEPT ![target[t]][RoleAt(t)] =
           [tmpl |-> req[t], load |-> req[t], x |-> InitialX(req[t]),
            peers |-> None]]

ApplyConfigMap(t) ==
  /\ pc[t] = "config"
  /\ \/ /\ ConfigMapApplied(t)
        /\ Goto(t, "workload")
        /\ UNCHANGED <<writeLock, req, target, idx, faults>>
     \/ /\ Fault("apply")
        /\ ConfigMapApplied(t) \/ UNCHANGED cm
        /\ Abort(t)
  /\ UNCHANGED <<dep, scenario, crashes, requests>>

WorkloadApplied(t) ==
  dep' = [dep EXCEPT ![target[t]] = @ \cup {RoleAt(t)}]

\* Mutant: the loop runs one index too far.
NextRole_OffByOne(t, again, after) ==
  IF idx[t] <= Len(DocRoles[req[t]])
    THEN Goto(t, again) /\ idx' = [idx EXCEPT ![t] = @ + 1]
    ELSE Goto(t, after) /\ idx' = [idx EXCEPT ![t] = 1]

\* The next role of the loop, or the label that follows the loop.
NextRole(t, again, after) ==
  IF idx[t] < Len(DocRoles[req[t]])
    THEN Goto(t, again) /\ idx' = [idx EXCEPT ![t] = @ + 1]
    ELSE Goto(t, after) /\ idx' = [idx EXCEPT ![t] = 1]

ApplyWorkload(t) ==
  /\ pc[t] = "workload"
  /\ \/ /\ WorkloadApplied(t)
        /\ NextRole(t, "config", "peers")
        /\ UNCHANGED <<writeLock, req, target, faults>>
     \/ /\ Fault("apply")
        /\ WorkloadApplied(t) \/ UNCHANGED dep
        /\ Abort(t)
  /\ UNCHANGED <<cm, scenario, crashes, requests>>

PeersPatched(t) ==
  /\ RoleAt(t) \in PeerRoles[req[t]]
  /\ cm[target[t]][RoleAt(t)] # None
  /\ cm' = [cm EXCEPT ![target[t]][RoleAt(t)] =
              [@ EXCEPT !.load = req[t], !.x = InitialX(req[t]),
                        !.peers = req[t]]]

\* The endpoints are read before the first role, and only if there are peers.
CallsInPhase2(t) ==
  \/ RoleAt(t) \in PeerRoles[req[t]]
  \/ idx[t] = 1 /\ PeerRoles[req[t]] # {}

\* A patch that is refused, or endpoints still empty after the wait, is only
\* logged; a call that times out ends the handler, before any runner.start.
PatchPeers(t) ==
  /\ pc[t] = "peers"
  /\ \/ /\ \/ PeersPatched(t) /\ UNCHANGED faults
           \/ RoleAt(t) \in PeerRoles[req[t]] /\ Fault("peers") /\ UNCHANGED cm
           \/ RoleAt(t) \notin PeerRoles[req[t]] /\ UNCHANGED <<cm, faults>>
        /\ NextRole(t, "peers", "finish")
        /\ UNCHANGED <<writeLock, req, target>>
     \/ /\ CallsInPhase2(t) /\ Fault("timeout")
        /\ PeersPatched(t) \/ UNCHANGED cm
        /\ Abort(t)
  /\ UNCHANGED <<dep, scenario, crashes, requests>>

\* The lock is released; only then does a topology start its runner.
FinishMaterialise(t) ==
  /\ pc[t] = "finish"
  /\ writeLock' = None
  /\ IF PhaseIds[req[t]] = << >>
       THEN Return(t)
       ELSE Goto(t, "start") /\ UNCHANGED <<req, target, idx>>
  /\ UNCHANGED <<cluster, scenario, bounds>>

-----------------------------------------------------------------------------
(* runner.start() and runner.stop() *)

\* ScenarioRunner(phases, name).start()
Launch(r, d) ==
  /\ runner[r].st = "off"
  /\ runner' = [runner EXCEPT ![r] =
       [RunnerOff EXCEPT !.st = "wait", !.doc = d, !.clock = 1]]
  /\ current' = r

\* Mutant: the old runner is joined but its event is never set.
SignalStop_NoEvent(t, label) ==
  /\ current # None
  /\ runnerLock' = t
  /\ Goto(t, label)
  /\ UNCHANGED <<current, runner, stopping>>

\* _current.stop(): set the event; the join comes next.
SignalStop(t, label) ==
  /\ current # None
  /\ stopping' = stopping \cup {current}
  /\ runnerLock' = t
  /\ Goto(t, label)
  /\ UNCHANGED <<current, runner>>

\* join(timeout) returns when the thread has ended, or after 7 s, which only
\* a thread busy with Kubernetes calls can outlast.
Joined ==
  \/ runner[current].st = "off"
  \/ JoinMayTimeOut /\ runner[current].st \in {"read", "write"}

RunnerStart(t) ==
  /\ pc[t] = "start"
  /\ runnerLock = None
  /\ \/ /\ current = None
        /\ \E r \in Runners : Launch(r, req[t])
        /\ Return(t)
        /\ UNCHANGED <<runnerLock, stopping>>
     \/ SignalStop(t, "startjoin") /\ UNCHANGED <<req, target, idx>>
  /\ UNCHANGED <<cluster, writeLock, bounds>>

RunnerStartJoin(t) ==
  /\ pc[t] = "startjoin"
  /\ Joined
  /\ \E r \in Runners : Launch(r, req[t])
  /\ runnerLock' = None
  /\ Return(t)
  /\ UNCHANGED <<cluster, writeLock, stopping, bounds>>

RunnerStop(t) ==
  /\ pc[t] = "stop"
  /\ runnerLock = None
  /\ \/ current = None /\ Goto(t, "deldep") /\ UNCHANGED scenario
     \/ SignalStop(t, "stopjoin")
  /\ UNCHANGED <<cluster, writeLock, req, target, idx, bounds>>

RunnerStopJoin(t) ==
  /\ pc[t] = "stopjoin"
  /\ Joined
  /\ current' = None
  /\ runnerLock' = None
  /\ Goto(t, "deldep")
  /\ UNCHANGED <<cluster, writeLock, req, target, idx, runner, stopping, bounds>>

-----------------------------------------------------------------------------
(* teardown(): workloads first, then ConfigMaps; an error status is only   *)
(* logged, a call that times out ends the handler.                         *)

\* Mutant: the ConfigMaps go first.
DeleteWorkloads_ConfigsFirst(t) ==
  /\ pc[t] = "deldep"
  /\ cm' = [cm EXCEPT ![target[t]] = [r \in Roles |-> None]]
  /\ Goto(t, "delcm")
  /\ UNCHANGED <<dep, writeLock, req, target, idx, scenario, bounds>>

WorkloadsDeleted(t) == dep' = [dep EXCEPT ![target[t]] = {}]

DeleteWorkloads(t) ==
  /\ pc[t] = "deldep"
  /\ \/ /\ \/ WorkloadsDeleted(t) /\ UNCHANGED faults
           \/ Fault("deldep") /\ UNCHANGED dep
        /\ Goto(t, "delcm")
        /\ UNCHANGED <<writeLock, req, target, idx>>
     \/ /\ Fault("timeout")
        /\ WorkloadsDeleted(t) \/ UNCHANGED dep
        /\ Abort(t)
  /\ UNCHANGED <<cm, scenario, crashes, requests>>

ConfigMapsDeleted(t) ==
  cm' = [cm EXCEPT ![target[t]] = [r \in Roles |-> None]]

\* The handler's last call: raise or return, the lock is released.
DeleteConfigMaps(t) ==
  /\ pc[t] = "delcm"
  /\ \/ ConfigMapsDeleted(t) /\ UNCHANGED faults
     \/ Fault("delcm") /\ UNCHANGED cm
     \/ Fault("timeout") /\ (ConfigMapsDeleted(t) \/ UNCHANGED cm)
  /\ writeLock' = None
  /\ Return(t)
  /\ UNCHANGED <<dep, scenario, crashes, requests>>

-----------------------------------------------------------------------------
(* The runner thread: every tick it looks for the active phase, and when   *)
(* the phase id is new it runs patch_system_x, one read and one patch per  *)
(* role, without the write lock.                                           *)

PhasesOf(r) == PhaseIds[runner[r].doc]

\* Wall-clock time moves on to the next phase, in the end past the last.
AdvanceClock(r) ==
  /\ runner[r].st # "off"
  /\ runner[r].clock <= Len(PhasesOf(r))
  /\ runner' = [runner EXCEPT ![r].clock = @ + 1]
  /\ UNCHANGED <<cluster, writeLock, threads, runnerLock, current, stopping, bounds>>

\* A lookup that finds no template raises, and the next tick tries again.
Tick(r) ==
  /\ runner[r].st = "wait"
  /\ r \notin stopping
  /\ runner[r].clock <= Len(PhasesOf(r))
  /\ PhasesOf(r)[runner[r].clock] # runner[r].last
  /\ \E found \in StoredTemplates(DocName[runner[r].doc]) :
       runner' = [runner EXCEPT ![r] =
         [@ EXCEPT !.st = "read", !.phase = runner[r].clock, !.tmpl = found, !.i = 1]]
  /\ UNCHANGED <<cluster, writeLock, threads, runnerLock, current, stopping, bounds>>

\* The ConfigMap key the loop of runner r is at.
RunnerRole(r) == DocRoles[runner[r].tmpl][runner[r].i]
RunnerConfig(r) == cm[DocName[runner[r].doc]][RunnerRole(r)]

\* patch_system_x is over, and with it its local variables are gone.
RunnerIdle(r) ==
  [runner[r] EXCEPT !.st = "wait", !.i = 0, !.buf = None, !.tmpl = None, !.phase = 0]

\* The next role; after the last one patch_system_x returns normally and the
\* phase counts as applied.
RunnerNext(r) ==
  runner' = [runner EXCEPT ![r] =
    IF runner[r].i < Len(DocRoles[runner[r].tmpl])
      THEN [runner[r] EXCEPT !.st = "read", !.i = @ + 1, !.buf = None]
      ELSE [RunnerIdle(r) EXCEPT !.last = PhasesOf(r)[runner[r].phase]]]

\* Mutant: an exception counts as the phase applied, like a normal return.
RunnerRaises_Applied(r) ==
  /\ Fault("timeout")
  /\ runner' = [runner EXCEPT ![r] =
       [RunnerIdle(r) EXCEPT !.last = PhasesOf(r)[runner[r].phase]]]

\* patch_system_x raises: the phase does not count as applied, and the next
\* tick starts over.
RunnerRaises(r) ==
  /\ Fault("timeout")
  /\ runner' = [runner EXCEPT ![r] = RunnerIdle(r)]

\* A role whose read or patch is answered with an error status is skipped.
ReadConfig(r) ==
  /\ runner[r].st = "read"
  /\ \/ /\ RunnerConfig(r) # None
        /\ runner' = [runner EXCEPT ![r] =
             [@ EXCEPT !.st = "write", !.buf = RunnerConfig(r)]]
        /\ UNCHANGED faults
     \/ RunnerConfig(r) = None /\ RunnerNext(r) /\ UNCHANGED faults
     \/ Fault("runner") /\ RunnerNext(r)
     \/ RunnerRaises(r)
  /\ UNCHANGED <<cluster, writeLock, threads, runnerLock, current, stopping,
                 crashes, requests>>

\* Mutant: the runner applies the ConfigMap, creating it when it is gone.
WriteConfig_Upsert(r) ==
  /\ runner[r].st = "write"
  /\ cm' = [cm EXCEPT ![DocName[runner[r].doc]][RunnerRole(r)] =
       [runner[r].buf EXCEPT !.x = [graph |-> runner[r].tmpl,
          src |-> runner[r].doc, phase |-> runner[r].phase]]]
  /\ RunnerNext(r)
  /\ UNCHANGED <<dep, writeLock, threads, runnerLock, current, stopping, bounds>>

\* config.json is written back whole: what was read, with a new x.
ConfigWritten(r) ==
  /\ RunnerConfig(r) # None
  /\ cm' = [cm EXCEPT ![DocName[runner[r].doc]][RunnerRole(r)] =
       [@ EXCEPT !.load = runner[r].buf.load,
                 !.peers = runner[r].buf.peers,
                 !.x = [graph |-> runner[r].tmpl, src |-> runner[r].doc,
                        phase |-> runner[r].phase]]]

\* A patch of a ConfigMap that is gone answers 404 and creates nothing.
WriteConfig(r) ==
  /\ runner[r].st = "write"
  /\ \/ ConfigWritten(r) /\ RunnerNext(r) /\ UNCHANGED faults
     \/ RunnerConfig(r) = None /\ RunnerNext(r) /\ UNCHANGED <<cm, faults>>
     \/ Fault("runner") /\ RunnerNext(r) /\ UNCHANGED cm
     \/ RunnerRaises(r) /\ (ConfigWritten(r) \/ UNCHANGED cm)
  /\ UNCHANGED <<dep, writeLock, threads, runnerLock, current, stopping,
                 crashes, requests>>

\* _stop_event is only looked at between two ticks.
RunnerExit(r) ==
  /\ runner[r].st = "wait"
  /\ r \in stopping
  /\ runner' = [runner EXCEPT ![r] = RunnerOff]
  /\ stopping' = stopping \ {r}
  /\ UNCHANGED <<cluster, writeLock, threads, runnerLock, current, bounds>>

-----------------------------------------------------------------------------
(* The controller pod dies and its replacement starts: the cluster stays,  *)
(* every thread, lock and runner is gone.  Nothing starts a runner again.  *)

Crash ==
  /\ crashes < MaxCrashes
  /\ crashes' = crashes + 1
  /\ writeLock' = None
  /\ pc' = [t \in Threads |-> "idle"]
  /\ req' = [t \in Threads |-> None]
  /\ target' = [t \in Threads |-> None]
  /\ idx' = [t \in Threads |-> 0]
  /\ runnerLock' = None
  /\ current' = None
  /\ runner' = [r \in Runners |-> RunnerOff]
  /\ stopping' = {}
  /\ UNCHANGED <<cluster, faults, requests>>

-----------------------------------------------------------------------------
Request(t) ==
  \/ \E d \in Docs : PostTemplate(t, d) \/ PatchTemplate(t, d)
  \/ \E n \in Names : DeleteTemplate(t, n)

\* The steps a handler takes once its request is accepted.
Handler(t) ==
  \/ ApplyConfigMap(t) \/ ApplyWorkload(t) \/ PatchPeers(t)
  \/ FinishMaterialise(t)
  \/ RunnerStart(t) \/ RunnerStartJoin(t)
  \/ RunnerStop(t) \/ RunnerStopJoin(t)
  \/ DeleteWorkloads(t) \/ DeleteConfigMaps(t)

RunnerThread(r) == Tick(r) \/ ReadConfig(r) \/ WriteConfig(r) \/ RunnerExit(r)

Next ==
  \/ \E t \in Threads : Request(t) \/ Handler(t)
  \/ \E r \in Runners : RunnerThread(r) \/ AdvanceClock(r)
  \/ Crash

Spec == Init /\ [][Next]_vars

\* Every Kubernetes call returns or times out, and a thread that can run
\* does; nobody has to send a request and no phase has to end.
Fairness ==
  /\ \A t \in Threads : WF_vars(Handler(t))
  /\ \A r \in Runners : WF_vars(RunnerThread(r))

FairSpec == Spec /\ Fairness

-----------------------------------------------------------------------------
(* Safety *)

\* "One controller manages exactly ONE template": no two names have
\* ConfigMaps at once, whatever fails part way through POST, PATCH, DELETE or
\* the runner, as long as list_managed gets its answer.
AtMostOneTemplate ==
  \A m, n \in Managed : m = n

\* When materialise() gets to its end, every role of the document carries the
\* document's annotation and has a workload, whatever an earlier attempt, an
\* aborted request or a restart left behind, and whatever a runner patches
\* meanwhile (materialise is idempotent, a retry recovers).
MaterialiseComplete ==
  \A t \in Threads : pc[t] = "finish" =>
    \A role \in RangeOf(DocRoles[req[t]]) :
      /\ cm[target[t]][role] # None
      /\ cm[target[t]][role].tmpl = req[t]
      /\ role \in dep[target[t]]

\* Every runner thread that is alive and has not been told to stop is the
\* module's _current one: start() and stop() never lose track of a thread
\* that will enter another phase.
OneCurrentRunner ==
  \A r \in Runners : runner[r].st # "off" /\ r \notin stopping => r = current

\* Workers always have their config: a workload's ConfigMap is created before
\* it and, as teardown's comment says, goes after it.
WorkloadsHaveConfig ==
  \A n \in Names : \A role \in dep[n] : cm[n][role] # None

\* The runner is "stopped on DELETE": when no request is in progress and
\* nothing is materialised, no runner is left that would enter a phase.
StoppedOnDelete ==
  Managed = {} /\ (\A t \in Threads : pc[t] = "idle")
    => \A r \in Runners : runner[r].st = "off" \/ r \in stopping

(* Action properties *)

\* ConfigMaps come and go only under the write lock and only for the name its
\* holder works on, which keeps the check-then-act of POST and DELETE atomic:
\* a runner late for a DELETE brings nothing back.
OnlyWriterCreatesAndDeletes ==
  [][\A n \in Names : \A role \in Roles :
       (cm[n][role] = None) # (cm'[n][role] = None)
         => writeLock # None /\ target[writeLock] = n]_vars

\* "All other fields (peers, server_count, port_offset_by_pod) are preserved"
\* by the patch of patch_system_x.
RunnerPreservesConfig ==
  [][\A r \in Runners : runner[r].st = "write" /\ runner'[r].st # "write" =>
       \A n \in Names : \A role \in Roles :
         cm[n][role] # None /\ cm'[n][role] # None =>
           /\ cm'[n][role].peers = cm[n][role].peers
           /\ cm'[n][role].load = cm[n][role].load]_vars

(* Liveness *)

\* No request keeps the write lock for ever: every handler gets through its
\* calls, its failures and its wait for the runner.
LockReleased ==
  \A t \in Threads : writeLock = t ~> writeLock # t

\* Runner r is left alone in phase p of its document over template g: every
\* handler is idle, no other runner is alive and the annotations agree.
Undisturbed(r, g, p) ==
  /\ current = r /\ r \notin stopping /\ runner[r].st # "off"
  /\ runner[r].clock = p /\ p <= Len(PhasesOf(r))
  /\ \A other \in Runners \ {r} : runner[other].st = "off"
  /\ \A t \in Threads : pc[t] = "idle"
  /\ Managed = {DocName[runner[r].doc]}
  /\ StoredTemplates(DocName[runner[r].doc]) = {g}

\* It has not entered the phase yet.
Entering(r, g, p) ==
  /\ Undisturbed(r, g, p)
  /\ runner[r].st = "wait"
  /\ PhasesOf(r)[p] # runner[r].last

AtPhase(r, g, p) ==
  \A role \in RangeOf(DocRoles[g]) :
    LET config == cm[DocName[runner[r].doc]][role] IN
    config # None =>
      config.x = [graph |-> g, src |-> runner[r].doc, phase |-> p]

PhaseNumbers == UNION {DOMAIN PhaseIds[d] : d \in Docs}

\* The scenario is applied: a runner that has a phase to enter and is left
\* alone brings every role to it, resolved over the graph that is stored, and
\* "retries on the next tick" what failed.
PhaseApplied ==
  \A r \in Runners : \A g \in Docs : \A p \in PhaseNumbers :
    [](Entering(r, g, p) /\ []Undisturbed(r, g, p) => <>[]AtPhase(r, g, p))

=============================================================================
