# TLA+ models of the cloud-native emulator

The emulator turns a template or a topology into a set of Kubernetes workers
that produce CPU, RAM and network load. A controller (one replica) takes the
document over HTTP, writes one ConfigMap, Deployment and Service per role, and
plays a scenario of phases by rewriting the ConfigMaps; the workers watch their
config and start `stress-ng` and `iperf3` accordingly. The models cover the
parts of this that are concurrent, that fail part way, or whose arithmetic has
to be right for every role graph.

Run a model with `tlc -config X.cfg M` and the proofs with `tlapm M.tla`;
`PROJECT.json` says which module each configuration belongs to.

## Inventory

| Part | Code | State it keeps | Operations | Hard about it |
|---|---|---|---|---|
| HTTP writers | `controller/app.py` | `_write_lock` | POST, PATCH, DELETE `/template` | check-then-act on what is managed; the runner is started after the lock is released |
| Materialiser | `controller/materialiser.py` | none, the cluster is the state | `materialise`, `patch_template`, `teardown`, `list_managed`, `get_managed`, `patch_system_x` | a sequence of calls that may stop anywhere; failures that are logged only; read-modify-write |
| Scenario runner | `controller/runner.py` | `_current`, `_lock`, a thread with `_stop_event` and the last phase applied | `start`, `stop`, the tick loop | a thread that patches without the write lock; join with a time limit |
| Port offsets | `materialiser._resolve_peer_ips`, `_compute_fanin` | local | greedy colouring of source pods, server counts | fan-out over several shared sinks; pods that are late |
| Signal propagation | `materialiser._compute_resolved_x` | local | Kahn's algorithm over the role graph | cycles, duplicate edges and self-edges |
| Validation, translation | `materialiser.validate_*`, `translate_topology` | none | document to template, check of the tiers' nodes | numeric edges, apps that share roles, links that share tiers, what is found out too late |
| Kubernetes client | `controller/k8s.py` | token cache | GET, POST, PATCH, DELETE | an answer may be lost after the call took effect |
| Link shaping | `controller/netem.py`, `linkspec.py` | `tc` state of each node | `apply`, `teardown` | best effort per node: one end of a link may be shaped |
| Worker: watcher, configure | `worker/watcher.py`, `worker.py` | debounce timer, `STATE` | reload, `configure` | timer threads that may run `configure` at once |
| Worker: load generators | `worker/loads.py` | processes, peer supervisors, server pool, RAM buffer | `start_*`, `stop_current`, recycler | supervisors and recycler race with reconfiguration |
| Worker: sampler | `worker/metrics.py` | rolling windows | `_adjust_cpu`, `_adjust_ram` | feedback over a quantised actuator, racing `configure` |
| Host provisioner | `provision/provision.py` | VMs and node labels | `up`, `down_nodes` | stops half way; must adopt what exists |
| Read API, graph, Prometheus | `controller/api.py`, `graph.py`, `prom.py` | none | read only | nothing the models are for |
| LLM calibration | `provision/calibrate_llm.py` | none | offline curve fit | a separate tool |

How they interact: an HTTP writer holds `_write_lock` around the materialiser's
calls, releases it, and then calls `runner.start`; DELETE calls `runner.stop`
under it. The runner thread calls `patch_system_x`, which reads and patches the
same ConfigMaps the materialiser writes, with no lock. The kubelet carries a
ConfigMap into the pod, where the watcher calls `configure`. Source and target
pods meet in iperf3 sessions whose ports the materialiser assigned. On a host
with `multipass`, POST calls `provision.up` before it materialises and DELETE
calls `provision.down_nodes` after its teardown, both under `_write_lock`; every
materialise and every teardown also runs `netem` over the labelled nodes. In a
worker, `configure`, the sampler and the recycler are threads over the same
processes.

What makes each part correct:

- Writers and materialiser: at most one template at a time; a ConfigMap outlives
  its workload; a materialise that reports success has applied every role; the
  lock is always given back.
- Runner: at most one runner that still enters phases; it is stopped by DELETE;
  it leaves the rest of the config alone; the phase in force is what the roles run.
- Port offsets: two pods that share a target get different offsets, every client
  finds a server listening, no offset is wasted.
- Propagation: each role's x is the sum of its upstream egress, or a cycle is
  reported.
- Worker: one generation of processes at a time, no session cut off while alive,
  the loops settle.
- Validation and translation: a document that is wrong is refused before
  anything is provisioned; one that is accepted gets the links, tiers and phases
  it describes.
- Link shaping and provisioning: a repeated run converges to the document.

## Modules

| Module | Models | Runs |
|---|---|---|
| `Controller` | writers, materialiser, runner and the cluster objects they share | `controller_*`, `v_singleton_list_error`, `v_runner_*` |
| `TemplateSlot` | abstract: one slot that one request at a time fills or empties | |
| `ControllerSlot` | the refinement of `TemplateSlot` by `Controller` | `controller_singleton` |
| `Topology` | extends `XPropagation` with a topology's POST, from validation to materialisation, and the runner's timeline | `topology` |
| `XPropagation` | Kahn's algorithm of `_compute_resolved_x`, one iteration of each loop per step | `topology` |
| `PortOffsets` | the greedy colouring, one iteration of its inner loop per step | `peersessions` |
| `PeerSessions` | extends `PortOffsets` with Phase 2 of `materialise`, the workers' own lookup, server pools and replaced pods | `peersessions` |
| `PeerClients` | a worker's reconfiguration as its outbound links see it: debounce, `configure`, `stop_current`, `start_network`'s clients, peer supervisors | `peerclients` |
| `WorkerLoad` | a worker's reconfiguration as its servers and its load see it: `configure`, the sampler's CPU and RAM loops, the server recycler | `workerload`, `v_cpu_windup` |
| `Host` | VMs, nodes and links: `provision.up`, `down_nodes`, `netem` | `host` |
| `MC*` | the instances | |
| `ControllerProofs`, `PeerSessionsProofs` (with `PortOffsets`), `XPropagationProofs`, `TopologyProofs`, `PeerClientsProofs`, `WorkerLoadProofs`, `HostProofs` | theorems | |
| `SumLemmas` | lemmas about sums over finite sets | |

### Controller

State and code:

- `cm[n][r]` is the ConfigMap of role `r` of template `n`: its template
  annotation, and the parts of `config.json` that different writers rewrite
  (load formulas, resolved x, peers). Each is represented by the document it was
  computed from, and x by role graph, timeline and phase.
- `dep[n]` holds the roles with a workload, a Deployment together with its Service.
- `writeLock`, `runnerLock`, `current` and `stopping` are `_write_lock`,
  `_lock`, `_current` and the `_stop_event`s.
- `pc`, `req`, `target`, `idx` are a request thread's place in its handler.
- `runner[r]` is a runner thread: its document, the phase the clock is in, the
  last phase id it believes applied, and its place in `patch_system_x`, with the
  config it has read and not yet written (`buf`).

Each Kubernetes call is an action. `PostTemplate`, `PatchTemplate` and
`DeleteTemplate` are the part of a handler up to the end of its checks; those
are under the write lock, so nothing comes between the check and the first call
that another writer could do. Requests that are refused change nothing and are
not modelled. Then `ApplyConfigMap` and `ApplyWorkload` alternate over the roles
(Phase 1), `PatchPeers` passes over them again (Phase 2), `FinishMaterialise`
releases the lock, and for a topology `RunnerStart` and `RunnerStartJoin`
replace the runner. DELETE goes through `RunnerStop`, `RunnerStopJoin`,
`DeleteWorkloads` and `DeleteConfigMaps`. `Tick`, `ReadConfig`, `WriteConfig`
and `RunnerExit` are the runner, `AdvanceClock` is time, `Crash` is a restart of
the controller pod, which loses every thread and lock and keeps the cluster.

A failing call is `Fault(kind)`. A create or update that fails may have taken
effect, as when its answer is lost. A call that is answered with an error status
aborts the handler in Phase 1; in Phase 2, in `teardown` and in `patch_system_x`
the code logs it and goes on. A failed `list` is read as "nothing is managed",
which is what `list_managed` answers. A call that times out is different:
`k8s.request` catches `HTTPError` and `URLError` only, so that the exception ends
the handler wherever it is (`"timeout"`): Phase 2 without a `runner.start`,
`teardown` with what is left of the collections, `patch_system_x` without the
phase counting as applied (`RunnerRaises`).

Left out: provisioning and link shaping, which are in `Host`; the readable detail
of documents, which is in `Topology`.

`TemplateSlot` says what the handlers' hundred lines of calls amount to: one slot,
`slot`, and one request at a time, `holder`, that may fill or empty it.
`ControllerSlot` maps `slot` to the name `list_managed` finds and `holder` to
the name that the thread with `_write_lock` works on. A POST fills the slot with
its first ConfigMap, a DELETE empties it with its last one, and every other
call, each step of a runner included, is a stutter.

### Topology

A document is a record of its sections as lists of small records. `stage` is how
far its POST is: `posted`, `resolving` while `XPropagation` runs, `valid`,
`provisioned`, `checked`, `running`, or refused, `400` or `late 400` when the
refusal comes with the VMs already there. The cross references are the code's
dicts: `Lookup` is a dict built from a list, where the last entry of a key
counts. `RoleByApp`, `AppLoads`, `RoleEdges`, `XToRoles`, `LatencyIndex` and
`BandwidthIndex` translate; `ValidReferences`, `ValidTimeline`,
`ValidLinkValues`, `ValidInfrastructure` and `ValidTemplate` are the four
validators the document meets, in the order in which it meets them. Latency is
in tenths of a millisecond so that `round()`'s halves to even are seen.
`CheckSites` reads any set of Ready nodes. `ApplyPhase` is a runner tick that
finds a new active phase and propagates x anew; `Elapse` is its clock.

`IsDocument` is the JSON shape of a document: its sections are lists, its numbers
numbers, a map of x has an entry per app. Documents of another shape are not
modelled, nor are `cpu` and `ram`, whose formulas are copied. Two kinds of names
are of any type, because `validate_topology` does not look at them: a site's
`tier_name` and a deployment's `node_name` (`NonStrings`; empty ones read as
missing). `validate_template` does look, when the VMs are there.
That is the only assumption about documents (`DocumentAssumption`); which of
them are valid is for the model to find out.

### PortOffsets and PeerSessions

`PortOffsets` takes the loops of `_resolve_peer_ips` literally: `pos` is the
pod, `cand` the inner `offset`, `used` is `used_by_target`. The Endpoints list
that Phase 2 gets after its wait is any set that contains all but the
`LatePods`, as `_wait_for_endpoint_pods` gives up after 30 s.

`PeerSessions` continues with the Phase 2 loop (`PatchRole`, including the
second reason to patch, a server count that differs from the fan-in), the
clients a pod starts from the patched config, and pods that a Deployment
replaces at any time after the Endpoints were read. `Port(p)` is the worker's
`port_offset_by_pod.get(POD_NAME, 0)`, `PoolSize` is `start_network`'s.

### XPropagation

`Scan` is the loop that queues the sources in template order, `Take` the `while`
loop, `Feed` the loop over a role's downstream set, in any order as a Python set
gives it. `queue`, `head`, `resolved`, `accum` and `remaining` are the code's
variables, `todo` is what is left of the inner loop. The edge list is a variable
that only a new call of the function sets. Floats are integers here: what is
summed and when does not depend on rounding.

### PeerClients

An update is three steps of the kubelet, as `watcher.py` describes them: it
writes a new directory (`WriteNew`), retargets the link that `open()` follows
(`SwapLink`), and removes the old one (`RemoveOld`). Each raises an event, which
the observer delivers later (`OnAnyEvent`). `MaybeReload` is the debounce: it
cancels the timer that `_timer` holds, in vain when that one has run out, and
arms another, on a thread of its own. A timer thread is `armed`, then `fired`,
past its last look at the cancellation; then it sets `_timer` to `None`, whichever
timer that was by now (`Unset`), and reads the file (`Load`). How long two
seconds are is not in the model: a timer may run out anywhere among the events
of an update, before the swap in particular.

`pc[r]` is the place of a thread that may run `configure()`: the main thread with
the config found at start-up, and the timers' threads. `stop_current` is
taken apart where other threads can get in between: `SignalStop`, `KillChildren`,
`JoinSupervisor` for each thread (a join gives up only on a supervisor blocked
reading a hung client; every other one ends within the 6 s), `KillAgain`,
`Forget`, `ClearState`. `sup[s]` is a supervisor thread with its client; `listed`
is `PEER_SUPS` and `children` is `PEER_CHILDREN`, from which a client is missing
between `Popen` and `add` (`Spawn`, `Register`). `StartNetwork` may find that the
server pool did not bind (`poolUp`), and then starts no client. Clients
exit, hang and recover on their own. Server pool, CPU and RAM load are in
`WorkerLoad`. A supervisor reads its client's output only when it decides
something, after the stop event (`ReadLine`); the throughput it publishes is left
out, and so is its end when there is no `iperf3` binary (`loads.py:300-302`),
which the worker's image has.

`MayOverlap` says whether a reload may read its file while another thread is in
`configure()`. The code does not prevent it. The kubelet's sync period, about a
minute, makes it unlikely, and `peerclients` assumes it away: timers fire at any
time, and one that does during a `configure()` reads the file when that has ended.

### WorkerLoad

Three threads. `pc` is `configure()`: `DropRegistry`, `KillProcs`, `ClearProcs`,
`ResetLoads` and `ClearState` take `stop_current` apart where the two others can
get in between, `StartServers`, `SeedCpu` and `Publish` are what follows.
`spc` is the sampler: `ReadUsage`, `AdjustRam` with `AllocateRam`, `AdjustCpu`.
Both run `start_cpu`, `cpuPc[t]` being the place of thread `t` in it: stop what
is in `STRESS_PROCS`, record the request and the command, `Popen`, append to
`PROCS`, append to `STRESS_PROCS`. `tick` is the recycler, whose `Snapshot` of
the connections comes before its `Sweep` under the registry's lock.

`load[p]` is the command a stress-ng process runs and `None` when it is dead,
whatever list it is in; `procs`, `stress`, `stressMc`, `cmd`, `registry`,
`applied` are `PROCS`, `STRESS_PROCS`, `CPU_STRESS_MC`, `CPU_STRESS_CMD`,
`IPERF_SERVERS` and `STATE`. What the cgroup reports is `Total`, the footprint
of iperf3 and Python under that config plus what the processes use, up to
`Capacity`, the node's cores or the CPU limit of the pod. A CPU reading is any of
the totals since the last one (`levels`), as a rolling average may be dominated by any of them; a reading is `settled` when
there was only one. `server[p]` is the state of the server on a port: free, busy
with a client, stuck after its client died, or dead. `unseen[p]` is
`now - last_seen`, in recycler ticks.

Abstracted: the loops over `PROCS` are each one step, the dip of CPU between a
stop and a start does not enter a reading, a client that a stuck server refuses
is gone at once, and one reload ends before the next begins (overlaps are in
`PeerClients`).

### Host

A document is its nodes with their sites, and its links between tiers. `vm[n]`,
`kube[n]` and `label[n]` are a node's VM, its node object and its labels,
`shape[n]` the peers its NIC is shaped towards. POST is `ListVMs`, then per node
`Adopt` or `Launch`, `Ready`, `Label`; then `Store` (materialise) and the
shaping: `ListNodes` and `ExecOnNode` for each. PATCH stores and shapes; what its
merge makes of the links is another document's, nothing, or a bandwidth that does
not parse, which no validator of a PATCH looks at and which ends `netem.apply`
(`LinkSets`, `Unparsed`). DELETE
is `Resolve` (`topology_node_names`), the clearing of the shaping, `Drop`
(teardown), `ListToRemove` and `RemoveNode`. Each command may fail; a
`multipass exec` that times out may run all the same, later (`late`, `Land`); a
VM may restart and lose its `tc` rules; a failed `multipass list` reads as no
VMs. What raises ends the handler (`Raise`) and leaves what it has done, what is
logged only goes on. A shaping script that fails leaves the node as it was, or
with its root qdisc deleted and some of the peers shaped, since the script goes on
after a `tc` command that fails (`Partial`). `clean` says that nothing failed in
the request.

Which node is shaped towards which peers with which values is kept; the script
that does so is not.

## Runs

Bounds are CONSTANTS, given in the `.cfg` files.

| Run | Asks | Instance |
|---|---|---|
| `controller_singleton` | is there ever a second template, a workload without config, a ConfigMap created or deleted by someone else; does the controller implement `TemplateSlot` | two request threads, three requests, a topology and a legacy template of another name, one fault (apply, ConfigMap delete, runner or a timeout), one restart, joins that time out |
| `controller_degraded` | types, completeness of `materialise`, one current runner, the lock is given back; a runner left alone brings every role to its phase | two threads, two requests, a topology of two phases and a legacy template of one name; one fault, of any call of a handler, or a timeout of any call, the runner's included; one restart, joins that time out, weak fairness |
| `topology` | order, values and verdict of the propagation; what can still be refused after provisioning; links, tiers and phases come out as the document says | five families of documents: all 4096 edge sets over four apps, with repeated edges and self-edges on the small ones; link lists of up to three over three sites; deployments and apps that share roles; all timelines of one or two phases; tier and node names that are missing, shared, unknown or no strings |
| `peersessions` | the colouring, and the sessions that come of it | three source roles of seven pods over three sinks, one of them a relay in front of another and one a mesh with itself; any of four pods late, any patch may fail, one pod replaced, weak fairness of the colouring |
| `peerclients` | one live client per peer, supervisors that match the config, the last config applied, links that come back | two peers, three supervisor threads, the main thread and two timers, four configs, one update of three events and one hang; timers run out, clients exit at will, the pool may fail to bind; weak fairness |
| `workerload` | the pool is that of the config; broken servers come back; CPU and RAM settle, and no step of the CPU loop leads further away | seven configs in five sequences of two or three, four cores and a CPU limit of two, two ports, a grace of three ticks; clients and servers die at will; weak fairness |
| `host` | both ends of a link alike; DELETE strips; a repeated POST provisions | three nodes over two sites, one of which may exist before, two versions of a topology, two faults, unboundedly many requests; weak fairness |

The runs named `v_*` look for one counterexample each; see "Disagreements".

Why the bounds are enough to be of interest. Two threads are what it takes for
the lock to matter, and a third adds only waiting. Two names are what a second
template needs. Two roles let a handler stop between roles and leave the first
applied; two phases let the runner be ahead of or behind a re-post. One fault
and one restart reach each of the code's error paths at each point of the
handlers; the invariants that depend on no bound are proved. In `peersessions`
`api` and `batch` share no sink, and `web`, visited last, shares one with each:
an offset counted per target, or over the first target only, collides. The pods
that may be late are all those of `api` and `store`, so that the relay has
its sources listed or not, and has peers or not. In `peerclients` three threads are
the old supervisor that outlives its join beside two new ones. The three events of
one update are a burst in which a timer is re-armed, cancelled too late, or
forgotten for a younger one, and two timers are one that has fired and one that is
armed; a second update takes 13 million states, more than a run of minutes has. In
`topology` four apps are the smallest graph with a cycle reachable from a source
and one that is not, and three links are what it takes for two to say the same
pair of tiers in each orientation while another is about a third tier. In
`workerload` each config exercises one part (servers, one worker, two workers,
RAM, a footprint above the target), and the sequences put them next to each
other in the orders that matter, the stop in the middle included. In `host` two
nodes of one site let one of them be shaped and the other not, the second
version drops one, and two faults are one to break something and one in its
repair.

`CHECK_DEADLOCK FALSE` everywhere: with no further request, config or document
the system is idle.

Fairness. `FairSpec` of `Controller` gives weak fairness to the handler of each
thread and to each runner thread: every Kubernetes call has a time limit
(`k8s.py`), and Python threads that can run do. Nothing is assumed about clients
or about the clock, so no request need come and no phase need end. `SFairSpec` of
`PeerSessions` is weak fairness of a sequential loop. `FairSpec` of `PeerClients`
has the kubelet end an update it has begun, the observer deliver its events and
armed timers run out, and gives weak fairness to `configure()` and to each
supervisor; new updates, and what clients do, are not fair, so `LinkComesBack`
assumes that hung clients do not stay, and holds however often they exit.
`FairSpec` of `WorkerLoad` is weak fairness of `configure()`, of the sampler and
of the recycler, loops that sleep for a set time; clients, crashes and new
configs are not fair. `FairSpec` of `Host` is weak fairness of the handler, whose
commands all have time limits, and of a booting VM's cloud-init; nobody need post
again, so `RetriesProvision` has that as its premise.

## Proofs

Every invariant that a passing run checks is proved for every value of the
constants, together with the action properties `OnlyWriterCreatesAndDeletes` and
`CorrectionCloser` and the refinement `ImplementsSlot`. What the constants must
be is in the `ASSUME`s of the modules: the sets are finite, lists are lists,
numbers are numbers, and the sentinels (`None` for no command, `Unset` for one
not yet recorded) are no commands. A
theorem with a further assumption names it here; each of them is necessary, as
a run or one of the disagreements below shows. Bounds on requests, faults,
restarts and replaced pods are arbitrary.

| Theorem | States | Assumes |
|---|---|---|
| `ControllerProofs!TypeCorrect` | `TypeOK` | |
| `CheckThenActAtomic` | `OnlyWriterCreatesAndDeletes` | |
| `SingleTemplate` | `AtMostOneTemplate` | `"list"` is not among the faults |
| `SlotImplemented` | `ImplementsSlot` | `"list"` is not among the faults |
| `MaterialiseLeavesAll` | `MaterialiseComplete` | |
| `CurrentRunner` | `OneCurrentRunner` | |
| `ConfigOutlivesWorkload` | `WorkloadsHaveConfig` | `"deldep"` is not among the faults |
| `RunnerStopped` | `StoppedOnDelete` | one request at a time |
| `PeerSessionsProofs!TypeCorrect`, `CollisionFree`, `UsedOffsets`, `BoundedOffsets`, `SmallestOffsets` | `TypeOK`, `NoCollision`, `UsedIsAssigned`, `OffsetsBounded`, `NoGap` | |
| `AllColoured` | at the end exactly the pods that have a target got an offset | |
| `ColouringEnds` | `CandidatesLeft` is a natural number and every step lowers it | |
| `ServersForClients` | `EveryClientHasServer` | |
| `CountsGetThrough` | after Phase 2 no server count is stale | no patch fails |
| `XPropagationProofs!TypeCorrect`, `UpstreamsFirst`, `CycleVerdict`, `SumOfUpstreams` | `TypeOK`, `TopologicalOrder`, `RefusedIffCyclic`, `ResolvedIsSum` | |
| `PropagationEnds` | `StepsLeft` is a natural number and every step lowers it | |
| `TopologyProofs!PropagationTyped`, `PhasesPropagate` | the same four, over a topology's POST and its phases | |
| `RefusedEarly` | `LateRefusalForNames` | |
| `LinksOfTiers` | `LinksShaped` | |
| `PodsPinned` | `PinnedToTier` | |
| `OnePhase` | `OnePhaseAtATime` | |
| `SourcesGetPhase` | `PhaseReachesSources` | |
| `PeerClientsProofs!TypeCorrect` | `TypeOK` | |
| `NoDoubledClient` | `OneClientPerPeer` | `~MayOverlap` |
| `SupervisorsOfConfig` | `SupervisorsMatch` | `~MayOverlap` |
| `NoStrayClient` | `NoneLeft`: no client of an earlier config outlives `stop_current` | `~MayOverlap` |
| `WorkerLoadProofs!TypeCorrect` | `TypeOK` | |
| `PoolOfConfig` | `PoolMatches` | |
| `NeverFurther` | `CorrectionCloser` | `ToleranceMc >= 4` |
| `HostProofs!TypeCorrect` | `TypeOK` | |
| `LinksBothWays` | `BothEndsShaped` | |
| `DeleteStrips` | `StrippedByDelete` | |

### The arguments

`ControllerProofs`. `TInv` adds to `TypeOK` what a runner in the middle of
`patch_system_x` knows (`RunnerTyped`): which document it found, and that its
loop index is one of that document's roles. Without it `RunnerRole` is not a
role and nothing can be said of a patch. `LockInv` says that a thread is inside
the locked part of a handler exactly when it holds the write lock, and lemma
`Alone` follows: there is no other. The other invariants say what one thread has
done so far, and a second writer would disturb them. `OneName`: while the lock
is held, no other name than the holder's target has a ConfigMap, which is what
the 409 check established and what creating the next ConfigMap needs. The
refinement is proved from the same invariant, action by action: the slot is the
name of `OneName`, and a step that fills or empties it is one of the holder.
`Progress` is the loop invariant of Phase 1 and Phase 2: the roles before `idx`
are applied with this document's annotation; the runner leaves annotations
alone. `RunnerInv` says that `runner._lock` is held exactly while a thread joins
the old runner, that this runner has been told to stop or has ended, and that
only live runners are marked as stopping, so that a thread that gives up joining
still replaces the right runner and a new one is never born stopped.
`ConfigInv` orders ConfigMap and workload, in Phase 1 between the two calls of a
role and in `teardown` between its two deletes. `StopInv`: when nothing is
managed, and from the moment DELETE goes on to its deletes, no runner is
current, and a thread that is about to start one has something managed. The
second client that `RunnerStopped` excludes breaks exactly this last part
(`v_runner_survives_delete`).

`PeerSessionsProofs`. For the colouring, `CandidatesTaken` says that each
smaller candidate was passed over because it is in use at some target of the pod
at hand, and `UseBounded` that the candidate and the offsets in use stay within
the number of pods coloured, which turns the search for a free offset into a
bound. `PassedColoured` says that the pods the loop has passed are coloured if
they are to be, so that there are no more offsets in use than iterations; with it
`CandidatesLeft`, the candidates of the pods to come less those tried for the
current one, is a variant of the two nested loops, whose inner one has no bound in
the code. `SessionsColour` carries this over to Phase 2, which is the colouring or
a stutter. `CountsInv` says that a role's count is the estimate of Phase 1 or
the count of Phase 2, and that it is the estimate when none of its offsets are
in use and its peers were not patched. A client of an uncoloured pod uses port
0, so that part, and that an edge's source adds its pods to the estimate
(`SumNat`), are what `ServersForClients` needs for late pods.

`XPropagationProofs`. `CountInv` says that `remaining` counts exactly the
upstreams that have not fed the role, where `Passed` reads that off the queue,
`head` and `todo`; `LoopInv` that the roles left to feed are downstream of the
current one; `QueueInv` that a role is resolved exactly when nothing is left to
feed it. The verdict has two halves. At the end a role that is not resolved has
an upstream that is not resolved, so those roles contain a cycle. If all are
resolved the queue is a topological order, and the first role of an alleged
cycle in it would have an upstream of the cycle before it. `SumInv` says that
what a role has accumulated is the sum of what its `Passed` upstreams send, and
that a resolved role has been passed by all of them; a step of `Feed` adds one
upstream to `Passed` and its egress to `accum`. `PropagationEnds` needs no more
than that the queue holds a role once (`QueueBound`): the roles to scan, and the
downstream roles of those that may yet be taken from the queue, only get fewer, in a
graph with a cycle too.

`TopologyProofs`. `TInv` says that a document beyond `posted` is valid
(`DocInv`), that a refusal is late for a name only (`StageInv`), that the edges are the
document's and the template that of the phase applied last (`RunInv`), that each
tier pods are pinned to has had a Ready node (`SiteInv`), and the invariants of
the propagation. It rests on lemmas about the translation: what a dict built
from a list holds (`LookupIs`, `RoleByAppIn`, `DescOfIs`), that the loop which
collects the role edges collects those of the document (`LoopCollects`), that
the roles of a valid document make a valid template (`TemplateAccepted`), that
the windows of a valid timeline neither overlap nor leave a gap (`WindowsApart`,
`WindowsCover`) and that a source app's role has no upstream when every app has
a role of its own (`SourceAppsAlone`).

`PeerClientsProofs`. `LinkInv` follows `stop_current` line by line: after the
signal every listed supervisor has been told to stop; once joined it is not
between spawn and registration; after the second pass it sends nothing and will
start nothing (`Gone`), and only then is it forgotten. A supervisor that is not
listed therefore has no live client, and two that are listed have different
peers. This is where the second pass is needed: a client spawned after the first
one is met by the second.
`MatchInv` is the other half, what is listed outside `stop_current`. The two
give `NoStrayClient`: a client that runs belongs to a supervisor that is listed,
and one that is listed serves the config that `STATE` reports.
`~MayOverlap` enters as `Alone`.

`WorkerLoadProofs`. `PoolInv` says for each place of `configure()` what the
registry and the running servers are. While the pool is torn down the registry
is empty, and an empty registry is what keeps a recycler with an old snapshot
from respawning a server that was just killed. The types need that a command
derived from any request has a worker and a load between 1 and 100, that sums of
what processes use are numbers (`SumLemmas`), and that a process enters a list only
after it was spawned.

`CorrectionCloser` has an invariant and an arithmetic part. `CpuInv` follows the
sampler from the reading of a settled pod to the respawn: a thread is in
`start_cpu` only where it calls it (`StartedBy`), a command is that of the size
recorded with it (`Requested`), what is recorded runs (`Spawned`), and from the
reading on nothing else has changed what the pod uses (`Settled`): the one
process that ran is the one stopped, and the job is the `Corrected` size. The
arithmetic is then about one number of millicores replaced by another. A
command is within half a step of what was asked for as long as it fits the cores
(`CommandFits`), a step being 10 millicores for each worker; a correction moves the
request by three fifths of the error (`Correction`). Where a worker is
added or taken away the steps differ, and `Between` bounds what comes out by the
requests before and after. Above what the pod
is let have it makes no odds how far above. With `CloserAfter` the new reading lies
between the old one and its mirror image at the target. The tolerance matters because no
command gives less than 10 millicores: with nothing running and a target of 4
the loop would go from an error of 4 to one of 6.

`HostProofs`. `HInv` is `TypeOK` with what a handler is at (`Placed`) and that a
script can only land late on a VM that is up. `Shaping` and `Stripping` say what
a handler in which nothing has failed has done so far: the nodes it has been at
are shaped as the topology says, or have been cleared; it knows of every node of
the document's sites; and those it has been at have no VM. A late script, a
failure and a restart end the claim, and lemma `NoClaim` disposes of them.

`SumLemmas`. The community modules define `SumFunctionOnSet` by recursion over
the set, taking elements in an order of its own. That such a function exists, and that
the order does not matter, is proved by a smallest counterexample (what a pod
uses with one process or none is then `SumOne` and `SumZero`): of the
subsets for which a fact fails, one has no smaller one. `LeastNumber` does the
same for numbers, for the loop of `RoleEdges`.

### Only model-checked

The liveness properties (`PhaseApplied`, `LockReleased`, `Colours`,
`LatestApplied`, `LinkComesBack`, `PortComesBack`, `LoadsSettle`,
`RetriesProvision`) rest on fairness, which is out of the prover's reach. Of
`Colours` what is left to TLC is only that the loop takes a step while it is not
done: that its steps are finitely many, and what holds when it is done, is proved
(`ColouringEnds`, `AllColoured`). That every role downstream of a phase's sources
resolves to what a separate, recursive definition of its x gives is not stated as
a theorem, since that is induction over data; `ResolvedIsSum` with
`TopologicalOrder` determines it role by role. What the five
counterexamples violate is of course not proved.

## Disagreements between code and documentation

With a run that finds the counterexample:

- `v_singleton_list_error`: `list_managed` answers `[]` when its API call
  fails (`materialiser.py:765`), so a POST passes its 409 check and a second
  template comes into being; `app.py:21` says there is exactly one.
- `v_runner_overwrites`: `patch_system_x` writes back the config it read, and a
  PATCH or POST in between loses its peers and formulas; its comment says all
  other fields are preserved.
- `v_runner_survives_delete`: a DELETE between a POST's release of the lock and
  its `runner.start` leaves a runner for a topology that is gone.
- `v_runner_skips_role`: a role whose read or patch is answered with an error
  status is skipped and the phase counts as applied (`runner.py:80`), so nothing
  retries it, although `materialiser.py:1392` says that the runner does on the next
  tick. It does after a call that raises.
- `v_cpu_windup`: `start_cpu` keeps the request as it was asked for, above what
  the node's cores can give, while the command is capped. A reading taken before
  a reload makes the next correction overshoot so far; every correction down
  from there yields the capped command, is taken for "already running", and is
  not recorded. The pod uses all its cores from then on. `workerload` runs on a
  node where the cap is out of reach.

Found with the same modules and kept here without a run:

- A Kubernetes call that times out is no failed call for `k8s.request`: it raises,
  and ends what the comments call best effort. A POST whose Phase 2 meets one
  answers an error with everything materialised and no runner started; a
  `teardown` leaves the collections it has not come to.
- With `MayOverlap` TRUE two reloads interleave: a peer gets two clients, and
  the supervisors left are not those of the config that `STATE` reports.
- A source pod that is replaced, or not Ready within 30 s of Phase 2, is not in
  `port_offset_by_pod` and falls back to offset 0, which another pod may hold;
  `loads.py:263-266` says that offsets guarantee no two pods share a server.
  Two such pods use one server of a shared target; `NoCollision` is about offsets
  that were assigned.
- A supervisor whose client hangs between the two kill passes outlives its join
  and publishes 0 for its peer after `stop_current` dropped it; the sampler
  keeps publishing it, contrary to `loads.py:569-570`.
- A runner busy for more than 7 s outlives its `stop()`; its successor runs
  beside it (`runner.py:10` says one at a time). `OneCurrentRunner` is what
  remains true: only one of them still enters phases.
- A phase whose id repeats the previous one's is never applied.
- A PATCH, or a re-POST without a timeline, puts back the initial x, and the
  running scenario does not apply its phase again before the next one. `PhaseApplied` is about a runner that has a
  phase to enter and is left alone from then on: no request, no other runner still
  at work after a join that gave up, and annotations that agree (`Undisturbed`).
- A re-POST with fewer roles leaves the dropped roles' objects, with the old
  annotation.
- `teardown` goes on to delete ConfigMaps when deleting the Deployments failed;
  the name is then no longer managed and its workloads cannot be deleted.
- When the Phase 2 patch of a sink's server count fails, a source may hold an
  offset above the sink's pool.
- A role that sends nothing itself but has peers, and none of whose sources was
  listed within the 30 s, is patched for its peers with `server_count` left out
  (`sc` is `None` at `materialiser.py:602`), which drops the estimate of
  Phase 1. Its sources, when they come, find no server until the next POST or
  PATCH. `EveryClientHasServer` excepts it by name (`EstimateLost`).

Documents (`Topology`):

- Two apps may deploy as one role. The role graph then has edges the app graph
  has not, `_source_app_ids` still calls an app a source whose role is fed by
  others, and a phase's x for it is accepted and has no effect.
  `PhaseReachesSources` is about documents with one app per role.
- `app.py:274` pins apps "via the `topology.tier_id` node label"; the selector is
  the tier's name (`materialiser.py:1231-1234`). A tier without a name pins
  nothing, and two tiers of one name share their pods, while `check_sites` has
  asked for the id. `PinnedToTier` assumes names that tell tiers apart.
- A pair of tiers given twice is refused when the two links are opposite, as the
  message says ("give each pair once", `linkspec.py:117-119`), and when they have
  the same orientation the last one wins, for latency and for bandwidth apart.
- "A bad graph 400s before any provisioning" (`materialiser.py:966`) is so for the
  graph and the links. A `tier_name` or `node_name` that is no string gets through
  `validate_topology` and is refused by `validate_template`, with the VMs launched.
  `LateRefusalForNames` says that nothing else is.
- The bandwidth that a PATCH gives is not validated: one that does not parse is
  stored, and `netem.apply` logs the exception and shapes nothing (`Unparsed` in `Host`).
- A link of less than about half a millisecond is rounded to 0 ms and refused,
  though `validate_infrastructure` accepts any `one_way_ms >= 0`.

Worker load (`WorkerLoad`):

- `worker-template.yaml:148` gives 15 millicores as the CPU tolerance and
  `state.py:83-86` asks for at least one stress-ng step, about 10 per worker; the
  same manifest sets 5. The loop then stops where a step no longer pays, which is
  what `CpuSettled` allows. From 4 on a correction never leads further from the
  target, and below 4 it may (`NeverFurther`); nothing checks the value that the
  environment gives.
- A reload between `start_cpu`'s spawn and its append to `STRESS_PROCS`, or a
  `start_cpu` of the sampler that goes on after `stop_current`, leaves a
  stress-ng process in no list or in the wrong one. `LoadsSettle` has a premise
  that excludes it (`Tracked`); without it the pod may stay over target.
- A session that begins and dies uncleanly between two recycler ticks is never
  seen, and its port stays stuck; `PortComesBack` is about ports a tick has seen.
- `seen_conn` survives a reload, so a new server no client has used may be
  recycled once; and a client that connects between the recycler's snapshot and
  its sweep is cut off, although "a port with a live connection ... is left
  untouched" (`loads.py:395-396`).

Host (`Host`):

- A POST that fails before a node is labelled leaves a VM that DELETE does not
  find ("strips the infrastructure too", `app.py:360`); a re-POST with other
  sites leaves the VMs of the sites it dropped.
- When the node list of DELETE fails, the apps go and the VMs stay; a second
  DELETE answers 404.
- A VM that is deleted and not purged, or whose node object was removed, is
  adopted by the next `up` and never becomes Ready.
- A failed `multipass list` reads as no VMs; `up` then tries to launch what exists
  and fails, `down_nodes` removes nothing.
- A shaping script that ran into its 30 s limit may still land after the scripts
  of a later request.
- DELETE also removes VMs that `up` found there and adopted.

## Plan

1. Done: `Controller`, `PortOffsets`, `PeerSessions`, `XPropagation`,
   `PeerClients`, and proofs about the first, second and fourth.
2. Done: `Topology`, `WorkerLoad`, `Host`, `TemplateSlot` and the refinement.
3. Done: proofs of every invariant that a run checks, of the refinement and of
   `CorrectionCloser`; that the loops of the colouring and of the propagation
   end; that a reload of `PeerClients` leaves no client of the last config.
4. Left: a property for each hazard that has none. Most of them are things the
   code does not keep (they are under "Disagreements"), so that a property is first
   a decision about what it should do: a phase id that repeats, a restarted
   controller that takes its scenario up again, a failed node list in DELETE.

## Not modelled

Observability (`api.py`, `graph.py`, `prom.py`, the dashboards) reads the
cluster and changes nothing. `calibrate_llm.py` is a separate fitting tool.
The command line of `provision.py` (`down`, `status`) derives node names from a
file and calls the functions `Host` models. The gauges and RTT probes of the sampler are
read by Prometheus only. Manifests and example documents are data; the
constants they set (one controller replica, `IPERF_PORT_COUNT` 2,
`CPU_TOLERANCE_MC` 5) are assumptions of the modules. Parsing of HTTP,
JSON and command lines is left out everywhere.
