------------------------------ MODULE WorkerLoad ------------------------------
(***************************************************************************)
(* The three threads of a worker pod that share its processes: configure() *)
(* (worker.py) stops and starts everything, the sampler (metrics.py) sizes *)
(* stress-ng and the RAM buffer until the pod's measured totals meet their *)
(* targets, and the recycler (loads.py) frees poisoned iperf3 servers.     *)
(*                                                                         *)
(* Only the registry of servers has a lock; the process lists, the stress  *)
(* size and the RAM buffer do not, so every point where the code waits or  *)
(* leaves two of them out of step is a step of its own.  Peer clients are  *)
(* in PeerClients, which is also where reloads overlap: here one reload    *)
(* ends before the next.                                                   *)
(*                                                                         *)
(* CPU is in millicores, what stress-ng is asked for in fifths of one (the *)
(* gain is 3/5); RAM in half MBs.                                          *)
(***************************************************************************)
EXTENDS Integers, Sequences, FiniteSetsExt

CONSTANTS
  Payloads,      \* configs: [cpu, ram, net, count, baseCpu, baseRam], the last
                 \* two being what iperf3 and python use under it
  Plans,         \* the sequences of configs a pod may be given
  PortCount,     \* IPERF_PORT_COUNT
  Grace,         \* recycler ticks in IPERF_SERVER_RECYCLE_GRACE_S
  ToleranceMc,   \* CPU_TOLERANCE_MC
  Cores,         \* os.cpu_count() of the node
  LimitMc,       \* the pod's CPU limit
  MaxProcs,      \* a bound on the stress-ng processes alive at once
  None,          \* no config, and stress-ng's command for no load
  Unset          \* _CMD_UNSET

\* What stress-ng can be asked to run.
Runs == [workers : Nat \ {0}, load : 1 .. 100]

ASSUME LoadAssumption ==
  /\ \A c \in Payloads :
       /\ {c.cpu, c.ram, c.count, c.baseCpu, c.baseRam} \subseteq Nat
       /\ c.net \in BOOLEAN /\ c.count <= PortCount
  /\ {PortCount, Grace, ToleranceMc, Cores, LimitMc, MaxProcs} \subseteq Nat /\ Cores # 0
  /\ Plans \subseteq Seq(Payloads) /\ <<>> \notin Plans
  /\ None \notin Payloads /\ None # Unset
  /\ None \notin Runs /\ Unset \notin Runs

Ports == 0 .. PortCount - 1
Procs == 1 .. MaxProcs
Threads == {"configure", "sampler"}

VARIABLES
  pc, payload, plan,      \* configure(): its place, what it applies, what is to come
  applied,                \* STATE: the config reported as running, or None
  registry, server,       \* IPERF_SERVERS, and the state of each port's server
  tick, est, unseen,      \* the recycler: place, snapshot of connections, and
                          \* ticks since each port was last seen, -1 for never
  load,                   \* the command each stress-ng process runs, None: dead
  procs, stress,          \* PROCS and STRESS_PROCS, their stress-ng processes
  stressMc, cmd,          \* CPU_STRESS_MC and CPU_STRESS_CMD
  cpuPc, job,             \* each thread in start_cpu(): place and request
  spc, usage, newRam,     \* the sampler: place, what it measured, start_ram()
  ram,                    \* the size of RAM_BUFFER
  levels                  \* the pod's CPU totals since the last CPU reading

confVars  == <<pc, payload, plan, applied>>
poolVars  == <<registry, server>>
recVars   == <<tick, est, unseen>>
cpuVars   == <<load, procs, stress, stressMc, cmd>>
startVars == <<cpuPc, job>>
sampVars  == <<spc, usage, newRam>>
vars == <<confVars, poolVars, recVars, cpuVars, startVars, sampVars, ram, levels>>

Smaller(a, b) == IF a < b THEN a ELSE b
Larger(a, b) == IF a < b THEN b ELSE a

-----------------------------------------------------------------------------
(* Sizes *)

\* round(): to the nearest, halves to even.
Rounded(a, b) ==
  LET q == a \div b  r == 2 * (a % b)
  IN  IF r < b \/ (r = b /\ q % 2 = 0) THEN q ELSE q + 1

\* Mutant: the load of a worker may round to nothing.
CpuCmd_NoFloor(mc) ==
  IF mc <= 0 THEN None
  ELSE LET m       == Smaller(mc, 5000 * Cores)
           workers == (m + 4999) \div 5000
       IN  [workers |-> workers, load |-> Smaller(100, Rounded(m, 50 * workers))]

\* _cpu_cmd: the fewest workers that absorb the load, an integer load each.
CpuCmd(mc) ==
  IF mc <= 0 THEN None
  ELSE LET m       == Smaller(mc, 5000 * Cores)
           workers == (m + 4999) \div 5000
       IN  [workers |-> workers,
            load    |-> Larger(1, Smaller(100, Rounded(m, 50 * workers)))]

\* What stress-ng uses when it runs a command.
Power(c) == IF c = None THEN 0 ELSE 10 * c.workers * c.load

\* The CPU time the kernel lets the pod have.
Capacity == Smaller(1000 * Cores, LimitMc)

\* What the kernel accounts to the pod's cgroup.
Total == Smaller(Capacity,
                 payload.baseCpu + SumFunction([p \in Procs |-> Power(load[p])]))

Working == payload.baseRam + ram

PoolSize(c) == IF c.count > 0 THEN c.count ELSE IF c.net THEN PortCount ELSE 0

ZeroLoad(c) == c.cpu = 0 /\ c.ram = 0 /\ ~c.net /\ c.count = 0

-----------------------------------------------------------------------------
PCs == {"idle", "registry", "kill", "procs", "reset", "state", "servers", "cpu",
        "publish"}
CpuPCs == {"idle", "kill", "set", "popen", "append", "track"}
Commands == Runs \cup {None}

\* The ranges of the variables.
TypeOK ==
  /\ pc \in PCs /\ payload \in Payloads /\ plan \in Seq(Payloads)
  /\ applied \in Payloads \cup {None}
  /\ registry \subseteq Ports
  /\ server \in [Ports -> {"none", "free", "busy", "stuck", "dead"}]
  /\ tick \in {"off", "sleep", "sweep"} /\ est \subseteq Ports
  /\ unseen \in [Ports -> -1 .. Grace]
  /\ \A p \in Procs : load[p] \in Commands
  /\ procs \subseteq Procs /\ stress \subseteq Procs
  /\ stressMc \in Nat /\ cmd \in Commands \cup {Unset}
  /\ cpuPc \in [Threads -> CpuPCs]
  /\ \A t \in Threads : job[t].mc \in Nat /\ job[t].cmd \in Commands
  /\ spc \in {"boot", "sleep", "ram", "alloc", "cpu", "start"}
  /\ usage \in [cpu : Nat, ram : Nat, settled : BOOLEAN]
  /\ newRam \in Nat /\ ram \in Nat
  /\ levels \subseteq Nat /\ levels # {}

NoJob == [mc |-> 0, cmd |-> None, proc |-> 0]
NoUsage == [cpu |-> 0, ram |-> 0, settled |-> FALSE]
Alive == {p \in Procs : load[p] # None}

\* load_initial: the pod starts with a config to apply.
Init ==
  /\ \E s \in Plans : payload = Head(s) /\ plan = Tail(s)
  /\ pc = "registry"
  /\ applied = None
  /\ registry = {} /\ server = [p \in Ports |-> "none"]
  /\ tick = "off" /\ est = {} /\ unseen = [p \in Ports |-> -1]
  /\ load = [p \in Procs |-> None] /\ procs = {} /\ stress = {}
  /\ stressMc = 0 /\ cmd = Unset
  /\ cpuPc = [t \in Threads |-> "idle"] /\ job = [t \in Threads |-> NoJob]
  /\ spc = "boot" /\ usage = NoUsage
  /\ newRam = 0 /\ ram = 0
  /\ levels = {payload.baseCpu}

\* A step that changes what the pod uses shows in the next reading.
Metered == levels' = levels \cup {Total'}

-----------------------------------------------------------------------------
(* start_cpu(), run by configure() and by the sampler *)

\* An identical command is left running.
StartCpu(t, mc) ==
  IF CpuCmd(mc) = cmd
    THEN UNCHANGED startVars
    ELSE /\ cpuPc' = [cpuPc EXCEPT ![t] = "kill"]
         /\ job' = [job EXCEPT ![t] = [mc |-> mc, cmd |-> CpuCmd(mc), proc |-> 0]]

Step(t, from, to) == cpuPc[t] = from /\ cpuPc' = [cpuPc EXCEPT ![t] = to]

\* stop_cpu: terminate and wait for the processes in STRESS_PROCS.
StopCpu(t) ==
  /\ Step(t, "kill", "set")
  /\ load' = [p \in Procs |-> IF p \in stress THEN None ELSE load[p]]
  /\ procs' = procs \ stress
  /\ UNCHANGED <<confVars, poolVars, recVars, stress, stressMc, cmd, job, sampVars, ram>>
  /\ Metered

\* stop_cpu clears the list; start_cpu records what will run.
SetCommand(t) ==
  /\ Step(t, "set", IF job[t].cmd = None THEN "idle" ELSE "popen")
  /\ stress' = {}
  /\ stressMc' = job[t].mc /\ cmd' = job[t].cmd
  /\ job' = IF job[t].cmd = None THEN [job EXCEPT ![t] = NoJob] ELSE job
  /\ UNCHANGED <<confVars, poolVars, recVars, load, procs, sampVars, ram, levels>>

\* spawn: the process runs before it is in any list.
Popen(t) ==
  /\ Step(t, "popen", "append")
  /\ LET free == {p \in Procs : /\ load[p] = None /\ p \notin procs \cup stress
                                /\ \A u \in Threads : job[u].proc # p}
         p    == Min(free)
     IN  /\ free # {}
         /\ load' = [load EXCEPT ![p] = job[t].cmd]
         /\ job' = [job EXCEPT ![t].proc = p]
  /\ UNCHANGED <<confVars, poolVars, recVars, procs, stress, stressMc, cmd, sampVars, ram>>
  /\ Metered

AppendProcs(t) ==
  /\ Step(t, "append", "track")
  /\ procs' = procs \cup {job[t].proc}
  /\ UNCHANGED <<confVars, poolVars, recVars, load, stress, stressMc, cmd, job, sampVars, ram, levels>>

AppendStress(t) ==
  /\ Step(t, "track", "idle")
  /\ stress' = stress \cup {job[t].proc}
  /\ job' = [job EXCEPT ![t] = NoJob]
  /\ UNCHANGED <<confVars, poolVars, recVars, load, procs, stressMc, cmd, sampVars, ram, levels>>

CpuStep(t) ==
  StopCpu(t) \/ SetCommand(t) \/ Popen(t) \/ AppendProcs(t) \/ AppendStress(t)

-----------------------------------------------------------------------------
(* configure(): stop_current, the server pool, the CPU seed, STATE *)

Goto(from, to) == pc = from /\ pc' = to

\* A new config has landed and passed validation.
TakeConfig ==
  /\ Goto("idle", "registry")
  /\ plan # <<>>
  /\ payload' = Head(plan) /\ plan' = Tail(plan)
  /\ usage' = [usage EXCEPT !.settled = FALSE]
  /\ UNCHANGED <<applied, poolVars, recVars, cpuVars, startVars, spc, newRam, ram>>
  /\ Metered

\* The registry goes first, under its lock.
DropRegistry ==
  /\ Goto("registry", "kill")
  /\ registry' = {}
  /\ UNCHANGED <<payload, plan, applied, server, recVars, cpuVars, startVars,
                 sampVars, ram, levels>>

\* The two loops over PROCS: SIGTERM, then wait and kill what has not died,
\* which takes in what was appended meanwhile.
KillProcs ==
  /\ Goto("kill", "procs")
  /\ server' = [p \in Ports |-> "none"]
  /\ load' = [p \in Procs |-> IF p \in procs THEN None ELSE load[p]]
  /\ UNCHANGED <<payload, plan, applied, registry, recVars, procs, stress,
                 stressMc, cmd, startVars, sampVars, ram>>
  /\ Metered

ClearProcs ==
  /\ Goto("procs", "reset")
  /\ procs' = {}
  /\ UNCHANGED <<payload, plan, applied, poolVars, recVars, load, stress,
                 stressMc, cmd, startVars, sampVars, ram, levels>>

\* Mutant: the command survives, so the next start_cpu takes it for running.
ResetLoads_KeepCommand ==
  /\ Goto("reset", "state")
  /\ stress' = {} /\ stressMc' = 0
  /\ ram' = 0
  /\ UNCHANGED <<payload, plan, applied, poolVars, recVars, load, procs, cmd,
                 startVars, sampVars, levels>>

ResetLoads ==
  /\ Goto("reset", "state")
  /\ stress' = {} /\ stressMc' = 0 /\ cmd' = Unset
  /\ ram' = 0
  /\ UNCHANGED <<payload, plan, applied, poolVars, recVars, load, procs,
                 startVars, sampVars, levels>>

ClearState ==
  /\ Goto("state", IF ZeroLoad(payload) THEN "idle" ELSE "servers")
  /\ applied' = None
  /\ UNCHANGED <<payload, plan, poolVars, recVars, cpuVars, startVars,
                 sampVars, ram, levels>>

\* start_network: the pool, one server per port; each is registered once it
\* runs and nobody looks at it before that.  The first pool starts the recycler.
StartServers ==
  LET pool == 0 .. PoolSize(payload) - 1 IN
  /\ Goto("servers", "cpu")
  /\ registry' = registry \cup pool
  /\ server' = [p \in Ports |-> IF p \in pool THEN "free" ELSE server[p]]
  /\ tick' = IF tick = "off" /\ pool # {} THEN "sleep" ELSE tick
  /\ UNCHANGED <<payload, plan, applied, est, unseen, cpuVars, startVars,
                 sampVars, ram, levels>>

SeedCpu ==
  /\ Goto("cpu", "publish")
  /\ StartCpu("configure", 5 * payload.cpu)
  /\ UNCHANGED <<payload, plan, applied, poolVars, recVars, cpuVars,
                 sampVars, ram, levels>>

Publish ==
  /\ cpuPc["configure"] = "idle"
  /\ Goto("publish", "idle")
  /\ applied' = payload
  /\ UNCHANGED <<payload, plan, poolVars, recVars, cpuVars, startVars,
                 sampVars, ram, levels>>

Configure ==
  \/ DropRegistry \/ KillProcs \/ ClearProcs \/ ResetLoads \/ ClearState
  \/ StartServers \/ SeedCpu \/ Publish \/ CpuStep("configure")

-----------------------------------------------------------------------------
(* sampler_loop: _adjust_ram and _adjust_cpu *)

\* The interval between CPU readings is the window they average over, so a
\* reading mixes the levels since the last one.
ReadUsage ==
  /\ spc = "sleep" /\ spc' = "ram"
  /\ \E mc \in levels :
       usage' = [cpu |-> mc, ram |-> Working, 
                settled |-> /\ levels = {Total} /\ pc = "idle"
                            /\ \A p \in Alive : stress = {p} /\ load[p] = cmd]
  /\ UNCHANGED <<confVars, poolVars, recVars, cpuVars, startVars, newRam, ram, levels>>

\* The buffer is given back before a larger or smaller one is mapped.
AdjustRam ==
  /\ spc = "ram"
  /\ LET idle == applied = None \/ (applied # None /\ applied.ram = 0)
         error == applied.ram - usage.ram
     IN  IF idle \/ error \in -1 .. 1
           THEN spc' = "cpu" /\ UNCHANGED <<ram, newRam>>
           ELSE /\ ram' = 0
                /\ newRam' = Larger(0, ram + error)
                /\ spc' = IF newRam' = 0 THEN "cpu" ELSE "alloc"
  /\ UNCHANGED <<confVars, poolVars, recVars, cpuVars, startVars, usage, levels>>

AllocateRam ==
  /\ spc = "alloc" /\ spc' = "cpu"
  /\ ram' = newRam /\ newRam' = 0
  /\ UNCHANGED <<confVars, poolVars, recVars, cpuVars, startVars, usage, levels>>

\* Within max(CPU_TOLERANCE_MC, 5% of the target).
WithinTolerance(target, error) ==
  (error <= ToleranceMc /\ -error <= ToleranceMc)
    \/ (20 * error <= target /\ -20 * error <= target)

\* Mutant: the error is corrected twice over.
Corrected_Overcorrects(mc, error) == Larger(0, mc + 12 * error)

\* CPU_GAIN: three fifths of the error.
Corrected(mc, error) == Larger(0, mc + 3 * error)

AdjustCpu ==
  /\ spc = "cpu" /\ spc' = "start"
  /\ IF applied = None
       THEN UNCHANGED startVars
       ELSE LET error == applied.cpu - usage.cpu
                mc    == Corrected(stressMc, error)
            IN  IF \/ applied.cpu = 0
                   \/ WithinTolerance(applied.cpu, error)
                   \/ mc = 0 /\ stressMc = 0
                  THEN UNCHANGED startVars
                  ELSE StartCpu("sampler", mc)
  /\ UNCHANGED <<confVars, poolVars, recVars, cpuVars, usage, newRam, ram, levels>>

\* start_cpu has returned; the next reading averages what comes now.  The
\* corrector's clock starts with the thread, so that the first one does not see
\* the pod start up.
Sleep ==
  /\ spc = "start" \/ (spc = "boot" /\ pc = "idle")
  /\ cpuPc["sampler"] = "idle"
  /\ spc' = "sleep"
  /\ levels' = {Total} /\ usage' = NoUsage
  /\ UNCHANGED <<confVars, poolVars, recVars, cpuVars, startVars, newRam, ram>>

Sample ==
  ReadUsage \/ AdjustRam \/ AllocateRam \/ AdjustCpu \/ Sleep \/ CpuStep("sampler")

-----------------------------------------------------------------------------
(* _server_recycler *)

\* /proc/net/tcp, read before the lock is taken.
Snapshot ==
  /\ tick = "sleep" /\ tick' = "sweep"
  /\ est' = {p \in Ports : server[p] = "busy"}
  /\ UNCHANGED <<confVars, poolVars, unseen, cpuVars, startVars, sampVars, ram, levels>>

\* Mutant: a tick without a connection counts as seen.
Age_Refreshed(p) == IF unseen[p] = -1 THEN -1 ELSE 0

\* The ticks since a port that is not in the snapshot was seen.
Age(p) == IF unseen[p] = -1 THEN -1 ELSE Smaller(Grace, unseen[p] + 1)

\* Mutant: the sweep goes over the ports it remembers, whatever is registered.
Swept_Remembered == {p \in Ports : unseen[p] >= 0} \cup registry

Swept == registry

\* Under the lock: respawn what died, recycle what had a client and has been
\* without one for the grace, forget the ports no longer in the pool.
Sweep ==
  LET Died(p) == server[p] = "dead"
      Poisoned(p) == ~Died(p) /\ p \notin est /\ Age(p) = Grace
      respawn == {p \in Swept : Died(p) \/ Poisoned(p)}
  IN
  /\ tick = "sweep" /\ tick' = "sleep"
  /\ est' = {}
  /\ server' = [p \in Ports |-> IF p \in respawn THEN "free" ELSE server[p]]
  /\ unseen' = [p \in Ports |->
                  CASE p \notin registry \/ p \in respawn -> -1
                    [] p \in est -> 0
                    [] OTHER -> Age(p)]
  /\ UNCHANGED <<confVars, registry, cpuVars, startVars, sampVars, ram, levels>>

-----------------------------------------------------------------------------
(* iperf3 servers and the clients of other pods *)

\* A client connects, leaves, or dies and leaves the server stuck; a server
\* crashes.  A client that a stuck server refuses is gone at once.
Session(p) ==
  /\ \/ server[p] = "free" /\ server' = [server EXCEPT ![p] = "busy"]
     \/ server[p] = "busy" /\ server' = [server EXCEPT ![p] = "free"]
     \/ server[p] = "busy" /\ server' = [server EXCEPT ![p] = "stuck"]
     \/ server[p] \in {"free", "busy", "stuck"} /\ server' = [server EXCEPT ![p] = "dead"]
  /\ UNCHANGED <<confVars, registry, recVars, cpuVars, startVars, sampVars, ram, levels>>

-----------------------------------------------------------------------------
Next ==
  \/ TakeConfig
  \/ Configure
  \/ Sample
  \/ Snapshot \/ Sweep
  \/ \E p \in Ports : Session(p)

Spec == Init /\ [][Next]_vars

\* The three threads keep running; clients and updates need not come.
Fairness ==
  /\ WF_vars(Configure)
  /\ WF_vars(Sample)
  /\ WF_vars(Snapshot \/ Sweep)

FairSpec == Spec /\ Fairness

-----------------------------------------------------------------------------
Idle == pc = "idle"

\* The registry keeps the recycler off a pool that is being torn down: once
\* configure() is done the servers are those of the config applied and no
\* others, and the recycler has not brought one back that nobody would stop.
PoolMatches ==
  Idle =>
    LET pool == IF applied = None THEN {} ELSE 0 .. PoolSize(applied) - 1
    IN  registry = pool /\ {p \in Ports : server[p] # "none"} = pool

\* A server that crashed, or that a dead client left stuck after a tick had
\* seen it connected, does not stay so: the port is free again or its pool is
\* gone.
PortComesBack ==
  \A p \in Ports :
    LET broken == server[p] = "dead" \/ (server[p] = "stuck" /\ unseen[p] >= 0)
    IN  broken ~> ~broken

\* Every stress-ng process that runs is where the next correction finds it.
Tracked == Alive \subseteq stress

\* How far from the target the CPU loop may stop: within the tolerance, where
\* three fifths of the error do not reach the next command, at all the cores,
\* or with nothing left to give up.
CpuSettled(c) ==
  LET error == c.cpu - Total
      runs  == cmd \notin {None, Unset}
      step  == IF runs THEN 10 * cmd.workers ELSE 10
  IN  \/ c.cpu = 0 \/ WithinTolerance(c.cpu, error)
      \/ 3 * error <= 5 * step /\ -3 * error <= 5 * step
      \/ ~runs /\ error < 0
      \/ runs /\ Power(cmd) = 1000 * Cores /\ error > 0

RamSettled(c) ==
  c.ram = 0 \/ c.ram - Working \in -1 .. 1 \/ (ram = 0 /\ Working > c.ram)

\* The loops converge: when a config stays and no stress-ng process has got
\* away from the lists, CPU and RAM settle as close to their targets as the
\* tolerance and stress-ng's steps allow, from whatever a reload that fell
\* into a correction has left behind.
LoadsSettle ==
  <>[](Idle /\ applied # None /\ (cpuPc["sampler"] = "idle" => Tracked))
    => <>[](applied # None => CpuSettled(applied) /\ RamSettled(applied))

\* A respawn never takes the pod further from its target than it was, when the
\* reading was of a settled pod: the rounding of the command and the gain do
\* not make the loop swing up.
CorrectionCloser ==
  [][Popen("sampler") /\ usage.settled /\ applied # None =>
       LET before == applied.cpu - usage.cpu
           after  == applied.cpu - Total'
       IN  Larger(after, -after) <= Larger(before, -before)]_vars

=============================================================================
