-------------------------- MODULE WorkerLoadProofs --------------------------
(***************************************************************************)
(* What holds of a worker pod for any configs, any number of ports, cores  *)
(* and processes, any tolerance and any way clients come and go: the pool  *)
(* of servers is that of the config, every size the CPU and RAM loops      *)
(* compute is in range, and a CPU correction never takes a settled pod     *)
(* further from its target.                                                *)
(***************************************************************************)
EXTENDS WorkerLoad, SumLemmas

-----------------------------------------------------------------------------
(* The server pool *)

Pool(c) == 0 .. PoolSize(c) - 1
Serving == {p \in Ports : server[p] # "none"}

PoolTyped ==
  /\ pc \in PCs /\ payload \in Payloads /\ plan \in Seq(Payloads)
  /\ applied \in Payloads \cup {None}
  /\ registry \subseteq Ports
  /\ server \in [Ports -> {"none", "free", "busy", "stuck", "dead"}]

\* What configure() has established at each of its places.  While the pool is
\* torn down the registry is empty, and an empty registry is what keeps the
\* recycler from respawning a server that has just been killed.
PoolInv ==
  /\ PoolTyped
  /\ pc \in {"kill", "procs", "reset", "state", "servers"} => registry = {}
  /\ pc \in {"procs", "reset", "state", "servers"} => Serving = {}
  /\ pc \in {"cpu", "publish"} => registry = Pool(payload) /\ Serving = Pool(payload)
  /\ pc = "idle" => LET pool == IF applied = None THEN {} ELSE Pool(applied)
                    IN  registry = pool /\ Serving = pool

\* A pool never asks for more ports than there are.
LEMMA PoolInPorts == ASSUME NEW c \in Payloads PROVE Pool(c) \subseteq Ports
<1>1. PortCount \in Nat /\ c.count \in Nat /\ c.count <= PortCount
  BY LoadAssumption
<1>2. QED
  BY <1>1 DEF Pool, PoolSize, Ports

LEMMA InitPool == Init => PoolInv
<1>1. SUFFICES ASSUME Init PROVE PoolInv
  OBVIOUS
<1>2. PICK s \in Plans : payload = Head(s) /\ plan = Tail(s)
  BY <1>1 DEF Init
<1>3. s \in Seq(Payloads) /\ s # << >>
  BY <1>2, LoadAssumption
<1>4. payload \in Payloads /\ plan \in Seq(Payloads)
  BY <1>2, <1>3
<1>5. QED
  BY <1>1, <1>4 DEF Init, PoolInv, PoolTyped, PCs

\* A step that touches neither the pool nor configure()'s place.
LEMMA PoolKept ==
  ASSUME PoolInv, UNCHANGED <<confVars, poolVars>> PROVE PoolInv'
BY DEF PoolInv, PoolTyped, Serving, confVars, poolVars

\* Sessions and sweeps change the state of servers that serve, and no others.
LEMMA SameServing ==
  ASSUME PoolInv, UNCHANGED <<confVars, registry>>,
         server' \in [Ports -> {"none", "free", "busy", "stuck", "dead"}],
         \/ Serving' = Serving
         \/ pc = "registry"
  PROVE  PoolInv'
<1>1. pc = "registry" => PoolInv'
  BY DEF PoolInv, PoolTyped, confVars
<1>2. Serving' = Serving => PoolInv'
  BY DEF PoolInv, PoolTyped, confVars
<1>3. QED
  BY <1>1, <1>2

LEMMA PoolSession ==
  ASSUME PoolInv, NEW p \in Ports, Session(p) PROVE PoolInv'
<1>1. server \in [Ports -> {"none", "free", "busy", "stuck", "dead"}]
  BY DEF PoolInv, PoolTyped
<1>2. server[p] # "none" /\ \E s \in {"free", "busy", "stuck", "dead"} :
         server' = [server EXCEPT ![p] = s]
  BY DEF Session
<1>3. Serving' = Serving
  BY <1>1, <1>2 DEF Serving
<1>4. QED
  BY <1>1, <1>2, <1>3, SameServing DEF Session

\* What the recycler respawns is registered.
LEMMA PoolSweep == ASSUME PoolInv, Sweep PROVE PoolInv'
<1>1. /\ server \in [Ports -> {"none", "free", "busy", "stuck", "dead"}]
      /\ UNCHANGED <<confVars, registry>>
  BY DEF Sweep, PoolInv, PoolTyped
<1>2. PICK respawn \in SUBSET registry :
         server' = [p \in Ports |-> IF p \in respawn THEN "free" ELSE server[p]]
  BY DEF Sweep, Swept
<1>3. server' \in [Ports -> {"none", "free", "busy", "stuck", "dead"}]
  BY <1>1, <1>2
<1>4. CASE registry \subseteq Serving
  <2>1. Serving' = Serving
    BY <1>2, <1>4 DEF Serving
  <2>2. QED
    BY <1>1, <1>3, <2>1, SameServing
<1>5. CASE ~(registry \subseteq Serving)
  <2>1. pc = "registry"
    BY <1>5 DEF PoolInv, PoolTyped, PCs
  <2>2. QED
    BY <1>1, <1>3, <2>1, SameServing
<1>6. QED
  BY <1>4, <1>5

LEMMA PoolConfigure == ASSUME PoolInv, Configure PROVE PoolInv'
<1> USE DEF Goto, poolVars
<1>1. PoolTyped
  BY DEF PoolInv
<1>2. CASE DropRegistry
  BY <1>1, <1>2 DEF DropRegistry, PoolInv, PoolTyped, PCs
<1>3. CASE KillProcs
  BY <1>1, <1>3 DEF KillProcs, PoolInv, PoolTyped, PCs, Serving
<1>4. CASE ClearProcs
  BY <1>1, <1>4 DEF ClearProcs, PoolInv, PoolTyped, PCs, Serving
<1>5. CASE ResetLoads
  BY <1>1, <1>5 DEF ResetLoads, PoolInv, PoolTyped, PCs, Serving
<1>6. CASE ClearState
  BY <1>1, <1>6 DEF ClearState, PoolInv, PoolTyped, PCs, Serving
<1>7. CASE StartServers
  <2>1. /\ pc = "servers" /\ pc' = "cpu" /\ UNCHANGED <<payload, plan, applied>>
        /\ registry' = registry \cup Pool(payload)
        /\ server' = [p \in Ports |-> IF p \in Pool(payload) THEN "free" ELSE server[p]]
    BY <1>7 DEF StartServers, Pool
  <2>2. Pool(payload) \subseteq Ports
    BY <1>1, PoolInPorts DEF PoolTyped
  <2>3. registry' = Pool(payload) /\ Serving' = Pool(payload)
    BY <2>1, <2>2 DEF PoolInv, Serving
  <2>4. PoolTyped'
    BY <1>1, <2>1, <2>2, <2>3 DEF PoolTyped, PCs
  <2>5. QED
    BY <2>1, <2>3, <2>4 DEF PoolInv
<1>8. CASE SeedCpu
  BY <1>1, <1>8 DEF SeedCpu, PoolInv, PoolTyped, PCs, Serving
<1>9. CASE Publish
  <2>1. /\ pc = "publish" /\ pc' = "idle" /\ applied' = payload
        /\ UNCHANGED <<payload, plan, registry, server>>
    BY <1>9 DEF Publish
  <2>2. applied' # None /\ Serving' = Serving
    BY <1>1, <2>1, LoadAssumption DEF PoolTyped, Serving
  <2>3. QED
    BY <1>1, <2>1, <2>2 DEF PoolInv, PoolTyped, PCs
<1>10. CASE CpuStep("configure")
  BY <1>10, PoolKept
     DEF CpuStep, StopCpu, SetCommand, Popen, AppendProcs, AppendStress
<1>11. QED
  BY <1>2, <1>3, <1>4, <1>5, <1>6, <1>7, <1>8, <1>9, <1>10 DEF Configure

LEMMA PoolStep == PoolInv /\ [Next]_vars => PoolInv'
<1>1. SUFFICES ASSUME PoolInv, [Next]_vars PROVE PoolInv'
  OBVIOUS
<1>2. CASE TakeConfig
  <2>1. Head(plan) \in Payloads /\ Tail(plan) \in Seq(Payloads)
    BY <1>1, <1>2 DEF TakeConfig, PoolInv, PoolTyped
  <2>2. QED
    BY <1>1, <1>2, <2>1 DEF TakeConfig, Goto, PoolInv, PoolTyped, PCs, poolVars
<1>3. CASE Sample
  <2>1. UNCHANGED <<confVars, poolVars>>
    BY <1>3 DEF Sample, ReadUsage, AdjustRam, AllocateRam, AdjustCpu, Sleep,
                CpuStep, StopCpu, SetCommand, Popen, AppendProcs, AppendStress
  <2>2. QED
    BY <1>1, <2>1, PoolKept
<1>4. CASE Snapshot
  BY <1>1, <1>4, PoolKept DEF Snapshot
<1>5. CASE UNCHANGED vars
  BY <1>1, <1>5, PoolKept DEF vars
<1>6. QED
  BY <1>1, <1>2, <1>3, <1>4, <1>5, PoolConfigure, PoolSweep, PoolSession DEF Next

\* Once configure() is done, the servers that run and the registry are those
\* of the config that STATE reports, for every pool size: the recycler, whose
\* snapshot may be older than the pool, has brought back none that nobody
\* would stop, and has lost none.
THEOREM PoolOfConfig == Spec => []PoolMatches
<1>1. PoolInv => PoolMatches
  BY DEF PoolInv, PoolMatches, Idle, Serving, Pool
<1>2. QED
  BY <1>1, InitPool, PoolStep, PTL DEF Spec

-----------------------------------------------------------------------------
(* Sizes *)

LEMMA RoundedInt ==
  ASSUME NEW a \in Nat, NEW b \in Nat \ {0} PROVE Rounded(a, b) \in Int
<1>1. a \div b \in Int
  OBVIOUS
<1>2. QED
  BY <1>1 DEF Rounded

\* Every command has at least one worker at a load of 1 to 100 percent.
LEMMA CpuCmdType == ASSUME NEW mc \in Nat PROVE CpuCmd(mc) \in Commands
<1> DEFINE m == Smaller(mc, 5000 * Cores)
           workers == (m + 4999) \div 5000
           load1 == Larger(1, Smaller(100, Rounded(m, 50 * workers)))
<1>1. CASE mc <= 0
  BY <1>1 DEF CpuCmd, Commands
<1>2. CASE mc > 0
  <2>1. m \in Nat \ {0}
    BY <1>2, LoadAssumption DEF Smaller
  <2>2. workers \in Nat \ {0} /\ 50 * workers \in Nat \ {0}
    <3> HIDE DEF m
    <3>1. workers \in Nat \ {0}
      BY <2>1
    <3> HIDE DEF workers
    <3>2. QED
      BY <3>1
  <2>3. Rounded(m, 50 * workers) \in Int
    <3> HIDE DEF m, workers
    <3>1. QED
      BY <2>1, <2>2, RoundedInt
  <2>4. load1 \in 1..100
    BY <2>3 DEF Larger, Smaller
  <2>5. CpuCmd(mc) = [workers |-> workers, load |-> load1]
    BY <1>2 DEF CpuCmd
  <2> HIDE DEF workers, load1
  <2>6. QED
    BY <2>2, <2>4, <2>5 DEF Commands, Runs
<1>3. QED
  BY <1>1, <1>2

LEMMA PowerNat == ASSUME NEW c \in Commands PROVE Power(c) \in Nat
<1>1. CASE c = None
  BY <1>1 DEF Power
<1>2. CASE c # None
  <2>1. c.workers \in Nat /\ c.load \in Nat
    BY <1>2 DEF Commands, Runs
  <2>2. 10 * c.workers \in Nat
    BY <2>1
  <2>3. QED
    BY <1>2, <2>1, <2>2 DEF Power
<1>3. QED
  BY <1>1, <1>2

\* What the kernel accounts is a size, whatever runs.
LEMMA TotalNat ==
  ASSUME NEW l \in [Procs -> Commands], NEW base \in Nat
  PROVE  Smaller(Capacity, base + SumFunction([p \in Procs |-> Power(l[p])])) \in Nat
<1> DEFINE f == [p \in Procs |-> Power(l[p])]
<1>1. IsFiniteSet(Procs)
  <2>1. 1 \in Int /\ MaxProcs \in Int
    BY LoadAssumption
  <2>2. QED
    BY <2>1, FS_Interval DEF Procs
<1>2. \A p \in Procs : f[p] \in Nat
  BY PowerNat
<1>3. DOMAIN f = Procs
  OBVIOUS
<1> HIDE DEF f
<1>4. SumFunction(f) \in Nat
  BY <1>1, <1>2, <1>3, SumNat DEF SumFunction
<1>5. Smaller(Capacity, base + SumFunction(f)) \in Nat
  BY <1>4, LoadAssumption DEF Smaller, Capacity
<1>6. QED
  BY <1>5 DEF f

-----------------------------------------------------------------------------
(* Type correctness *)

Jobs == [mc : Nat, cmd : Commands, proc : 0 .. MaxProcs]

\* The process lists, the size they were started for, and both threads' way
\* through start_cpu(): a process that is appended is one that was spawned.
CpuTyped ==
  /\ load \in [Procs -> Commands]
  /\ procs \subseteq Procs /\ stress \subseteq Procs
  /\ stressMc \in Nat /\ cmd \in Commands \cup {Unset}
  /\ cpuPc \in [Threads -> CpuPCs] /\ job \in [Threads -> Jobs]
  /\ \A t \in Threads : cpuPc[t] \in {"append", "track"} => job[t].proc \in Procs

RecyclerTyped ==
  /\ tick \in {"off", "sleep", "sweep"} /\ est \subseteq Ports
  /\ unseen \in [Ports -> -1 .. Grace]

SamplerTyped ==
  /\ spc \in {"boot", "sleep", "ram", "alloc", "cpu", "start"}
  /\ usage \in [cpu : Nat, ram : Nat, settled : BOOLEAN]
  /\ newRam \in Nat /\ ram \in Nat

LevelsTyped == levels \subseteq Nat /\ levels # {}

TInv == PoolInv /\ CpuTyped /\ RecyclerTyped /\ SamplerTyped /\ LevelsTyped

LEMMA PayloadFacts ==
  ASSUME NEW c \in Payloads
  PROVE  /\ c.cpu \in Nat /\ c.ram \in Nat /\ c.baseCpu \in Nat /\ c.baseRam \in Nat
BY LoadAssumption

LEMMA NoneIsCommand == None \in Commands
BY DEF Commands

LEMMA NoJobTyped == NoJob \in Jobs
<1>1. 0 \in 0 .. MaxProcs
  BY LoadAssumption
<1>2. QED
  BY <1>1, NoneIsCommand DEF NoJob, Jobs

\* The next reading is a size.
LEMMA MeteredType ==
  ASSUME LevelsTyped, Metered, payload' \in Payloads, load' \in [Procs -> Commands]
  PROVE  LevelsTyped'
<1>1. payload'.baseCpu \in Nat
  BY PayloadFacts
<1>2. Total' \in Nat
  BY <1>1, TotalNat DEF Total
<1>3. QED
  BY <1>2 DEF Metered, LevelsTyped

LEMMA InitTInv == Init => TInv
<1>1. SUFFICES ASSUME Init PROVE TInv
  OBVIOUS
<1>2. PoolInv
  BY <1>1, InitPool
<1>3. CpuTyped
  <2>1. load \in [Procs -> Commands]
    BY <1>1, NoneIsCommand DEF Init
  <2>2. job \in [Threads -> Jobs] /\ cpuPc = [t \in Threads |-> "idle"]
    BY <1>1, NoJobTyped DEF Init
  <2>3. QED
    BY <1>1, <2>1, <2>2 DEF Init, CpuTyped, CpuPCs
<1>4. RecyclerTyped
  BY <1>1, LoadAssumption DEF Init, RecyclerTyped
<1>5. SamplerTyped
  BY <1>1 DEF Init, SamplerTyped, NoUsage
<1>6. LevelsTyped
  BY <1>1, <1>2, PayloadFacts DEF Init, LevelsTyped, PoolInv, PoolTyped
<1>7. QED
  BY <1>2, <1>3, <1>4, <1>5, <1>6 DEF TInv

\* A request for a size: a job for the command that goes with it.
LEMMA StartCpuType ==
  ASSUME CpuTyped, NEW t \in Threads, NEW mc \in Nat, StartCpu(t, mc), UNCHANGED cpuVars
  PROVE  CpuTyped'
<1>1. UNCHANGED <<load, procs, stress, stressMc, cmd>>
  BY DEF cpuVars
<1>2. CASE UNCHANGED startVars
  BY <1>1, <1>2 DEF startVars, CpuTyped
<1>3. CASE ~UNCHANGED startVars
  <2> DEFINE j == [mc |-> mc, cmd |-> CpuCmd(mc), proc |-> 0]
  <2>1. cpuPc' = [cpuPc EXCEPT ![t] = "kill"] /\ job' = [job EXCEPT ![t] = j]
    BY <1>3 DEF StartCpu
  <2>2. j \in Jobs
    <3>1. CpuCmd(mc) \in Commands /\ 0 \in 0 .. MaxProcs
      BY CpuCmdType, LoadAssumption
    <3>2. QED
      BY <3>1 DEF Jobs
  <2> HIDE DEF j
  <2>3. job' \in [Threads -> Jobs] /\ cpuPc' \in [Threads -> CpuPCs]
    BY <2>1, <2>2 DEF CpuTyped, CpuPCs
  <2>4. \A u \in Threads : cpuPc'[u] \in {"append", "track"} => job'[u].proc \in Procs
    BY <2>1 DEF CpuTyped
  <2>5. QED
    BY <1>1, <2>3, <2>4 DEF CpuTyped
<1>4. QED
  BY <1>2, <1>3

\* The smallest free process is a process.
LEMMA MinIn == ASSUME NEW S \in SUBSET Nat, S # {} PROVE Min(S) \in S
<1>1. PICK i \in S : \A j \in S : ~(j < i)
  BY LeastNumber
<1>2. \A j \in S : i <= j
  BY <1>1
<1>3. QED
  BY <1>2 DEF Min

LEMMA CpuStepType ==
  ASSUME TInv, NEW t \in Threads, CpuStep(t), payload' \in Payloads
  PROVE  CpuTyped' /\ LevelsTyped' /\ UNCHANGED <<spc, usage, newRam, ram>>
<1>1. CpuTyped /\ LevelsTyped
  BY DEF TInv
<1>2. UNCHANGED <<spc, usage, newRam, ram>>
  BY DEF CpuStep, StopCpu, SetCommand, Popen, AppendProcs, AppendStress, sampVars
<1>3. CASE StopCpu(t)
  <2>1. load' \in [Procs -> Commands]
    BY <1>1, <1>3, NoneIsCommand DEF StopCpu, CpuTyped
  <2>2. CpuTyped'
    BY <1>1, <1>3, <2>1 DEF StopCpu, Step, CpuTyped, CpuPCs
  <2>3. QED
    BY <1>1, <1>2, <1>3, <2>1, <2>2, MeteredType DEF StopCpu
<1>4. CASE SetCommand(t)
  <2>1. job[t] \in Jobs /\ job[t].mc \in Nat /\ job[t].cmd \in Commands
    BY <1>1 DEF CpuTyped, Jobs
  <2>2. job' \in [Threads -> Jobs] /\ \A u \in Threads : u # t => job'[u] = job[u]
    BY <1>1, <1>4, NoJobTyped DEF SetCommand, CpuTyped
  <2>3. CpuTyped'
    BY <1>1, <1>4, <2>1, <2>2 DEF SetCommand, Step, CpuTyped, CpuPCs
  <2>4. QED
    BY <1>1, <1>2, <1>4, <2>3 DEF SetCommand, LevelsTyped
<1>5. CASE Popen(t)
  <2> DEFINE free == {p \in Procs : /\ load[p] = None /\ p \notin procs \cup stress
                                    /\ \A u \in Threads : job[u].proc # p}
  <2>1. /\ free # {} /\ load' = [load EXCEPT ![Min(free)] = job[t].cmd]
        /\ job' = [job EXCEPT ![t].proc = Min(free)]
        /\ UNCHANGED <<procs, stress, stressMc, cmd>>
    BY <1>5 DEF Popen
  <2>2. free \in SUBSET Nat /\ free \subseteq Procs
    BY DEF Procs
  <2>3. PICK p \in Procs : p = Min(free)
    <3> HIDE DEF free
    <3>1. QED
      BY <2>1, <2>2, MinIn
  <2> HIDE DEF free
  <2>4. p \in 0 .. MaxProcs /\ job[t] \in Jobs /\ job[t].cmd \in Commands
    BY <1>1, LoadAssumption DEF CpuTyped, Jobs, Procs
  <2>5. load' \in [Procs -> Commands]
    BY <1>1, <2>1, <2>3, <2>4 DEF CpuTyped
  <2>6. [job[t] EXCEPT !.proc = p] \in Jobs /\ [job[t] EXCEPT !.proc = p].proc = p
    BY <2>4 DEF Jobs
  <2>7. job' \in [Threads -> Jobs] /\ job'[t].proc = p
        /\ \A u \in Threads : u # t => job'[u] = job[u]
    BY <1>1, <2>1, <2>3, <2>6 DEF CpuTyped
  <2>8. cpuPc' = [cpuPc EXCEPT ![t] = "append"]
    BY <1>5 DEF Popen, Step
  <2>9. CpuTyped'
    BY <1>1, <2>1, <2>3, <2>5, <2>7, <2>8 DEF CpuTyped, CpuPCs
  <2>10. QED
    BY <1>1, <1>2, <1>5, <2>5, <2>9, MeteredType DEF Popen
<1>6. CASE AppendProcs(t)
  <2>1. job[t].proc \in Procs
    BY <1>1, <1>6 DEF AppendProcs, Step, CpuTyped
  <2>2. CpuTyped'
    BY <1>1, <1>6, <2>1 DEF AppendProcs, Step, CpuTyped, CpuPCs
  <2>3. QED
    BY <1>1, <1>2, <1>6, <2>2 DEF AppendProcs, LevelsTyped
<1>7. CASE AppendStress(t)
  <2>1. job[t].proc \in Procs
    BY <1>1, <1>7 DEF AppendStress, Step, CpuTyped
  <2>2. job' \in [Threads -> Jobs] /\ \A u \in Threads : u # t => job'[u] = job[u]
    BY <1>1, <1>7, NoJobTyped DEF AppendStress, CpuTyped
  <2>3. CpuTyped'
    BY <1>1, <1>7, <2>1, <2>2 DEF AppendStress, Step, CpuTyped, CpuPCs
  <2>4. QED
    BY <1>1, <1>2, <1>7, <2>3 DEF AppendStress, LevelsTyped
<1>8. QED
  BY <1>3, <1>4, <1>5, <1>6, <1>7 DEF CpuStep

LEMMA ConfigureType ==
  ASSUME TInv, Configure PROVE CpuTyped' /\ LevelsTyped' /\ RecyclerTyped' /\ SamplerTyped'
<1>1. CpuTyped /\ LevelsTyped /\ RecyclerTyped /\ SamplerTyped /\ payload \in Payloads
  BY DEF TInv, PoolInv, PoolTyped
<1>2. CASE DropRegistry \/ ClearState \/ Publish
  BY <1>1, <1>2 DEF DropRegistry, ClearState, Publish, CpuTyped, LevelsTyped, RecyclerTyped,
                    SamplerTyped, recVars, cpuVars, startVars, sampVars
<1>3. CASE KillProcs
  <2>1. load' \in [Procs -> Commands] /\ UNCHANGED <<payload, recVars, startVars, sampVars, ram>>
        /\ UNCHANGED <<procs, stress, stressMc, cmd>>
    BY <1>1, <1>3, NoneIsCommand DEF KillProcs, CpuTyped
  <2>2. CpuTyped' /\ RecyclerTyped' /\ SamplerTyped'
    BY <1>1, <2>1 DEF CpuTyped, RecyclerTyped, SamplerTyped, recVars, startVars, sampVars
  <2>3. QED
    BY <1>1, <1>3, <2>1, <2>2, MeteredType DEF KillProcs
<1>4. CASE ClearProcs
  BY <1>1, <1>4 DEF ClearProcs, CpuTyped, LevelsTyped, RecyclerTyped, SamplerTyped,
                    recVars, startVars, sampVars
<1>5. CASE ResetLoads
  BY <1>1, <1>5 DEF ResetLoads, CpuTyped, LevelsTyped, RecyclerTyped, SamplerTyped,
                    recVars, startVars, sampVars
<1>6. CASE StartServers
  BY <1>1, <1>6 DEF StartServers, CpuTyped, LevelsTyped, RecyclerTyped, SamplerTyped,
                    cpuVars, startVars, sampVars
<1>7. CASE SeedCpu
  <2>1. 5 * payload.cpu \in Nat
    BY <1>1, PayloadFacts
  <2>2. CpuTyped'
    BY <1>1, <1>7, <2>1, StartCpuType DEF SeedCpu, Threads
  <2>3. QED
    BY <1>1, <1>7, <2>2 DEF SeedCpu, LevelsTyped, RecyclerTyped, SamplerTyped, recVars, sampVars
<1>8. CASE CpuStep("configure")
  <2>1. UNCHANGED <<payload, recVars>>
    BY <1>8 DEF CpuStep, StopCpu, SetCommand, Popen, AppendProcs, AppendStress, confVars
  <2>2. CpuTyped' /\ LevelsTyped' /\ UNCHANGED <<spc, usage, newRam, ram>>
    BY <1>1, <1>8, <2>1, CpuStepType DEF Threads
  <2>3. QED
    BY <1>1, <2>1, <2>2 DEF RecyclerTyped, SamplerTyped, recVars
<1>9. QED
  BY <1>2, <1>3, <1>4, <1>5, <1>6, <1>7, <1>8 DEF Configure

LEMMA SampleType ==
  ASSUME TInv, Sample PROVE CpuTyped' /\ LevelsTyped' /\ RecyclerTyped' /\ SamplerTyped'
<1>1. /\ CpuTyped /\ LevelsTyped /\ RecyclerTyped /\ SamplerTyped
      /\ payload \in Payloads /\ applied \in Payloads \cup {None}
  BY DEF TInv, PoolInv, PoolTyped
<1>2. UNCHANGED <<confVars, recVars>>
  BY DEF Sample, ReadUsage, AdjustRam, AllocateRam, AdjustCpu, Sleep,
         CpuStep, StopCpu, SetCommand, Popen, AppendProcs, AppendStress
<1>3. RecyclerTyped' /\ payload' = payload
  BY <1>1, <1>2 DEF RecyclerTyped, recVars, confVars
<1>4. usage.cpu \in Nat /\ usage.ram \in Nat
  BY <1>1 DEF SamplerTyped
<1>5. CASE ReadUsage
  <2>1. PICK mc \in levels :
           usage' = [cpu |-> mc, ram |-> Working,
                     settled |-> /\ levels = {Total} /\ pc = "idle"
                                 /\ \A p \in Alive : stress = {p} /\ load[p] = cmd]
    BY <1>5 DEF ReadUsage
  <2>2. Working \in Nat /\ mc \in Nat
    BY <1>1, PayloadFacts DEF Working, SamplerTyped, LevelsTyped
  <2>3. usage' \in [cpu : Nat, ram : Nat, settled : BOOLEAN]
    BY <2>1, <2>2
  <2>4. QED
    BY <1>1, <1>3, <1>5, <2>3
       DEF ReadUsage, CpuTyped, LevelsTyped, SamplerTyped, cpuVars, startVars
<1>6. CASE AdjustRam
  <2>1. UNCHANGED <<cpuVars, startVars, usage, levels>>
    BY <1>6 DEF AdjustRam
  <2>2. /\ spc' \in {"cpu", "alloc"}
        /\ \/ UNCHANGED <<ram, newRam>>
           \/ /\ applied # None /\ ram' = 0
              /\ newRam' = Larger(0, ram + (applied.ram - usage.ram))
    BY <1>6 DEF AdjustRam
  <2>3. applied # None => applied.ram \in Nat
    BY <1>1, PayloadFacts
  <2>4. ram' \in Nat /\ newRam' \in Nat
    BY <1>1, <1>4, <2>2, <2>3 DEF SamplerTyped, Larger
  <2>5. QED
    BY <1>1, <1>3, <2>1, <2>2, <2>4
       DEF CpuTyped, LevelsTyped, SamplerTyped, cpuVars, startVars
<1>7. CASE AllocateRam
  BY <1>1, <1>3, <1>7
     DEF AllocateRam, CpuTyped, LevelsTyped, SamplerTyped, cpuVars, startVars
<1>8. CASE AdjustCpu
  <2> DEFINE mc == Corrected(stressMc, applied.cpu - usage.cpu)
  <2>1. /\ spc' = "start" /\ UNCHANGED <<cpuVars, usage, newRam, ram, levels>>
        /\ \/ UNCHANGED startVars
           \/ applied # None /\ StartCpu("sampler", mc)
    BY <1>8 DEF AdjustCpu
  <2>2. applied # None => mc \in Nat
    BY <1>1, <1>4, PayloadFacts DEF Corrected, Larger, CpuTyped
  <2> HIDE DEF mc
  <2>3. CpuTyped'
    <3>1. CASE UNCHANGED startVars
      BY <1>1, <2>1, <3>1 DEF CpuTyped, cpuVars, startVars
    <3>2. CASE applied # None /\ StartCpu("sampler", mc)
      BY <1>1, <2>1, <2>2, <3>2, StartCpuType DEF Threads
    <3>3. QED
      BY <2>1, <3>1, <3>2
  <2>4. QED
    BY <1>1, <1>3, <2>1, <2>3 DEF LevelsTyped, SamplerTyped
<1>9. CASE Sleep
  <2>1. /\ spc' = "sleep" /\ levels' = {Total} /\ usage' = NoUsage
        /\ UNCHANGED <<cpuVars, startVars, newRam, ram>>
    BY <1>9 DEF Sleep
  <2>2. Total \in Nat
    BY <1>1, TotalNat, PayloadFacts DEF Total, CpuTyped
  <2>3. QED
    BY <1>1, <1>3, <2>1, <2>2
       DEF CpuTyped, LevelsTyped, SamplerTyped, NoUsage, cpuVars, startVars
<1>10. CASE CpuStep("sampler")
  <2>1. CpuTyped' /\ LevelsTyped' /\ UNCHANGED <<spc, usage, newRam, ram>>
    BY <1>1, <1>3, <1>10, CpuStepType DEF Threads
  <2>2. QED
    BY <1>1, <1>3, <2>1 DEF SamplerTyped
<1>11. QED
  BY <1>5, <1>6, <1>7, <1>8, <1>9, <1>10 DEF Sample

LEMMA RecyclerType ==
  ASSUME TInv, Snapshot \/ Sweep PROVE RecyclerTyped'
<1>1. RecyclerTyped /\ Grace \in Nat
  BY LoadAssumption DEF TInv
<1>2. CASE Snapshot
  BY <1>1, <1>2 DEF Snapshot, RecyclerTyped
<1>3. CASE Sweep
  <2>1. \A p \in Ports : Age(p) \in -1 .. Grace
    BY <1>1 DEF RecyclerTyped, Age, Smaller
  <2>2. \A p \in Ports : unseen'[p] \in -1 .. Grace
    BY <1>1, <1>3, <2>1 DEF Sweep
  <2>3. unseen' \in [Ports -> -1 .. Grace]
    BY <1>3, <2>2 DEF Sweep
  <2>4. QED
    BY <1>3, <2>3 DEF Sweep, RecyclerTyped
<1>4. QED
  BY <1>2, <1>3

LEMMA TypeStep == TInv /\ [Next]_vars => TInv'
<1>1. SUFFICES ASSUME TInv, [Next]_vars PROVE TInv'
  OBVIOUS
<1>2. PoolInv'
  BY <1>1, PoolStep DEF TInv
<1>3. CpuTyped /\ LevelsTyped /\ RecyclerTyped /\ SamplerTyped
  BY <1>1 DEF TInv
<1>4. CASE TakeConfig
  <2>1. /\ UNCHANGED <<recVars, cpuVars, startVars, spc, newRam, ram>>
        /\ usage' = [usage EXCEPT !.settled = FALSE]
    BY <1>4 DEF TakeConfig
  <2>2. CpuTyped' /\ RecyclerTyped'
    BY <1>3, <2>1 DEF CpuTyped, RecyclerTyped, recVars, cpuVars, startVars
  <2>3. usage' \in [cpu : Nat, ram : Nat, settled : BOOLEAN]
    BY <1>3, <2>1 DEF SamplerTyped
  <2>4. SamplerTyped'
    BY <1>3, <2>1, <2>3 DEF SamplerTyped
  <2>5. LevelsTyped'
    BY <1>2, <1>3, <1>4, <2>2, MeteredType DEF TakeConfig, CpuTyped, PoolInv, PoolTyped
  <2>6. QED
    BY <1>2, <2>2, <2>4, <2>5 DEF TInv
<1>5. CASE Configure
  BY <1>1, <1>2, <1>5, ConfigureType DEF TInv
<1>6. CASE Sample
  BY <1>1, <1>2, <1>6, SampleType DEF TInv
<1>7. CASE Snapshot \/ Sweep
  <2>1. UNCHANGED <<cpuVars, startVars, sampVars, ram, levels>>
    BY <1>7 DEF Snapshot, Sweep
  <2>2. QED
    BY <1>1, <1>2, <1>3, <1>7, <2>1, RecyclerType
       DEF TInv, CpuTyped, SamplerTyped, LevelsTyped, cpuVars, startVars, sampVars
<1>8. CASE UNCHANGED <<recVars, cpuVars, startVars, sampVars, ram, levels>>
  BY <1>2, <1>3, <1>8 DEF TInv, CpuTyped, RecyclerTyped, SamplerTyped, LevelsTyped,
                          recVars, cpuVars, startVars, sampVars
<1>9. QED
  BY <1>1, <1>4, <1>5, <1>6, <1>7, <1>8 DEF Next, Session, vars

\* The three threads keep their variables in range whatever they interleave:
\* every command has a worker and a load of 1 to 100 percent, no size is
\* negative, and a process is appended only after it was spawned.
THEOREM TypeCorrect == Spec => []TypeOK
<1>1. TInv => TypeOK
  BY DEF TInv, PoolInv, PoolTyped, CpuTyped, RecyclerTyped, SamplerTyped, LevelsTyped,
         TypeOK, Jobs
<1>2. QED
  BY <1>1, InitTInv, TypeStep, PTL DEF Spec

-----------------------------------------------------------------------------
(* What a command gives, and how far a correction goes *)

\* Rounding is off by at most half a unit.
LEMMA RoundedNear ==
  ASSUME NEW a \in Nat, NEW b \in Nat \ {0}
  PROVE  /\ Rounded(a, b) \in Nat
         /\ 2 * a - b <= 2 * (b * Rounded(a, b)) /\ 2 * (b * Rounded(a, b)) <= 2 * a + b
<1> DEFINE q == a \div b
           r == a % b
           x == b * q
<1>1. q \in Nat /\ r \in Nat /\ r < b /\ a = x + r /\ x \in Nat
  OBVIOUS
<1>2. \/ Rounded(a, b) = q /\ 2 * r <= b
      \/ Rounded(a, b) = q + 1 /\ 2 * r >= b
  <2>1. 2 * r < b \/ 2 * r = b \/ 2 * r > b
    BY <1>1
  <2>2. Rounded(a, b) = IF 2 * r < b \/ (2 * r = b /\ q % 2 = 0) THEN q ELSE q + 1
    BY DEF Rounded
  <2> HIDE DEF q, r
  <2>3. QED
    BY <1>1, <2>1, <2>2
<1>3. b * (q + 1) = x + b
  BY <1>1
<1>4. b * q = x
  OBVIOUS
<1> HIDE DEF q, r, x
<1>5. CASE Rounded(a, b) = q /\ 2 * r <= b
  <2>1. 2 * a - b <= 2 * x /\ 2 * x <= 2 * a + b
    BY <1>1, <1>5
  <2>2. QED
    BY <1>1, <1>4, <1>5, <2>1
<1>6. CASE Rounded(a, b) = q + 1 /\ 2 * r >= b
  <2>1. 2 * a - b <= 2 * (x + b) /\ 2 * (x + b) <= 2 * a + b
    BY <1>1, <1>6
  <2>2. QED
    BY <1>1, <1>3, <1>6, <2>1
<1>7. QED
  BY <1>2, <1>5, <1>6

\* What a command of w workers gives for m fifths of a millicore: within half a
\* step of it, a step being 10 millicores per worker; the smallest of commands
\* may give more, and the largest gives all the cores.
Fits(m, w, P) ==
  /\ w \in 1 .. Cores /\ P \in Nat
  /\ 5000 * (w - 1) < m /\ m <= 5000 * w
  /\ m <= 5 * P + 25 * w
  /\ w >= 2 => 5 * P <= m + 25 * w
  /\ w = 1 => \E l \in 1 .. 100 : P = 10 * l /\ (l = 1 \/ 50 * l <= m + 25)
  /\ P <= 1000 * Cores
  /\ m = 5000 * Cores => P = 1000 * Cores

LEMMA TimesMonotone ==
  ASSUME NEW i \in Nat, NEW j \in Nat, NEW k \in Nat, i <= j PROVE k * i <= k * j
OBVIOUS

LEMMA CommandFits ==
  ASSUME NEW mc \in Nat, mc > 0
  PROVE  \E w \in 1 .. Cores : Fits(Smaller(mc, 5000 * Cores), w, Power(CpuCmd(mc)))
<1> DEFINE m == Smaller(mc, 5000 * Cores)
           w == (m + 4999) \div 5000
           q == Rounded(m, 50 * w)
           l == Larger(1, Smaller(100, q))
<1>1. Cores \in Nat /\ Cores >= 1
  BY LoadAssumption
<1>2. m \in Nat /\ 1 <= m /\ m <= 5000 * Cores
  BY <1>1 DEF Smaller
<1>3. CpuCmd(mc) = [workers |-> w, load |-> l]
  BY DEF CpuCmd
<1> HIDE DEF m
<1>4. w \in Nat /\ 5000 * (w - 1) < m /\ m <= 5000 * w
  BY <1>2
<1> HIDE DEF w
<1>5. w \in 1 .. Cores
  BY <1>1, <1>2, <1>4
<1> DEFINE x == w * q
           y == w * l
<1>6. q \in Nat /\ x \in Nat /\ 2 * m - 50 * w <= 100 * x /\ 100 * x <= 2 * m + 50 * w
  <2> DEFINE b == 50 * w
  <2>1. b \in Nat \ {0} /\ q = Rounded(m, b)
    BY <1>5
  <2> HIDE DEF q, b
  <2>2. q \in Nat /\ 2 * m - b <= 2 * (b * q) /\ 2 * (b * q) <= 2 * m + b
    BY <1>2, <2>1, RoundedNear
  <2>3. x \in Nat /\ b * q = 50 * x
    BY <1>4, <2>2 DEF b
  <2> HIDE DEF x
  <2>4. QED
    BY <1>2, <2>2, <2>3 DEF b
<1> HIDE DEF q
\* No load is over 100 percent, and only one worker can round to nothing.
<1>7. q <= 100
  <2>1. SUFFICES ASSUME q >= 101 PROVE FALSE
    BY <1>6
  <2>2. w * 101 <= x
    BY <1>4, <1>6, <2>1, TimesMonotone
  <2> HIDE DEF x
  <2>3. QED
    BY <1>2, <1>4, <1>5, <1>6, <2>2
<1>8. q = 0 => w = 1 /\ m <= 25
  <2>1. SUFFICES ASSUME q = 0 PROVE w = 1 /\ m <= 25
    OBVIOUS
  <2>2. x = 0
    BY <1>4, <2>1
  <2> HIDE DEF x
  <2>3. QED
    BY <1>2, <1>4, <1>5, <1>6, <2>2
<1>9. l \in 1 .. 100 /\ (q >= 1 => l = q) /\ (q = 0 => l = 1)
  BY <1>6, <1>7 DEF Larger, Smaller
<1> HIDE DEF l
<1>10. Power(CpuCmd(mc)) = 10 * y
  <2>1. [workers |-> w, load |-> l] \in Runs
    BY <1>5, <1>9 DEF Runs
  <2>2. CpuCmd(mc) # None
    BY <1>3, <2>1, LoadAssumption
  <2>3. Power(CpuCmd(mc)) = 10 * w * l
    BY <1>3, <2>2 DEF Power
  <2>4. QED
    BY <1>5, <1>9, <2>3
<1>11. y \in Nat /\ y <= 100 * w
  <2>1. w * l <= w * 100
    BY <1>5, <1>9, TimesMonotone
  <2>2. QED
    BY <1>5, <1>9, <2>1
<1>12. q >= 1 => y = x
  BY <1>9
<1>13. w = 1 => y = l
  BY <1>9
<1>14. w = 1 => x = q
  BY <1>6
\* All the cores are asked for by 100 percent on each.
<1>15. m = 5000 * Cores => y = 100 * Cores
  <2>1. SUFFICES ASSUME m = 5000 * Cores PROVE y = 100 * Cores
    OBVIOUS
  <2>2. w = Cores
    BY <1>1, <1>4, <1>5, <2>1
  <2>3. l = 100
    <3>1. SUFFICES ASSUME l <= 99 PROVE FALSE
      BY <1>9
    <3>2. w * l <= w * 99
      BY <1>5, <1>9, <3>1, TimesMonotone
    <3>3. q >= 1
      BY <1>1, <1>6, <1>8, <2>1
    <3>4. x <= 99 * w
      BY <1>5, <1>9, <1>12, <3>2, <3>3
    <3> HIDE DEF x
    <3>5. QED
      BY <1>1, <1>5, <1>6, <2>1, <2>2, <3>4
  <2>4. QED
    BY <1>5, <2>2, <2>3
<1> HIDE DEF x, y
<1> DEFINE P == Power(CpuCmd(mc))
<1>16. P \in Nat /\ P = 10 * y /\ P <= 1000 * w /\ P <= 1000 * Cores
  BY <1>1, <1>5, <1>10, <1>11
<1> HIDE DEF P
<1>17. m <= 5 * P + 25 * w
  BY <1>2, <1>5, <1>6, <1>8, <1>11, <1>12, <1>16
<1>18. w >= 2 => 5 * P <= m + 25 * w
  BY <1>2, <1>5, <1>6, <1>8, <1>11, <1>12, <1>16
<1>19. w = 1 => P = 10 * l /\ (l = 1 \/ 50 * l <= m + 25)
  <2>1. SUFFICES ASSUME w = 1, l # 1 PROVE P = 10 * l /\ 50 * l <= m + 25
    BY <1>13, <1>16
  <2>2. y = l /\ x = l /\ P = 10 * l
    BY <1>6, <1>9, <1>12, <1>13, <1>16, <2>1
  <2>3. QED
    BY <1>2, <1>6, <1>9, <2>1, <2>2
<1>20. Fits(m, w, P)
  <2>1. w = 1 => \E k \in 1 .. 100 : P = 10 * k /\ (k = 1 \/ 50 * k <= m + 25)
    BY <1>9, <1>19
  <2>2. m = 5000 * Cores => P = 1000 * Cores
    BY <1>1, <1>15, <1>16
  <2>3. QED
    BY <1>4, <1>5, <1>16, <1>17, <1>18, <2>1, <2>2 DEF Fits
<1>21. QED
  BY <1>5, <1>20 DEF P, m

LEMMA Between ==
  ASSUME NEW lo \in Nat, NEW hi \in Nat, NEW v \in 1 .. Cores, NEW w \in 1 .. Cores,
         NEW Q \in Nat, NEW P \in Nat, NEW d \in Nat,
         Fits(lo, v, Q), Fits(hi, w, P), d >= 5,
         lo < hi, hi <= lo + 3 * d, hi = 5000 * Cores \/ hi = lo + 3 * d,
         hi < 110 * d + 25 * w
  PROVE  Q <= P /\ P <= Q + 2 * d
<1>1. /\ 5000 * (v - 1) < lo /\ lo <= 5000 * v /\ lo <= 5 * Q + 25 * v
      /\ v >= 2 => 5 * Q <= lo + 25 * v
      /\ Q <= 1000 * Cores /\ Cores \in Nat
  BY LoadAssumption DEF Fits
<1>2. /\ 5000 * (w - 1) < hi /\ hi <= 5000 * w /\ hi <= 5 * P + 25 * w
      /\ w >= 2 => 5 * P <= hi + 25 * w
      /\ hi = 5000 * Cores => P = 1000 * Cores
  BY DEF Fits
<1>3. v <= w
  BY <1>1, <1>2
<1>4. v = 1 => 5 * Q <= lo + 50
  <2>1. SUFFICES ASSUME v = 1 PROVE 5 * Q <= lo + 50
    OBVIOUS
  <2>2. PICK k \in 1 .. 100 : Q = 10 * k /\ (k = 1 \/ 50 * k <= lo + 25)
    BY <2>1 DEF Fits
  <2>3. QED
    BY <2>2
<1>5. CASE w >= 2
  <2>1. 7 * d >= 50 * w /\ 3 * d >= 50 * w /\ w \in Nat
    BY <1>2, <1>5
  <2>2. P <= Q + 2 * d
    BY <1>1, <1>2, <1>3, <1>5, <2>1
  <2>3. Q <= P
    <3>1. CASE hi = 5000 * Cores
      BY <1>1, <1>2, <3>1
    <3>2. CASE hi = lo + 3 * d
      BY <1>1, <1>2, <1>3, <1>4, <1>5, <2>1, <3>2
    <3>3. QED
      BY <3>1, <3>2
  <2>4. QED
    BY <2>2, <2>3
<1>6. CASE w = 1
  <2>1. v = 1
    BY <1>3, <1>6
  <2>2. PICK k \in 1 .. 100 : Q = 10 * k /\ (k = 1 \/ 50 * k <= lo + 25)
    BY <2>1 DEF Fits
  <2>3. PICK l \in 1 .. 100 : P = 10 * l /\ (l = 1 \/ 50 * l <= hi + 25)
    BY <1>6 DEF Fits
  <2>4. lo <= 50 * k + 25 /\ hi <= 50 * l + 25
    BY <1>1, <1>2, <1>6, <2>1, <2>2, <2>3
  <2>5. k <= l
    BY <2>2, <2>3, <2>4
  <2>6. l <= k + 1 \/ 50 * (l - k) <= 3 * d + 50
    BY <2>2, <2>3, <2>4
  <2>7. 10 * (l - k) <= 2 * d
    BY <2>5, <2>6
  <2>8. QED
    BY <2>2, <2>3, <2>5, <2>7
<1>7. QED
  BY <1>5, <1>6

LEMMA FromNothing ==
  ASSUME NEW hi \in Nat, NEW w \in 1 .. Cores, NEW P \in Nat, NEW d \in Nat,
         Fits(hi, w, P), d >= 5, hi <= 3 * d
  PROVE  P <= 2 * d
<1>1. 5000 * (w - 1) < hi /\ (w >= 2 => 5 * P <= hi + 25 * w)
  BY DEF Fits
<1>2. CASE w >= 2
  BY <1>1, <1>2
<1>3. CASE w = 1
  <2>1. PICK l \in 1 .. 100 : P = 10 * l /\ (l = 1 \/ 50 * l <= hi + 25)
    BY <1>3 DEF Fits
  <2>2. QED
    BY <2>1
<1>4. QED
  BY <1>2, <1>3

\* What the pod is accounted for when it runs what size k asks for.
Uses(base, k) == Smaller(Capacity, base + Power(CpuCmd(k)))

\* A correction that starts outside the tolerance changes what stress-ng gives
\* in the direction of the error, and by no more than twice the error: three
\* fifths of it, the rounding of both commands, and the step to one more worker.
\* Above what the pod is let have, what stress-ng is asked for makes no odds.
LEMMA Correction ==
  ASSUME ToleranceMc >= 4, NEW s \in Nat, NEW base \in Nat, NEW target \in Nat,
         ~WithinTolerance(target, target - Uses(base, s))
  PROVE  LET error == target - Uses(base, s)
             Q == Power(CpuCmd(s))
             P == Power(CpuCmd(Corrected(s, error)))
         IN  /\ Q \in Nat /\ P \in Nat
             /\ \/ Capacity <= Q /\ Capacity <= P
                \/ /\ error > 0 => Q <= P /\ P <= Q + 2 * error
                   /\ error < 0 => P <= Q /\ Q <= P - 2 * error
<1> DEFINE total == Uses(base, s)
           error == target - total
           c == Corrected(s, error)
           Q == Power(CpuCmd(s))
           P == Power(CpuCmd(c))
           C5 == 5000 * Cores
           lo == Smaller(s, C5)
           hi == Smaller(c, C5)
<1>1. Cores \in Nat /\ Cores >= 1 /\ ToleranceMc \in Nat /\ C5 \in Nat
  BY LoadAssumption
<1>2. CpuCmd(0) = None /\ Power(None) = 0
  BY DEF CpuCmd, Power
<1>3. Q \in Nat /\ Q <= 1000 * Cores
  <2>1. CASE s = 0
    BY <1>1, <1>2, <2>1
  <2>2. CASE s > 0
    BY <2>2, CommandFits DEF Fits
  <2>3. QED
    BY <2>1, <2>2
<1>4. total \in Nat /\ Capacity \in Nat /\ (Q <= total \/ total = Capacity)
  BY <1>1, <1>3, LoadAssumption DEF Uses, Smaller, Capacity
<1>5. error \in Int /\ total = target - error
  BY <1>4
<1>6. /\ ~(error <= ToleranceMc /\ -error <= ToleranceMc)
      /\ ~(20 * error <= target /\ -20 * error <= target)
  BY DEF WithinTolerance
<1> HIDE DEF total
<1>7. c \in Nat /\ c = Larger(0, s + 3 * error)
  BY <1>5 DEF Corrected, Larger
<1> HIDE DEF error, c
<1>8. s > 0 => /\ lo \in Nat /\ lo > 0 /\ lo <= C5
               /\ \E v \in 1 .. Cores : Fits(lo, v, Q)
  BY <1>1, CommandFits DEF Smaller
<1>9. c > 0 => /\ hi \in Nat /\ hi > 0 /\ hi <= C5
               /\ \E w \in 1 .. Cores : Fits(hi, w, P)
  BY <1>1, <1>7, CommandFits DEF Smaller
<1>10. P \in Nat
  <2>1. CASE c = 0
    BY <1>2, <2>1
  <2>2. CASE c > 0
    BY <1>9, <2>2 DEF Fits
  <2>3. QED
    BY <1>7, <2>1, <2>2
<1> HIDE DEF Q, P, lo, hi
<1>11. ASSUME error > 0, ~(Capacity <= Q /\ Capacity <= P)
       PROVE  Q <= P /\ P <= Q + 2 * error
  <2>1. error >= 5 /\ error \in Nat /\ (Q < 19 * error \/ P < 19 * error)
    BY <1>1, <1>3, <1>4, <1>5, <1>6, <1>10, <1>11
  <2>2. c = s + 3 * error /\ c > 0
    BY <1>5, <1>7, <1>11 DEF Larger
  <2>3. PICK w \in 1 .. Cores : Fits(hi, w, P)
    BY <1>9, <2>2
  <2>4. CASE s = 0
    <3>1. Q = 0
      BY <1>2, <2>4 DEF Q
    <3>2. hi \in Nat /\ hi <= 3 * error
      BY <1>1, <2>1, <2>2, <2>4 DEF Smaller, hi
    <3>3. P <= 2 * error
      BY <1>10, <2>1, <2>3, <3>2, FromNothing
    <3>4. QED
      BY <1>10, <2>1, <3>1, <3>3
  <2>5. CASE s > 0
    <3>1. PICK v \in 1 .. Cores : Fits(lo, v, Q)
      BY <1>8, <2>5
    <3>2. lo \in Nat /\ hi \in Nat /\ C5 \in Nat
      BY <1>1, <1>8, <1>9, <2>2, <2>5
    <3>3. CASE s >= C5
      <4>1. lo = C5 /\ hi = C5
        BY <1>1, <2>1, <2>2, <3>3 DEF Smaller, lo, hi
      <4>2. Q = 1000 * Cores /\ P = 1000 * Cores
        BY <2>3, <3>1, <4>1 DEF Fits
      <4>3. QED
        BY <1>1, <1>3, <2>1, <4>2
    <3>4. CASE s < C5
      <4>1. /\ lo = s /\ lo < hi /\ hi <= lo + 3 * error
            /\ hi = C5 \/ hi = lo + 3 * error
        BY <1>1, <2>1, <2>2, <3>4 DEF Smaller, lo, hi
      <4>2. lo <= 5 * Q + 25 * v /\ 5000 * (v - 1) < lo /\ hi <= 5000 * w
        BY <2>3, <3>1 DEF Fits
      <4>3. v <= w
        <5>1. 5000 * (v - 1) < 5000 * w
          BY <3>2, <4>1, <4>2
        <5>2. QED
          BY <5>1
      <4>4. hi < 110 * error + 25 * w
        <5>1. hi <= 5 * P + 25 * w
          BY <2>3 DEF Fits
        <5>2. QED
          BY <1>3, <1>10, <2>1, <3>2, <4>1, <4>2, <4>3, <5>1
      <4>5. QED
        <5>1. /\ lo \in Nat /\ hi \in Nat /\ Q \in Nat /\ P \in Nat
              /\ error \in Nat /\ error >= 5 /\ Fits(lo, v, Q) /\ Fits(hi, w, P)
          BY <1>3, <1>10, <2>1, <2>3, <3>1, <3>2
        <5>2. QED
          BY <4>1, <4>4, <5>1, Between
    <3>5. QED
      BY <1>1, <3>2, <3>3, <3>4
  <2>6. QED
    BY <2>4, <2>5
<1>12. ASSUME error < 0, ~(Capacity <= Q /\ Capacity <= P)
       PROVE  P <= Q /\ Q <= P - 2 * error
  <2> DEFINE d == -error
  <2>1. d >= 5 /\ d \in Nat /\ (Q < 21 * d \/ P < 21 * d)
    BY <1>1, <1>3, <1>4, <1>5, <1>6, <1>10, <1>12
  <2>2. c = Larger(0, s - 3 * d) /\ error = -d
    BY <1>5, <1>7
  <2> HIDE DEF d
  <2>3. CASE s = 0
    <3>1. c = 0
      BY <2>1, <2>2, <2>3 DEF Larger
    <3>2. Q = 0 /\ P = 0
      BY <1>2, <2>3, <3>1 DEF Q, P
    <3>3. QED
      BY <2>1, <2>2, <3>2
  <2>4. CASE s > 0
    <3>1. PICK v \in 1 .. Cores : Fits(lo, v, Q)
      BY <1>8, <2>4
    <3>2. lo \in Nat /\ lo > 0 /\ lo <= C5 /\ lo <= s /\ C5 \in Nat
      <4>1. lo <= s
        BY <1>1 DEF Smaller, lo
      <4>2. QED
        BY <1>1, <1>8, <2>4, <4>1
    <3>3. CASE c = 0
      <4>1. P = 0
        BY <1>2, <3>3 DEF P
      <4>2. lo <= 3 * d
        BY <2>1, <2>2, <3>2, <3>3 DEF Larger
      <4>3. Q <= 2 * d
        BY <1>3, <2>1, <3>1, <3>2, <4>2, FromNothing
      <4>4. QED
        BY <1>3, <2>1, <2>2, <4>1, <4>3
    <3>4. CASE c > 0
      <4>1. c = s - 3 * d /\ hi \in Nat
        BY <1>9, <2>1, <2>2, <3>4 DEF Larger
      <4>2. PICK w \in 1 .. Cores : Fits(hi, w, P)
        BY <1>9, <3>4
      <4>3. CASE c >= C5
        <5>1. lo = C5 /\ hi = C5
          BY <2>1, <3>2, <4>1, <4>3 DEF Smaller, lo, hi
        <5>2. Q = 1000 * Cores /\ P = 1000 * Cores
          BY <3>1, <4>2, <5>1 DEF Fits
        <5>3. QED
          BY <1>1, <1>3, <2>1, <2>2, <5>2
      <4>4. CASE c < C5
        <5>1. /\ hi = c /\ hi < lo /\ lo <= hi + 3 * d
              /\ lo = C5 \/ lo = hi + 3 * d
          BY <2>1, <3>2, <4>1, <4>4 DEF Smaller, lo, hi
        <5>2. lo <= 5 * Q + 25 * v /\ lo <= 5000 * v
          BY <3>1 DEF Fits
        <5>3. lo < 110 * d + 25 * v
          <6>1. hi <= 5 * P + 25 * w /\ 5000 * (w - 1) < hi
            BY <4>2 DEF Fits
          <6>2. w <= v
            BY <3>2, <4>1, <5>1, <5>2, <6>1
          <6>3. CASE Q < 21 * d
            BY <1>3, <2>1, <3>2, <5>2, <6>3
          <6>4. CASE P < 21 * d
            BY <1>10, <2>1, <3>2, <4>1, <5>1, <6>1, <6>2, <6>4
          <6>5. QED
            BY <2>1, <6>3, <6>4
        <5>4. P <= Q /\ Q <= P + 2 * d
          <6>1. /\ hi \in Nat /\ lo \in Nat /\ P \in Nat /\ Q \in Nat /\ d \in Nat /\ d >= 5
                /\ Fits(hi, w, P) /\ Fits(lo, v, Q)
            BY <1>3, <1>10, <2>1, <3>1, <3>2, <4>1, <4>2
          <6>2. QED
            BY <5>1, <5>3, <6>1, Between
        <5>5. QED
          BY <1>3, <1>10, <2>1, <2>2, <5>4
      <4>5. QED
        BY <1>7, <3>2, <4>3, <4>4
    <3>5. QED
      BY <1>7, <3>3, <3>4
  <2>5. QED
    BY <2>3, <2>4
<1>13. QED
  BY <1>3, <1>10, <1>11, <1>12 DEF error, total, c, Q, P

\* Hence the pod is no further from its target afterwards: the limit of what
\* it is let have only brings the two closer.
LEMMA CloserAfter ==
  ASSUME ToleranceMc >= 4, NEW s \in Nat, NEW base \in Nat, NEW target \in Nat,
         ~WithinTolerance(target, target - Uses(base, s))
  PROVE  LET error == target - Uses(base, s)
             after == target - Uses(base, Corrected(s, error))
         IN  Larger(after, -after) <= Larger(error, -error)
<1> DEFINE error == target - Uses(base, s)
           Q == Power(CpuCmd(s))
           P == Power(CpuCmd(Corrected(s, error)))
           after == target - Smaller(Capacity, base + P)
<1>1. /\ Q \in Nat /\ P \in Nat
      /\ \/ Capacity <= Q /\ Capacity <= P
         \/ /\ error > 0 => Q <= P /\ P <= Q + 2 * error
            /\ error < 0 => P <= Q /\ Q <= P - 2 * error
  BY Correction
<1>2. error = target - Smaller(Capacity, base + Q)
  BY DEF Uses
<1>3. ~(error <= ToleranceMc /\ -error <= ToleranceMc)
  BY DEF WithinTolerance
<1>4. after = target - Uses(base, Corrected(s, error))
  BY DEF Uses
<1>5. Capacity \in Nat /\ ToleranceMc \in Nat
  BY LoadAssumption DEF Capacity, Smaller
<1> HIDE DEF error, Q, P
<1>6. error \in Int /\ after \in Int /\ error # 0
  BY <1>1, <1>2, <1>3, <1>5 DEF Smaller
<1> HIDE DEF after
<1>7. ASSUME error > 0 PROVE -error <= after /\ after <= error
  BY <1>1, <1>2, <1>5, <1>6, <1>7 DEF Smaller, after
<1>8. ASSUME error < 0 PROVE error <= after /\ after <= -error
  BY <1>1, <1>2, <1>5, <1>6, <1>8 DEF Smaller, after
<1>9. Larger(after, -after) <= Larger(error, -error)
  BY <1>6, <1>7, <1>8 DEF Larger
<1>10. QED
  BY <1>4, <1>9 DEF error

-----------------------------------------------------------------------------
(* The CPU loop *)

\* A thread is in start_cpu() only where it calls it.
StartedBy ==
  /\ pc # "publish" => cpuPc["configure"] = "idle"
  /\ spc # "start" => cpuPc["sampler"] = "idle"

\* A command is the one for the size it was recorded with.
Requested ==
  /\ \A t \in Threads : cpuPc[t] # "idle" => job[t].cmd = CpuCmd(job[t].mc)
  /\ \A t \in Threads : cpuPc[t] \in {"popen", "append", "track"} => job[t].cmd # None
  /\ \/ cmd = Unset /\ stressMc = 0
     \/ cmd = CpuCmd(stressMc)

\* A command that is recorded runs, but while something is being replaced.
Spawned ==
  /\ cmd \notin {None, Unset} /\ pc \notin {"procs", "reset"}
  /\ \A t \in Threads : cpuPc[t] \notin {"set", "popen"}
  => Alive # {}

OneRuns == \A p \in Alive : stress = {p}

\* The reading of a settled pod belongs to size s, which is being corrected.
Correcting(s) ==
  /\ usage.cpu = Uses(payload.baseCpu, s)
  /\ job["sampler"].mc = Corrected(s, applied.cpu - usage.cpu)
  /\ ~WithinTolerance(applied.cpu, applied.cpu - usage.cpu)

\* From the reading of a settled pod to the respawn it leads to, nothing else
\* has changed what the pod uses: the one process that ran was the one stopped.
Settled ==
  usage.settled =>
    /\ pc = "idle" /\ spc \in {"ram", "alloc", "cpu", "start"}
    /\ spc # "start" => OneRuns /\ usage.cpu = Uses(payload.baseCpu, stressMc)
    /\ cpuPc["sampler"] \in {"kill", "set", "popen"} =>
         applied # None /\ \E s \in Nat : Correcting(s)
    /\ cpuPc["sampler"] = "kill" => OneRuns
    /\ cpuPc["sampler"] \in {"set", "popen"} => Alive = {}

CpuInv == TInv /\ StartedBy /\ Requested /\ Spawned /\ Settled

LEMMA InitCpu == Init => CpuInv
<1>1. SUFFICES ASSUME Init PROVE CpuInv
  OBVIOUS
<1>2. StartedBy
  BY <1>1 DEF Init, StartedBy, Threads
<1>3. Requested
  BY <1>1 DEF Init, Requested
<1>4. Spawned /\ Settled
  BY <1>1 DEF Init, Spawned, Settled, NoUsage
<1>5. QED
  BY <1>1, <1>2, <1>3, <1>4, InitTInv DEF CpuInv

\* What a step of start_cpu() leaves alone.
LEMMA CpuStepFrame ==
  ASSUME TInv, NEW t \in Threads, CpuStep(t)
  PROVE  /\ UNCHANGED <<pc, payload, applied, spc, usage>>
         /\ cpuPc[t] # "idle" /\ cpuPc' \in [Threads -> CpuPCs]
         /\ \A u \in Threads : u # t => cpuPc'[u] = cpuPc[u] /\ job'[u] = job[u]
<1>1. cpuPc \in [Threads -> CpuPCs] /\ job \in [Threads -> Jobs]
  BY DEF TInv, CpuTyped
<1>2. UNCHANGED <<pc, payload, applied, spc, usage>>
  BY DEF CpuStep, StopCpu, SetCommand, Popen, AppendProcs, AppendStress, confVars, sampVars
<1>3. /\ cpuPc[t] # "idle" /\ cpuPc' \in [Threads -> CpuPCs]
      /\ \A u \in Threads : u # t => cpuPc'[u] = cpuPc[u]
  BY <1>1 DEF CpuStep, StopCpu, SetCommand, Popen, AppendProcs, AppendStress, Step, CpuPCs
<1>4. \A u \in Threads : u # t => job'[u] = job[u]
  BY <1>1 DEF CpuStep, StopCpu, SetCommand, Popen, AppendProcs, AppendStress
<1>5. QED
  BY <1>2, <1>3, <1>4

\* A request leaves the thread idle, or with a job for the size's command.
LEMMA StartCpuFrame ==
  ASSUME CpuTyped, NEW t \in Threads, NEW mc, StartCpu(t, mc)
  PROVE  /\ \A u \in Threads : u # t => cpuPc'[u] = cpuPc[u] /\ job'[u] = job[u]
         /\ \/ UNCHANGED startVars
            \/ /\ cpuPc'[t] = "kill" /\ job'[t].mc = mc
               /\ job'[t].cmd = CpuCmd(mc)
BY DEF CpuTyped, StartCpu, startVars

LEMMA StartedByStep == CpuInv /\ [Next]_vars => StartedBy'
<1>1. SUFFICES ASSUME CpuInv, [Next]_vars PROVE StartedBy'
  OBVIOUS
<1>2. StartedBy /\ TInv /\ CpuTyped
  BY <1>1 DEF CpuInv, TInv
<1>3. ASSUME NEW t \in Threads, CpuStep(t) PROVE StartedBy'
  BY <1>2, <1>3, CpuStepFrame DEF StartedBy, Threads
<1>4. CASE Configure
  <2>1. CASE DropRegistry \/ KillProcs \/ ClearProcs \/ ResetLoads \/ ClearState
             \/ StartServers \/ Publish
    BY <1>2, <2>1 DEF DropRegistry, KillProcs, ClearProcs, ResetLoads, ClearState, StartServers,
                      Publish, Goto, startVars, sampVars, StartedBy
  <2>2. CASE SeedCpu
    <3>1. pc' = "publish" /\ spc' = spc /\ cpuPc'["sampler"] = cpuPc["sampler"]
      BY <1>2, <2>2, StartCpuFrame DEF SeedCpu, Goto, sampVars, Threads
    <3>2. QED
      BY <1>2, <3>1 DEF StartedBy
  <2>3. QED
    BY <1>3, <1>4, <2>1, <2>2 DEF Configure, Threads
<1>5. CASE Sample
  <2>1. CASE ReadUsage \/ AdjustRam \/ AllocateRam \/ Sleep
    BY <1>2, <2>1 DEF ReadUsage, AdjustRam, AllocateRam, Sleep, confVars, startVars, StartedBy
  <2>2. CASE AdjustCpu
    <3>1. spc' = "start" /\ pc' = pc
      BY <2>2 DEF AdjustCpu, confVars
    <3>2. cpuPc'["configure"] = cpuPc["configure"]
      BY <1>2, <2>2, StartCpuFrame DEF AdjustCpu, startVars, Threads
    <3>3. QED
      BY <1>2, <3>1, <3>2 DEF StartedBy
  <2>3. QED
    BY <1>3, <1>5, <2>1, <2>2 DEF Sample, Threads
<1>6. CASE TakeConfig
  BY <1>2, <1>6 DEF TakeConfig, Goto, startVars, StartedBy
<1>7. CASE Snapshot \/ Sweep \/ (\E p \in Ports : Session(p)) \/ UNCHANGED vars
  BY <1>2, <1>7 DEF Snapshot, Sweep, Session, vars, confVars, startVars, sampVars, StartedBy
<1>8. QED
  BY <1>1, <1>4, <1>5, <1>6, <1>7 DEF Next

LEMMA RequestedStep == CpuInv /\ [Next]_vars => Requested'
<1>1. SUFFICES ASSUME CpuInv, [Next]_vars PROVE Requested'
  OBVIOUS
<1>2. Requested /\ TInv /\ CpuTyped
  BY <1>1 DEF CpuInv, TInv
<1>3. ASSUME UNCHANGED <<startVars, stressMc, cmd>> PROVE Requested'
  BY <1>2, <1>3 DEF Requested, startVars
<1>4. ASSUME NEW t \in Threads, NEW mc, StartCpu(t, mc), UNCHANGED cpuVars
      PROVE  Requested'
  <2>1. UNCHANGED <<stressMc, cmd>>
    BY <1>4 DEF cpuVars
  <2>2. CASE UNCHANGED startVars
    BY <1>3, <2>1, <2>2
  <2>3. CASE ~UNCHANGED startVars
    BY <1>2, <1>4, <2>1, <2>3, StartCpuFrame DEF Requested
  <2>4. QED
    BY <2>2, <2>3
<1>5. ASSUME NEW t \in Threads, CpuStep(t) PROVE Requested'
  <2>1. \A u \in Threads : u # t => cpuPc'[u] = cpuPc[u] /\ job'[u] = job[u]
    BY <1>2, <1>5, CpuStepFrame
  <2>2. cpuPc \in [Threads -> CpuPCs] /\ job \in [Threads -> Jobs]
    BY <1>2 DEF CpuTyped
  <2>3. CASE StopCpu(t)
    <3>1. cpuPc[t] = "kill" /\ cpuPc'[t] = "set" /\ UNCHANGED <<job, stressMc, cmd>>
      BY <2>2, <2>3 DEF StopCpu, Step
    <3>2. QED
      BY <1>2, <2>1, <3>1 DEF Requested
  <2>4. CASE SetCommand(t)
    <3>1. /\ cpuPc[t] = "set" /\ stressMc' = job[t].mc /\ cmd' = job[t].cmd
          /\ \/ job[t].cmd = None /\ cpuPc'[t] = "idle"
             \/ job[t].cmd # None /\ cpuPc'[t] = "popen" /\ job' = job
      BY <2>2, <2>4 DEF SetCommand, Step
    <3>2. cmd' = CpuCmd(stressMc')
      BY <1>2, <3>1 DEF Requested
    <3>3. /\ cpuPc'[t] # "idle" => job'[t].cmd = CpuCmd(job'[t].mc)
          /\ cpuPc'[t] \in {"popen", "append", "track"} => job'[t].cmd # None
      BY <1>2, <3>1 DEF Requested
    <3>4. QED
      BY <1>2, <2>1, <3>2, <3>3 DEF Requested
  <2>5. CASE Popen(t)
    <3>1. /\ cpuPc[t] = "popen" /\ cpuPc'[t] = "append" /\ UNCHANGED <<stressMc, cmd>>
          /\ job'[t].cmd = job[t].cmd /\ job'[t].mc = job[t].mc
      BY <2>2, <2>5 DEF Popen, Step, Jobs
    <3>2. QED
      BY <1>2, <2>1, <3>1 DEF Requested
  <2>6. CASE AppendProcs(t)
    <3>1. cpuPc[t] = "append" /\ cpuPc'[t] = "track" /\ UNCHANGED <<job, stressMc, cmd>>
      BY <2>2, <2>6 DEF AppendProcs, Step
    <3>2. QED
      BY <1>2, <2>1, <3>1 DEF Requested
  <2>7. CASE AppendStress(t)
    <3>1. cpuPc'[t] = "idle" /\ UNCHANGED <<stressMc, cmd>>
      BY <2>2, <2>7 DEF AppendStress, Step
    <3>2. QED
      BY <1>2, <2>1, <3>1 DEF Requested
  <2>8. QED
    BY <1>5, <2>3, <2>4, <2>5, <2>6, <2>7 DEF CpuStep
<1>6. CASE Configure
  <2>1. CASE DropRegistry \/ KillProcs \/ ClearProcs \/ ClearState \/ StartServers \/ Publish
    <3>1. UNCHANGED <<startVars, stressMc, cmd>>
      BY <2>1 DEF DropRegistry, KillProcs, ClearProcs, ClearState, StartServers, Publish, cpuVars
    <3>2. QED
      BY <1>3, <3>1
  <2>2. CASE ResetLoads
    BY <1>2, <2>2 DEF ResetLoads, Requested, startVars
  <2>3. CASE SeedCpu
    BY <1>4, <2>3 DEF SeedCpu, Threads
  <2>4. QED
    BY <1>5, <1>6, <2>1, <2>2, <2>3 DEF Configure, Threads
<1>7. CASE Sample
  <2>1. CASE ReadUsage \/ AdjustRam \/ AllocateRam \/ Sleep
    <3>1. UNCHANGED <<startVars, stressMc, cmd>>
      BY <2>1 DEF ReadUsage, AdjustRam, AllocateRam, Sleep, cpuVars
    <3>2. QED
      BY <1>3, <3>1
  <2>2. CASE AdjustCpu
    <3>1. \/ UNCHANGED <<startVars, cpuVars>>
          \/ StartCpu("sampler", Corrected(stressMc, applied.cpu - usage.cpu)) /\ UNCHANGED cpuVars
      BY <2>2 DEF AdjustCpu
    <3>2. QED
      BY <1>3, <1>4, <3>1 DEF Threads, cpuVars
  <2>3. QED
    BY <1>5, <1>7, <2>1, <2>2 DEF Sample, Threads
<1>8. CASE TakeConfig \/ Snapshot \/ Sweep \/ (\E p \in Ports : Session(p)) \/ UNCHANGED vars
  <2>1. UNCHANGED <<startVars, stressMc, cmd>>
    BY <1>8 DEF TakeConfig, Snapshot, Sweep, Session, vars, cpuVars
  <2>2. QED
    BY <1>3, <2>1
<1>9. QED
  BY <1>1, <1>6, <1>7, <1>8 DEF Next

\* A respawn takes a process that was not running and runs the job's command.
LEMMA PopenProcess ==
  ASSUME NEW t \in Threads, Popen(t)
  PROVE  \E p \in Procs : load' = [load EXCEPT ![p] = job[t].cmd]
<1> DEFINE free == {p \in Procs : /\ load[p] = None /\ p \notin procs \cup stress
                                  /\ \A u \in Threads : job[u].proc # p}
<1>1. free # {} /\ load' = [load EXCEPT ![Min(free)] = job[t].cmd]
  BY DEF Popen
<1>2. free \in SUBSET Nat /\ free \subseteq Procs
  BY DEF Procs
<1> HIDE DEF free
<1>3. Min(free) \in Procs
  BY <1>1, <1>2, MinIn
<1>4. QED
  BY <1>1, <1>3

LEMMA SpawnedStep == CpuInv /\ [Next]_vars => Spawned'
<1>1. SUFFICES ASSUME CpuInv, [Next]_vars PROVE Spawned'
  OBVIOUS
<1>2. Spawned /\ Requested /\ StartedBy /\ TInv /\ CpuTyped
  BY <1>1 DEF CpuInv, TInv
<1>3. cpuPc \in [Threads -> CpuPCs] /\ job \in [Threads -> Jobs] /\ load \in [Procs -> Commands]
  BY <1>2 DEF CpuTyped
<1>4. ASSUME UNCHANGED <<load, cmd>>, pc' \notin {"procs", "reset"} => pc \notin {"procs", "reset"},
             \A t \in Threads : cpuPc'[t] \notin {"set", "popen"} => cpuPc[t] \notin {"set", "popen"}
      PROVE  Spawned'
  BY <1>2, <1>4 DEF Spawned, Alive
<1>5. ASSUME NEW t \in Threads, CpuStep(t) PROVE Spawned'
  <2>1. pc' = pc /\ \A u \in Threads : u # t => cpuPc'[u] = cpuPc[u]
    BY <1>2, <1>5, CpuStepFrame
  <2>2. CASE StopCpu(t)
    <3>1. cpuPc'[t] = "set"
      BY <1>3, <2>2 DEF StopCpu, Step
    <3>2. QED
      BY <3>1 DEF Spawned
  <2>3. CASE SetCommand(t)
    <3>1. \/ cmd' = None
          \/ cpuPc'[t] = "popen"
      BY <1>3, <2>3 DEF SetCommand, Step
    <3>2. QED
      BY <3>1 DEF Spawned
  <2>4. CASE Popen(t)
    <3>1. PICK p \in Procs : load' = [load EXCEPT ![p] = job[t].cmd]
      BY <2>4, PopenProcess
    <3>2. job[t].cmd # None
      BY <1>2, <2>4 DEF Popen, Step, Requested
    <3>3. p \in Alive'
      BY <1>3, <3>1, <3>2 DEF Alive
    <3>4. QED
      BY <3>3 DEF Spawned
  <2>5. CASE AppendProcs(t) \/ AppendStress(t)
    <3>1. UNCHANGED <<load, cmd>> /\ cpuPc[t] \in {"append", "track"}
      BY <2>5 DEF AppendProcs, AppendStress, Step
    <3>2. QED
      BY <1>4, <2>1, <3>1
  <2>6. QED
    BY <1>5, <2>2, <2>3, <2>4, <2>5 DEF CpuStep
<1>6. CASE Configure
  <2>1. CASE KillProcs \/ ClearProcs
    BY <2>1 DEF KillProcs, ClearProcs, Goto, Spawned
  <2>2. CASE ResetLoads
    BY <2>2 DEF ResetLoads, Spawned
  <2>3. CASE DropRegistry \/ ClearState \/ StartServers \/ Publish
    <3>1. /\ UNCHANGED <<load, cmd, cpuPc>>
          /\ pc \notin {"procs", "reset"}
      BY <2>3 DEF DropRegistry, ClearState, StartServers, Publish, Goto, cpuVars, startVars
    <3>2. QED
      BY <1>4, <3>1
  <2>4. CASE SeedCpu
    <3>1. UNCHANGED <<load, cmd>> /\ pc = "cpu" /\ cpuPc'["sampler"] = cpuPc["sampler"]
      BY <1>2, <2>4, StartCpuFrame DEF SeedCpu, Goto, cpuVars, Threads
    <3>2. cpuPc["configure"] = "idle"
      BY <1>2, <3>1 DEF StartedBy
    <3>3. QED
      BY <1>4, <3>1, <3>2 DEF Threads
  <2>5. QED
    BY <1>5, <1>6, <2>1, <2>2, <2>3, <2>4 DEF Configure, Threads
<1>7. CASE Sample
  <2>1. CASE ReadUsage \/ AdjustRam \/ AllocateRam \/ Sleep
    <3>1. UNCHANGED <<load, cmd, pc, cpuPc>>
      BY <2>1 DEF ReadUsage, AdjustRam, AllocateRam, Sleep, cpuVars, confVars, startVars
    <3>2. QED
      BY <1>4, <3>1
  <2>2. CASE AdjustCpu
    <3>1. UNCHANGED <<load, cmd, pc>> /\ spc = "cpu"
      BY <2>2 DEF AdjustCpu, cpuVars, confVars
    <3>2. cpuPc["sampler"] = "idle" /\ cpuPc'["configure"] = cpuPc["configure"]
      BY <1>2, <2>2, <3>1, StartCpuFrame DEF AdjustCpu, StartedBy, startVars, Threads
    <3>3. QED
      BY <1>4, <3>1, <3>2 DEF Threads
  <2>3. QED
    BY <1>5, <1>7, <2>1, <2>2 DEF Sample, Threads
<1>8. CASE TakeConfig \/ Snapshot \/ Sweep \/ (\E p \in Ports : Session(p)) \/ UNCHANGED vars
  <2>1. UNCHANGED <<load, cmd, cpuPc>> /\ (pc' = pc \/ pc = "idle")
    BY <1>8 DEF TakeConfig, Goto, Snapshot, Sweep, Session, vars, cpuVars, startVars, confVars
  <2>2. QED
    BY <1>4, <2>1
<1>9. QED
  BY <1>1, <1>6, <1>7, <1>8 DEF Next

\* With one process at most, the pod's total is what the recorded size gives.
LEMMA TotalOfOne ==
  ASSUME NEW l \in [Procs -> Commands], NEW base \in Nat
  PROVE  LET total == Smaller(Capacity, base + SumFunction([q \in Procs |-> Power(l[q])]))
         IN  /\ (\A q \in Procs : l[q] = None) => total = Smaller(Capacity, base)
             /\ \A p \in Procs : (\A q \in Procs \ {p} : l[q] = None) =>
                  total = Smaller(Capacity, base + Power(l[p]))
<1> DEFINE f == [q \in Procs |-> Power(l[q])]
<1>1. IsFiniteSet(Procs)
  <2>1. 1 \in Int /\ MaxProcs \in Int
    BY LoadAssumption
  <2>2. QED
    BY <2>1, FS_Interval DEF Procs
<1>2. /\ \A q \in Procs : f[q] \in Int /\ f[q] = Power(l[q])
      /\ \A q \in Procs : l[q] = None => f[q] = 0
  BY PowerNat DEF Power
<1>3. SumFunction(f) = SumFunctionOnSet(f, Procs)
  BY DEF SumFunction
<1> HIDE DEF f
<1>4. ASSUME \A q \in Procs : l[q] = None PROVE SumFunction(f) = 0
  BY <1>1, <1>2, <1>3, <1>4, SumZero
<1>5. ASSUME NEW p \in Procs, \A q \in Procs \ {p} : l[q] = None
      PROVE  SumFunction(f) = Power(l[p])
  <2>1. \A q \in Procs \ {p} : f[q] = 0
    BY <1>2, <1>5
  <2>2. SumFunctionOnSet(f, Procs) = f[p]
    BY <1>1, <1>2, <2>1, SumOne
  <2>3. QED
    BY <1>2, <1>3, <2>2
<1>6. base + 0 = base
  OBVIOUS
<1>7. QED
  BY <1>4, <1>5, <1>6 DEF f

\* What a settled pod uses, before the reading: nothing but the command of the
\* recorded size.
LEMMA TotalSettled ==
  ASSUME CpuInv, pc = "idle", spc = "sleep",
         \A p \in Alive : stress = {p} /\ load[p] = cmd
  PROVE  Total = Uses(payload.baseCpu, stressMc)
<1>1. Spawned /\ Requested /\ StartedBy /\ CpuTyped /\ payload.baseCpu \in Nat
  BY PayloadFacts DEF CpuInv, TInv, PoolInv, PoolTyped
<1>2. load \in [Procs -> Commands] /\ Unset \notin Commands
  BY <1>1, LoadAssumption DEF CpuTyped, Commands
<1>3. CpuCmd(0) = None /\ Power(None) = 0
  BY DEF CpuCmd, Power
<1>4. CASE Alive = {}
  <2>1. \A q \in Procs : load[q] = None
    BY <1>4 DEF Alive
  <2>2. \A t \in Threads : cpuPc[t] = "idle"
    BY <1>1 DEF StartedBy, Threads
  <2>3. cmd \in {None, Unset}
    BY <1>1, <1>4, <2>2 DEF Spawned
  <2>4. CpuCmd(stressMc) = None
    <3>1. stressMc \in Nat
      BY <1>1 DEF CpuTyped
    <3>2. CpuCmd(stressMc) # Unset
      BY <1>2, <3>1, CpuCmdType
    <3>3. QED
      BY <1>1, <1>3, <2>3, <3>2, LoadAssumption DEF Requested
  <2>5. Total = Smaller(Capacity, payload.baseCpu)
    BY <1>1, <1>2, <2>1, TotalOfOne DEF Total
  <2>6. QED
    BY <1>1, <1>3, <2>4, <2>5 DEF Uses
<1>5. CASE Alive # {}
  <2>1. PICK p \in Alive : TRUE
    BY <1>5
  <2>2. p \in Procs /\ load[p] = cmd /\ load[p] \in Commands
    BY <1>2, <2>1 DEF Alive
  <2>3. \A q \in Procs \ {p} : load[q] = None
    BY <2>1 DEF Alive
  <2>4. cmd = CpuCmd(stressMc)
    BY <1>1, <1>2, <2>2 DEF Requested
  <2>5. Total = Smaller(Capacity, payload.baseCpu + Power(load[p]))
    BY <1>1, <1>2, <2>2, <2>3, TotalOfOne DEF Total
  <2>6. QED
    BY <2>2, <2>4, <2>5 DEF Uses
<1>6. QED
  BY <1>4, <1>5

LEMMA SettledStep == CpuInv /\ [Next]_vars => Settled'
<1>1. SUFFICES ASSUME CpuInv, [Next]_vars, usage'.settled PROVE Settled'
  BY DEF Settled
<1>2. Settled /\ StartedBy /\ TInv /\ CpuTyped
  BY <1>1 DEF CpuInv, TInv
<1>3. /\ cpuPc \in [Threads -> CpuPCs] /\ job \in [Threads -> Jobs]
      /\ load \in [Procs -> Commands] /\ stressMc \in Nat
  BY <1>2 DEF CpuTyped
<1>4. ASSUME UNCHANGED <<usage, pc, spc, load, stress, stressMc, payload, applied, cpuPc, job>>
      PROVE  Settled'
  BY <1>2, <1>4 DEF Settled, OneRuns, Correcting, Alive
<1>5. CASE TakeConfig \/ Sleep
  BY <1>1, <1>2, <1>5 DEF TakeConfig, Sleep, NoUsage, TInv, SamplerTyped
<1>6. CASE Configure
  <2>1. usage' = usage /\ pc # "idle"
    <3>1. CASE CpuStep("configure")
      BY <1>2, <3>1, CpuStepFrame DEF StartedBy, Threads
    <3>2. CASE ~CpuStep("configure")
      BY <1>6, <3>2 DEF Configure, DropRegistry, KillProcs, ClearProcs, ResetLoads, ClearState,
                        StartServers, SeedCpu, Publish, Goto, sampVars
    <3>3. QED
      BY <3>1, <3>2
  <2>2. QED
    BY <1>1, <1>2, <2>1 DEF Settled
<1>7. CASE ReadUsage
  <2>1. /\ spc = "sleep" /\ spc' = "ram"
        /\ UNCHANGED <<pc, load, stress, stressMc, payload, applied, cpuPc>>
    BY <1>7 DEF ReadUsage, confVars, cpuVars, startVars
  <2>2. /\ pc = "idle" /\ levels = {Total} /\ usage'.cpu \in levels
        /\ \A p \in Alive : stress = {p} /\ load[p] = cmd
    BY <1>1, <1>7 DEF ReadUsage
  <2>3. usage'.cpu = Uses(payload.baseCpu, stressMc)
    BY <1>1, <2>1, <2>2, TotalSettled
  <2>4. cpuPc["sampler"] = "idle"
    BY <1>2, <2>1 DEF StartedBy
  <2>5. QED
    BY <2>1, <2>2, <2>3, <2>4 DEF Settled, OneRuns, Alive
<1>8. CASE AdjustRam \/ AllocateRam
  <2>1. /\ spc \in {"ram", "alloc"} /\ spc' \in {"alloc", "cpu"}
        /\ UNCHANGED <<usage, pc, load, stress, stressMc, payload, applied, cpuPc, job>>
    BY <1>8 DEF AdjustRam, AllocateRam, confVars, cpuVars, startVars
  <2>2. cpuPc["sampler"] = "idle"
    BY <1>2, <2>1 DEF StartedBy
  <2>3. QED
    BY <1>1, <1>2, <2>1, <2>2 DEF Settled, OneRuns, Alive
<1>9. CASE AdjustCpu
  <2> DEFINE error == applied.cpu - usage.cpu
             c == Corrected(stressMc, error)
  <2>1. /\ spc = "cpu" /\ spc' = "start"
        /\ UNCHANGED <<usage, pc, load, stress, stressMc, payload, applied>>
        /\ \/ UNCHANGED startVars
           \/ /\ applied # None /\ ~WithinTolerance(applied.cpu, error)
              /\ StartCpu("sampler", c)
    BY <1>9 DEF AdjustCpu, confVars, cpuVars
  <2>2. cpuPc["sampler"] = "idle"
    BY <1>2, <2>1 DEF StartedBy
  <2>3. CASE cpuPc'["sampler"] = "idle"
    BY <1>1, <1>2, <2>1, <2>3 DEF Settled
  <2>4. CASE cpuPc'["sampler"] # "idle"
    <3>1. /\ applied # None /\ ~WithinTolerance(applied.cpu, error)
          /\ cpuPc'["sampler"] = "kill" /\ job'["sampler"].mc = c
      <4>1. ~UNCHANGED startVars
        BY <2>2, <2>4 DEF startVars
      <4> HIDE DEF c, error
      <4>2. QED
        BY <1>2, <2>1, <4>1, StartCpuFrame DEF Threads
    <3>2. Correcting(stressMc)'
      BY <1>1, <1>2, <2>1, <3>1 DEF Settled, Correcting
    <3>3. QED
      BY <1>1, <1>2, <1>3, <2>1, <3>1, <3>2 DEF Settled, OneRuns, Alive
  <2>5. QED
    BY <2>3, <2>4
<1>10. CASE CpuStep("sampler")
  <2>1. UNCHANGED <<pc, payload, applied, spc, usage>> /\ cpuPc["sampler"] # "idle"
    BY <1>2, <1>10, CpuStepFrame DEF Threads
  <2>2. spc = "start" /\ "sampler" \in Threads
    BY <1>2, <2>1 DEF StartedBy, Threads
  <2>3. ASSUME job'["sampler"].mc = job["sampler"].mc, cpuPc["sampler"] \in {"kill", "set", "popen"}
        PROVE  applied # None /\ \E s \in Nat : Correcting(s)'
    BY <1>1, <1>2, <2>1, <2>3 DEF Settled, Correcting
  <2>4. CASE StopCpu("sampler")
    <3>1. /\ cpuPc["sampler"] = "kill" /\ cpuPc'["sampler"] = "set" /\ job' = job
          /\ load' = [p \in Procs |-> IF p \in stress THEN None ELSE load[p]]
      BY <1>3, <2>2, <2>4 DEF StopCpu, Step
    <3>2. Alive' = {}
      BY <1>1, <1>2, <2>1, <3>1 DEF Settled, OneRuns, Alive
    <3>3. QED
      BY <1>1, <1>2, <2>1, <2>2, <2>3, <3>1, <3>2 DEF Settled
  <2>5. CASE SetCommand("sampler")
    <3>1. /\ cpuPc["sampler"] = "set" /\ load' = load
          /\ \/ cpuPc'["sampler"] = "idle"
             \/ cpuPc'["sampler"] = "popen" /\ job' = job
      BY <1>3, <2>2, <2>5 DEF SetCommand, Step
    <3>2. Alive' = {}
      BY <1>1, <1>2, <2>1, <3>1 DEF Settled, Alive
    <3>3. QED
      BY <1>1, <1>2, <2>1, <2>2, <2>3, <3>1, <3>2 DEF Settled
  <2>6. CASE Popen("sampler") \/ AppendProcs("sampler") \/ AppendStress("sampler")
    <3>1. cpuPc'["sampler"] \in {"append", "track", "idle"}
      BY <1>3, <2>2, <2>6 DEF Popen, AppendProcs, AppendStress, Step
    <3>2. QED
      BY <1>1, <1>2, <2>1, <2>2, <3>1 DEF Settled
  <2>7. QED
    BY <1>10, <2>4, <2>5, <2>6 DEF CpuStep
<1>11. CASE Snapshot \/ Sweep \/ (\E p \in Ports : Session(p)) \/ UNCHANGED vars
  <2>1. UNCHANGED <<usage, pc, spc, load, stress, stressMc, payload, applied, cpuPc, job>>
    BY <1>11 DEF Snapshot, Sweep, Session, vars, confVars, cpuVars, startVars, sampVars
  <2>2. QED
    BY <1>4, <2>1
<1>12. QED
  BY <1>1, <1>5, <1>6, <1>7, <1>8, <1>9, <1>10, <1>11 DEF Next, Sample

LEMMA CpuInvStep == CpuInv /\ [Next]_vars => CpuInv'
<1>1. SUFFICES ASSUME CpuInv, [Next]_vars PROVE CpuInv'
  OBVIOUS
<1>2. TInv'
  BY <1>1, TypeStep DEF CpuInv
<1>3. StartedBy' /\ Requested' /\ Spawned' /\ Settled'
  BY <1>1, StartedByStep, RequestedStep, SpawnedStep, SettledStep
<1>4. QED
  BY <1>2, <1>3 DEF CpuInv

\* The respawn that answers the reading of a settled pod.
LEMMA RespawnCloser ==
  ASSUME ToleranceMc >= 4, CpuInv, Popen("sampler"), usage.settled, applied # None
  PROVE  LET before == applied.cpu - usage.cpu
             after  == applied.cpu - Total'
         IN  Larger(after, -after) <= Larger(before, -before)
<1>1. /\ TInv /\ Settled /\ Requested /\ "sampler" \in Threads
      /\ cpuPc["sampler"] = "popen" /\ payload' = payload
  BY DEF CpuInv, Popen, Step, Threads, confVars
<1>2. PICK s \in Nat : Correcting(s)
  BY <1>1 DEF Settled
<1>3. Alive = {} /\ job["sampler"].cmd = CpuCmd(job["sampler"].mc)
  BY <1>1 DEF Settled, Requested
<1>4. load \in [Procs -> Commands] /\ job["sampler"].cmd \in Commands
  BY <1>1 DEF TInv, CpuTyped, Jobs
<1>5. payload.baseCpu \in Nat /\ applied.cpu \in Nat
  BY <1>1, PayloadFacts DEF TInv, PoolInv, PoolTyped
<1>6. PICK p \in Procs : load' = [load EXCEPT ![p] = job["sampler"].cmd]
  BY <1>1, PopenProcess
<1>7. /\ load' \in [Procs -> Commands] /\ load'[p] = job["sampler"].cmd
      /\ \A q \in Procs \ {p} : load'[q] = None
  BY <1>3, <1>4, <1>6 DEF Alive
<1>8. Total' = Uses(payload.baseCpu, job["sampler"].mc)
  <2> DEFINE l == load'
  <2>1. Total' = Smaller(Capacity,
                         payload.baseCpu + SumFunction([q \in Procs |-> Power(l[q])]))
    BY <1>1 DEF Total
  <2>2. l \in [Procs -> Commands] /\ \A q \in Procs \ {p} : l[q] = None
    BY <1>7
  <2> HIDE DEF l
  <2>3. Total' = Smaller(Capacity, payload.baseCpu + Power(l[p]))
    BY <1>5, <2>1, <2>2, TotalOfOne
  <2>4. l[p] = CpuCmd(job["sampler"].mc)
    BY <1>3, <1>7 DEF l
  <2>5. QED
    BY <2>3, <2>4 DEF Uses
<1>9. QED
  BY <1>2, <1>5, <1>8, CloserAfter DEF Correcting

\* The loop does not swing up.  When a reading was of a settled pod, the respawn
\* it leads to never takes the pod further from its target, for any config, any
\* number of cores, any CPU limit and any load: the command runs whole percents of whole
\* workers, and three fifths of the error, rounded twice, still fall short of
\* twice the error.  It takes a tolerance of at least 4 millicores: the smallest
\* command gives 10, and an error of 4 would be answered by an error of 6.
THEOREM NeverFurther ==
  ASSUME ToleranceMc >= 4 PROVE Spec => CorrectionCloser
<1>1. CpuInv /\ [Next]_vars =>
        [Popen("sampler") /\ usage.settled /\ applied # None =>
           LET before == applied.cpu - usage.cpu
               after  == applied.cpu - Total'
           IN  Larger(after, -after) <= Larger(before, -before)]_vars
  BY RespawnCloser
<1>2. QED
  BY <1>1, InitCpu, CpuInvStep, PTL DEF Spec, CorrectionCloser
=============================================================================
