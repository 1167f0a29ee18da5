----------------------------- MODULE PeerClients -----------------------------
(***************************************************************************)
(* A worker pod's outbound links across reconfigurations: the debounced    *)
(* config watcher (watcher.py), worker.py:configure, the part of loads.py: *)
(* stop_current and start_network that is about peers, and the supervisor  *)
(* threads that keep one iperf3 client per peer alive.                     *)
(*                                                                         *)
(* A config is the set of peers it sends to, Zero (no load, not a server   *)
(* either) or Bad (missing, empty or refused by _validate); one that       *)
(* passes _validate holds numbers, as the controller's do.  kubelet puts a *)
(* new config beside the old one, swaps a link and removes the old one,    *)
(* and the watcher hears of each later.  Timers run out at any time: that  *)
(* the debounce window is longer than kubelet's update is not used.        *)
(*                                                                         *)
(* A supervisor owns at most one iperf3 client, which runs, hangs (alive,  *)
(* no output) or is dead; PEER_CHILDREN and PEER_SUPS are sets of          *)
(* supervisors.  The server pool, CPU and RAM that configure() also        *)
(* restarts are left out, but for whether the pool came up, and so is the  *)
(* throughput that supervisors read and publish.                           *)
(***************************************************************************)
EXTENDS Naturals, Functions

CONSTANTS
  Peers,        \* peer pods
  PeerSets,     \* the peer sets configs may have
  Zero, Bad,    \* the two other configs
  Reloaders,    \* threads that may run configure(): main and timer threads
  Main,         \* the thread that applies the config found at start-up
  Sups,         \* supervisor threads (a bound on those alive at once)
  None,
  MayOverlap,   \* may a reload read its file while another is in configure()?
  MaxUpdates, MaxHangs   \* bounds of the instance

Configs == PeerSets \cup {Zero, Bad}

ASSUME ConfigAssumption ==
  /\ PeerSets \subseteq SUBSET Peers
  /\ Zero \notin PeerSets /\ Bad \notin PeerSets /\ Zero # Bad
  /\ None \notin Configs
  /\ Main \in Reloaders
  /\ MayOverlap \in BOOLEAN
  /\ MaxUpdates \in Nat /\ MaxHangs \in Nat

VARIABLES
  disk,        \* the config.json that the ..data link leads to
  incoming,    \* the config in the new directory, None but before the swap
  stale,       \* is the old directory still to be removed?
  events,      \* file system events the watcher has still to be told of
  timer,       \* ConfigWatcher._timer, None or a timer's thread
  pc, payload, \* of each reloader: its place in configure(), what it applies
  toJoin,      \* and the supervisors it has still to join
  listed,      \* PEER_SUPS
  children,    \* PEER_CHILDREN: the supervisors whose client is registered
  sup,         \* the supervisors
  poolUp,      \* did the last start_network see its server pool bound?
  applied,     \* the config STATE reports as running
  updates, hangs

watching == <<disk, incoming, stale, events, timer, updates>>
reloads  == <<pc, payload, toJoin>>
links    == <<listed, children, sup, poolUp>>
vars     == <<watching, reloads, links, applied, hangs>>

\* Where a thread is before and after configure(): a timer's thread is armed,
\* then past the last look at its cancellation, then about to read the file.
Outside == {"idle", "armed", "fired", "load"}

PCs == Outside \cup {"signal", "kill", "join", "forget", "clear", "start", "publish"}

\* One of what is free, whichever: no thread differs from another.
AnyOf(S) == IF S = {} THEN {} ELSE {CHOOSE e \in S : TRUE}

SupOff == [st |-> "off", peer |-> None, stop |-> FALSE, child |-> "none"]

SupState ==
  [st : {"off", "check", "spawned", "reading", "ended", "backoff"},
   peer : Peers \cup {None}, stop : BOOLEAN,
   child : {"none", "running", "hung", "dead"}]

\* The ranges of the variables; a supervisor has a client exactly between
\* spawning and reaping it.
TypeOK ==
  /\ disk \in Configs /\ incoming \in Configs \cup {None} /\ stale \in BOOLEAN
  /\ events \in Nat /\ timer \in Reloaders \cup {None}
  /\ pc \in [Reloaders -> PCs]
  /\ payload \in [Reloaders -> Configs \cup {None}]
  /\ toJoin \in [Reloaders -> SUBSET Sups]
  /\ listed \in SUBSET Sups /\ children \in SUBSET Sups
  /\ sup \in [Sups -> SupState]
  /\ \A s \in Sups : sup[s].child = "none" <=> sup[s].st \in {"off", "check", "backoff"}
  /\ poolUp \in BOOLEAN
  /\ applied \in Configs \cup {None}
  /\ updates \in Nat /\ hangs \in Nat

\* The pod starts with its ConfigMap mounted; main, with the watcher already
\* started, applies what it finds.
Init ==
  /\ disk \in Configs
  /\ incoming = None /\ stale = FALSE /\ events = 0 /\ timer = None
  /\ pc = [r \in Reloaders |-> IF r = Main THEN "load" ELSE "idle"]
  /\ payload = [r \in Reloaders |-> None]
  /\ toJoin = [r \in Reloaders |-> {}]
  /\ listed = {} /\ children = {}
  /\ sup = [s \in Sups |-> SupOff]
  /\ poolUp = FALSE
  /\ applied = None
  /\ updates = 0 /\ hangs = 0

-----------------------------------------------------------------------------
(* kubelet: each step of an update raises an event in the watched directory *)

Raise == events' = events + 1

WriteNew(c) ==
  /\ updates < MaxUpdates
  /\ updates' = updates + 1
  /\ incoming = None /\ ~stale /\ c # disk
  /\ incoming' = c
  /\ Raise
  /\ UNCHANGED <<disk, stale, timer, reloads, links, applied, hangs>>

SwapLink ==
  /\ incoming # None
  /\ disk' = incoming /\ incoming' = None /\ stale' = TRUE
  /\ Raise
  /\ UNCHANGED <<timer, updates, reloads, links, applied, hangs>>

RemoveOld ==
  /\ stale
  /\ stale' = FALSE
  /\ Raise
  /\ UNCHANGED <<disk, incoming, timer, updates, reloads, links, applied, hangs>>

-----------------------------------------------------------------------------
(* watcher.py *)

Idle == \A r \in Reloaders : pc[r] \in Outside

\* Timer.cancel: it comes too late for a timer that has fired.
Cancelled == [r \in Reloaders |-> IF r = timer /\ pc[r] = "armed" THEN "idle" ELSE pc[r]]

\* Mutant: while a reload is under way, there is no need for another one.
MaybeReload_Busy ==
  IF \E r \in Reloaders : pc[r] # "idle" THEN UNCHANGED <<pc, timer>>
  ELSE \E r \in AnyOf(Reloaders \ {Main}) :
         pc' = [pc EXCEPT ![r] = "armed"] /\ timer' = r

\* _maybe_reload: a new timer, on a thread of its own.
MaybeReload ==
  \E r \in AnyOf({q \in Reloaders \ {Main} : Cancelled[q] = "idle"}) :
    /\ pc' = [Cancelled EXCEPT ![r] = "armed"]
    /\ timer' = r

OnAnyEvent ==
  /\ events > 0
  /\ events' = events - 1
  /\ MaybeReload
  /\ UNCHANGED <<disk, incoming, stale, updates, payload, toJoin, links, applied, hangs>>

Goto(r, from, to) ==
  /\ pc[r] = from
  /\ pc' = [pc EXCEPT ![r] = to]

Fire(r) ==
  /\ Goto(r, "armed", "fired")
  /\ UNCHANGED <<watching, payload, toJoin, links, applied, hangs>>

\* _do_reload takes the lock; the timer it forgets may be a younger one.
Unset(r) ==
  /\ Goto(r, "fired", "load")
  /\ timer' = None
  /\ UNCHANGED <<disk, incoming, stale, events, updates, payload, toJoin, links, applied, hangs>>

\* _load_and_apply up to its callback; nothing keeps it from running while an
\* earlier one still does.
Load(r) ==
  /\ MayOverlap \/ Idle
  /\ Goto(r, "load", IF disk = Bad THEN "idle" ELSE "signal")
  /\ payload' = [payload EXCEPT ![r] = IF disk = Bad THEN None ELSE disk]
  /\ UNCHANGED <<watching, toJoin, links, applied, hangs>>

-----------------------------------------------------------------------------
(* configure(): stop_current, then start_network, then STATE *)

SignalStop(r) ==
  /\ Goto(r, "signal", "kill")
  /\ sup' = [s \in Sups |-> IF s \in listed THEN [sup[s] EXCEPT !.stop = TRUE]
                                            ELSE sup[s]]
  /\ toJoin' = [toJoin EXCEPT ![r] = listed]
  /\ UNCHANGED <<watching, payload, listed, children, poolUp, applied, hangs>>

Killed(S) ==
  [s \in Sups |-> IF s \in S /\ sup[s].child \in {"running", "hung"}
                    THEN [sup[s] EXCEPT !.child = "dead"] ELSE sup[s]]

\* _kill_peer_children, the first time.
KillChildren(r) ==
  /\ Goto(r, "kill", "join")
  /\ sup' = Killed(children)
  /\ UNCHANGED <<watching, payload, toJoin, listed, children, poolUp, applied, hangs>>

\* join(timeout=6.0): only a supervisor blocked on a hung client takes longer.
Joined(s) == sup[s].st = "off" \/ (sup[s].st = "reading" /\ sup[s].child = "hung")

JoinSupervisor(r) ==
  /\ pc[r] = "join"
  /\ \E s \in toJoin[r] : Joined(s) /\ toJoin' = [toJoin EXCEPT ![r] = @ \ {s}]
  /\ UNCHANGED <<watching, pc, payload, links, applied, hangs>>

\* Mutant: no second pass.
KillAgain_Skipped(r) ==
  /\ toJoin[r] = {}
  /\ Goto(r, "join", "forget")
  /\ UNCHANGED <<watching, payload, toJoin, links, applied, hangs>>

\* _kill_peer_children again, for clients spawned after the first pass.
KillAgain(r) ==
  /\ toJoin[r] = {}
  /\ Goto(r, "join", "forget")
  /\ sup' = Killed(children)
  /\ UNCHANGED <<watching, payload, toJoin, listed, children, poolUp, applied, hangs>>

\* Mutant: PEER_SUPS is not cleared.
Forget_KeepSups(r) ==
  /\ Goto(r, "forget", "clear")
  /\ children' = {}
  /\ UNCHANGED <<watching, payload, toJoin, listed, sup, poolUp, applied, hangs>>

Forget(r) ==
  /\ Goto(r, "forget", "clear")
  /\ children' = {}
  /\ listed' = {}
  /\ UNCHANGED <<watching, payload, toJoin, sup, poolUp, applied, hangs>>

\* The rest of stop_current; a config without load stops here.
ClearState(r) ==
  /\ Goto(r, "clear", IF payload[r] = Zero THEN "idle" ELSE "start")
  /\ applied' = None
  /\ payload' = [payload EXCEPT ![r] = IF @ = Zero THEN None ELSE @]
  /\ UNCHANGED <<watching, toJoin, listed, children, sup, poolUp, hangs>>

\* A thread per peer, on threads that are free.
SupervisorsFor(peers) ==
  AnyOf(Injection(peers, {s \in Sups : sup[s].st = "off" /\ s \notin listed}))

\* start_network: without a bound server pool it returns before the clients.
StartNetwork(r) ==
  /\ Goto(r, "start", "publish")
  /\ \/ /\ poolUp' = TRUE
        /\ \E f \in SupervisorsFor(payload[r]) :
             /\ listed' = listed \cup Range(f)
             /\ sup' = [s \in Sups |->
                  IF s \in Range(f)
                    THEN [SupOff EXCEPT !.st = "check", !.peer = AntiFunction(f)[s]]
                    ELSE sup[s]]
     \/ poolUp' = FALSE /\ UNCHANGED <<listed, sup>>
  /\ UNCHANGED <<watching, payload, toJoin, children, applied, hangs>>

Publish(r) ==
  /\ Goto(r, "publish", "idle")
  /\ applied' = payload[r]
  /\ payload' = [payload EXCEPT ![r] = None]
  /\ UNCHANGED <<watching, toJoin, links, hangs>>

-----------------------------------------------------------------------------
(* _peer_client_supervisor *)

Exit(s) == sup' = [sup EXCEPT ![s] = SupOff]

\* `while not stop.is_set()`, then Popen.
Spawn(s) ==
  /\ sup[s].st = "check"
  /\ IF sup[s].stop
       THEN Exit(s)
       ELSE sup' = [sup EXCEPT ![s].st = "spawned", ![s].child = "running"]
  /\ UNCHANGED <<watching, reloads, listed, children, poolUp, applied, hangs>>

Register(s) ==
  /\ sup[s].st = "spawned"
  /\ sup' = [sup EXCEPT ![s].st = "reading"]
  /\ children' = children \cup {s}
  /\ UNCHANGED <<watching, reloads, listed, poolUp, applied, hangs>>

\* A line of the client's output, one per second, once the stop event is set.
ReadLine(s) ==
  /\ sup[s].st = "reading"
  /\ sup[s].child = "running"
  /\ sup[s].stop
  /\ sup' = [sup EXCEPT ![s].st = "ended"]
  /\ UNCHANGED <<watching, reloads, listed, children, poolUp, applied, hangs>>

EndOfOutput(s) ==
  /\ sup[s].st = "reading"
  /\ sup[s].child = "dead"
  /\ sup' = [sup EXCEPT ![s].st = "ended"]
  /\ UNCHANGED <<watching, reloads, listed, children, poolUp, applied, hangs>>

\* Mutant: the client is left to itself.
Reap_LeaveRunning(s) ==
  /\ sup[s].st = "ended"
  /\ children' = children \ {s}
  /\ sup' = [sup EXCEPT ![s].st = "backoff"]
  /\ UNCHANGED <<watching, reloads, listed, poolUp, applied, hangs>>

\* Terminate the client if it is alive, unregister it.
Reap(s) ==
  /\ sup[s].st = "ended"
  /\ children' = children \ {s}
  /\ sup' = [sup EXCEPT ![s].st = "backoff", ![s].child = "none"]
  /\ UNCHANGED <<watching, reloads, listed, poolUp, applied, hangs>>

\* Mutant: the supervisor gives up when its client ends.
Retry_Never(s) ==
  /\ sup[s].st = "backoff"
  /\ Exit(s)
  /\ UNCHANGED <<watching, reloads, listed, children, poolUp, applied, hangs>>

\* Stopped, or 2 s later another try.
Retry(s) ==
  /\ sup[s].st = "backoff"
  /\ IF sup[s].stop THEN Exit(s) ELSE sup' = [sup EXCEPT ![s].st = "check"]
  /\ UNCHANGED <<watching, reloads, listed, children, poolUp, applied, hangs>>

-----------------------------------------------------------------------------
(* iperf3 clients: the peer goes away, the network stalls and comes back *)

ClientExits(s) ==
  /\ sup[s].child \in {"running", "hung"}
  /\ sup' = [sup EXCEPT ![s].child = "dead"]
  /\ UNCHANGED <<watching, reloads, listed, children, poolUp, applied, hangs>>

ClientHangs(s) ==
  /\ hangs < MaxHangs
  /\ hangs' = hangs + 1
  /\ sup[s].child = "running"
  /\ sup' = [sup EXCEPT ![s].child = "hung"]
  /\ UNCHANGED <<watching, reloads, listed, children, poolUp, applied>>

ClientRecovers(s) ==
  /\ sup[s].child = "hung"
  /\ sup' = [sup EXCEPT ![s].child = "running"]
  /\ UNCHANGED <<watching, reloads, listed, children, poolUp, applied, hangs>>

-----------------------------------------------------------------------------
Configure(r) ==
  \/ SignalStop(r) \/ KillChildren(r) \/ JoinSupervisor(r) \/ KillAgain(r)
  \/ Forget(r) \/ ClearState(r) \/ StartNetwork(r) \/ Publish(r)

Supervise(s) ==
  Spawn(s) \/ Register(s) \/ ReadLine(s) \/ EndOfOutput(s) \/ Reap(s) \/ Retry(s)

Reload(r) == Fire(r) \/ Unset(r) \/ Load(r)

Next ==
  \/ \E c \in Configs : WriteNew(c)
  \/ SwapLink \/ RemoveOld \/ OnAnyEvent
  \/ \E r \in Reloaders : Reload(r) \/ Configure(r)
  \/ \E s \in Sups : \/ Supervise(s)
                     \/ ClientExits(s) \/ ClientHangs(s) \/ ClientRecovers(s)

Spec == Init /\ [][Next]_vars

\* kubelet ends an update it began, the observer delivers its events, timers
\* run out, and threads that can run do.
Fairness ==
  /\ WF_vars(SwapLink \/ RemoveOld)
  /\ WF_vars(OnAnyEvent)
  /\ \A r \in Reloaders : WF_vars(Reload(r)) /\ WF_vars(Configure(r))
  /\ \A s \in Sups : WF_vars(Supervise(s))

FairSpec == Spec /\ Fairness

-----------------------------------------------------------------------------
Sending(s) == sup[s].child \in {"running", "hung"}

\* "No client survives to double up with the next configure's client": a peer
\* never has two live clients of this pod, whatever hangs and whenever a
\* client was spawned, so it never receives twice its share.
OneClientPerPeer ==
  \A s, t \in Sups :
    Sending(s) /\ Sending(t) /\ sup[s].peer = sup[t].peer => s = t

\* While no configure() is at work, the supervisors listed are alive, not told
\* to stop, and are those of the config that STATE reports.
SupervisorsMatch ==
  Idle =>
    /\ \A s \in listed : sup[s].st # "off" /\ ~sup[s].stop
    /\ {sup[s].peer : s \in listed} =
         IF applied = None \/ ~poolUp THEN {} ELSE applied

\* "Trailing-edge debounce": a config that stays on disk ends up applied,
\* wherever in the events of its update a timer runs out, is cancelled too late
\* or is forgotten for another one, and a reload reads the file: one that read
\* what was there before the swap is followed by one that reads it after.
LatestApplied ==
  \A c \in PeerSets : <>[](disk = c) => <>[](applied = c)

\* A link comes back: as long as the config stays, its server pool came up and
\* no client hangs, each peer gets a running client again and again, however
\* often clients exit.
LinkComesBack ==
  \A c \in PeerSets : \A p \in c :
    <>[](applied = c /\ poolUp /\ Idle /\ \A s \in Sups : sup[s].child # "hung")
      => []<>(\E s \in listed : sup[s].peer = p /\ sup[s].child = "running")

=============================================================================
