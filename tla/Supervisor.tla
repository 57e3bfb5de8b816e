------------------------------- MODULE Supervisor ------------------------------
(***************************************************************************)
(* How CortexForge starts, watches and stops the processes of its nodes:   *)
(* ProcessManager and spawn_child (forge-core/src/spawn.rs), the match     *)
(* table of HeartbeatMonitor::scan_node (heartbeat.rs) and the parts of    *)
(* Orchestrator::run and one_cycle (orchestrator.rs) that use them.        *)
(*                                                                         *)
(* Pids rise and are used once.  A process writes its pid file, then its   *)
(* first state.toml (NodeRuntime::initialize), then works.  The            *)
(* orchestrator is one thread; it waits in spawn_child and in the grace    *)
(* period while the processes go on.  "working" stands for every status    *)
(* but blocked, delivered and dead.  The stuck counter of scan_node only   *)
(* writes events and is left out.                                          *)
(***************************************************************************)
EXTENDS Integers, FiniteSets

CONSTANTS
  Nodes,        \* the declared nodes: directories with a node.toml
  Pids,         \* bound: the processes that are ever launched
  None,         \* no process, no node
  MaxTotal,     \* max_total_nodes of forge.toml
  Monitors,     \* the nodes that may go on to monitoring once delivered
  MaxCrashes,   \* bound: kills and failed cycles of the orchestrator
  MaxFailures   \* bound: crashed and hung processes, failed launches

ASSUME SupervisorAssumption ==
  /\ IsFiniteSet(Nodes) /\ Pids \subseteq Nat /\ IsFiniteSet(Pids)
  /\ None \notin Nodes /\ None \notin Pids
  /\ Monitors \subseteq Nodes
  /\ MaxTotal \in Nat /\ MaxCrashes \in Nat /\ MaxFailures \in Nat

VARIABLES
  \* processes
  life,       \* of each pid, see Lives
  dir,        \* the node a process works for
  ours,       \* children of the orchestrator that runs now
  \* files, one per node
  pidfile,    \* .forge/pid
  status,     \* .forge/state.toml, its current status; "none": no file yet
  late,       \* is its last_heartbeat older than heartbeat_timeout_sec? "no", as it is
              \* the latest and "silent", or as a save has put an "older" one there
  \* memory of the orchestrator
  tracked,    \* ProcessManager::children: the handle of each node
  monitored,  \* HeartbeatMonitor::records
  alive,      \* what populate returned
  phase,      \* where one_cycle is
  todo,       \* nodes its loop has not come to
  target,     \* the node its loop is at
  seen,       \* the answer of is_alive for it
  crashes, failures

processes == <<life, dir, ours>>
files     == <<pidfile, status, late>>
tables    == <<tracked, monitored>>
loop      == <<alive, phase, todo, target, seen>>
bounds    == <<crashes, failures>>
vars      == <<processes, files, tables, loop, bounds>>

\* "booting": launched; "booted": has written its pid file; "running": and
\* state.toml; "done": has written that it is dead; "hung": does nothing any
\* more; "zombie": has ended and was not waited for; "gone": and was.
Lives == {"unused", "booting", "booted", "running", "done", "hung", "zombie", "gone"}
Statuses == {"none", "working", "blocked", "delivered", "dead"}

Live(p) == life[p] \in {"booting", "booted", "running", "done", "hung"}

\* os_probe_pid: a zombie still answers kill(pid, 0).
Probe(p) == Live(p) \/ life[p] = "zombie"

\* A child that ends stays a zombie until its parent waits for it; one that
\* has lost its parent is waited for by init.
Ended(p) == IF p \in ours THEN "zombie" ELSE "gone"

Init ==
  /\ life = [p \in Pids |-> "unused"]
  /\ dir = [p \in Pids |-> None]
  /\ ours = {}
  /\ pidfile = [n \in Nodes |-> None]
  /\ status = [n \in Nodes |-> "none"]
  /\ late = [n \in Nodes |-> "no"]
  /\ tracked = [n \in Nodes |-> None]
  /\ monitored = {}
  /\ alive = {}
  /\ phase = "down"
  /\ todo = {}
  /\ target = None
  /\ seen = FALSE
  /\ crashes = 0
  /\ failures = 0

-------------------------------------------------------------------------------
\* The processes.

\* NodeRuntime::initialize, write_pid_file.
WritePid(p) ==
  /\ life[p] = "booting"
  /\ life' = [life EXCEPT ![p] = "booted"]
  /\ pidfile' = [pidfile EXCEPT ![dir[p]] = p]
  /\ UNCHANGED <<dir, ours, status, late, tables, loop, bounds>>

\* NodeRuntime::initialize, the first state.toml: idle, over whatever is there.
WriteState(p) ==
  /\ life[p] = "booted"
  /\ life' = [life EXCEPT ![p] = "running"]
  /\ status' = [status EXCEPT ![dir[p]] = "working"]
  /\ late' = [late EXCEPT ![dir[p]] = "no"]
  /\ UNCHANGED <<dir, ours, pidfile, tables, loop, bounds>>

\* A node does not notice that the orchestrator has marked it dead: it overwrites
\* the mark with the next status of its own.
Successors(n) ==
  CASE status[n] = "working"   -> {"blocked", "delivered"}
    [] status[n] = "blocked"   -> {"working"}
    [] status[n] = "delivered" -> {"working" : m \in Monitors \intersect {n}}
    [] status[n] = "dead"      -> {"working", "blocked", "delivered"}
    [] OTHER                   -> {}

\* The main thread saves its StateMachine, with the heartbeat of its start (of a
\* delivered node nobody looks at it).
Advance(p) ==
  /\ life[p] = "running"
  /\ \E s \in Successors(dir[p]), l \in {"no", "older"} :
       /\ s = "delivered" => l = "no"
       /\ status' = [status EXCEPT ![dir[p]] = s]
       /\ late' = [late EXCEPT ![dir[p]] = l]
  /\ UNCHANGED <<processes, pidfile, tables, loop, bounds>>

\* The heartbeat thread.
Beat(p) ==
  /\ life[p] = "running" /\ late[dir[p]] # "no"
  /\ late' = [late EXCEPT ![dir[p]] = "no"]
  /\ UNCHANGED <<processes, pidfile, status, tables, loop, bounds>>

\* die_verify_exhausted, die_wallclock_timeout.
Die(p) ==
  /\ life[p] = "running"
  /\ life' = [life EXCEPT ![p] = "done"]
  /\ status' = [status EXCEPT ![dir[p]] = "dead"]
  /\ UNCHANGED <<dir, ours, pidfile, late, tables, loop, bounds>>

\* A node that has delivered or died exits.
Exit(p) ==
  /\ life[p] = "done" \/ (life[p] = "running" /\ status[dir[p]] = "delivered")
  /\ life' = [life EXCEPT ![p] = Ended(p)]
  /\ UNCHANGED <<dir, ours, files, tables, loop, bounds>>

ProcessCrash(p) ==
  /\ Live(p) /\ failures < MaxFailures
  /\ life' = [life EXCEPT ![p] = Ended(p)]
  /\ failures' = failures + 1
  /\ UNCHANGED <<dir, ours, files, tables, loop, crashes>>

Hang(p) ==
  /\ life[p] = "running" /\ failures < MaxFailures
  /\ life' = [life EXCEPT ![p] = "hung"]
  /\ failures' = failures + 1
  /\ UNCHANGED <<dir, ours, files, tables, loop, crashes>>

\* heartbeat_timeout_sec passes without a beat.  A running process beats in time.
GrowLate(n) ==
  /\ status[n] # "none" /\ late[n] = "no"
  /\ \A p \in Pids : dir[p] = n => life[p] # "running"
  /\ late' = [late EXCEPT ![n] = "silent"]
  /\ UNCHANGED <<processes, pidfile, status, tables, loop, bounds>>

ProcessStep(p) ==
  WritePid(p) \/ WriteState(p) \/ Advance(p) \/ Beat(p) \/ Die(p) \/ Exit(p)
  \/ ProcessCrash(p) \/ Hang(p)

-------------------------------------------------------------------------------
\* The orchestrator.

\* Orchestrator::run up to its loop: rebuild_pids_table, then a heartbeat record
\* for every declared node.
Recovered(n) == IF pidfile[n] # None /\ Probe(pidfile[n]) THEN pidfile[n] ELSE None

Start ==
  /\ phase = "down"
  /\ tracked' = [n \in Nodes |-> Recovered(n)]
  /\ monitored' = Nodes
  /\ phase' = "reap"
  /\ UNCHANGED <<processes, files, alive, todo, target, seen, bounds>>

Handles == {n \in Nodes : tracked[n] # None}
HandleAlive(n) == n \in Handles /\ Live(tracked[n])

\* Trying to wait for a child that has ended reaps it.
Reaped(ns) ==
  [p \in Pids |-> IF life[p] = "zombie" /\ \E n \in ns : tracked[n] = p
                  THEN "gone" ELSE life[p]]

Dropped(ns) == [n \in Nodes |-> IF n \in ns THEN None ELSE tracked[n]]

\* Seeded fault: the heartbeat record of a reaped node stays.
ReapDeadOnly ==
  /\ phase = "reap"
  /\ LET dead == {n \in Handles : ~HandleAlive(n)} IN
       /\ life' = Reaped(dead)
       /\ tracked' = Dropped(dead)
  /\ phase' = "collect"
  /\ UNCHANGED <<dir, ours, files, monitored, alive, todo, target, seen, bounds>>

\* reap_dead; a reaped node loses its heartbeat record.
ReapDead ==
  /\ phase = "reap"
  /\ LET dead == {n \in Handles : ~HandleAlive(n)} IN
       /\ life' = Reaped(dead)
       /\ tracked' = Dropped(dead)
       /\ monitored' = monitored \ dead
  /\ phase' = "collect"
  /\ UNCHANGED <<dir, ours, files, alive, todo, target, seen, bounds>>

\* populate, as far as it tells who is alive.
Collect ==
  /\ phase = "collect"
  /\ alive' = {n \in Nodes : /\ pidfile[n] # None /\ Probe(pidfile[n])
                             /\ status[n] \notin {"none", "dead"}}
  /\ todo' = Nodes
  /\ phase' = "spawn"
  /\ UNCHANGED <<processes, files, tables, target, seen, bounds>>

Unused == {p \in Pids : life[p] = "unused"}

\* Seeded fault: the node to be launched is not counted.
HasRoomAtLimit == Cardinality(Handles) <= MaxTotal

\* pre_checks_pass; limits on depth and budget do not change with time.
HasRoom == Cardinality(Handles) + 1 <= MaxTotal

Wanted(n) == n \notin alive /\ status[n] \notin {"delivered", "dead"}

\* The auto-spawn loop comes to a node it does not launch.  The last case is the
\* bound on processes.
SpawnSkips(n) ==
  /\ phase = "spawn" /\ n \in todo
  /\ ~Wanted(n) \/ ~HasRoom \/ Unused = {}
  /\ todo' = todo \ {n}
  /\ UNCHANGED <<processes, files, tables, alive, phase, target, seen, bounds>>

\* spawn_child: launch and register.  An older handle of the node is dropped
\* without a wait.
Launch(n) ==
  /\ phase = "spawn" /\ n \in todo /\ Wanted(n) /\ HasRoom
  /\ \E p \in Unused :
       /\ \A q \in Unused : p <= q
       /\ life' = [life EXCEPT ![p] = "booting"]
       /\ dir' = [dir EXCEPT ![p] = n]
       /\ ours' = ours \union {p}
       /\ tracked' = [tracked EXCEPT ![n] = p]
  /\ phase' = "wait"
  /\ target' = n
  /\ UNCHANGED <<files, monitored, alive, todo, seen, bounds>>

\* The process cannot be started; the loop drops the error.
LaunchFails(n) ==
  /\ phase = "spawn" /\ n \in todo /\ Wanted(n) /\ HasRoom
  /\ failures < MaxFailures
  /\ failures' = failures + 1
  /\ todo' = todo \ {n}
  /\ UNCHANGED <<processes, files, tables, alive, phase, target, seen, crashes>>

\* Seeded fault: the wait goes on though the node is done with.
WaitFoundAgain ==
  /\ phase = "wait" /\ status[target] # "none"
  /\ target' = None
  /\ todo' = todo \ {target}
  /\ UNCHANGED <<processes, files, tables, alive, phase, seen, bounds>>

\* wait_for_state_file finds a state.toml, of whatever process.
WaitFound ==
  /\ phase = "wait" /\ status[target] # "none"
  /\ phase' = "spawn" /\ target' = None
  /\ todo' = todo \ {target}
  /\ UNCHANGED <<processes, files, tables, alive, seen, bounds>>

\* The last look before the timeout; 200 ms later nobody looks again.
WaitMissed ==
  /\ phase = "wait" /\ status[target] = "none"
  /\ phase' = "timeout"
  /\ UNCHANGED <<processes, files, tables, alive, todo, target, seen, bounds>>

Killed(n) ==
  IF HandleAlive(n) THEN [life EXCEPT ![tracked[n]] = Ended(tracked[n])] ELSE life

\* Seeded fault: the process that was too slow is only forgotten.
WaitTimeoutNoKill ==
  /\ phase = "timeout"
  /\ tracked' = Dropped({target})
  /\ phase' = "spawn" /\ target' = None
  /\ todo' = todo \ {target}
  /\ UNCHANGED <<processes, files, monitored, alive, seen, bounds>>

\* state_file_timeout: kill and remove; nobody waits for the killed process.
WaitTimeout ==
  /\ phase = "timeout"
  /\ life' = Killed(target)
  /\ tracked' = Dropped({target})
  /\ phase' = "spawn" /\ target' = None
  /\ todo' = todo \ {target}
  /\ UNCHANGED <<dir, ours, files, monitored, alive, seen, bounds>>

\* Passes 2 to 9, of which only the marks of Passes 3, 5 and 7b matter here: any
\* node of the snapshot may get one.
Resolve ==
  /\ phase = "spawn" /\ todo = {}
  /\ \E doomed \in SUBSET alive :
       status' = [n \in Nodes |-> IF n \in doomed THEN "dead" ELSE status[n]]
  /\ phase' = "scan" /\ alive' = {}
  /\ todo' = Nodes
  /\ UNCHANGED <<processes, pidfile, late, tables, target, seen, bounds>>

-------------------------------------------------------------------------------
\* The heartbeat scan.  Whether the process is alive and what state.toml says is
\* read one after the other.

ScanProbe(n) ==
  /\ phase = "scan" /\ n \in todo
  /\ life' = Reaped({n})
  /\ todo' = todo \ {n}
  /\ IF n \in monitored
     THEN phase' = "judge" /\ target' = n /\ seen' = HandleAlive(n)
     ELSE UNCHANGED <<phase, target, seen>>
  /\ UNCHANGED <<dir, ours, files, tables, alive, bounds>>

\* A missing state.toml counts as dead.
Read(n) == IF status[n] = "none" THEN "dead" ELSE status[n]

\* The match table of scan_node.  Its comment has a process without state.toml as
\* still booting and healthy; that arm is never reached, as Read says dead.
Judgement(n) ==
  CASE seen /\ Read(n) = "delivered"           -> "TerminateAfterGrace"
    [] seen /\ Read(n) = "dead"                -> "ForceKill"
    [] seen /\ late[n] # "no" /\ Read(n) \in {"working", "blocked"} -> "HeartbeatTimeout"
    [] ~seen /\ Read(n) = "blocked"            -> "DeferToDependencyCheck"
    [] ~seen /\ Read(n) \in {"delivered", "dead"} -> "Reap"
    [] ~seen /\ Read(n) = "working"            -> "Crashed"
    [] OTHER                                   -> "Healthy"

\* kill(2) of a process that is not our child and has ended in between fails.
KillFails(n) == n \in Handles /\ tracked[n] \notin ours /\ ~Live(tracked[n])

NextNode(next) == phase' = next /\ target' = None /\ seen' = FALSE

\* Healthy, and DeferToDependencyCheck: nothing to do.
LeaveAlone ==
  /\ phase = "judge"
  /\ Judgement(target) \in {"Healthy", "DeferToDependencyCheck"}
  /\ NextNode("scan")
  /\ UNCHANGED <<processes, files, tables, alive, todo, bounds>>

\* Seeded fault: a late heartbeat is only warned of.
HeartbeatWarning ==
  /\ phase = "judge" /\ Judgement(target) = "HeartbeatTimeout" /\ ~KillFails(target)
  /\ NextNode("scan")
  /\ UNCHANGED <<processes, files, tables, alive, todo, bounds>>

\* The process is killed and stays in the table until it is reaped.
HeartbeatTimeout ==
  /\ phase = "judge" /\ Judgement(target) = "HeartbeatTimeout" /\ ~KillFails(target)
  /\ life' = Killed(target)
  /\ NextNode("scan")
  /\ UNCHANGED <<dir, ours, files, tables, alive, todo, bounds>>

ForceKill ==
  /\ phase = "judge" /\ Judgement(target) = "ForceKill" /\ ~KillFails(target)
  /\ life' = Killed(target)
  /\ tracked' = Dropped({target})
  /\ NextNode("scan")
  /\ UNCHANGED <<dir, ours, files, monitored, alive, todo, bounds>>

\* An error of kill_child ends the cycle.
KillError ==
  /\ phase = "judge" /\ KillFails(target)
  /\ Judgement(target) \in {"HeartbeatTimeout", "ForceKill"}
  /\ NextNode("reap")
  /\ todo' = {}
  /\ UNCHANGED <<processes, files, tables, alive, bounds>>

\* TerminateAfterGrace, wait_timeout: the whole orchestrator waits for a child.
BeginGrace ==
  /\ phase = "judge" /\ Judgement(target) = "TerminateAfterGrace"
  /\ phase' = "grace"
  /\ UNCHANGED <<processes, files, tables, alive, todo, target, seen, bounds>>

\* The child has exited or thirty seconds are over.  For an orphan wait_timeout
\* does not wait at all.
EndGrace ==
  /\ phase = "grace"
  /\ life' = IF HandleAlive(target) THEN Killed(target) ELSE Reaped({target})
  /\ tracked' = Dropped({target})
  /\ NextNode("scan")
  /\ UNCHANGED <<dir, ours, files, monitored, alive, todo, bounds>>

\* Reap and Crashed: the node is not watched any more.  state.toml stays.
Forget ==
  /\ phase = "judge" /\ Judgement(target) \in {"Reap", "Crashed"}
  /\ tracked' = Dropped({target})
  /\ monitored' = monitored \ {target}
  /\ NextNode("scan")
  /\ UNCHANGED <<processes, files, alive, todo, bounds>>

EndCycle ==
  /\ phase = "scan" /\ todo = {}
  /\ phase' = "reap"
  /\ UNCHANGED <<processes, files, tables, alive, todo, target, seen, bounds>>

\* one_cycle returns an error, run() goes on with the next one.
CycleFails ==
  /\ crashes < MaxCrashes
  /\ phase \in {"collect", "scan", "judge"} \/ (phase = "spawn" /\ todo = {})
  /\ NextNode("reap") /\ alive' = {} /\ todo' = {}
  /\ crashes' = crashes + 1
  /\ UNCHANGED <<processes, files, tables, failures>>

\* The orchestrator is killed: it loses its memory, init waits for its zombies.
OrchestratorCrash ==
  /\ phase # "down" /\ crashes < MaxCrashes
  /\ life' = [p \in Pids |-> IF life[p] = "zombie" THEN "gone" ELSE life[p]]
  /\ ours' = {}
  /\ tracked' = Dropped(Nodes)
  /\ monitored' = {}
  /\ alive' = {} /\ todo' = {} /\ target' = None /\ seen' = FALSE
  /\ phase' = "down"
  /\ crashes' = crashes + 1
  /\ UNCHANGED <<dir, files, failures>>

Cycle ==
  \/ ReapDead \/ Collect
  \/ \E n \in Nodes : SpawnSkips(n) \/ Launch(n) \/ LaunchFails(n)
  \/ WaitFound \/ WaitMissed \/ WaitTimeout
  \/ Resolve
  \/ \E n \in Nodes : ScanProbe(n)
  \/ LeaveAlone \/ HeartbeatTimeout \/ ForceKill \/ KillError
  \/ BeginGrace \/ EndGrace \/ Forget \/ EndCycle

Next ==
  \/ Start \/ Cycle \/ CycleFails \/ OrchestratorCrash
  \/ \E p \in Pids : ProcessStep(p)
  \/ \E n \in Nodes : GrowLate(n)

\* run() loops for ever and no step of it waits for a node for ever; time passes.
Fairness == WF_vars(Cycle) /\ \A n \in Nodes : WF_vars(GrowLate(n))

Spec == Init /\ [][Next]_vars
FairSpec == Spec /\ Fairness

-------------------------------------------------------------------------------
\* Types.  Every handle and pid file names a process of that directory.
TypeOK ==
  /\ life \in [Pids -> Lives]
  /\ dir \in [Pids -> Nodes \union {None}]
  /\ \A p \in Pids : dir[p] = None <=> life[p] = "unused"
  /\ ours \in SUBSET Pids
  /\ pidfile \in [Nodes -> Pids \union {None}]
  /\ status \in [Nodes -> Statuses]
  /\ late \in [Nodes -> {"no", "silent", "older"}]
  /\ tracked \in [Nodes -> Pids \union {None}]
  /\ \A n \in Nodes : /\ tracked[n] # None => dir[tracked[n]] = n
                      /\ pidfile[n] # None => dir[pidfile[n]] = n
  /\ monitored \in SUBSET Nodes
  /\ alive \in SUBSET Nodes
  /\ phase \in {"down", "reap", "collect", "spawn", "wait", "timeout", "scan",
                "judge", "grace"}
  /\ todo \in SUBSET Nodes
  /\ target \in Nodes \union {None}
  /\ phase \in {"wait", "timeout", "judge", "grace"} => target \in Nodes
  /\ seen \in BOOLEAN
  /\ crashes \in Nat /\ failures \in Nat

\* What the following three hold for: a node that is watched and stays delivered
\* (or no process has failed), under an orchestrator that neither crashed nor failed.
Orderly(n) == crashes = 0 /\ n \in monitored /\ (failures = 0 \/ n \notin Monitors)

\* Every live process of such a node is the one in the process table: slow starts,
\* timeouts, crashed and hung processes, marks and kills leave no second one.
LiveIsTracked == \A p \in Pids : Live(p) /\ Orderly(dir[p]) => tracked[dir[p]] = p

\* Such nodes have no more processes than max_total_nodes: the check counts
\* handles, and the handles are all there is.
WithinLimit == Cardinality({p \in Pids : Live(p) /\ Orderly(dir[p])}) <= MaxTotal

\* A process of such a node that is about to be killed for a late heartbeat is
\* hung, not one that starts up beside the old state.toml of another; but for one
\* that has put back its own older heartbeat and not beaten again.
OnlyHungTimeOut ==
  phase = "judge" /\ Orderly(target) /\ HandleAlive(target) /\ late[target] # "older"
  /\ Judgement(target) = "HeartbeatTimeout" => life[tracked[target]] = "hung"

\* A hung process the tables and the pid file agree on, alone in its directory, is
\* killed at last, unless the orchestrator goes down.
HungAndKnown(p) ==
  /\ life[p] = "hung"
  /\ LET n == dir[p] IN
       /\ tracked[n] = p /\ pidfile[n] = p /\ n \in monitored
       /\ \A q \in Pids \ {p} : dir[q] = n => ~Live(q)

HungIsKilled == \A p \in Pids : HungAndKnown(p) ~> (life[p] # "hung" \/ phase = "down")

\* heartbeat.rs:156 has a live process without a state.toml as "likely still
\* booting" and healthy.
BootingIsHealthy ==
  phase = "judge" /\ HandleAlive(target) /\ status[target] = "none"
    => Judgement(target) = "Healthy"
================================================================================
