---------------------------- MODULE SupervisorProofs ---------------------------
(***************************************************************************)
(* Proofs about Supervisor, for every set of nodes and of pids, every      *)
(* limit and number of failures: its types, LiveIsTracked, WithinLimit and *)
(* OnlyHungTimeOut.                                                        *)
(*                                                                         *)
(* LiveIsTracked is not inductive.  Two processes of a node come about     *)
(* when it is launched while one lives or while an old state.toml lies     *)
(* there, which ends the wait for the new one at once.  The parts below    *)
(* say, phase by phase, why neither happens to a node that is watched.     *)
(***************************************************************************)
EXTENDS Supervisor, FiniteSetTheorems, TLAPS

Boots(p) == life[p] \in {"booting", "booted"}
HasLive(n) == \E p \in Pids : dir[p] = n /\ Live(p)

\* What is said below of an orchestrator that neither crashed nor failed.

\* Whatever was launched is its child.
Children == crashes = 0 => \A p \in Pids : life[p] # "unused" => p \in ours

\* Before its start there is nothing.
Clean ==
  crashes = 0 /\ phase = "down" =>
    /\ \A p \in Pids : life[p] = "unused"
    /\ \A n \in Nodes : pidfile[n] = None /\ status[n] = "none"

Room == crashes = 0 => Cardinality(Handles) <= MaxTotal

\* A running process beats in time.
Beating == \A p \in Pids : life[p] = "running" => late[dir[p]] # "silent"

\* The scan does not come back to a node.
Advanced == phase \in {"judge", "grace"} => target \notin todo

\* A live process of an orderly node is in the table; it starts up in the wait for it
\* and with no old files about, and a mark of death is acted on in the same cycle.
AboutToKill(n) ==
  (phase \in {"scan", "judge", "grace"} /\ n \in todo) \/ (phase = "judge" /\ target = n)

Known(p) ==
  LET n == dir[p] IN
    /\ tracked[n] = p
    /\ Boots(p) => phase \in {"wait", "timeout"} /\ target = n /\ status[n] = "none"
    /\ ~Boots(p) => status[n] # "none"
    /\ life[p] # "booting" => pidfile[n] = p
    /\ life[p] = "done" => status[n] = "dead"
    /\ life[p] = "running" /\ status[n] = "dead" => AboutToKill(n)

AllKnown == \A p \in Pids : Live(p) /\ Orderly(dir[p]) => Known(p)

\* What populate did not find alive, and the auto-spawn loop is still to come to, has
\* no process that could still change its state.toml, and is launched only without one.
Passed(n) ==
  /\ phase \in {"spawn", "wait", "timeout"}
  /\ n \in todo \ alive
  /\ phase = "spawn" \/ target # n

PassedOver ==
  \A n \in Nodes : Orderly(n) /\ Passed(n) =>
    /\ status[n] \in {"none", "dead", "delivered"}
    /\ \A p \in Pids : dir[p] = n /\ Live(p) => life[p] \in {"done", "hung"}

\* An orphaned state.toml that would be taken for a new one: its process is a zombie,
\* which populate takes to be alive, or still in the table, so that the scan or
\* reap_dead takes the node off the watched ones.
Stale ==
  \A n \in Nodes : Orderly(n) /\ ~HasLive(n) /\ status[n] \in {"working", "blocked"} =>
    \/ pidfile[n] # None /\ life[pidfile[n]] = "zombie"
    \/ phase \in {"scan", "judge", "grace", "reap"} /\ tracked[n] # None

\* In the grace period only a monitor goes on to work, and is still there to be killed.
Grace ==
  phase = "grace" /\ Orderly(target) =>
    \/ status[target] \in {"delivered", "dead"}
    \/ target \in Monitors /\ HasLive(target)

\* The answer of is_alive is not overtaken.
Judged == phase = "judge" /\ Orderly(target) /\ ~seen => ~HasLive(target)

IInv ==
  /\ Children /\ Clean /\ Room /\ Beating /\ Advanced
  /\ AllKnown /\ PassedOver /\ Stale /\ Grace /\ Judged

-------------------------------------------------------------------------------
\* What the scan has found when it acts, and that kill(2) of a child does not fail.

LEMMA Verdict ==
  ASSUME TypeOK, NEW n \in Nodes
  PROVE  /\ Judgement(n) = "TerminateAfterGrace" => seen /\ status[n] = "delivered"
         /\ Judgement(n) = "ForceKill" => seen /\ status[n] \in {"none", "dead"}
         /\ Judgement(n) = "HeartbeatTimeout" =>
              seen /\ status[n] \in {"working", "blocked"} /\ late[n] # "no"
         /\ Judgement(n) \in {"Healthy", "DeferToDependencyCheck"} =>
              status[n] \notin {"none", "dead"}
  BY DEF Judgement, Read, TypeOK, Statuses

LEMMA KillWorks ==
  ASSUME TypeOK, Children, crashes = 0, NEW n \in Nodes
  PROVE  ~KillFails(n)
<1>1. tracked[n] # None => tracked[n] \in Pids /\ dir[tracked[n]] = n
  BY DEF TypeOK
<1>2. tracked[n] # None => dir[tracked[n]] # None
  BY <1>1, SupervisorAssumption
<1>3. \A p \in Pids : dir[p] = None <=> life[p] = "unused"
  BY DEF TypeOK
<1>4. tracked[n] # None => life[tracked[n]] # "unused"
  BY <1>1, <1>2, <1>3
<1> QED
  BY <1>1, <1>4 DEF Children, KillFails, Handles

-------------------------------------------------------------------------------
\* Types.

LEMMA TypeNext ==
  ASSUME TypeOK, [Next]_vars
  PROVE  TypeOK'
<1> USE DEF TypeOK, processes, files, tables, loop, bounds, Lives, Statuses, Live
<1>1. ASSUME NEW q \in Pids, WritePid(q) \/ Beat(q)
      PROVE  TypeOK'
  BY <1>1 DEF WritePid, Beat
<1>2. ASSUME NEW q \in Pids, Hang(q)
      PROVE  TypeOK'
  BY <1>2 DEF Hang
<1>3. ASSUME NEW q \in Pids, WriteState(q)
      PROVE  TypeOK'
  BY <1>3 DEF WriteState
<1>4. ASSUME NEW q \in Pids, Die(q)
      PROVE  TypeOK'
  BY <1>4 DEF Die
<1>5. ASSUME NEW q \in Pids, Advance(q)
      PROVE  TypeOK'
  BY <1>5 DEF Advance, Successors
<1>6. ASSUME NEW q \in Pids, Exit(q)
      PROVE  TypeOK'
  BY <1>6 DEF Exit, Ended
<1>7. ASSUME NEW q \in Pids, ProcessCrash(q)
      PROVE  TypeOK'
  BY <1>7 DEF ProcessCrash, Ended
<1>8. CASE Start
  BY <1>8, SupervisorAssumption DEF Start, Recovered, Probe
<1>9. CASE ReapDead
  BY <1>9, SupervisorAssumption DEF ReapDead, Reaped, Dropped, Handles, HandleAlive
<1>10. CASE Collect
  BY <1>10 DEF Collect, Probe
<1>11. ASSUME NEW m \in Nodes, SpawnSkips(m)
      PROVE  TypeOK'
  BY <1>11 DEF SpawnSkips
<1>12. ASSUME NEW m \in Nodes, LaunchFails(m)
      PROVE  TypeOK'
  BY <1>12 DEF LaunchFails
<1>13. ASSUME NEW m \in Nodes, Launch(m)
      PROVE  TypeOK'
  BY <1>13, SupervisorAssumption DEF Launch, Unused, Wanted
<1>14. CASE WaitFound \/ WaitMissed
  BY <1>14 DEF WaitFound, WaitMissed
<1>15. CASE WaitTimeout
  BY <1>15, SupervisorAssumption DEF WaitTimeout, Killed, Ended, HandleAlive, Handles,
       Dropped
<1>16. CASE Resolve
  BY <1>16 DEF Resolve
<1>17. ASSUME NEW m \in Nodes, ScanProbe(m)
      PROVE  TypeOK'
  BY <1>17, SupervisorAssumption DEF ScanProbe, Reaped, Handles, HandleAlive
<1>18. CASE LeaveAlone \/ BeginGrace \/ EndCycle
  BY <1>18 DEF LeaveAlone, NextNode, BeginGrace, EndCycle
<1>19. CASE KillError
  BY <1>19 DEF KillError, NextNode
<1>20. CASE HeartbeatTimeout
  BY <1>20, SupervisorAssumption DEF HeartbeatTimeout, NextNode, Killed, Ended,
       HandleAlive, Handles
<1>21. CASE ForceKill
  BY <1>21, SupervisorAssumption DEF ForceKill, NextNode, Dropped, Killed, Ended,
       HandleAlive, Handles
<1>22. CASE EndGrace
  BY <1>22, SupervisorAssumption DEF EndGrace, Killed, Ended, HandleAlive, Handles,
       Dropped, NextNode, Reaped
<1>23. CASE Forget
  BY <1>23 DEF Forget, Dropped, NextNode
<1>24. CASE CycleFails
  <2>1. crashes' \in Nat
    BY <1>24 DEF CycleFails
  <2> QED
    BY <1>24, <2>1 DEF CycleFails, NextNode
<1>25. CASE OrchestratorCrash
  <2>1. crashes' \in Nat
    BY <1>25 DEF OrchestratorCrash
  <2>2. life' \in [Pids -> Lives] /\ \A p \in Pids : dir'[p] = None <=> life'[p] = "unused"
    BY <1>25 DEF OrchestratorCrash
  <2>3. tracked' = [n \in Nodes |-> None]
    BY <1>25 DEF Dropped, OrchestratorCrash
  <2> QED
    BY <1>25, <2>1, <2>2, <2>3 DEF OrchestratorCrash
<1>26. ASSUME NEW m \in Nodes, GrowLate(m)
      PROVE  TypeOK'
  BY <1>26 DEF GrowLate
<1>27. CASE UNCHANGED vars
  BY <1>27 DEF vars
<1> QED
  BY <1>1, <1>2, <1>3, <1>4, <1>5, <1>6, <1>7, <1>8, <1>9, <1>10, <1>11, <1>12, <1>13,
       <1>14, <1>15, <1>16, <1>17, <1>18, <1>19, <1>20, <1>21, <1>22, <1>23, <1>24, <1>25,
       <1>26, <1>27
     DEF Next, Cycle, ProcessStep

\* Every handle of the process table and every pid file names a process that was
\* launched for that directory, also after restarts of the orchestrator.
THEOREM SupervisorTypeCorrect == Spec => []TypeOK
<1>1. Init => TypeOK
  <2> SUFFICES ASSUME Init PROVE TypeOK
    OBVIOUS
  <2>1. /\ life \in [Pids -> Lives] /\ dir \in [Pids -> Nodes \union {None}]
        /\ pidfile \in [Nodes -> Pids \union {None}]
        /\ tracked \in [Nodes -> Pids \union {None}]
        /\ status \in [Nodes -> Statuses] /\ late \in [Nodes -> {"no", "silent", "older"}]
    BY DEF Init, Lives, Statuses
  <2> QED
    BY <2>1 DEF Init, TypeOK
<1>2. TypeOK /\ [Next]_vars => TypeOK'
  BY TypeNext
<1> QED
  BY <1>1, <1>2, PTL DEF Spec

-------------------------------------------------------------------------------
\* The parts of the invariant, one lemma each.

\* A process is launched as a child, and stays one until the orchestrator goes down.
LEMMA ChildrenNext ==
  ASSUME TypeOK, Children, [Next]_vars
  PROVE  Children'
<1> USE DEF TypeOK, processes, files, tables, loop, bounds, Children, Live
<1>1. ASSUME NEW q \in Pids, WritePid(q) \/ WriteState(q) \/ Beat(q) \/ Die(q) \/ Hang(q)
      PROVE  Children'
  BY <1>1 DEF WritePid, WriteState, Beat, Die, Hang
<1>2. ASSUME NEW q \in Pids, Advance(q) \/ Exit(q) \/ ProcessCrash(q)
      PROVE  Children'
  BY <1>2 DEF Advance, Successors, Exit, Ended, ProcessCrash
<1>3. CASE Start
  BY <1>3 DEF Start, Recovered, Probe
<1>4. CASE ReapDead
  BY <1>4 DEF ReapDead, Reaped, Dropped, Handles, HandleAlive
<1>5. CASE Collect
  BY <1>5 DEF Collect, Probe
<1>6. ASSUME NEW m \in Nodes, SpawnSkips(m) \/ LaunchFails(m)
      PROVE  Children'
  BY <1>6 DEF SpawnSkips, LaunchFails
<1>7. ASSUME NEW m \in Nodes, Launch(m)
      PROVE  Children'
  BY <1>7 DEF Launch, Unused, Wanted
<1>8. CASE WaitFound \/ WaitMissed
  BY <1>8 DEF WaitFound, WaitMissed
<1>9. CASE WaitTimeout
  BY <1>9 DEF WaitTimeout, Killed, Ended, HandleAlive, Handles, Dropped
<1>10. CASE Resolve
  BY <1>10 DEF Resolve
<1>11. ASSUME NEW m \in Nodes, ScanProbe(m)
      PROVE  Children'
  BY <1>11 DEF ScanProbe, Reaped, Handles, HandleAlive
<1>12. CASE LeaveAlone \/ BeginGrace \/ EndCycle \/ KillError
  BY <1>12 DEF LeaveAlone, NextNode, BeginGrace, EndCycle, KillError
<1>13. CASE HeartbeatTimeout \/ ForceKill
  BY <1>13 DEF HeartbeatTimeout, NextNode, Killed, Ended, HandleAlive, Handles,
       ForceKill, Dropped
<1>14. CASE EndGrace \/ Forget
  BY <1>14 DEF EndGrace, Killed, Ended, HandleAlive, Handles, Dropped, NextNode,
       Reaped, Forget
<1>15. CASE CycleFails
  BY <1>15 DEF CycleFails, NextNode
<1>16. CASE OrchestratorCrash
  BY <1>16 DEF OrchestratorCrash, Dropped
<1>17. ASSUME NEW m \in Nodes, GrowLate(m)
      PROVE  Children'
  BY <1>17 DEF GrowLate
<1>18. CASE UNCHANGED vars
  BY <1>18 DEF vars
<1> QED
  BY <1>1, <1>2, <1>3, <1>4, <1>5, <1>6, <1>7, <1>8, <1>9, <1>10, <1>11, <1>12, <1>13,
       <1>14, <1>15, <1>16, <1>17, <1>18
     DEF Next, Cycle, ProcessStep

\* Nothing happens before the start, and nothing leads back to it without a crash.
LEMMA CleanNext ==
  ASSUME TypeOK, Clean, [Next]_vars
  PROVE  Clean'
<1> USE DEF TypeOK, processes, files, tables, loop, bounds, Clean, Live
<1>1. ASSUME NEW q \in Pids, WritePid(q) \/ WriteState(q) \/ Beat(q) \/ Die(q) \/ Hang(q)
      PROVE  Clean'
  BY <1>1 DEF WritePid, WriteState, Beat, Die, Hang
<1>2. ASSUME NEW q \in Pids, Advance(q) \/ Exit(q) \/ ProcessCrash(q)
      PROVE  Clean'
  BY <1>2 DEF Advance, Successors, Exit, Ended, ProcessCrash
<1>3. CASE Start
  BY <1>3 DEF Start, Recovered, Probe
<1>4. CASE ReapDead
  BY <1>4 DEF ReapDead, Reaped, Dropped, Handles, HandleAlive
<1>5. CASE Collect
  BY <1>5 DEF Collect, Probe
<1>6. ASSUME NEW m \in Nodes, SpawnSkips(m) \/ LaunchFails(m)
      PROVE  Clean'
  BY <1>6 DEF SpawnSkips, LaunchFails
<1>7. ASSUME NEW m \in Nodes, Launch(m)
      PROVE  Clean'
  BY <1>7 DEF Launch, Unused, Wanted
<1>8. CASE WaitFound \/ WaitMissed
  BY <1>8 DEF WaitFound, WaitMissed
<1>9. CASE WaitTimeout
  BY <1>9 DEF WaitTimeout, Killed, Ended, HandleAlive, Handles, Dropped
<1>10. CASE Resolve
  BY <1>10 DEF Resolve
<1>11. ASSUME NEW m \in Nodes, ScanProbe(m)
      PROVE  Clean'
  BY <1>11 DEF ScanProbe, Reaped, Handles, HandleAlive
<1>12. CASE LeaveAlone \/ BeginGrace \/ EndCycle \/ KillError
  BY <1>12 DEF LeaveAlone, NextNode, BeginGrace, EndCycle, KillError
<1>13. CASE HeartbeatTimeout \/ ForceKill
  BY <1>13 DEF HeartbeatTimeout, NextNode, Killed, Ended, HandleAlive, Handles,
       ForceKill, Dropped
<1>14. CASE EndGrace \/ Forget
  BY <1>14 DEF EndGrace, Killed, Ended, HandleAlive, Handles, Dropped, NextNode,
       Reaped, Forget
<1>15. CASE CycleFails
  BY <1>15 DEF CycleFails, NextNode
<1>16. CASE OrchestratorCrash
  BY <1>16 DEF OrchestratorCrash, Dropped
<1>17. ASSUME NEW m \in Nodes, GrowLate(m)
      PROVE  Clean'
  BY <1>17 DEF GrowLate
<1>18. CASE UNCHANGED vars
  BY <1>18 DEF vars
<1> QED
  BY <1>1, <1>2, <1>3, <1>4, <1>5, <1>6, <1>7, <1>8, <1>9, <1>10, <1>11, <1>12, <1>13,
       <1>14, <1>15, <1>16, <1>17, <1>18
     DEF Next, Cycle, ProcessStep

\* The limit counts handles; each step but a launch only drops some.
LEMMA FiniteHandles == IsFiniteSet(Handles) /\ Cardinality(Handles) \in Nat
<1>1. Handles \in SUBSET Nodes
  BY DEF Handles
<1> QED
  BY <1>1, SupervisorAssumption, FS_Subset, FS_CardinalityType

LEMMA RoomNext ==
  ASSUME TypeOK, Clean, Room, [Next]_vars
  PROVE  Room'
<1> USE DEF Room, processes, files, tables, loop, bounds
<1>1. CASE Start
  <2>1. crashes = 0 => Handles' = {}
    BY <1>1 DEF Start, Clean, Recovered, Handles
  <2> QED
    BY <1>1, <2>1, FS_EmptySet, SupervisorAssumption DEF Start
<1>2. ASSUME NEW m \in Nodes, Launch(m)
      PROVE  Room'
  <2>1. Cardinality(Handles) + 1 <= MaxTotal
    BY <1>2 DEF Launch, HasRoom
  <2>2. Handles' \in SUBSET (Handles \union {m})
    BY <1>2 DEF Launch, Handles, TypeOK
  <2>3. /\ IsFiniteSet(Handles \union {m})
        /\ Cardinality(Handles \union {m}) =
             IF m \in Handles THEN Cardinality(Handles) ELSE Cardinality(Handles) + 1
    BY FiniteHandles, FS_AddElement
  <2>4. Cardinality(Handles') <= Cardinality(Handles \union {m})
    BY <2>2, <2>3, FS_Subset
  <2>5. Cardinality(Handles') \in Nat /\ Cardinality(Handles \union {m}) \in Nat
    BY <2>2, <2>3, FS_Subset, FS_CardinalityType
  <2> QED
    BY <2>1, <2>3, <2>4, <2>5, FiniteHandles, SupervisorAssumption
<1>3. ASSUME Handles' \in SUBSET Handles, crashes' = 0 => crashes = 0
      PROVE  Room'
  <2>1. Cardinality(Handles') <= Cardinality(Handles) /\ Cardinality(Handles') \in Nat
    BY <1>3, FiniteHandles, FS_Subset, FS_CardinalityType
  <2> QED
    BY <1>3, <2>1, FiniteHandles, SupervisorAssumption
<1>4. ASSUME NEW q \in Pids, ProcessStep(q)
      PROVE  Handles' = Handles /\ crashes' = crashes
  BY <1>4 DEF ProcessStep, WritePid, WriteState, Advance, Beat, Die, Exit, ProcessCrash,
       Hang, Handles
<1>5. CASE ReapDead \/ WaitTimeout \/ ForceKill \/ EndGrace \/ Forget
  <2>1. Handles' \in SUBSET Handles /\ crashes' = crashes
    BY <1>5 DEF ReapDead, WaitTimeout, ForceKill, EndGrace, Forget, Dropped, Handles
  <2> QED
    BY <1>3, <2>1
<1>6. CASE CycleFails \/ OrchestratorCrash
  <2>1. crashes' = crashes + 1
    BY <1>6 DEF CycleFails, OrchestratorCrash
  <2> QED
    BY <2>1 DEF TypeOK
<1>7. ASSUME NEW m \in Nodes, SpawnSkips(m) \/ LaunchFails(m) \/ ScanProbe(m) \/ GrowLate(m)
      PROVE  Handles' = Handles /\ crashes' = crashes
  BY <1>7 DEF SpawnSkips, LaunchFails, ScanProbe, GrowLate, Handles
<1>8. CASE Collect \/ WaitFound \/ WaitMissed \/ Resolve \/ LeaveAlone \/ HeartbeatTimeout
           \/ KillError \/ BeginGrace \/ EndCycle \/ UNCHANGED vars
  <2>1. Handles' = Handles /\ crashes' = crashes
    BY <1>8 DEF Collect, WaitFound, WaitMissed, Resolve, LeaveAlone, HeartbeatTimeout,
         KillError,
       BeginGrace, EndCycle, vars, Handles
  <2> QED
    BY <2>1
<1> QED
  BY <1>1, <1>2, <1>4, <1>5, <1>6, <1>7, <1>8 DEF Next, Cycle

\* Time passes for a process that does not run only.
LEMMA BeatingNext ==
  ASSUME TypeOK, Beating, [Next]_vars
  PROVE  Beating'
<1> USE DEF TypeOK, processes, files, tables, loop, bounds, Beating, Live
<1>1. ASSUME NEW q \in Pids, WritePid(q) \/ WriteState(q) \/ Beat(q) \/ Die(q) \/ Hang(q)
      PROVE  Beating'
  BY <1>1 DEF WritePid, WriteState, Beat, Die, Hang
<1>2. ASSUME NEW q \in Pids, Advance(q) \/ Exit(q) \/ ProcessCrash(q)
      PROVE  Beating'
  BY <1>2 DEF Advance, Successors, Exit, Ended, ProcessCrash
<1>3. CASE Start
  BY <1>3 DEF Start, Recovered, Probe
<1>4. CASE ReapDead
  BY <1>4 DEF ReapDead, Reaped, Dropped, Handles, HandleAlive
<1>5. CASE Collect
  BY <1>5 DEF Collect, Probe
<1>6. ASSUME NEW m \in Nodes, SpawnSkips(m) \/ LaunchFails(m)
      PROVE  Beating'
  BY <1>6 DEF SpawnSkips, LaunchFails
<1>7. ASSUME NEW m \in Nodes, Launch(m)
      PROVE  Beating'
  BY <1>7 DEF Launch, Unused, Wanted
<1>8. CASE WaitFound \/ WaitMissed
  BY <1>8 DEF WaitFound, WaitMissed
<1>9. CASE WaitTimeout
  BY <1>9 DEF WaitTimeout, Killed, Ended, HandleAlive, Handles, Dropped
<1>10. CASE Resolve
  BY <1>10 DEF Resolve
<1>11. ASSUME NEW m \in Nodes, ScanProbe(m)
      PROVE  Beating'
  BY <1>11 DEF ScanProbe, Reaped, Handles, HandleAlive
<1>12. CASE LeaveAlone \/ BeginGrace \/ EndCycle \/ KillError
  BY <1>12 DEF LeaveAlone, NextNode, BeginGrace, EndCycle, KillError
<1>13. CASE HeartbeatTimeout \/ ForceKill
  BY <1>13 DEF HeartbeatTimeout, NextNode, Killed, Ended, HandleAlive, Handles,
       ForceKill, Dropped
<1>14. CASE EndGrace \/ Forget
  BY <1>14 DEF EndGrace, Killed, Ended, HandleAlive, Handles, Dropped, NextNode,
       Reaped, Forget
<1>15. CASE CycleFails
  BY <1>15 DEF CycleFails, NextNode
<1>16. CASE OrchestratorCrash
  BY <1>16 DEF OrchestratorCrash, Dropped
<1>17. ASSUME NEW m \in Nodes, GrowLate(m)
      PROVE  Beating'
  BY <1>17 DEF GrowLate
<1>18. CASE UNCHANGED vars
  BY <1>18 DEF vars
<1> QED
  BY <1>1, <1>2, <1>3, <1>4, <1>5, <1>6, <1>7, <1>8, <1>9, <1>10, <1>11, <1>12, <1>13,
       <1>14, <1>15, <1>16, <1>17, <1>18
     DEF Next, Cycle, ProcessStep

\* A node is taken off the list as the scan comes to it.
LEMMA AdvancedNext ==
  ASSUME TypeOK, Advanced, [Next]_vars
  PROVE  Advanced'
<1> USE DEF TypeOK, processes, files, tables, loop, bounds, Advanced
<1>1. ASSUME NEW q \in Pids, WritePid(q) \/ WriteState(q) \/ Beat(q) \/ Die(q) \/ Hang(q)
      PROVE  Advanced'
  BY <1>1 DEF WritePid, WriteState, Beat, Die, Hang
<1>2. ASSUME NEW q \in Pids, Advance(q) \/ Exit(q) \/ ProcessCrash(q)
      PROVE  Advanced'
  BY <1>2 DEF Advance, Successors, Exit, Ended, ProcessCrash
<1>3. CASE Start
  BY <1>3 DEF Start, Recovered, Probe
<1>4. CASE ReapDead
  BY <1>4 DEF ReapDead, Reaped, Dropped, Handles, HandleAlive
<1>5. CASE Collect
  BY <1>5 DEF Collect, Probe
<1>6. ASSUME NEW m \in Nodes, SpawnSkips(m) \/ LaunchFails(m)
      PROVE  Advanced'
  BY <1>6 DEF SpawnSkips, LaunchFails
<1>7. ASSUME NEW m \in Nodes, Launch(m)
      PROVE  Advanced'
  BY <1>7 DEF Launch, Unused, Wanted
<1>8. CASE WaitFound \/ WaitMissed
  BY <1>8 DEF WaitFound, WaitMissed
<1>9. CASE WaitTimeout
  BY <1>9 DEF WaitTimeout, Killed, Ended, HandleAlive, Handles, Dropped
<1>10. CASE Resolve
  BY <1>10 DEF Resolve
<1>11. ASSUME NEW m \in Nodes, ScanProbe(m)
      PROVE  Advanced'
  BY <1>11 DEF ScanProbe, Reaped, Handles, HandleAlive
<1>12. CASE LeaveAlone \/ BeginGrace \/ EndCycle \/ KillError
  BY <1>12 DEF LeaveAlone, NextNode, BeginGrace, EndCycle, KillError
<1>13. CASE HeartbeatTimeout \/ ForceKill
  BY <1>13 DEF HeartbeatTimeout, NextNode, Killed, Ended, HandleAlive, Handles,
       ForceKill, Dropped
<1>14. CASE EndGrace \/ Forget
  BY <1>14 DEF EndGrace, Killed, Ended, HandleAlive, Handles, Dropped, NextNode,
       Reaped, Forget
<1>15. CASE CycleFails
  BY <1>15 DEF CycleFails, NextNode
<1>16. CASE OrchestratorCrash
  BY <1>16 DEF OrchestratorCrash, Dropped
<1>17. ASSUME NEW m \in Nodes, GrowLate(m)
      PROVE  Advanced'
  BY <1>17 DEF GrowLate
<1>18. CASE UNCHANGED vars
  BY <1>18 DEF vars
<1> QED
  BY <1>1, <1>2, <1>3, <1>4, <1>5, <1>6, <1>7, <1>8, <1>9, <1>10, <1>11, <1>12, <1>13,
       <1>14, <1>15, <1>16, <1>17, <1>18
     DEF Next, Cycle, ProcessStep

\* The steps that need most: what is killed is the one live process of the node; what
\* populate passes over has none or one that has ended its work; the last process of a
\* node leaves a zombie that its pid file names.
LEMMA KnownWaitTimeout ==
  ASSUME TypeOK, Children, AllKnown,  WaitTimeout
  PROVE  AllKnown'
<1> USE DEF TypeOK, processes, files, tables, loop, bounds, WaitTimeout, Orderly, Live
<1> SUFFICES ASSUME NEW p \in Pids, Live(p)', Orderly(dir[p])' PROVE Known(p)'
  BY DEF AllKnown
<1>1. Known(p) /\ Live(p) /\ Orderly(dir[p])
  BY DEF AllKnown, Killed, Ended, HandleAlive, Handles
<1>2. dir[p] # target
  BY <1>1, SupervisorAssumption DEF Known, Killed, Ended, HandleAlive, Handles
<1> QED
  BY <1>1, <1>2 DEF Known, Boots, AboutToKill, Killed, Ended, HandleAlive, Handles, Dropped

LEMMA KnownForceKill ==
  ASSUME TypeOK, Children, AllKnown, Judged, ForceKill
  PROVE  AllKnown'
<1> USE DEF TypeOK, processes, files, tables, loop, bounds, ForceKill, NextNode, Orderly,
     Live
<1> SUFFICES ASSUME NEW p \in Pids, Live(p)', Orderly(dir[p])' PROVE Known(p)'
  BY DEF AllKnown
<1>1. Known(p) /\ Live(p) /\ Orderly(dir[p])
  BY DEF AllKnown, Killed, Ended, HandleAlive, Handles
<1>2. dir[p] # target
  BY <1>1, SupervisorAssumption DEF Known, Killed, Ended, HandleAlive, Handles
<1> QED
  BY <1>1, <1>2 DEF Known, Boots, AboutToKill, Killed, Ended, HandleAlive, Handles, Dropped

LEMMA PassedCollect ==
  ASSUME TypeOK, AllKnown, PassedOver, Stale, Collect
  PROVE  PassedOver'
<1> USE DEF TypeOK, processes, files, tables, loop, bounds, Collect, Orderly, Live
<1> SUFFICES ASSUME NEW n \in Nodes, Orderly(n), n \notin alive'
    PROVE  /\ status[n] \in {"none", "dead", "delivered"}
           /\ \A p \in Pids : dir[p] = n /\ Live(p) => life[p] \in {"done", "hung"}
  BY DEF PassedOver, Passed
<1>1. ASSUME NEW p \in Pids, dir[p] = n, Live(p)
      PROVE  life[p] \in {"done", "hung"} /\ status[n] = "dead"
  BY <1>1, SupervisorAssumption DEF AllKnown, Known, Boots, Probe, AboutToKill
<1>2. CASE ~HasLive(n)
  BY <1>2 DEF HasLive, Stale, Probe, Statuses
<1> QED
  BY <1>1, <1>2 DEF HasLive

LEMMA StaleEnds ==
  ASSUME TypeOK, Children, AllKnown, Stale, NEW q \in Pids, Exit(q) \/ ProcessCrash(q)
  PROVE  Stale'
<1> USE DEF TypeOK, processes, files, tables, loop, bounds, Exit, ProcessCrash, Orderly,
     Live, Ended
<1> SUFFICES ASSUME NEW n \in Nodes, Orderly(n)', ~HasLive(n)', status[n] \in {"working",
     "blocked"}
    PROVE  \/ pidfile[n] # None /\ life'[pidfile[n]] = "zombie"
           \/ phase \in {"scan", "judge", "grace", "reap"} /\ tracked[n] # None
  BY DEF Stale
<1>0. Orderly(n) /\ crashes = 0
  OBVIOUS
<1>1. CASE dir[q] = n
  BY <1>0, <1>1, SupervisorAssumption DEF AllKnown, Known, Boots, Children
<1>2. CASE dir[q] # n
  BY <1>0, <1>2 DEF Stale, HasLive
<1> QED
  BY <1>1, <1>2

LEMMA JudgedProbe ==
  ASSUME TypeOK, AllKnown, Judged, NEW m \in Nodes, ScanProbe(m)
  PROVE  Judged'
<1> USE DEF TypeOK, processes, files, tables, loop, bounds, ScanProbe, Orderly, Live
<1> SUFFICES ASSUME Orderly(m), ~HandleAlive(m), target' = m
    PROVE ~HasLive(m)'
  BY DEF Judged
<1>1. \A p \in Pids : dir[p] = m /\ Live(p) => tracked[m] = p
  BY DEF AllKnown, Known
<1>2. ~HasLive(m)
  BY <1>1, SupervisorAssumption DEF HasLive, HandleAlive, Handles
<1> QED
  BY <1>2 DEF HasLive, Reaped

\* A launch finds no other process, as the node was passed over; the wait for it goes on
\* until its first state.toml, as there is none before; a mark is acted on in the scan.
LEMMA KnownNext ==
  ASSUME TypeOK, Children, Clean, AllKnown, PassedOver, Judged, [Next]_vars
  PROVE  AllKnown'
<1> USE DEF TypeOK, processes, files, tables, loop, bounds, Orderly, Live, Children,
     Clean, AllKnown, Known, Boots, AboutToKill, PassedOver, Passed, Judged, HasLive
<1>1. ASSUME NEW q \in Pids, WritePid(q) \/ Beat(q) \/ Hang(q)
      PROVE  AllKnown'
  BY <1>1 DEF WritePid, Beat, Hang
<1>2. ASSUME NEW q \in Pids, WriteState(q)
      PROVE  AllKnown'
  BY <1>2 DEF WriteState
<1>3. ASSUME NEW q \in Pids, Die(q)
      PROVE  AllKnown'
  BY <1>3 DEF Die
<1>4. ASSUME NEW q \in Pids, Advance(q)
      PROVE  AllKnown'
  BY <1>4 DEF Advance, Successors
<1>5. ASSUME NEW q \in Pids, Exit(q) \/ ProcessCrash(q)
      PROVE  AllKnown'
  BY <1>5 DEF Exit, Ended, ProcessCrash
<1>6. CASE Start
  BY <1>6 DEF Start, Recovered, Probe
<1>7. CASE ReapDead
  BY <1>7 DEF ReapDead, Reaped, Dropped, Handles, HandleAlive
<1>8. CASE Collect
  BY <1>8 DEF Collect, Probe
<1>9. ASSUME NEW m \in Nodes, SpawnSkips(m) \/ LaunchFails(m)
      PROVE  AllKnown'
  BY <1>9 DEF SpawnSkips, LaunchFails
<1>10. ASSUME NEW m \in Nodes, Launch(m)
      PROVE  AllKnown'
  BY <1>10 DEF Launch, Unused, Wanted
<1>11. CASE WaitFound \/ WaitMissed
  BY <1>11 DEF WaitFound, WaitMissed
<1>12. CASE WaitTimeout
  BY <1>12, KnownWaitTimeout
<1>13. CASE Resolve
  BY <1>13 DEF Resolve
<1>14. ASSUME NEW m \in Nodes, ScanProbe(m)
      PROVE  AllKnown'
  BY <1>14 DEF ScanProbe, Reaped, Handles, HandleAlive
<1>15. CASE LeaveAlone \/ BeginGrace \/ EndCycle
  BY <1>15, Verdict DEF LeaveAlone, NextNode, BeginGrace, EndCycle
<1>16. CASE KillError
  BY <1>16, KillWorks DEF KillError, NextNode
<1>17. CASE HeartbeatTimeout
  BY <1>17, Verdict DEF HeartbeatTimeout, NextNode, Killed, Ended, HandleAlive, Handles
<1>18. CASE ForceKill
  BY <1>18, KnownForceKill
<1>19. CASE EndGrace
  BY <1>19 DEF EndGrace, Killed, Ended, HandleAlive, Handles, Dropped, NextNode, Reaped
<1>20. CASE Forget
  BY <1>20, Verdict DEF Forget, Dropped, NextNode
<1>21. CASE CycleFails
  BY <1>21 DEF CycleFails, NextNode
<1>22. CASE OrchestratorCrash
  BY <1>22 DEF OrchestratorCrash, Dropped
<1>23. ASSUME NEW m \in Nodes, GrowLate(m)
      PROVE  AllKnown'
  BY <1>23 DEF GrowLate
<1>24. CASE UNCHANGED vars
  BY <1>24 DEF vars
<1> QED
  BY <1>1, <1>2, <1>3, <1>4, <1>5, <1>6, <1>7, <1>8, <1>9, <1>10, <1>11, <1>12, <1>13,
       <1>14, <1>15, <1>16, <1>17, <1>18, <1>19, <1>20, <1>21, <1>22, <1>23, <1>24
     DEF Next, Cycle, ProcessStep

\* What was passed over has no process that could change its state.toml.
LEMMA PassedNext ==
  ASSUME TypeOK, Clean, AllKnown, PassedOver, Stale, [Next]_vars
  PROVE  PassedOver'
<1> USE DEF TypeOK, processes, files, tables, loop, bounds, Orderly, Live, Clean,
     AllKnown, Known, Boots, AboutToKill, PassedOver, Passed, Stale, HasLive
<1>1. ASSUME NEW q \in Pids, WritePid(q) \/ Beat(q) \/ Hang(q)
      PROVE  PassedOver'
  BY <1>1 DEF WritePid, Beat, Hang
<1>2. ASSUME NEW q \in Pids, WriteState(q)
      PROVE  PassedOver'
  BY <1>2 DEF WriteState
<1>3. ASSUME NEW q \in Pids, Die(q)
      PROVE  PassedOver'
  BY <1>3 DEF Die
<1>4. ASSUME NEW q \in Pids, Advance(q)
      PROVE  PassedOver'
  BY <1>4 DEF Advance, Successors
<1>5. ASSUME NEW q \in Pids, Exit(q) \/ ProcessCrash(q)
      PROVE  PassedOver'
  BY <1>5 DEF Exit, Ended, ProcessCrash
<1>6. CASE Start
  BY <1>6 DEF Start, Recovered, Probe
<1>7. CASE ReapDead
  BY <1>7 DEF ReapDead, Reaped, Dropped, Handles, HandleAlive
<1>8. CASE Collect
  BY <1>8, PassedCollect
<1>9. ASSUME NEW m \in Nodes, SpawnSkips(m) \/ LaunchFails(m)
      PROVE  PassedOver'
  BY <1>9 DEF SpawnSkips, LaunchFails
<1>10. ASSUME NEW m \in Nodes, Launch(m)
      PROVE  PassedOver'
  BY <1>10 DEF Launch, Unused, Wanted
<1>11. CASE WaitFound \/ WaitMissed
  BY <1>11 DEF WaitFound, WaitMissed
<1>12. CASE WaitTimeout
  BY <1>12 DEF WaitTimeout, Killed, Ended, HandleAlive, Handles, Dropped
<1>13. CASE Resolve
  BY <1>13 DEF Resolve
<1>14. ASSUME NEW m \in Nodes, ScanProbe(m)
      PROVE  PassedOver'
  BY <1>14 DEF ScanProbe, Reaped, Handles, HandleAlive
<1>15. CASE LeaveAlone \/ BeginGrace \/ EndCycle
  BY <1>15, Verdict DEF LeaveAlone, NextNode, BeginGrace, EndCycle
<1>16. CASE KillError
  BY <1>16, KillWorks DEF KillError, NextNode
<1>17. CASE HeartbeatTimeout
  BY <1>17, Verdict DEF HeartbeatTimeout, NextNode, Killed, Ended, HandleAlive, Handles
<1>18. CASE ForceKill
  BY <1>18, Verdict DEF ForceKill, NextNode, Dropped, Killed, Ended, HandleAlive, Handles
<1>19. CASE EndGrace
  BY <1>19 DEF EndGrace, Killed, Ended, HandleAlive, Handles, Dropped, NextNode, Reaped
<1>20. CASE Forget
  BY <1>20, Verdict DEF Forget, Dropped, NextNode
<1>21. CASE CycleFails
  BY <1>21 DEF CycleFails, NextNode
<1>22. CASE OrchestratorCrash
  BY <1>22 DEF OrchestratorCrash, Dropped
<1>23. ASSUME NEW m \in Nodes, GrowLate(m)
      PROVE  PassedOver'
  BY <1>23 DEF GrowLate
<1>24. CASE UNCHANGED vars
  BY <1>24 DEF vars
<1> QED
  BY <1>1, <1>2, <1>3, <1>4, <1>5, <1>6, <1>7, <1>8, <1>9, <1>10, <1>11, <1>12, <1>13,
       <1>14, <1>15, <1>16, <1>17, <1>18, <1>19, <1>20, <1>21, <1>22, <1>23, <1>24
     DEF Next, Cycle, ProcessStep

\* Only the scan and reap_dead do away with zombies, and they unwatch the node.
LEMMA StaleNext ==
  ASSUME TypeOK, Children, Clean, AllKnown, Stale, Grace, [Next]_vars
  PROVE  Stale'
<1> USE DEF TypeOK, processes, files, tables, loop, bounds, Orderly, Live, Children,
     Clean, AllKnown, Known, Boots, Stale, Grace, HasLive
<1>1. ASSUME NEW q \in Pids, WritePid(q) \/ Beat(q) \/ Hang(q)
      PROVE  Stale'
  BY <1>1 DEF WritePid, Beat, Hang
<1>2. ASSUME NEW q \in Pids, WriteState(q)
      PROVE  Stale'
  BY <1>2 DEF WriteState
<1>3. ASSUME NEW q \in Pids, Die(q)
      PROVE  Stale'
  BY <1>3 DEF Die
<1>4. ASSUME NEW q \in Pids, Advance(q)
      PROVE  Stale'
  BY <1>4 DEF Advance, Successors
<1>5. ASSUME NEW q \in Pids, Exit(q) \/ ProcessCrash(q)
      PROVE  Stale'
  BY <1>5, StaleEnds
<1>6. CASE Start
  BY <1>6 DEF Start, Recovered, Probe
<1>7. CASE ReapDead
  BY <1>7 DEF ReapDead, Reaped, Dropped, Handles, HandleAlive
<1>8. CASE Collect
  BY <1>8 DEF Collect, Probe
<1>9. ASSUME NEW m \in Nodes, SpawnSkips(m) \/ LaunchFails(m)
      PROVE  Stale'
  BY <1>9 DEF SpawnSkips, LaunchFails
<1>10. ASSUME NEW m \in Nodes, Launch(m)
      PROVE  Stale'
  BY <1>10 DEF Launch, Unused, Wanted
<1>11. CASE WaitFound \/ WaitMissed
  BY <1>11 DEF WaitFound, WaitMissed
<1>12. CASE WaitTimeout
  BY <1>12 DEF WaitTimeout, Killed, Ended, HandleAlive, Handles, Dropped
<1>13. CASE Resolve
  BY <1>13 DEF Resolve
<1>14. ASSUME NEW m \in Nodes, ScanProbe(m)
      PROVE  Stale'
  BY <1>14 DEF ScanProbe, Reaped, Handles, HandleAlive
<1>15. CASE LeaveAlone \/ BeginGrace \/ EndCycle
  BY <1>15, Verdict DEF LeaveAlone, NextNode, BeginGrace, EndCycle
<1>16. CASE KillError
  BY <1>16, KillWorks DEF KillError, NextNode
<1>17. CASE HeartbeatTimeout
  BY <1>17, Verdict DEF HeartbeatTimeout, NextNode, Killed, Ended, HandleAlive, Handles
<1>18. CASE ForceKill
  BY <1>18, Verdict DEF ForceKill, NextNode, Dropped, Killed, Ended, HandleAlive, Handles
<1>19. CASE EndGrace
  BY <1>19 DEF EndGrace, Killed, Ended, HandleAlive, Handles, Dropped, NextNode, Reaped
<1>20. CASE Forget
  BY <1>20, Verdict DEF Forget, Dropped, NextNode
<1>21. CASE CycleFails
  BY <1>21 DEF CycleFails, NextNode
<1>22. CASE OrchestratorCrash
  BY <1>22 DEF OrchestratorCrash, Dropped
<1>23. ASSUME NEW m \in Nodes, GrowLate(m)
      PROVE  Stale'
  BY <1>23 DEF GrowLate
<1>24. CASE UNCHANGED vars
  BY <1>24 DEF vars
<1> QED
  BY <1>1, <1>2, <1>3, <1>4, <1>5, <1>6, <1>7, <1>8, <1>9, <1>10, <1>11, <1>12, <1>13,
       <1>14, <1>15, <1>16, <1>17, <1>18, <1>19, <1>20, <1>21, <1>22, <1>23, <1>24
     DEF Next, Cycle, ProcessStep

\* During the grace period.
LEMMA GraceNext ==
  ASSUME TypeOK, AllKnown, Grace, Advanced, [Next]_vars
  PROVE  Grace'
<1> USE DEF TypeOK, processes, files, tables, loop, bounds, Orderly, Live, AllKnown,
     Known, Boots, AboutToKill, Grace, HasLive, Advanced
<1>1. ASSUME NEW q \in Pids, WritePid(q) \/ Beat(q) \/ Hang(q)
      PROVE  Grace'
  BY <1>1 DEF WritePid, Beat, Hang
<1>2. ASSUME NEW q \in Pids, WriteState(q)
      PROVE  Grace'
  BY <1>2 DEF WriteState
<1>3. ASSUME NEW q \in Pids, Die(q)
      PROVE  Grace'
  BY <1>3 DEF Die
<1>4. ASSUME NEW q \in Pids, Advance(q)
      PROVE  Grace'
  BY <1>4 DEF Advance, Successors
<1>5. ASSUME NEW q \in Pids, Exit(q) \/ ProcessCrash(q)
      PROVE  Grace'
  BY <1>5 DEF Exit, Ended, ProcessCrash
<1>6. CASE Start
  BY <1>6 DEF Start, Recovered, Probe
<1>7. CASE ReapDead
  BY <1>7 DEF ReapDead, Reaped, Dropped, Handles, HandleAlive
<1>8. CASE Collect
  BY <1>8 DEF Collect, Probe
<1>9. ASSUME NEW m \in Nodes, SpawnSkips(m) \/ LaunchFails(m)
      PROVE  Grace'
  BY <1>9 DEF SpawnSkips, LaunchFails
<1>10. ASSUME NEW m \in Nodes, Launch(m)
      PROVE  Grace'
  BY <1>10 DEF Launch, Unused, Wanted
<1>11. CASE WaitFound \/ WaitMissed
  BY <1>11 DEF WaitFound, WaitMissed
<1>12. CASE WaitTimeout
  BY <1>12 DEF WaitTimeout, Killed, Ended, HandleAlive, Handles, Dropped
<1>13. CASE Resolve
  BY <1>13 DEF Resolve
<1>14. ASSUME NEW m \in Nodes, ScanProbe(m)
      PROVE  Grace'
  BY <1>14 DEF ScanProbe, Reaped, Handles, HandleAlive
<1>15. CASE LeaveAlone \/ BeginGrace \/ EndCycle
  BY <1>15, Verdict DEF LeaveAlone, NextNode, BeginGrace, EndCycle
<1>16. CASE KillError
  BY <1>16, KillWorks DEF KillError, NextNode
<1>17. CASE HeartbeatTimeout
  BY <1>17, Verdict DEF HeartbeatTimeout, NextNode, Killed, Ended, HandleAlive, Handles
<1>18. CASE ForceKill
  BY <1>18, Verdict DEF ForceKill, NextNode, Dropped, Killed, Ended, HandleAlive, Handles
<1>19. CASE EndGrace
  BY <1>19 DEF EndGrace, Killed, Ended, HandleAlive, Handles, Dropped, NextNode, Reaped
<1>20. CASE Forget
  BY <1>20, Verdict DEF Forget, Dropped, NextNode
<1>21. CASE CycleFails
  BY <1>21 DEF CycleFails, NextNode
<1>22. CASE OrchestratorCrash
  BY <1>22 DEF OrchestratorCrash, Dropped
<1>23. ASSUME NEW m \in Nodes, GrowLate(m)
      PROVE  Grace'
  BY <1>23 DEF GrowLate
<1>24. CASE UNCHANGED vars
  BY <1>24 DEF vars
<1> QED
  BY <1>1, <1>2, <1>3, <1>4, <1>5, <1>6, <1>7, <1>8, <1>9, <1>10, <1>11, <1>12, <1>13,
       <1>14, <1>15, <1>16, <1>17, <1>18, <1>19, <1>20, <1>21, <1>22, <1>23, <1>24
     DEF Next, Cycle, ProcessStep

\* No process of the node is launched between the probe and the judgement.
LEMMA JudgedNext ==
  ASSUME TypeOK, Clean, AllKnown, Judged, [Next]_vars
  PROVE  Judged'
<1> USE DEF TypeOK, processes, files, tables, loop, bounds, Orderly, Live, Clean,
     AllKnown, Known, Judged, HasLive
<1>1. ASSUME NEW q \in Pids, WritePid(q) \/ Beat(q) \/ Hang(q)
      PROVE  Judged'
  BY <1>1 DEF WritePid, Beat, Hang
<1>2. ASSUME NEW q \in Pids, WriteState(q)
      PROVE  Judged'
  BY <1>2 DEF WriteState
<1>3. ASSUME NEW q \in Pids, Die(q)
      PROVE  Judged'
  BY <1>3 DEF Die
<1>4. ASSUME NEW q \in Pids, Advance(q)
      PROVE  Judged'
  BY <1>4 DEF Advance, Successors
<1>5. ASSUME NEW q \in Pids, Exit(q) \/ ProcessCrash(q)
      PROVE  Judged'
  BY <1>5 DEF Exit, Ended, ProcessCrash
<1>6. CASE Start
  BY <1>6 DEF Start, Recovered, Probe
<1>7. CASE ReapDead
  BY <1>7 DEF ReapDead, Reaped, Dropped, Handles, HandleAlive
<1>8. CASE Collect
  BY <1>8 DEF Collect, Probe
<1>9. ASSUME NEW m \in Nodes, SpawnSkips(m) \/ LaunchFails(m)
      PROVE  Judged'
  BY <1>9 DEF SpawnSkips, LaunchFails
<1>10. ASSUME NEW m \in Nodes, Launch(m)
      PROVE  Judged'
  BY <1>10 DEF Launch, Unused, Wanted
<1>11. CASE WaitFound \/ WaitMissed
  BY <1>11 DEF WaitFound, WaitMissed
<1>12. CASE WaitTimeout
  BY <1>12 DEF WaitTimeout, Killed, Ended, HandleAlive, Handles, Dropped
<1>13. CASE Resolve
  BY <1>13 DEF Resolve
<1>14. ASSUME NEW m \in Nodes, ScanProbe(m)
      PROVE  Judged'
  BY <1>14, JudgedProbe
<1>15. CASE LeaveAlone \/ BeginGrace \/ EndCycle
  BY <1>15, Verdict DEF LeaveAlone, NextNode, BeginGrace, EndCycle
<1>16. CASE KillError
  BY <1>16, KillWorks DEF KillError, NextNode
<1>17. CASE HeartbeatTimeout
  BY <1>17, Verdict DEF HeartbeatTimeout, NextNode, Killed, Ended, HandleAlive, Handles
<1>18. CASE ForceKill
  BY <1>18, Verdict DEF ForceKill, NextNode, Dropped, Killed, Ended, HandleAlive, Handles
<1>19. CASE EndGrace
  BY <1>19 DEF EndGrace, Killed, Ended, HandleAlive, Handles, Dropped, NextNode, Reaped
<1>20. CASE Forget
  BY <1>20, Verdict DEF Forget, Dropped, NextNode
<1>21. CASE CycleFails
  BY <1>21 DEF CycleFails, NextNode
<1>22. CASE OrchestratorCrash
  BY <1>22 DEF OrchestratorCrash, Dropped
<1>23. ASSUME NEW m \in Nodes, GrowLate(m)
      PROVE  Judged'
  BY <1>23 DEF GrowLate
<1>24. CASE UNCHANGED vars
  BY <1>24 DEF vars
<1> QED
  BY <1>1, <1>2, <1>3, <1>4, <1>5, <1>6, <1>7, <1>8, <1>9, <1>10, <1>11, <1>12, <1>13,
       <1>14, <1>15, <1>16, <1>17, <1>18, <1>19, <1>20, <1>21, <1>22, <1>23, <1>24
     DEF Next, Cycle, ProcessStep

\* Live processes are counted by their handles.
LEMMA Limited == ASSUME TypeOK, AllKnown, Room PROVE WithinLimit
<1> DEFINE L == {p \in Pids : Live(p) /\ Orderly(dir[p])}
           f == [p \in L |-> dir[p]]
<1>1. CASE crashes # 0
  <2>1. L = {}
    BY <1>1 DEF Orderly
  <2> QED
    BY <2>1, FS_EmptySet, SupervisorAssumption DEF WithinLimit
<1>2. CASE crashes = 0
  <2>1. \A p \in L : tracked[dir[p]] = p
    BY DEF AllKnown, Known
  <2>2. \A p \in L : dir[p] \in Handles
    BY <2>1, SupervisorAssumption DEF TypeOK, Handles, Live
  <2>3. f \in Injection(L, Handles)
    BY <2>1, <2>2 DEF Injection, IsInjective
  <2> HIDE DEF f, L
  <2>4. Cardinality(L) <= Cardinality(Handles) /\ Cardinality(L) \in Nat
    BY <2>3, FiniteHandles, FS_Injection, FS_CardinalityType
  <2>5. Cardinality(L) <= MaxTotal
    BY <1>2, <2>4, FiniteHandles, SupervisorAssumption DEF Room
  <2> QED
    BY <2>5 DEF WithinLimit, L
<1> QED
  BY <1>1, <1>2

\* A process that starts up or runs is not silent.
LEMMA Timed == ASSUME TypeOK, AllKnown, Beating PROVE OnlyHungTimeOut
<1> SUFFICES ASSUME phase = "judge", Orderly(target), HandleAlive(target), late[target] #
     "older",
                    Judgement(target) = "HeartbeatTimeout"
             PROVE  life[tracked[target]] = "hung"
  BY DEF OnlyHungTimeOut
<1>1. target \in Nodes /\ tracked[target] \in Pids /\ dir[tracked[target]] = target /\
     Live(tracked[target])
  BY SupervisorAssumption DEF TypeOK, HandleAlive, Handles
<1>2. status[target] \in {"working", "blocked"} /\ late[target] = "silent"
  BY <1>1, Verdict DEF TypeOK
<1>3. Known(tracked[target])
  BY <1>1 DEF AllKnown
<1> QED
  BY <1>1, <1>2, <1>3 DEF Known, Boots, Live, Beating

-------------------------------------------------------------------------------
\* The invariant and what follows from it.

LEMMA InvInit == Init => IInv
<1> SUFFICES ASSUME Init PROVE IInv
  OBVIOUS
<1>1. Handles = {}
  BY DEF Init, Handles
<1>2. Room
  BY <1>1, FS_EmptySet, SupervisorAssumption DEF Room
<1>3. Children /\ Clean /\ Beating /\ Advanced
  BY DEF Init, Children, Clean, Beating, Advanced
<1>4. AllKnown /\ PassedOver /\ Stale /\ Grace /\ Judged
  BY DEF Init, AllKnown, PassedOver, Stale, Grace, Judged, Orderly, Passed
<1> QED
  BY <1>2, <1>3, <1>4 DEF IInv

LEMMA InvNext == TypeOK /\ IInv /\ [Next]_vars => IInv'
  BY ChildrenNext, CleanNext, RoomNext, BeatingNext, AdvancedNext, KnownNext, PassedNext,
     StaleNext, GraceNext, JudgedNext DEF IInv

LEMMA InvHolds == Spec => []IInv
  BY InvInit, InvNext, SupervisorTypeCorrect, PTL DEF Spec

\* A node that is watched has one live process, the one in the process table, however
\* slow it starts and whatever crashes, hangs or is marked dead.
THEOREM LiveIsTrackedHolds == Spec => []LiveIsTracked
<1>1. TypeOK /\ IInv => LiveIsTracked
  BY DEF IInv, AllKnown, Known, LiveIsTracked
<1> QED
  BY <1>1, InvHolds, SupervisorTypeCorrect, PTL

\* The processes of such nodes are no more than max_total_nodes.
THEOREM WithinLimitHolds == Spec => []WithinLimit
<1>1. TypeOK /\ IInv => WithinLimit
  BY Limited DEF IInv
<1> QED
  BY <1>1, InvHolds, SupervisorTypeCorrect, PTL

\* A process of such a node that is killed for a late heartbeat hangs, or has put an
\* older heartbeat of its own back.
THEOREM OnlyHungTimeOutHolds == Spec => []OnlyHungTimeOut
<1>1. TypeOK /\ IInv => OnlyHungTimeOut
  BY Timed DEF IInv
<1> QED
  BY <1>1, InvHolds, SupervisorTypeCorrect, PTL
================================================================================
