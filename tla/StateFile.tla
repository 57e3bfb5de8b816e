------------------------------- MODULE StateFile -------------------------------
(***************************************************************************)
(* One node's .forge/state.toml and those that write it: the main thread   *)
(* of the node (NodeRuntime and run_node_loop, forge-sdk/src/runtime.rs),  *)
(* which saves the StateMachine it has in memory; the heartbeat threads    *)
(* its calls of run_node_loop start, which load the file, set one time and *)
(* save it; and the orchestrator, which loads it, sets the status and      *)
(* saves it.  A load and a save are one step each: AtomicFile looks into   *)
(* them.                                                                   *)
(*                                                                         *)
(* Of a heartbeat only one thing is kept: whether it is the latest there   *)
(* has been.  "working" stands for idle, assigned, planning, implementing  *)
(* and blocked.  The answers of a wake flow in provides.toml are left out. *)
(* Names are chosen so that one module can extend this and FeedbackLoop.   *)
(***************************************************************************)
EXTENDS Integers, FiniteSets

CONSTANTS
  BeatThreads,     \* bound: heartbeat threads at a time
  RetryLimit,      \* FORGE_MAX_RETRIES
  DefaultLimit,    \* the limit from_node_state puts in: 3
  LastChange,      \* bound: state changes of a process before the agent calls the loop
  MaxMarks,        \* bound: marks of the orchestrator
  MaxStarts        \* bound: processes, one after the other

ASSUME StateFileAssumption ==
  /\ "orchestrator" \notin BeatThreads
  /\ RetryLimit \in Nat /\ DefaultLimit \in Nat
  /\ LastChange \in Nat /\ MaxMarks \in Nat /\ MaxStarts \in Nat

VARIABLES
  machine,    \* NodeRuntime::state, the StateMachine in memory
  mainAt,     \* where the main thread is, see Places
  woken,      \* FORGE_IS_WAKE_UP
  shutdown,   \* the flag the heartbeat threads look at
  beating,    \* of each heartbeat thread: "none", "asleep", "loaded"
  copies,     \* the StateMachine it has loaded
  stateFile,  \* state.toml
  marks,      \* is the orchestrator putting a mark on the node?
  marking,    \* the state.toml it has loaded for that
  latest,     \* which of "machine", "file" and "marking" have the latest heartbeat
  starts,
  marked,     \* how often it has
  \* history
  outdated,   \* writers that loaded the file before the main thread's last save
  undone      \* has one of them saved since?

mainThread  == <<machine, mainAt, woken, shutdown>>
beatThreads == <<beating, copies>>
marker      == <<marks, marking, marked>>
file        == <<stateFile, latest>>
history     == <<outdated, undone>>
stateVars   == <<mainThread, beatThreads, marker, file, starts, history>>

NodeStatuses == {"working", "verifying", "delivered", "monitoring", "diagnosing", "dead"}

\* "off": no process; "booting": before initialize; "agent": between calls of
\* run_node_loop; "loop": in it; "save", "saveWoken": before its write_my_state;
\* "stop": before signal_shutdown; "returned": it has written what it returned.
Places == {"off", "booting", "agent", "loop", "save", "saveWoken", "stop", "returned"}

Machine == [current : NodeStatuses, sequence : Nat, retryCount : Nat, maxRetries : Nat]
NodeState == [current : NodeStatuses, sequence : Nat, retryCount : Nat]

\* StateMachine::new.
Fresh == [current |-> "working", sequence |-> 0, retryCount |-> 0,
          maxRetries |-> RetryLimit]

\* Seeded fault: the retries are not written out.
ToNodeStateNoRetries(m) ==
  [current |-> m.current, sequence |-> m.sequence, retryCount |-> 0]

\* Seeded fault: the machine is written out as it is.
ToNodeStateWhole(m) == m

\* The limits are not written out, and take their defaults when read in.
ToNodeState(m) ==
  [current |-> m.current, sequence |-> m.sequence, retryCount |-> m.retryCount]
FromNodeState(f) ==
  [current |-> f.current, sequence |-> f.sequence, retryCount |-> f.retryCount,
   maxRetries |-> DefaultLimit]

\* is_valid_transition, for the statuses kept.
MayMove(m, to) ==
  <<m.current, to>> \in
    {<<"working", "working">>, <<"working", "verifying">>, <<"verifying", "working">>,
     <<"verifying", "delivered">>, <<"delivered", "monitoring">>,
     <<"monitoring", "diagnosing">>, <<"diagnosing", "working">>,
     <<"working", "dead">>, <<"verifying", "dead">>, <<"monitoring", "dead">>}

\* Seeded fault: a change of status is not counted.
ChangedUncounted(m, to) == [m EXCEPT !.current = to]

\* transition(): the heartbeat is not touched.
Changed(m, to) == [m EXCEPT !.current = to, !.sequence = @ + 1]

NoThread == [t \in BeatThreads |-> "none"]
NoCopies == [t \in BeatThreads |-> Fresh]

StateInit ==
  /\ machine = Fresh /\ mainAt = "off" /\ woken = FALSE /\ shutdown = FALSE
  /\ beating = NoThread /\ copies = NoCopies
  /\ stateFile = ToNodeState(Fresh) /\ latest = {}
  /\ marks = FALSE /\ marking = ToNodeState(Fresh) /\ marked = 0
  /\ starts = 0
  /\ outdated = {} /\ undone = FALSE

-------------------------------------------------------------------------------
\* The process and its main thread.

\* from_env.  The file a process finds is one that a process before it has left.
Begin ==
  /\ mainAt = "off" /\ starts < MaxStarts
  /\ starts' = starts + 1
  /\ mainAt' = "booting" /\ woken' \in BOOLEAN
  /\ UNCHANGED <<machine, shutdown, beatThreads, marker, file, history>>

\* save(): a writer that has the file loaded has one from before.
Saved(m) ==
  /\ stateFile' = ToNodeState(m)
  /\ outdated' = {t \in BeatThreads : beating[t] = "loaded"}
                   \union (IF marks THEN {"orchestrator"} ELSE {})
  /\ undone' = FALSE

\* The heartbeat of "from" is copied to "to".
Copied(from, to) == IF from \in latest THEN latest \union {to} ELSE latest \ {to}

\* heartbeat("booted"), save.
Initialize ==
  /\ mainAt = "booting"
  /\ Saved(machine) /\ latest' = {"machine", "file"}
  /\ mainAt' = "agent"
  /\ UNCHANGED <<machine, woken, shutdown, beatThreads, marker, starts>>

AtAgent == mainAt \in {"agent", "returned"}

\* The agent's calls but those of the verify gate, which run_node_loop makes.
AgentMoves ==
  /\ AtAgent /\ machine.sequence < LastChange
  /\ \E to \in NodeStatuses :
       /\ MayMove(machine, to)
       /\ machine.current = "verifying" => to = "dead"
       /\ machine' = Changed(machine, to)
  /\ mainAt' = "agent"
  /\ UNCHANGED <<woken, shutdown, beatThreads, marker, file, starts, history>>

\* write_my_state.
AgentSaves ==
  /\ AtAgent
  /\ Saved(machine) /\ latest' = Copied("machine", "file")
  /\ UNCHANGED <<mainThread, beatThreads, marker, starts>>

\* run_node_loop, start_heartbeat.  shutdown is never reset: once it is set a new
\* thread ends before its first beat.
CallLoop ==
  /\ AtAgent
  /\ \E t \in BeatThreads :
       /\ beating[t] = "none"
       /\ beating' = [beating EXCEPT ![t] = IF shutdown THEN "none" ELSE "asleep"]
  /\ mainAt' = "loop"
  /\ UNCHANGED <<machine, woken, shutdown, copies, marker, file, starts, history>>

Leave(m, to) ==
  /\ machine' = m /\ mainAt' = to
  /\ UNCHANGED <<woken, shutdown, beatThreads, marker, file, starts, history>>

\* die(): idle, implementing and blocked may die, assigned and planning may not.
MayDie(m) == IF m.current = "working" THEN BOOLEAN ELSE {MayMove(m, "dead")}

\* Seeded fault: a process out of budget returns before it writes.
LoopBudgetUnwritten ==
  /\ mainAt = "loop" /\ ~woken /\ machine.current \notin {"delivered", "dead"}
  /\ \E dies \in MayDie(machine) :
       Leave(IF dies THEN Changed(machine, "dead") ELSE machine, "stop")

\* check_wallclock ends the loop whether the machine died of it or not.
LoopBudget ==
  /\ mainAt = "loop" /\ ~woken /\ machine.current \notin {"delivered", "dead"}
  /\ \E dies \in MayDie(machine) :
       Leave(IF dies THEN Changed(machine, "dead") ELSE machine, "save")

LoopGate(passed) ==
  /\ mainAt = "loop" /\ ~woken /\ machine.current = "verifying"
  /\ Leave(IF passed THEN Changed(machine, "delivered")
           ELSE IF machine.retryCount >= machine.maxRetries THEN Changed(machine, "dead")
           ELSE [Changed(machine, "working") EXCEPT !.retryCount = @ + 1],
           "save")

\* verify.sh cannot be executed: the error returns past signal_shutdown.
LoopGateError ==
  /\ mainAt = "loop" /\ ~woken /\ machine.current = "verifying"
  /\ Leave(machine, "agent")

\* Nothing to verify, nothing to write.
LoopNothing ==
  /\ mainAt = "loop" /\ ~woken /\ machine.current # "verifying"
  /\ shutdown' = TRUE /\ mainAt' = "agent"
  /\ UNCHANGED <<machine, woken, beatThreads, marker, file, starts, history>>

\* run_wake_flow.  deliver() is refused but in "verifying"; the error, and the
\* result, return past signal_shutdown.
WakeFlow ==
  /\ mainAt = "loop" /\ woken
  /\ IF machine.current = "verifying"
     THEN Leave(Changed(machine, "delivered"), "saveWoken")
     ELSE Leave(machine, "agent")

LoopSaves ==
  /\ mainAt \in {"save", "saveWoken"}
  /\ Saved(machine) /\ latest' = Copied("machine", "file")
  /\ mainAt' = IF mainAt = "save" THEN "stop" ELSE "returned"
  /\ UNCHANGED <<machine, woken, shutdown, beatThreads, marker, starts>>

\* Seeded fault: the heartbeat threads are not told to stop.
LoopStopsNot == mainAt = "stop" /\ Leave(machine, "returned")

\* signal_shutdown.
LoopStops ==
  /\ mainAt = "stop"
  /\ shutdown' = TRUE /\ mainAt' = "returned"
  /\ UNCHANGED <<machine, woken, beatThreads, marker, file, starts, history>>

\* The process exits, crashes or is killed, and its threads with it.
ProcessEnds ==
  /\ mainAt # "off"
  /\ machine' = Fresh /\ mainAt' = "off" /\ woken' = FALSE /\ shutdown' = FALSE
  /\ beating' = NoThread /\ copies' = NoCopies
  /\ latest' = latest \ {"machine"}
  /\ outdated' = {} /\ undone' = FALSE
  /\ UNCHANGED <<marker, stateFile, starts>>

-------------------------------------------------------------------------------
\* The heartbeat threads.

HeartbeatLoad(t) ==
  /\ beating[t] = "asleep"
  /\ beating' = [beating EXCEPT ![t] = "loaded"]
  /\ copies' = [copies EXCEPT ![t] = FromNodeState(stateFile)]
  /\ outdated' = outdated \ {t}
  /\ UNCHANGED <<mainThread, marker, file, starts, undone>>

\* A writer puts back what it has loaded.
PutBack(w, f) == stateFile' = f /\ undone' = (undone \/ w \in outdated)

\* Seeded fault: the time is set in a copy that is not saved.
HeartbeatSaveSame(t) ==
  /\ beating[t] = "loaded"
  /\ PutBack(t, ToNodeState(copies[t])) /\ latest' = {}
  /\ beating' = [beating EXCEPT ![t] = IF shutdown THEN "none" ELSE "asleep"]
  /\ copies' = [copies EXCEPT ![t] = Fresh]
  /\ UNCHANGED <<mainThread, marker, starts, outdated>>

HeartbeatSave(t) ==
  /\ beating[t] = "loaded"
  /\ PutBack(t, ToNodeState(copies[t])) /\ latest' = {"file"}
  /\ beating' = [beating EXCEPT ![t] = IF shutdown THEN "none" ELSE "asleep"]
  /\ copies' = [copies EXCEPT ![t] = Fresh]
  /\ UNCHANGED <<mainThread, marker, starts, outdated>>

-------------------------------------------------------------------------------
\* The orchestrator's marks: dead of Passes 5 and 7b and of mark_cycle_dead, and
\* diagnosing of trigger_auto_fix, whatever the file says by then.

MarkLoad ==
  /\ ~marks /\ starts > 0 /\ marked < MaxMarks
  /\ marks' = TRUE /\ marked' = marked + 1 /\ marking' = stateFile /\ latest' = Copied("file", "marking")
  /\ outdated' = outdated \ {"orchestrator"}
  /\ UNCHANGED <<mainThread, beatThreads, stateFile, starts, undone>>

MarkSave ==
  /\ marks
  /\ \E s \in {"dead", "diagnosing"} :
       PutBack("orchestrator", [marking EXCEPT !.current = s])
  /\ marks' = FALSE /\ marking' = ToNodeState(Fresh)
  /\ latest' = Copied("marking", "file") \ {"marking"}
  /\ UNCHANGED <<mainThread, beatThreads, marked, starts, outdated>>

-------------------------------------------------------------------------------
InLoop ==
  \/ LoopBudget \/ \E passed \in BOOLEAN : LoopGate(passed)
  \/ LoopGateError \/ LoopNothing \/ WakeFlow \/ LoopSaves \/ LoopStops

Heartbeat(t) == HeartbeatLoad(t) \/ HeartbeatSave(t)

StateNext ==
  \/ Begin \/ Initialize \/ AgentMoves \/ AgentSaves
  \/ CallLoop \/ InLoop \/ ProcessEnds
  \/ \E t \in BeatThreads : Heartbeat(t)
  \/ MarkLoad \/ MarkSave

StateSpec == StateInit /\ [][StateNext]_stateVars

\* run_node_loop runs on, and a heartbeat thread that sleeps wakes up.
StateFairness ==
  WF_stateVars(InLoop) /\ \A t \in BeatThreads : WF_stateVars(Heartbeat(t))

-------------------------------------------------------------------------------
StateTypeOK ==
  /\ machine \in Machine
  /\ mainAt \in Places
  /\ woken \in BOOLEAN /\ shutdown \in BOOLEAN
  /\ beating \in [BeatThreads -> {"none", "asleep", "loaded"}]
  /\ copies \in [BeatThreads -> Machine]
  /\ stateFile \in NodeState /\ marking \in NodeState
  /\ marks \in BOOLEAN
  /\ latest \subseteq {"machine", "file", "marking"}
  /\ starts \in Nat /\ marked \in Nat
  /\ outdated \subseteq BeatThreads \union {"orchestrator"}
  /\ undone \in BOOLEAN

Up == mainAt \notin {"off", "booting"}
Marked(f) == f.current \in {"dead", "diagnosing"}
SameState(f, m) ==
  f.current = m.current /\ f.sequence = m.sequence /\ f.retryCount = m.retryCount

\* The sequence in state.toml names a state of the process: it never runs ahead of
\* the machine in memory, and where the two are equal so are the status and the
\* retries, whatever the other writers have copied back in between; a mark excepted.
\* check_toc_tou of the deliverables takes the sequence for the state.
SequenceTellsState ==
  Up /\ ~Marked(stateFile) =>
    /\ stateFile.sequence <= machine.sequence
    /\ stateFile.sequence = machine.sequence => SameState(stateFile, machine)

\* When run_node_loop has returned a result it wrote, state.toml holds it, unless a
\* heartbeat thread or the orchestrator has put an older state back over it.
ResultIsWritten ==
  mainAt = "returned" /\ ~undone => SameState(stateFile, machine) \/ Marked(stateFile)

NoneBeats == \A t \in BeatThreads : beating[t] = "none"

\* A main thread that returns a result of the loop stops every heartbeat thread, those
\* that calls before it left behind included; one that was asleep beats once more.
BeatsStop == (mainAt = "save") ~> NoneBeats

\* What the comment on NodeState::save says of state.toml: every save by the node's
\* main thread leaves the latest heartbeat in it.
SaveUpdatesHeartbeat == [][AgentSaves \/ LoopSaves => "file" \in latest']_stateVars

\* A heartbeat that the main thread or the orchestrator has put back to an older one
\* is repaired, as long as a heartbeat thread goes on.
BeatIsRepaired == (Up /\ "file" \notin latest) ~> ("file" \in latest \/ NoneBeats)
===============================================================================
