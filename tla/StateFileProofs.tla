---------------------------- MODULE StateFileProofs ----------------------------
(***************************************************************************)
(* Proofs about StateFile, for any number of heartbeat threads, processes, *)
(* state changes and marks: its types, SequenceTellsState and              *)
(* ResultIsWritten.                                                        *)
(***************************************************************************)
EXTENDS StateFile, TLAPS

-------------------------------------------------------------------------------
\* What the conversions and transition() return.

LEMMA ToNodeStateType ==
  ASSUME NEW m \in Machine
  PROVE  ToNodeState(m) \in NodeState /\ SameState(ToNodeState(m), m)
  BY DEF ToNodeState, Machine, NodeState, SameState

LEMMA FromNodeStateType ==
  ASSUME NEW f \in NodeState
  PROVE  /\ FromNodeState(f) \in Machine
         /\ FromNodeState(f).current = f.current
         /\ FromNodeState(f).sequence = f.sequence
         /\ FromNodeState(f).retryCount = f.retryCount
  BY StateFileAssumption DEF FromNodeState, Machine, NodeState

LEMMA ChangedType ==
  ASSUME NEW m \in Machine, NEW to \in NodeStatuses
  PROVE  /\ Changed(m, to) \in Machine
         /\ Changed(m, to).sequence = m.sequence + 1
<1> DEFINE r == [m EXCEPT !.current = to]
<1>1. r \in Machine /\ r.sequence = m.sequence
  BY DEF Machine
<1>2. m.sequence + 1 \in Nat
  BY DEF Machine
<1>3. Changed(m, to) = [r EXCEPT !.sequence = m.sequence + 1]
  BY DEF Changed, Machine
<1> HIDE DEF r
<1> QED
  BY <1>1, <1>2, <1>3 DEF Machine

LEMMA RetriedType ==
  ASSUME NEW m \in Machine
  PROVE  /\ [Changed(m, "working") EXCEPT !.retryCount = @ + 1] \in Machine
         /\ [Changed(m, "working") EXCEPT !.retryCount = @ + 1].sequence = m.sequence + 1
<1> DEFINE r == Changed(m, "working")
<1>1. r \in Machine /\ r.sequence = m.sequence + 1
  BY ChangedType DEF NodeStatuses
<1> HIDE DEF r
<1>2. [r EXCEPT !.retryCount = @ + 1] \in Machine
  BY <1>1 DEF Machine
<1>3. [r EXCEPT !.retryCount = @ + 1].sequence = m.sequence + 1
  BY <1>1 DEF Machine
<1> QED
  BY <1>2, <1>3 DEF r

LEMMA FreshType == Fresh \in Machine
  BY StateFileAssumption DEF Fresh, Machine, NodeStatuses

LEMMA MarkType ==
  ASSUME NEW f \in NodeState, NEW s \in {"dead", "diagnosing"}
  PROVE  /\ [f EXCEPT !.current = s] \in NodeState
         /\ Marked([f EXCEPT !.current = s])
  BY DEF NodeState, NodeStatuses, Marked

-------------------------------------------------------------------------------
\* The main thread in run_node_loop leaves it with the machine as it was or with a
\* later one.

Later(m) == m \in Machine /\ m.sequence > machine.sequence

LEMMA InLoopLeaves ==
  ASSUME StateTypeOK,
         LoopBudget \/ (\E passed \in BOOLEAN : LoopGate(passed)) \/ LoopGateError \/ WakeFlow
  PROVE  /\ mainAt = "loop" /\ mainAt' \in {"save", "saveWoken", "agent"}
         /\ machine' = machine \/ Later(machine')
         /\ UNCHANGED <<woken, shutdown, beatThreads, marker, file, starts, history>>
<1> USE DEF StateTypeOK
<1>0. machine \in Machine /\ {"dead", "delivered", "working"} \subseteq NodeStatuses
  BY DEF NodeStatuses
<1>1. CASE LoopBudget
  <2>1. PICK dies \in MayDie(machine) :
          Leave(IF dies THEN Changed(machine, "dead") ELSE machine, "save")
    BY <1>1 DEF LoopBudget
  <2>2. machine' = machine \/ machine' = Changed(machine, "dead")
    BY <2>1 DEF Leave
  <2>3. machine' = machine \/ Later(machine')
    BY <1>0, <2>2, ChangedType DEF Later, Machine
  <2> QED
    BY <1>1, <2>1, <2>3 DEF LoopBudget, Leave
<1>2. ASSUME NEW passed \in BOOLEAN, LoopGate(passed)
      PROVE  /\ mainAt = "loop" /\ mainAt' = "save"
             /\ Later(machine')
             /\ UNCHANGED <<woken, shutdown, beatThreads, marker, file, starts, history>>
  <2>1. machine' \in {Changed(machine, "delivered"), Changed(machine, "dead"),
                      [Changed(machine, "working") EXCEPT !.retryCount = @ + 1]}
    BY <1>2 DEF LoopGate, Leave
  <2>2. Later(machine')
    BY <1>0, <2>1, ChangedType, RetriedType DEF Later, Machine
  <2> QED
    BY <1>2, <2>2 DEF LoopGate, Leave
<1>3. CASE LoopGateError
  BY <1>3 DEF LoopGateError, Leave
<1>4. CASE WakeFlow
  <2>1. machine' = machine \/ machine' = Changed(machine, "delivered")
    BY <1>4 DEF WakeFlow, Leave
  <2>2. machine' = machine \/ Later(machine')
    BY <1>0, <2>1, ChangedType DEF Later, Machine
  <2> QED
    BY <1>4, <2>2 DEF WakeFlow, Leave
<1> QED
  BY <1>1, <1>2, <1>3, <1>4

LEMMA AgentMovesLater ==
  ASSUME StateTypeOK, AgentMoves
  PROVE  /\ mainAt \in {"agent", "returned"} /\ mainAt' = "agent"
         /\ Later(machine')
         /\ UNCHANGED <<woken, shutdown, beatThreads, marker, file, starts, history>>
<1>1. PICK to \in NodeStatuses : machine' = Changed(machine, to)
  BY DEF AgentMoves
<1>2. Later(machine')
  BY <1>1, ChangedType DEF Later, Machine, StateTypeOK
<1> QED
  BY <1>2 DEF AgentMoves, AtAgent

-------------------------------------------------------------------------------
\* Types.

LEMMA StateTypeInit == StateInit => StateTypeOK
<1> SUFFICES ASSUME StateInit PROVE StateTypeOK
  OBVIOUS
<1>1. Fresh \in Machine /\ ToNodeState(Fresh) \in NodeState
  BY FreshType, ToNodeStateType
<1> QED
  BY <1>1 DEF StateInit, StateTypeOK, Places, NoThread, NoCopies

LEMMA StateTypeNext == StateTypeOK /\ [StateNext]_stateVars => StateTypeOK'
<1> SUFFICES ASSUME StateTypeOK, [StateNext]_stateVars PROVE StateTypeOK'
  OBVIOUS
<1> USE DEF StateTypeOK, mainThread, beatThreads, marker, file, history
<1>0. ToNodeState(machine) \in NodeState
  BY ToNodeStateType
<1>1. CASE Begin
  BY <1>1 DEF Begin, Places
<1>2. CASE Initialize
  BY <1>0, <1>2 DEF Initialize, Saved, Places
<1>3. CASE AgentMoves
  BY <1>3, AgentMovesLater DEF Later, Places
<1>4. CASE AgentSaves
  BY <1>0, <1>4 DEF AgentSaves, Saved, Copied
<1>5. CASE CallLoop
  <2>1. PICK t \in BeatThreads :
          beating' = [beating EXCEPT ![t] = IF shutdown THEN "none" ELSE "asleep"]
    BY <1>5 DEF CallLoop
  <2>2. beating' \in [BeatThreads -> {"none", "asleep", "loaded"}]
    BY <2>1
  <2> QED
    BY <1>5, <2>2 DEF CallLoop, Places
<1>6. CASE LoopBudget \/ (\E passed \in BOOLEAN : LoopGate(passed)) \/ LoopGateError \/ WakeFlow
  BY <1>6, InLoopLeaves DEF Later, Places
<1>7. CASE LoopNothing
  BY <1>7 DEF LoopNothing, Places
<1>8. CASE LoopSaves
  BY <1>0, <1>8 DEF LoopSaves, Saved, Copied, Places
<1>9. CASE LoopStops
  BY <1>9 DEF LoopStops, Places
<1>10. CASE ProcessEnds
  BY <1>10, FreshType DEF ProcessEnds, Places, NoThread, NoCopies
<1>11. ASSUME NEW t \in BeatThreads, HeartbeatLoad(t) PROVE StateTypeOK'
  <2>1. copies' \in [BeatThreads -> Machine]
    BY <1>11, FromNodeStateType DEF HeartbeatLoad
  <2> QED
    BY <1>11, <2>1 DEF HeartbeatLoad
<1>12. ASSUME NEW t \in BeatThreads, HeartbeatSave(t) PROVE StateTypeOK'
  <2>1. copies' \in [BeatThreads -> Machine] /\ stateFile' \in NodeState
    BY <1>12, FreshType, ToNodeStateType DEF HeartbeatSave, PutBack
  <2>2. beating' \in [BeatThreads -> {"none", "asleep", "loaded"}]
    BY <1>12 DEF HeartbeatSave
  <2> QED
    BY <1>12, <2>1, <2>2 DEF HeartbeatSave, PutBack
<1>13. CASE MarkLoad
  BY <1>13 DEF MarkLoad, Copied
<1>14. CASE MarkSave
  <2>1. stateFile' \in NodeState /\ undone' \in BOOLEAN
    BY <1>14, MarkType DEF MarkSave, PutBack
  <2>2. marking' \in NodeState
    BY <1>14, FreshType, ToNodeStateType DEF MarkSave
  <2> QED
    BY <1>14, <2>1, <2>2 DEF MarkSave, Copied
<1>15. CASE UNCHANGED stateVars
  BY <1>15 DEF stateVars
<1> QED
  BY <1>1, <1>2, <1>3, <1>4, <1>5, <1>6, <1>7, <1>8, <1>9, <1>10, <1>11, <1>12, <1>13,
     <1>14, <1>15 DEF StateNext, InLoop, Heartbeat

\* Every variable of the state file's writers holds a value of its type.
THEOREM StateTypeCorrect == StateSpec => []StateTypeOK
  BY StateTypeInit, StateTypeNext, PTL DEF StateSpec

-------------------------------------------------------------------------------
\* The sequence.  A state the process was once in has a smaller sequence than the
\* machine or is the machine's; a mark may have any.

Known(f) == Marked(f) \/ f.sequence < machine.sequence \/ SameState(f, machine)

\* Threads live in a process that is up, and what they have loaded is known.
KnownInv ==
  /\ Up => Known(stateFile)
  /\ \A t \in BeatThreads : beating[t] # "none" => Up
  /\ \A t \in BeatThreads : beating[t] = "loaded" => Known(copies[t])

LEMMA KnownInit == StateInit => KnownInv
  BY DEF StateInit, KnownInv, Up, NoThread

LEMMA LaterKnown ==
  ASSUME NEW f, f.sequence \in Nat, StateTypeOK, Later(machine') \/ machine' = machine, Known(f)
  PROVE  Marked(f) \/ f.sequence < machine'.sequence \/ SameState(f, machine')
<1>1. machine.sequence \in Nat
  BY DEF StateTypeOK, Machine
<1>2. CASE machine' = machine
  BY <1>2 DEF Known
<1>3. CASE Later(machine')
  <2>1. machine'.sequence \in Nat /\ machine'.sequence > machine.sequence
    BY <1>3 DEF Later, Machine
  <2>2. Marked(f) \/ f.sequence <= machine.sequence
    BY <1>1 DEF Known, SameState
  <2> QED
    BY <1>1, <2>1, <2>2
<1> QED
  BY <1>2, <1>3

\* A step that changes the machine only, in a process that is up, keeps the invariant.
LEMMA MachineStep ==
  ASSUME StateTypeOK, KnownInv, Up, Up', Later(machine') \/ machine' = machine,
         UNCHANGED <<stateFile, beating, copies>>
  PROVE  KnownInv'
<1>1. stateFile.sequence \in Nat /\ \A t \in BeatThreads : copies[t].sequence \in Nat
  BY DEF StateTypeOK, NodeState, Machine
<1>2. Known(stateFile)'
  BY <1>1, LaterKnown DEF KnownInv, Known, Marked, SameState
<1>3. ASSUME NEW t \in BeatThreads, beating[t] = "loaded" PROVE Known(copies[t])'
  BY <1>1, <1>3, LaterKnown DEF KnownInv, Known, Marked, SameState
<1> QED
  BY <1>2, <1>3 DEF KnownInv

\* So does a save of the machine.
LEMMA SaveStep ==
  ASSUME StateTypeOK, KnownInv, Up', Saved(machine), UNCHANGED <<machine, beating, copies>>
  PROVE  KnownInv'
<1>1. SameState(stateFile', machine)
  BY ToNodeStateType DEF Saved, StateTypeOK
<1> QED
  BY <1>1 DEF KnownInv, Known, SameState, Marked

LEMMA KnownNext == StateTypeOK /\ KnownInv /\ [StateNext]_stateVars => KnownInv'
<1> SUFFICES ASSUME StateTypeOK, KnownInv, [StateNext]_stateVars PROVE KnownInv'
  OBVIOUS
<1> USE DEF mainThread, beatThreads, marker, file, history
<1>1. CASE Begin
  BY <1>1 DEF Begin, KnownInv, Up
<1>2. CASE Initialize
  BY <1>2, SaveStep DEF Initialize, Up
<1>3. CASE AgentMoves
  BY <1>3, AgentMovesLater, MachineStep DEF Up
<1>4. CASE AgentSaves
  BY <1>4, SaveStep DEF AgentSaves, AtAgent, Up
<1>5. CASE CallLoop
  <2>1. PICK t \in BeatThreads :
          /\ beating[t] = "none"
          /\ beating' = [beating EXCEPT ![t] = IF shutdown THEN "none" ELSE "asleep"]
    BY <1>5 DEF CallLoop
  <2>2. \A u \in BeatThreads : beating'[u] = "loaded" => beating[u] = "loaded"
    BY <2>1 DEF StateTypeOK
  <2>3. Up /\ Up' /\ UNCHANGED <<machine, stateFile, copies>>
    BY <1>5 DEF CallLoop, AtAgent, Up
  <2> QED
    BY <2>2, <2>3 DEF KnownInv, Known, Marked, SameState
<1>6. CASE LoopBudget \/ (\E passed \in BOOLEAN : LoopGate(passed)) \/ LoopGateError \/ WakeFlow
  BY <1>6, InLoopLeaves, MachineStep DEF Up
<1>7. CASE LoopNothing
  BY <1>7, MachineStep DEF LoopNothing, Up
<1>8. CASE LoopSaves
  BY <1>8, SaveStep DEF LoopSaves, Up
<1>9. CASE LoopStops
  BY <1>9, MachineStep DEF LoopStops, Up
<1>10. CASE ProcessEnds
  BY <1>10 DEF ProcessEnds, KnownInv, Up, NoThread
<1>11. ASSUME NEW t \in BeatThreads, HeartbeatLoad(t) PROVE KnownInv'
  <2>1. Up /\ Up' /\ UNCHANGED <<machine, stateFile>>
    BY <1>11 DEF HeartbeatLoad, KnownInv, Up
  <2>2. \A u \in BeatThreads : copies'[u] = IF u = t THEN FromNodeState(stateFile) ELSE copies[u]
    BY <1>11 DEF HeartbeatLoad, StateTypeOK
  <2>3. \A u \in BeatThreads \ {t} : beating'[u] = beating[u]
    BY <1>11 DEF HeartbeatLoad, StateTypeOK
  <2>4. Known(stateFile)
    BY <2>1 DEF KnownInv
  <2>5. Known(FromNodeState(stateFile))
    BY <2>4, FromNodeStateType DEF Known, Marked, SameState, StateTypeOK
  <2> QED
    BY <2>1, <2>2, <2>3, <2>4, <2>5 DEF KnownInv, Known, Marked, SameState
<1>12. ASSUME NEW t \in BeatThreads, HeartbeatSave(t) PROVE KnownInv'
  <2>1. Up /\ Up' /\ UNCHANGED machine
    BY <1>12 DEF HeartbeatSave, KnownInv, Up
  <2>2. Known(copies[t])
    BY <1>12 DEF HeartbeatSave, KnownInv
  <2>3. Known(ToNodeState(copies[t]))
    BY <2>2 DEF ToNodeState, Known, Marked, SameState
  <2>4. stateFile' = ToNodeState(copies[t])
    BY <1>12 DEF HeartbeatSave, PutBack
  <2>5. \A u \in BeatThreads : beating'[u] = "loaded" => u # t /\ beating[u] = "loaded"
    BY <1>12 DEF HeartbeatSave, StateTypeOK
  <2>6. \A u \in BeatThreads \ {t} : copies'[u] = copies[u]
    BY <1>12 DEF HeartbeatSave, StateTypeOK
  <2> QED
    BY <2>1, <2>3, <2>4, <2>5, <2>6 DEF KnownInv, Known, Marked, SameState
<1>13. CASE MarkLoad
  BY <1>13 DEF MarkLoad, KnownInv, Known, Marked, SameState, Up
<1>14. CASE MarkSave
  <2>1. Marked(stateFile')
    BY <1>14, MarkType DEF MarkSave, PutBack, StateTypeOK
  <2> QED
    BY <1>14, <2>1 DEF MarkSave, KnownInv, Known, Marked, SameState, Up
<1>15. CASE UNCHANGED stateVars
  BY <1>15 DEF stateVars, KnownInv, Known, Marked, SameState, Up
<1> QED
  BY <1>1, <1>2, <1>3, <1>4, <1>5, <1>6, <1>7, <1>8, <1>9, <1>10, <1>11, <1>12, <1>13,
     <1>14, <1>15 DEF StateNext, InLoop, Heartbeat

\* The sequence in state.toml names a state of the process (StateFile).
THEOREM SequenceTellsStateHolds == StateSpec => []SequenceTellsState
<1>1. StateTypeOK /\ KnownInv => SequenceTellsState
  BY DEF StateTypeOK, KnownInv, Known, SequenceTellsState, SameState, Machine, NodeState
<1> QED
  BY <1>1, StateTypeInit, StateTypeNext, KnownInit, KnownNext, PTL DEF StateSpec

-------------------------------------------------------------------------------
\* The result.  From the save of the result on, the file holds it, and so does what
\* a thread has loaded since, as long as no outdated writer has saved.

Result(f) == Marked(f) \/ SameState(f, machine)

HasResult == mainAt \in {"stop", "returned"} /\ ~undone

ResultInv ==
  HasResult =>
    /\ Result(stateFile)
    /\ \A t \in BeatThreads : beating[t] = "loaded" /\ t \notin outdated => Result(copies[t])

LEMMA ResultInit == StateInit => ResultInv
  BY DEF StateInit, ResultInv, HasResult

LEMMA ResultNext == StateTypeOK /\ ResultInv /\ [StateNext]_stateVars => ResultInv'
<1> SUFFICES ASSUME StateTypeOK, ResultInv, [StateNext]_stateVars PROVE ResultInv'
  OBVIOUS
<1> USE DEF mainThread, beatThreads, marker, file, history
<1>1. CASE Begin \/ Initialize \/ CallLoop \/ LoopNothing \/ ProcessEnds
  BY <1>1 DEF Begin, Initialize, CallLoop, LoopNothing, ProcessEnds, ResultInv, HasResult
<1>2. CASE AgentMoves
  BY <1>2, AgentMovesLater DEF ResultInv, HasResult
<1>3. CASE LoopBudget \/ (\E passed \in BOOLEAN : LoopGate(passed)) \/ LoopGateError \/ WakeFlow
  BY <1>3, InLoopLeaves DEF ResultInv, HasResult
<1>4. CASE AgentSaves \/ LoopSaves
  <2>1. Saved(machine) /\ UNCHANGED <<machine, beating, copies>>
    BY <1>4 DEF AgentSaves, LoopSaves
  <2>2. SameState(stateFile', machine)
    BY <2>1, ToNodeStateType DEF Saved, StateTypeOK
  <2>3. \A t \in BeatThreads : beating'[t] = "loaded" => t \in outdated'
    BY <2>1 DEF Saved
  <2> QED
    BY <2>1, <2>2, <2>3 DEF ResultInv, Result, SameState
<1>5. CASE LoopStops
  BY <1>5 DEF LoopStops, ResultInv, HasResult, Result, Marked, SameState
<1>6. ASSUME NEW t \in BeatThreads, HeartbeatLoad(t) PROVE ResultInv'
  <2>1. \A u \in BeatThreads : copies'[u] = IF u = t THEN FromNodeState(stateFile) ELSE copies[u]
    BY <1>6 DEF HeartbeatLoad, StateTypeOK
  <2>2. \A u \in BeatThreads \ {t} : beating'[u] = beating[u] /\ (u \in outdated' <=> u \in outdated)
    BY <1>6 DEF HeartbeatLoad, StateTypeOK
  <2>3. UNCHANGED <<machine, mainAt, stateFile, undone>>
    BY <1>6 DEF HeartbeatLoad
  <2>4. Result(stateFile) => Result(FromNodeState(stateFile))
    BY FromNodeStateType DEF Result, Marked, SameState, StateTypeOK
  <2> QED
    BY <2>1, <2>2, <2>3, <2>4 DEF ResultInv, HasResult, Result, Marked, SameState
<1>7. ASSUME NEW t \in BeatThreads, HeartbeatSave(t) PROVE ResultInv'
  <2>1. /\ stateFile' = ToNodeState(copies[t]) /\ undone' = (undone \/ t \in outdated)
        /\ UNCHANGED <<machine, mainAt, outdated>>
    BY <1>7 DEF HeartbeatSave, PutBack
  <2>2. Result(copies[t]) => Result(ToNodeState(copies[t]))
    BY DEF ToNodeState, Result, Marked, SameState
  <2>3. \A u \in BeatThreads : beating'[u] = "loaded" => u # t /\ beating[u] = "loaded"
    BY <1>7 DEF HeartbeatSave, StateTypeOK
  <2>4. \A u \in BeatThreads \ {t} : copies'[u] = copies[u]
    BY <1>7 DEF HeartbeatSave, StateTypeOK
  <2>5. beating[t] = "loaded"
    BY <1>7 DEF HeartbeatSave
  <2> QED
    BY <2>1, <2>2, <2>3, <2>4, <2>5 DEF ResultInv, HasResult, Result, Marked, SameState
<1>8. CASE MarkLoad
  <2>1. \A t \in BeatThreads : t \notin outdated' => t \notin outdated
    BY <1>8, StateFileAssumption DEF MarkLoad
  <2> QED
    BY <1>8, <2>1 DEF MarkLoad, ResultInv, HasResult, Result, Marked, SameState
<1>9. CASE MarkSave
  <2>1. Marked(stateFile') /\ (~undone' => ~undone)
    BY <1>9, MarkType DEF MarkSave, PutBack, StateTypeOK
  <2> QED
    BY <1>9, <2>1 DEF MarkSave, ResultInv, HasResult, Result, Marked, SameState
<1>10. CASE UNCHANGED stateVars
  BY <1>10 DEF stateVars, ResultInv, HasResult, Result, Marked, SameState
<1> QED
  BY <1>1, <1>2, <1>3, <1>4, <1>5, <1>6, <1>7, <1>8, <1>9, <1>10
     DEF StateNext, InLoop, Heartbeat

\* When run_node_loop has returned a result it wrote, state.toml holds it (StateFile).
THEOREM ResultIsWrittenHolds == StateSpec => []ResultIsWritten
<1>1. ResultInv => ResultIsWritten
  BY DEF ResultInv, HasResult, Result, ResultIsWritten
<1> QED
  BY <1>1, StateTypeInit, StateTypeNext, ResultInit, ResultNext, PTL DEF StateSpec
================================================================================
