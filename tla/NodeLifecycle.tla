---------------------------- MODULE NodeLifecycle -----------------------------
(***************************************************************************)
(* The state machine every CortexForge node carries (forge-core/src/       *)
(* state.rs, StateMachine) driven by the agent's calls and by the SDK's    *)
(* run_node_loop (forge-sdk/src/runtime.rs).                               *)
(*                                                                         *)
(* A method that returns Err changes nothing and is an action that is not  *)
(* enabled, with one exception the model keeps: check_wallclock records    *)
(* the elapsed time before die() refuses.  Summaries, percentages and task *)
(* ids are left out; of the summary the model keeps the cause of a death.  *)
(***************************************************************************)
EXTENDS Integers

CONSTANTS
  MaxRetries,        \* FORGE_MAX_RETRIES, 3 by default
  MaxWallclock,      \* FORGE_MAX_WALLCLOCK_SEC, 1800 by default
  U64,               \* 2^64: the width `as u64` wraps a difference of times to
  ClockMayStepBack,  \* can the system clock (Utc::now) be set back?
  MaxTime,           \* bound: the last second of the clock
  MaxSequence        \* bound: state changes of one process

ASSUME LifecycleAssumption ==
  /\ MaxRetries \in Nat
  /\ MaxWallclock \in Nat
  /\ MaxTime \in Nat
  /\ MaxSequence \in Nat
  /\ ClockMayStepBack \in BOOLEAN
  /\ U64 \in Nat /\ U64 > MaxTime + MaxWallclock

VARIABLES
  sm,        \* the StateMachine of the node's main thread
  now,       \* Utc::now(), in seconds
  returned   \* what run_node_loop returned last, "none" before the first call

vars == <<sm, now, returned>>

Statuses == {"idle", "assigned", "planning", "implementing", "blocked",
             "verifying", "delivered", "dead", "monitoring", "diagnosing"}

Causes == {"none", "verify", "wallclock", "ttl", "killed"}

Terminal == {"delivered", "dead"}

ValidTransitions ==
  {<<"idle", "assigned">>, <<"idle", "dead">>, <<"assigned", "planning">>,
   <<"planning", "implementing">>, <<"blocked", "implementing">>,
   <<"verifying", "implementing">>, <<"planning", "blocked">>,
   <<"implementing", "blocked">>, <<"implementing", "verifying">>,
   <<"implementing", "dead">>, <<"blocked", "dead">>, <<"verifying", "dead">>,
   <<"verifying", "delivered">>, <<"delivered", "monitoring">>,
   <<"monitoring", "diagnosing">>, <<"monitoring", "dead">>,
   <<"diagnosing", "implementing">>}

New == [current |-> "idle", sequence |-> 0, retryCount |-> 0,
        lastResult |-> "none", cause |-> "none",
        wallclockUsed |-> 0, startedAt |-> now]

\* transition(): the new status and one more state change.
CanMove(s, to) == <<s.current, to>> \in ValidTransitions
Moved(s, to) == [s EXCEPT !.current = to, !.sequence = @ + 1]

\* die(): its own list of statuses, then the table transition() consults.
CanDie(s) ==
  /\ \/ s.current \in {"idle", "implementing", "blocked", "verifying"}
     \/ CanMove(s, "dead")
  /\ CanMove(s, "dead")
Died(s, why) == [Moved(s, "dead") EXCEPT !.cause = why]

-------------------------------------------------------------------------------
\* The agent's calls.

Step(from, to) ==
  /\ sm.current = from
  /\ CanMove(sm, to)
  /\ sm' = Moved(sm, to)
  /\ UNCHANGED <<now, returned>>

\* Seeded fault: the feedback loop hands out the retries again.
DiagnosisCompleteForgiving ==
  /\ sm.current = "diagnosing"
  /\ sm' = [Moved(sm, "implementing") EXCEPT !.retryCount = 0]
  /\ UNCHANGED <<now, returned>>

Assign             == Step("idle", "assigned")
StartPlanning      == Step("assigned", "planning")
StartImplementing  == Step("planning", "implementing")
Block              == Step("implementing", "blocked")
ResumeAfterBlocked == Step("blocked", "implementing")
StartVerifying     == Step("implementing", "verifying")
StartMonitoring    == Step("delivered", "monitoring")
AnomalyDetected    == Step("monitoring", "diagnosing")
DiagnosisComplete  == Step("diagnosing", "implementing")

DieTtl ==
  /\ sm.current = "idle"
  /\ sm' = Died(sm, "ttl")
  /\ UNCHANGED <<now, returned>>

Die ==
  /\ CanDie(sm)
  /\ sm' = Died(sm, "killed")
  /\ UNCHANGED <<now, returned>>

-------------------------------------------------------------------------------
\* run_node_loop(): the wallclock check, then the verify gate.

Elapsed == (now - sm.startedAt) % U64

\* Seeded fault: the budget check is off by one second.
ExhaustedEarly == Elapsed + 1 >= MaxWallclock

Exhausted == Elapsed >= MaxWallclock

Checked(s) == [s EXCEPT !.wallclockUsed = Elapsed]

Delivered(s) == [Moved(s, "delivered") EXCEPT !.lastResult = "pass"]
Retried(s) == [Moved(s, "implementing") EXCEPT
                 !.retryCount = @ + 1, !.lastResult = "fail"]
VerifyDead(s) == [Died(s, "verify") EXCEPT !.lastResult = "fail"]

\* Seeded fault: the loop compares retry_count > max_retries.
FailedOneTooMany(s) == IF s.retryCount > MaxRetries THEN VerifyDead(s) ELSE Retried(s)

\* Seeded fault: the loop counts the failure before it compares.
FailedOneTooFew(s) == IF s.retryCount + 1 >= MaxRetries THEN VerifyDead(s) ELSE Retried(s)

Failed(s) == IF s.retryCount >= MaxRetries THEN VerifyDead(s) ELSE Retried(s)

\* Seeded fault: check_wallclock without its early return on a terminal status.
LoopOutOfBudgetUnguarded ==
  /\ Exhausted
  /\ sm' = IF CanDie(sm) THEN Died(Checked(sm), "wallclock") ELSE Checked(sm)
  /\ returned' = "dead"
  /\ UNCHANGED now

\* check_wallclock answers Ok(false), or Err when die() refuses: both make the
\* loop return Dead.
LoopOutOfBudget ==
  /\ sm.current \notin Terminal
  /\ Exhausted
  /\ sm' = IF CanDie(sm) THEN Died(Checked(sm), "wallclock") ELSE Checked(sm)
  /\ returned' = "dead"
  /\ UNCHANGED now

LoopVerify(passed) ==
  /\ sm.current = "verifying"
  /\ ~Exhausted
  /\ sm' = IF passed THEN Delivered(Checked(sm)) ELSE Failed(Checked(sm))
  /\ returned' = sm'.current
  /\ UNCHANGED now

LoopNothingToDo ==
  /\ sm.current # "verifying"
  /\ sm.current \in Terminal \/ ~Exhausted
  /\ sm' = IF sm.current \in Terminal THEN sm ELSE Checked(sm)
  /\ returned' = sm.current
  /\ UNCHANGED now

RunNodeLoop ==
  \/ LoopOutOfBudget
  \/ \E passed \in BOOLEAN : LoopVerify(passed)
  \/ LoopNothingToDo

-------------------------------------------------------------------------------
\* The clock.

Tick ==
  /\ now < MaxTime
  /\ now' = now + 1
  /\ UNCHANGED <<sm, returned>>

StepBack ==
  /\ ClockMayStepBack
  /\ now > 0
  /\ now' \in 0 .. now - 1
  /\ UNCHANGED <<sm, returned>>

-------------------------------------------------------------------------------
\* A process starts at some second of the clock.
Init ==
  /\ now \in 0 .. MaxTime
  /\ sm = New
  /\ returned = "none"

AgentCall ==
  \/ Assign \/ StartPlanning \/ StartImplementing
  \/ Block \/ ResumeAfterBlocked \/ StartVerifying
  \/ StartMonitoring \/ AnomalyDetected \/ DiagnosisComplete
  \/ DieTtl \/ Die

Next ==
  \/ sm.sequence < MaxSequence /\ (AgentCall \/ RunNodeLoop)
  \/ Tick
  \/ StepBack

Spec == Init /\ [][Next]_vars

-------------------------------------------------------------------------------
StateMachine ==
  [current : Statuses, sequence : Nat, retryCount : 0 .. MaxRetries,
   lastResult : {"none", "pass", "fail"}, cause : Causes,
   wallclockUsed : Nat, startedAt : 0 .. MaxTime]

\* Type invariant: every variable holds a value of the type the source gives it.
TypeOK ==
  /\ now \in 0 .. MaxTime
  /\ returned \in Statuses \union {"none"}
  /\ sm \in StateMachine

\* A node whose code is out (delivered, monitored or being diagnosed) passed
\* the last verification it ran, however often the feedback loop sent it back,
\* and one that died of verification had spent every retry (deliver,
\* retry_verify, die_verify_exhausted and the branch of run_node_loop).
VerifiedDelivery ==
  /\ sm.current \in {"delivered", "monitoring", "diagnosing"}
       => sm.lastResult = "pass"
  /\ sm.cause = "verify" => sm.retryCount = MaxRetries
  /\ sm.retryCount = 0 => sm.cause = "verify" \/ sm.lastResult # "fail"

\* A dead node keeps its status, its cause and its place in the sequence,
\* whatever is called afterwards; every other change of status is numbered.
DeadIsFinal ==
  [][/\ sm.current = "dead" => sm' = sm
     /\ sm'.current # sm.current => sm'.sequence = sm.sequence + 1]_vars

\* The gate of VerifyGate, seen in a node's status.
PhaseOf(status) ==
  CASE status = "verifying" -> "gate"
    [] status \in {"delivered", "monitoring", "diagnosing"} -> "open"
    [] status = "dead" -> "dead"
    [] OTHER -> "work"

Gate == INSTANCE VerifyGate
          WITH phase <- PhaseOf(sm.current), failures <- sm.retryCount,
               cause <- sm.cause

\* The lifecycle implements the verify gate: no call sequence delivers around
\* it, spends more retries than granted, or dies of it with retries left.
ImplementsGate == Gate!GateSpec

\* What run_node_loop and the comment on check_wallclock say: when the loop
\* reports a node dead of its budget, the node is dead.
ReportedDeadIsDead == returned = "dead" => sm.current = "dead"

\* A node dies of its wallclock budget only when the budget is used up, or when
\* the clock was set back to before its start: the negative difference wraps
\* (`num_seconds() as u64`) and ends the node at once.
WallclockDeathExplained ==
  [][sm'.cause = "wallclock" /\ sm.cause # "wallclock"
       => now - sm.startedAt >= MaxWallclock \/ now < sm.startedAt]_vars
===============================================================================
