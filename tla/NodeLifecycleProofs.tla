-------------------------- MODULE NodeLifecycleProofs --------------------------
(***************************************************************************)
(* Proofs about NodeLifecycle, for every retry limit, every budget and     *)
(* every clock.                                                            *)
(***************************************************************************)
EXTENDS NodeLifecycle, TLAPS

\* A node has a cause of death exactly when it is dead.
CauseOfDeath == sm.cause # "none" <=> sm.current = "dead"

\* The inductive invariant: VerifiedDelivery speaks of the cause of a death,
\* and needs to know that a node with a cause does not go on.
Inv == TypeOK /\ VerifiedDelivery /\ CauseOfDeath

-------------------------------------------------------------------------------
\* The wrapped difference of two times is a number, and the true difference
\* unless the clock was set back.
LEMMA ElapsedType ==
  ASSUME NEW a \in 0 .. MaxTime, NEW b \in 0 .. MaxTime
  PROVE  /\ (a - b) % U64 \in Nat
         /\ a >= b => (a - b) % U64 = a - b
  BY LifecycleAssumption

LEMMA InvInit == Init => Inv
  BY LifecycleAssumption DEF Init, Inv, TypeOK, VerifiedDelivery, CauseOfDeath,
     StateMachine, New, Statuses, Causes

LEMMA MovedType ==
  ASSUME NEW s \in StateMachine, NEW to \in Statuses
  PROVE  /\ Moved(s, to) \in StateMachine
         /\ Moved(s, to).current = to
         /\ Moved(s, to).sequence = s.sequence + 1
         /\ Moved(s, to).lastResult = s.lastResult
         /\ Moved(s, to).cause = s.cause
         /\ Moved(s, to).retryCount = s.retryCount
         /\ Moved(s, to).wallclockUsed = s.wallclockUsed
         /\ Moved(s, to).startedAt = s.startedAt
<1> DEFINE r == [s EXCEPT !.current = to]
<1>1. /\ r \in StateMachine /\ r.current = to
      /\ r.sequence = s.sequence /\ r.lastResult = s.lastResult
      /\ r.cause = s.cause /\ r.retryCount = s.retryCount
      /\ r.wallclockUsed = s.wallclockUsed /\ r.startedAt = s.startedAt
  BY DEF StateMachine
<1>2. s.sequence + 1 \in Nat
  BY DEF StateMachine
<1>3. Moved(s, to) = [r EXCEPT !.sequence = s.sequence + 1]
  BY DEF Moved, StateMachine
<1> HIDE DEF r
<1> QED
  BY <1>1, <1>2, <1>3 DEF StateMachine

LEMMA DiedType ==
  ASSUME NEW s \in StateMachine, NEW why \in Causes
  PROVE  /\ Died(s, why) \in StateMachine
         /\ Died(s, why).current = "dead"
         /\ Died(s, why).sequence = s.sequence + 1
         /\ Died(s, why).lastResult = s.lastResult
         /\ Died(s, why).cause = why
         /\ Died(s, why).retryCount = s.retryCount
<1>1. "dead" \in Statuses
  BY DEF Statuses
<1> QED
  BY <1>1, MovedType DEF StateMachine, Died

-------------------------------------------------------------------------------
\* The agent's calls.

\* The changes of status the agent asks for.
AgentMoves ==
  {<<"idle", "assigned">>, <<"assigned", "planning">>, <<"planning", "implementing">>,
   <<"implementing", "blocked">>, <<"blocked", "implementing">>,
   <<"implementing", "verifying">>, <<"delivered", "monitoring">>,
   <<"monitoring", "diagnosing">>, <<"diagnosing", "implementing">>}

LEMMA StepCases ==
  ASSUME TypeOK, NEW from, NEW to, <<from, to>> \in AgentMoves, Step(from, to)
  PROVE  /\ now' = now /\ TypeOK' /\ <<sm.current, sm'.current>> \in AgentMoves
         /\ sm'.sequence = sm.sequence + 1 /\ sm'.cause = sm.cause
         /\ sm'.retryCount = sm.retryCount /\ sm'.lastResult = sm.lastResult
<1>1. /\ sm' = Moved(sm, to) /\ now' = now /\ returned' = returned /\ sm.current = from
  BY DEF Step
<1>2. to \in Statuses
  BY DEF AgentMoves, Statuses
<1> QED
  BY <1>1, <1>2, MovedType DEF TypeOK

\* What one call of the agent does, field by field.
LEMMA AgentCases ==
  ASSUME TypeOK, AgentCall
  PROVE  /\ now' = now /\ TypeOK' /\ sm'.sequence = sm.sequence + 1
         /\ sm'.retryCount = sm.retryCount /\ sm'.lastResult = sm.lastResult
         /\ \/ sm'.cause = sm.cause /\ <<sm.current, sm'.current>> \in AgentMoves
            \/ /\ sm.current # "dead" /\ sm'.current = "dead"
               /\ sm'.cause \in {"ttl", "killed"}
<1>1. ASSUME NEW from, NEW to, <<from, to>> \in AgentMoves, Step(from, to)
      PROVE  /\ now' = now /\ TypeOK' /\ <<sm.current, sm'.current>> \in AgentMoves
             /\ sm'.sequence = sm.sequence + 1 /\ sm'.cause = sm.cause
             /\ sm'.retryCount = sm.retryCount /\ sm'.lastResult = sm.lastResult
  BY <1>1, StepCases
<1>2. ASSUME NEW why \in {"ttl", "killed"}, sm.current # "dead", sm' = Died(sm, why),
             now' = now, returned' = returned
      PROVE  /\ TypeOK' /\ sm'.sequence = sm.sequence + 1
             /\ sm'.retryCount = sm.retryCount /\ sm'.lastResult = sm.lastResult
             /\ sm'.current = "dead" /\ sm'.cause \in {"ttl", "killed"}
  <2>1. why \in Causes
    BY DEF Causes
  <2> QED
    BY <1>2, <2>1, DiedType DEF TypeOK
<1>3. CASE Assign
  BY <1>1, <1>3 DEF Assign, AgentMoves
<1>4. CASE StartPlanning
  BY <1>1, <1>4 DEF StartPlanning, AgentMoves
<1>5. CASE StartImplementing
  BY <1>1, <1>5 DEF StartImplementing, AgentMoves
<1>6. CASE Block
  BY <1>1, <1>6 DEF Block, AgentMoves
<1>7. CASE ResumeAfterBlocked
  BY <1>1, <1>7 DEF ResumeAfterBlocked, AgentMoves
<1>8. CASE StartVerifying
  BY <1>1, <1>8 DEF StartVerifying, AgentMoves
<1>9. CASE StartMonitoring
  BY <1>1, <1>9 DEF StartMonitoring, AgentMoves
<1>10. CASE AnomalyDetected
  BY <1>1, <1>10 DEF AnomalyDetected, AgentMoves
<1>11. CASE DiagnosisComplete
  BY <1>1, <1>11 DEF DiagnosisComplete, AgentMoves
<1>12. CASE DieTtl
  BY <1>2, <1>12 DEF DieTtl
<1>13. CASE Die
  BY <1>2, <1>13 DEF Die, CanDie, CanMove, ValidTransitions
<1> QED
  BY <1>3, <1>4, <1>5, <1>6, <1>7, <1>8, <1>9, <1>10, <1>11, <1>12, <1>13 DEF AgentCall

-------------------------------------------------------------------------------
\* run_node_loop.

LEMMA CheckedType ==
  ASSUME TypeOK
  PROVE  /\ Checked(sm) \in StateMachine
         /\ Checked(sm).current = sm.current
         /\ Checked(sm).sequence = sm.sequence
         /\ Checked(sm).lastResult = sm.lastResult
         /\ Checked(sm).cause = sm.cause
         /\ Checked(sm).retryCount = sm.retryCount
         /\ Checked(sm).startedAt = sm.startedAt
<1>1. sm \in StateMachine /\ now \in 0 .. MaxTime /\ sm.startedAt \in 0 .. MaxTime
  BY DEF TypeOK, StateMachine
<1>2. Elapsed \in Nat
  BY <1>1, ElapsedType DEF Elapsed
<1> QED
  BY <1>1, <1>2 DEF Checked, StateMachine

LEMMA DeliveredType ==
  ASSUME NEW s \in StateMachine
  PROVE  /\ Delivered(s) \in StateMachine
         /\ Delivered(s).current = "delivered" /\ Delivered(s).lastResult = "pass"
         /\ Delivered(s).sequence = s.sequence + 1
         /\ Delivered(s).cause = s.cause /\ Delivered(s).retryCount = s.retryCount
<1>1. "delivered" \in Statuses
  BY DEF Statuses
<1> QED
  BY <1>1, MovedType DEF Delivered, StateMachine

LEMMA RetriedType ==
  ASSUME NEW s \in StateMachine, s.retryCount < MaxRetries
  PROVE  /\ Retried(s) \in StateMachine
         /\ Retried(s).current = "implementing" /\ Retried(s).lastResult = "fail"
         /\ Retried(s).sequence = s.sequence + 1
         /\ Retried(s).cause = s.cause /\ Retried(s).retryCount = s.retryCount + 1
<1> DEFINE m == Moved(s, "implementing")
           r == [m EXCEPT !.retryCount = s.retryCount + 1]
<1>1. "implementing" \in Statuses
  BY DEF Statuses
<1>2. s.retryCount + 1 \in 0 .. MaxRetries
  BY LifecycleAssumption DEF StateMachine
<1>3. /\ m \in StateMachine /\ m.current = "implementing" /\ m.sequence = s.sequence + 1
      /\ m.cause = s.cause /\ m.retryCount = s.retryCount
  BY <1>1, MovedType
<1> HIDE DEF m
<1>4. /\ r \in StateMachine /\ r.current = "implementing" /\ r.sequence = s.sequence + 1
      /\ r.cause = s.cause /\ r.retryCount = s.retryCount + 1
  BY <1>2, <1>3 DEF StateMachine
<1>5. Retried(s) = [r EXCEPT !.lastResult = "fail"]
  BY <1>3 DEF Retried, m, StateMachine
<1> HIDE DEF r
<1> QED
  BY <1>4, <1>5 DEF StateMachine

LEMMA VerifyDeadType ==
  ASSUME NEW s \in StateMachine
  PROVE  /\ VerifyDead(s) \in StateMachine
         /\ VerifyDead(s).current = "dead" /\ VerifyDead(s).lastResult = "fail"
         /\ VerifyDead(s).sequence = s.sequence + 1
         /\ VerifyDead(s).cause = "verify" /\ VerifyDead(s).retryCount = s.retryCount
<1>1. "verify" \in Causes
  BY DEF Causes
<1> QED
  BY <1>1, DiedType DEF VerifyDead, StateMachine

\* What one call of run_node_loop does, field by field.
LEMMA LoopCases ==
  ASSUME TypeOK, RunNodeLoop
  PROVE  /\ now' = now
         /\ TypeOK'
         /\ \/ /\ sm.current \notin Terminal /\ Exhausted /\ CanDie(sm)
               /\ sm'.current = "dead" /\ sm'.cause = "wallclock"
               /\ sm'.sequence = sm.sequence + 1
               /\ sm'.retryCount = sm.retryCount /\ sm'.lastResult = sm.lastResult
            \/ /\ sm.current = "verifying"
               /\ sm'.sequence = sm.sequence + 1
               /\ \/ /\ sm'.current = "delivered" /\ sm'.lastResult = "pass"
                     /\ sm'.cause = sm.cause /\ sm'.retryCount = sm.retryCount
                  \/ /\ sm.retryCount < MaxRetries
                     /\ sm'.current = "implementing" /\ sm'.lastResult = "fail"
                     /\ sm'.cause = sm.cause /\ sm'.retryCount = sm.retryCount + 1
                  \/ /\ sm.retryCount = MaxRetries
                     /\ sm'.current = "dead" /\ sm'.lastResult = "fail"
                     /\ sm'.cause = "verify" /\ sm'.retryCount = sm.retryCount
            \/ /\ sm.current \in Terminal => sm' = sm
               /\ sm'.current = sm.current /\ sm'.sequence = sm.sequence
               /\ sm'.retryCount = sm.retryCount
               /\ sm'.cause = sm.cause /\ sm'.lastResult = sm.lastResult
<1> DEFINE c == Checked(sm)
<1>0. /\ c \in StateMachine /\ c.current = sm.current /\ c.sequence = sm.sequence
      /\ c.lastResult = sm.lastResult /\ c.cause = sm.cause /\ c.retryCount = sm.retryCount
  BY CheckedType
<1>t. sm \in StateMachine /\ now \in 0 .. MaxTime /\ sm.retryCount \in 0 .. MaxRetries
  BY DEF TypeOK, StateMachine
<1>1. CASE LoopOutOfBudget
  <2>1. "wallclock" \in Causes /\ "dead" \in Statuses
    BY DEF Causes, Statuses
  <2>2. /\ sm' = IF CanDie(sm) THEN Died(c, "wallclock") ELSE c
        /\ now' = now /\ returned' = "dead" /\ sm.current \notin Terminal /\ Exhausted
    BY <1>1 DEF LoopOutOfBudget
  <2> HIDE DEF c
  <2>3. TypeOK'
    BY <1>0, <1>t, <2>1, <2>2, DiedType DEF TypeOK
  <2> QED
    BY <1>0, <2>1, <2>2, <2>3, DiedType
<1>2. ASSUME NEW passed \in BOOLEAN, LoopVerify(passed) PROVE
        /\ sm.current = "verifying" /\ now' = now /\ returned' = sm'.current
        /\ sm' = IF passed THEN Delivered(c) ELSE Failed(c)
  BY <1>2 DEF LoopVerify
<1>3. CASE \E passed \in BOOLEAN : LoopVerify(passed)
  <2> PICK passed \in BOOLEAN : LoopVerify(passed)
    BY <1>3
  <2>0. /\ sm.current = "verifying" /\ now' = now /\ returned' = sm'.current
        /\ sm' = IF passed THEN Delivered(c) ELSE Failed(c)
    BY <1>2
  <2> HIDE DEF c
  <2>1. CASE passed
    BY <1>0, <1>t, <2>0, <2>1, DeliveredType DEF TypeOK, StateMachine
  <2>2. CASE ~passed /\ sm.retryCount < MaxRetries
    <3>1. sm' = Retried(c)
      BY <1>0, <1>t, <2>0, <2>2, LifecycleAssumption DEF Failed
    <3> QED
      BY <1>0, <1>t, <2>0, <2>2, <3>1, RetriedType DEF TypeOK, StateMachine
  <2>3. CASE ~passed /\ sm.retryCount = MaxRetries
    <3>1. sm' = VerifyDead(c)
      BY <1>0, <1>t, <2>0, <2>3, LifecycleAssumption DEF Failed
    <3> QED
      BY <1>0, <1>t, <2>0, <2>3, <3>1, VerifyDeadType DEF TypeOK, StateMachine
  <2> QED
    BY <1>t, <2>1, <2>2, <2>3, LifecycleAssumption
<1>4. CASE LoopNothingToDo
  <2>1. /\ sm' = IF sm.current \in Terminal THEN sm ELSE c
        /\ now' = now /\ returned' = sm.current
    BY <1>4 DEF LoopNothingToDo
  <2> HIDE DEF c
  <2> QED
    BY <1>0, <1>t, <2>1 DEF TypeOK, StateMachine
<1> QED
  BY <1>1, <1>3, <1>4 DEF RunNodeLoop

-------------------------------------------------------------------------------
\* The invariant and what follows from it.

LEMMA InvNext == Inv /\ [Next]_vars => Inv'
<1> SUFFICES ASSUME Inv, [Next]_vars PROVE Inv'
  OBVIOUS
<1>0. TypeOK /\ VerifiedDelivery /\ CauseOfDeath
  BY DEF Inv
<1>1. CASE AgentCall
  <2>1. VerifiedDelivery' /\ CauseOfDeath'
    BY <1>0, <1>1, AgentCases DEF VerifiedDelivery, CauseOfDeath, AgentMoves
  <2> QED
    BY <1>0, <1>1, <2>1, AgentCases DEF Inv
<1>2. CASE RunNodeLoop
  <2>1. sm.retryCount \in 0 .. MaxRetries
    BY <1>0 DEF TypeOK, StateMachine
  <2>2. VerifiedDelivery' /\ CauseOfDeath'
    BY <1>0, <1>2, <2>1, LoopCases, LifecycleAssumption
       DEF VerifiedDelivery, CauseOfDeath, Terminal
  <2> QED
    BY <1>0, <1>2, <2>2, LoopCases DEF Inv
<1>3. CASE Tick \/ StepBack
  BY <1>0, <1>3, LifecycleAssumption
     DEF Tick, StepBack, Inv, TypeOK, VerifiedDelivery, CauseOfDeath
<1>4. CASE UNCHANGED vars
  BY <1>0, <1>4 DEF vars, Inv, TypeOK, VerifiedDelivery, CauseOfDeath
<1> QED
  BY <1>1, <1>2, <1>3, <1>4 DEF Next

THEOREM InvHolds == Spec => []Inv
  BY InvInit, InvNext, PTL DEF Spec

\* Every reachable state is well typed.
THEOREM TypeCorrect == Spec => []TypeOK
<1>1. Inv => TypeOK
  BY DEF Inv
<1> QED
  BY <1>1, InvHolds, PTL

\* Delivered code passed the last verification it had, and a death of
\* verification had spent every retry, whatever the number of retries.
THEOREM GateHolds == Spec => []VerifiedDelivery
<1>1. Inv => VerifiedDelivery
  BY DEF Inv
<1> QED
  BY <1>1, InvHolds, PTL

\* The effect of one step on a node that is dead, and on the sequence.
LEMMA StepEffect ==
  ASSUME Inv, [Next]_vars
  PROVE  /\ sm.current = "dead" => sm' = sm
         /\ sm'.current # sm.current => sm'.sequence = sm.sequence + 1
<1>0. TypeOK
  BY DEF Inv
<1>1. CASE AgentCall
  BY <1>0, <1>1, AgentCases DEF AgentMoves
<1>2. CASE RunNodeLoop
  BY <1>0, <1>2, LoopCases DEF Terminal
<1>3. CASE Tick \/ StepBack \/ UNCHANGED vars
  BY <1>3 DEF Tick, StepBack, vars
<1> QED
  BY <1>1, <1>2, <1>3 DEF Next

\* Nothing happens to a dead node, and no change of status goes uncounted.
THEOREM DeadStaysDead == Spec => DeadIsFinal
<1>1. Inv /\ [Next]_vars =>
        [/\ sm.current = "dead" => sm' = sm
         /\ sm'.current # sm.current => sm'.sequence = sm.sequence + 1]_vars
  BY StepEffect
<1> QED
  BY <1>1, InvHolds, PTL DEF Spec, DeadIsFinal

\* The wallclock ends a node on time, or because the clock was set back.
THEOREM WallclockIsJust == Spec => WallclockDeathExplained
<1>1. Inv /\ [Next]_vars =>
        [sm'.cause = "wallclock" /\ sm.cause # "wallclock"
           => now - sm.startedAt >= MaxWallclock \/ now < sm.startedAt]_vars
  <2> SUFFICES ASSUME Inv, [Next]_vars, sm'.cause = "wallclock", sm.cause # "wallclock"
               PROVE  now - sm.startedAt >= MaxWallclock \/ now < sm.startedAt
    OBVIOUS
  <2>0. TypeOK
    BY DEF Inv
  <2>1. CASE AgentCall
    BY <2>0, <2>1, AgentCases
  <2>2. CASE RunNodeLoop
    <3>1. Exhausted
      BY <2>0, <2>2, LoopCases
    <3>2. now \in 0 .. MaxTime /\ sm.startedAt \in 0 .. MaxTime
      BY <2>0 DEF TypeOK, StateMachine
    <3> QED
      BY <3>1, <3>2, ElapsedType DEF Exhausted, Elapsed
  <2>3. CASE Tick \/ StepBack \/ UNCHANGED vars
    BY <2>3 DEF Tick, StepBack, vars
  <2> QED
    BY <2>1, <2>2, <2>3 DEF Next
<1> QED
  BY <1>1, InvHolds, PTL DEF Spec, WallclockDeathExplained

-------------------------------------------------------------------------------
\* The refinement of VerifyGate.

LEMMA GateInit == Init => Gate!GateInit
  BY DEF Init, New, Gate!GateInit, PhaseOf

LEMMA GateStep == Inv /\ [Next]_vars => [Gate!GateNext]_(Gate!gateVars)
<1> SUFFICES ASSUME Inv, [Next]_vars, ~UNCHANGED Gate!gateVars
             PROVE  Gate!GateNext
  BY DEF Gate!gateVars
<1> USE DEF Gate!GateNext, Gate!gateVars, Gate!Move
<1>0. TypeOK /\ CauseOfDeath
  BY DEF Inv
<1>1. CASE AgentCall
  <2>1. ASSUME sm'.cause = sm.cause, <<sm.current, sm'.current>> \in AgentMoves
        PROVE  Gate!GateNext
    <3>1. sm'.retryCount = sm.retryCount
      BY <1>0, <1>1, AgentCases
    <3>2. PhaseOf(sm'.current) # PhaseOf(sm.current)
      BY <2>1, <3>1
    <3>3. \/ PhaseOf(sm.current) = "work" /\ PhaseOf(sm'.current) = "gate"
          \/ PhaseOf(sm.current) = "open" /\ PhaseOf(sm'.current) = "work"
      BY <2>1, <3>2 DEF AgentMoves, PhaseOf
    <3> QED
      BY <2>1, <3>1, <3>3 DEF Gate!Enter, Gate!Reopen
  <2>2. ASSUME sm.current # "dead", sm'.current = "dead", sm'.cause \in {"ttl", "killed"}
        PROVE  Gate!GateNext
    <3>1. PhaseOf(sm.current) # "dead" /\ PhaseOf(sm'.current) = "dead"
      BY <2>2 DEF PhaseOf
    <3> QED
      BY <1>0, <1>1, <2>2, <3>1, AgentCases DEF Gate!Abandon
  <2> QED
    BY <1>0, <1>1, <2>1, <2>2, AgentCases
<1>2. CASE RunNodeLoop
  <2>1. CASE sm'.cause = "wallclock" /\ sm.cause # "wallclock"
    <3>1. /\ sm.current \notin Terminal /\ sm'.current = "dead"
          /\ sm'.retryCount = sm.retryCount
      BY <1>0, <1>2, <2>1, LoopCases
    <3>2. PhaseOf(sm.current) # "dead" /\ PhaseOf(sm'.current) = "dead"
      BY <3>1 DEF PhaseOf, Terminal
    <3> QED
      BY <2>1, <3>1, <3>2 DEF Gate!Abandon
  <2>2. CASE sm.current = "verifying" /\ sm'.current = "delivered"
    BY <1>0, <1>2, <2>2, LoopCases DEF Gate!Pass, PhaseOf
  <2>3. CASE sm.current = "verifying" /\ sm'.current = "implementing"
    BY <1>0, <1>2, <2>3, LoopCases DEF Gate!Fail, PhaseOf
  <2>4. CASE sm.current = "verifying" /\ sm'.current = "dead" /\ sm'.cause = "verify"
    BY <1>0, <1>2, <2>4, LoopCases DEF Gate!Exhaust, PhaseOf
  <2>5. \/ sm'.cause = "wallclock" /\ sm.cause # "wallclock"
        \/ sm.current = "verifying" /\ sm'.current = "delivered"
        \/ sm.current = "verifying" /\ sm'.current = "implementing"
        \/ sm.current = "verifying" /\ sm'.current = "dead" /\ sm'.cause = "verify"
    BY <1>0, <1>2, LoopCases DEF CauseOfDeath, Terminal
  <2> QED
    BY <2>1, <2>2, <2>3, <2>4, <2>5
<1>3. CASE Tick \/ StepBack \/ UNCHANGED vars
  BY <1>3 DEF Tick, StepBack, vars
<1> QED
  BY <1>1, <1>2, <1>3 DEF Next

\* The lifecycle implements the verify gate for every number of retries: no
\* sequence of calls delivers around it or dies of it with retries left.
THEOREM LifecycleImplementsGate == Spec => ImplementsGate
  BY GateInit, GateStep, InvHolds, PTL DEF Spec, ImplementsGate, Gate!GateSpec
===============================================================================
