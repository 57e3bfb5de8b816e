------------------------------ MODULE VerifyGate ------------------------------
(***************************************************************************)
(* What the lifecycle of one node promises about its quality gate, with    *)
(* everything else forgotten.  A node works, enters the gate (verify.sh),  *)
(* and leaves it in one of three ways: the gate opens, the node goes back  *)
(* to work at the price of one retry, or, with no retry left, the node     *)
(* dies.  An open gate (delivered code) may send the node back to work.    *)
(* NodeLifecycle is shown to implement this specification.                 *)
(***************************************************************************)
EXTENDS Naturals

CONSTANT MaxRetries

VARIABLES phase,     \* "work", "gate", "open" or "dead"
          failures,  \* retries spent since the node booted
          cause      \* why the node is dead, "none" while it is not

gateVars == <<phase, failures, cause>>

GateInit ==
  /\ phase = "work"
  /\ failures = 0
  /\ cause = "none"

Move(from, to) ==
  /\ phase = from
  /\ phase' = to

Enter  == Move("work", "gate") /\ UNCHANGED <<failures, cause>>

Pass   == Move("gate", "open") /\ UNCHANGED <<failures, cause>>

Reopen == Move("open", "work") /\ UNCHANGED <<failures, cause>>

Fail ==
  /\ failures < MaxRetries
  /\ Move("gate", "work")
  /\ failures' = failures + 1
  /\ UNCHANGED cause

Exhaust ==
  /\ failures = MaxRetries
  /\ Move("gate", "dead")
  /\ cause' = "verify"
  /\ UNCHANGED failures

\* Given up for a reason the gate has no part in.
Abandon ==
  /\ phase # "dead"
  /\ phase' = "dead"
  /\ cause' \in {"wallclock", "ttl", "killed"}
  /\ UNCHANGED failures

GateNext == Enter \/ Pass \/ Reopen \/ Fail \/ Exhaust \/ Abandon

GateSpec == GateInit /\ [][GateNext]_gateVars
===============================================================================
