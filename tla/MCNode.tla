--------------------------------- MODULE MCNode --------------------------------
(***************************************************************************)
(* FeedbackLoop and StateFile, checked in one run.  They share no variable *)
(* here (FeedbackLoop looks at state.toml only as far as the telemetry     *)
(* scan does), so a behaviour is one of either, with the other at rest.    *)
(***************************************************************************)
EXTENDS FeedbackLoop, StateFile

VARIABLE part   \* which of the two this behaviour is about

nodeVars == <<part, vars, stateVars>>

NodeInit == part \in {"feedback", "state"} /\ Init /\ StateInit

FeedbackPart(A) == part = "feedback" /\ A /\ UNCHANGED <<part, stateVars>>
StatePart(A)    == part = "state" /\ A /\ UNCHANGED <<part, vars>>

NodeNext == FeedbackPart(Next) \/ StatePart(StateNext)

NodeFairness ==
  /\ WF_nodeVars(FeedbackPart(TelemetryScan))
  /\ WF_nodeVars(StatePart(InLoop))
  /\ \A t \in BeatThreads : WF_nodeVars(StatePart(Heartbeat(t)))

NodeSpec == NodeInit /\ [][NodeNext]_nodeVars /\ NodeFairness
================================================================================
