-------------------------------- MODULE MCParts --------------------------------
(***************************************************************************)
(* The safety of eight parts that share no variable, checked in one run: a *)
(* behaviour is one of a single part, with the others at rest in one of    *)
(* their initial states.                                                   *)
(***************************************************************************)
EXTENDS NodeLifecycle, AtomicFile, StateFile, EventLog, Deliverables, ProjectInit, StatusTree,
        CycleSearch

VARIABLE part   \* the part this behaviour is about

restVars == <<vars, fileVars, stateVars, logVars, deliveryVars, projectVars, statusVars,
              searchVars>>
partVars == <<part, restVars>>

PartsInit ==
  /\ part \in {"lifecycle", "file", "state", "log", "delivery", "project", "status", "search"}
  /\ FileInit /\ StateInit /\ LogInit /\ DeliveryInit
  /\ Init /\ (part = "lifecycle" \/ now = 0)
  /\ ProjectInit0 /\ (part = "project" \/ hadIgnore)
  /\ IF part = "status" THEN StatusInit ELSE found = <<>> /\ StatusInit
  /\ SearchInit /\ (part = "search" \/ adj = [v \in Vertices |-> {}])

PartsNext ==
  /\ UNCHANGED part
  /\ \/ /\ part = "lifecycle" /\ Next
        /\ UNCHANGED <<fileVars, stateVars, logVars, deliveryVars, projectVars, statusVars, searchVars>>
     \/ /\ part = "file" /\ FileNext
        /\ UNCHANGED <<vars, stateVars, logVars, deliveryVars, projectVars, statusVars, searchVars>>
     \/ /\ part = "state" /\ StateNext
        /\ UNCHANGED <<vars, fileVars, logVars, deliveryVars, projectVars, statusVars, searchVars>>
     \/ /\ part = "log" /\ LogNext
        /\ UNCHANGED <<vars, fileVars, stateVars, deliveryVars, projectVars, statusVars, searchVars>>
     \/ /\ part = "delivery" /\ DeliveryNext
        /\ UNCHANGED <<vars, fileVars, stateVars, logVars, projectVars, statusVars, searchVars>>
     \/ /\ part = "project" /\ ProjectNext
        /\ UNCHANGED <<vars, fileVars, stateVars, logVars, deliveryVars, statusVars, searchVars>>
     \/ /\ part = "status" /\ PrintTree
        /\ UNCHANGED <<vars, fileVars, stateVars, logVars, deliveryVars, projectVars, searchVars>>
     \/ /\ part = "search" /\ SearchNext
        /\ UNCHANGED <<vars, fileVars, stateVars, logVars, deliveryVars, projectVars, statusVars>>

PartsSpec == PartsInit /\ [][PartsNext]_partVars
================================================================================
