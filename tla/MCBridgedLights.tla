-------------------------- MODULE MCBridgedLights --------------------------
(***************************************************************************)
(* BridgedLights for TLC: the moves of the controllers and of the world    *)
(* are budgeted, those of the bridge and of the engine are not.            *)
(***************************************************************************)
EXTENDS BridgedLights

CONSTANTS MaxWrites, MaxChanges

VARIABLES writes, changes

mcVars == <<vars, writes, changes>>

MCInit == Init /\ writes = 0 /\ changes = 0

BudgetedWrite ==
    /\ writes < MaxWrites
    /\ writes' = writes + 1
    /\ UNCHANGED changes
    /\ ControllerWrites

BudgetedChange ==
    /\ changes < MaxChanges
    /\ changes' = changes + 1
    /\ UNCHANGED writes
    /\ WorldChanges

Unbudgeted == UNCHANGED <<writes, changes>> /\ (CommandEnds \/ EngineReports \/ RunWork \/ Tick)

MCNext == BudgetedWrite \/ BudgetedChange \/ Unbudgeted

MCSpec == MCInit /\ [][MCNext]_mcVars

MCFairSpec == MCSpec /\ Fairness
=============================================================================
