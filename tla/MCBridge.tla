------------------------------ MODULE MCBridge ------------------------------
(***************************************************************************)
(* Bridge for TLC: what controllers and the world do is budgeted, what the *)
(* bridge and the engine do is not.                                        *)
(***************************************************************************)
EXTENDS Bridge

CONSTANT MaxMoves

VARIABLE moves

mcVars == <<vars, moves>>

\* Discovery saw every device online, off, and as it is.
MCInit ==
    /\ Init /\ moves = 0
    /\ \A d \in Devices :
        /\ wemo[d].online /\ reachable[d] /\ ~isOn[d] /\ ~wemo[d].on
        /\ d \in Dimmers <=> wemo[d].percent >= 0
        /\ d \in Dimmers => level[d] = WemoToMatterLevel(wemo[d].percent)

Move ==
    /\ moves < MaxMoves
    /\ moves' = moves + 1
    /\ ControllerWrites \/ WorldChanges

GoOn ==
    /\ UNCHANGED moves
    /\ RunWork \/ EngineReports \/ Tick \/ CommandSteps

MCSpec == MCInit /\ [][Move \/ GoOn]_mcVars /\ \A t \in Threads : WF_vars(CommandStep(t))
=============================================================================
