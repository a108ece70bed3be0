------------------------------ MODULE MCToggle ------------------------------
(***************************************************************************)
(* BridgedLights under controllers that only ever toggle.  As main.cpp     *)
(* describes them, they may write the minimum level ahead of an "off", and *)
(* any level as part of a toggle, while the settle window that the on/off  *)
(* write opened has not passed.  The light may be toggled by hand as well  *)
(* and drop off the network, but nobody dims it.                           *)
(***************************************************************************)
EXTENDS BridgedLights

CONSTANTS MaxWrites, MaxChanges

VARIABLES brightness, writes, changes

toggleVars == <<vars, brightness, writes, changes>>

\* Discovery saw every device online and as it is.
ToggleInit ==
    /\ Init /\ writes = 0 /\ changes = 0
    /\ brightness = [d \in Dimmers |-> wemo[d].percent]
    /\ \A d \in Devices :
        /\ wemo[d].online /\ reachable[d] /\ isOn[d] = wemo[d].on
        /\ d \in Dimmers <=> wemo[d].percent >= 0
        /\ d \in Dimmers => level[d] = WemoToMatterLevel(wemo[d].percent)

WriteAnyLevel(d, m) == IgnoreLevelWrite(d, m) \/ \E t \in Threads : WriteLevel(d, t, m)

Toggle ==
    /\ writes < MaxWrites
    /\ writes' = writes + 1
    /\ \/ \E d \in Devices, t \in Threads, on \in BOOLEAN : WriteOnOff(d, t, on)
       \/ \E d \in Dimmers, m \in MatterLevels :
            /\ m <= 1 \/ onOffWindow[d] >= 0
            /\ WriteAnyLevel(d, m)
    /\ UNCHANGED <<brightness, changes>>

ByHand ==
    /\ changes < MaxChanges
    /\ changes' = changes + 1
    /\ \E d \in Devices, s \in WemoState :
         s.percent = wemo[d].percent /\ DeviceChanges(d, s)
    /\ UNCHANGED <<brightness, writes>>

GoOn ==
    /\ CommandEnds \/ EngineReports \/ RunWork \/ Tick
    /\ UNCHANGED <<brightness, writes, changes>>

ToggleSpec == ToggleInit /\ [][Toggle \/ ByHand \/ GoOn]_toggleVars

\* COMPATIBILITY.md: "Level preserved across on/off expected".  However late
\* the commands and the events, toggling moves neither the brightness of the
\* device nor the level shown for it (HandleWriteLevelControlAttribute).
TogglesKeepBrightness ==
    \A d \in Dimmers :
        /\ wemo[d].percent = brightness[d]
        /\ level[d] = WemoToMatterLevel(brightness[d])
=============================================================================
