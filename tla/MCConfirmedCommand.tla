------------------------- MODULE MCConfirmedCommand -------------------------
(***************************************************************************)
(* BridgedLights with a history of which on/off commands an event has      *)
(* confirmed: what "suppressed until confirmed" would mean.                *)
(***************************************************************************)
EXTENDS BridgedLights

CONSTANT MaxChanges

VARIABLES confirmed, changes

confirmVars == <<vars, confirmed, changes>>

ConfirmInit == Init /\ confirmed = {} /\ changes = 0

HeadEventOf(d) == work # << >> /\ Head(work).kind = "event" /\ Head(work).dev = d

Confirms(d) == /\ HeadEventOf(d) /\ Head(work).state.online
               /\ OnOffSettling(d) /\ ~SuppressOnOff(d, Head(work).state)

ConfirmNext ==
    \/ /\ \E d \in Devices, t \in Threads, on \in BOOLEAN :
            WriteOnOff(d, t, on) /\ confirmed' = confirmed \ {d}
       /\ UNCHANGED changes
    \/ /\ HandleOnlineEvent
       /\ confirmed' = confirmed \cup {d \in Devices : Confirms(d)}
       /\ UNCHANGED changes
    \/ /\ CommandEnds \/ EngineReports \/ HandleOfflineEvent \/ CallReportingCallback \/ Tick
       /\ UNCHANGED <<confirmed, changes>>
    \/ /\ WorldChanges
       /\ changes < MaxChanges
       /\ changes' = changes + 1
       /\ UNCHANGED confirmed

ConfirmSpec == ConfirmInit /\ [][ConfirmNext]_confirmVars

\* main.cpp says of the recorded command that "echo events are suppressed
\* until confirmed": after an event has confirmed it, no later event of an
\* online device is suppressed, whatever it says.
SuppressedUntilConfirmed ==
    \A d \in confirmed :
        HeadEventOf(d) /\ Head(work).state.online => ~SuppressOnOff(d, Head(work).state)
=============================================================================
