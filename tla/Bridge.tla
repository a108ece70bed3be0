------------------------------- MODULE Bridge -------------------------------
(***************************************************************************)
(* The running bridge put together: the endpoints and handlers of          *)
(* BridgedLights, and in place of its abstract command threads the threads *)
(* of WemoAdapter, which share init_lock, the cache mutex and the          *)
(* UDN -> wemo_id cache, and reach a device by its wemo_id alone.          *)
(*                                                                         *)
(* Every light was published from the list that filled the cache, so the   *)
(* engine is initialised and a light with a name is in the cache.  A light *)
(* that reported an empty UDN is published like any other and found again  *)
(* by its wemo_id when the engine reports it, but it never is in the cache.*)
(***************************************************************************)
EXTENDS LevelScale, Sequences, FiniteSets, Functions

CONSTANTS Devices, Dimmers, Nameless, MatterLevels, Percents, Labels,
          SettleTicks, Threads, Idle, None, MaxWork

ASSUME NamelessAssumption == Nameless \subseteq Devices
ASSUME DimmersAssumption == Dimmers \subseteq Devices
ASSUME LevelsAssumption == MatterLevels \subseteq Byte
ASSUME NoneAssumption == None \notin Nat \cup Threads

VARIABLES
    reachable, isOn, level, label, commandedOnOff, commandedLevel, onOffWindow,
    levelWindow, work, seen, wemo, changed, adrift, \* BridgedLights, but threads
    directory, booted, targetConfigured, initialized, initLock, cacheMutex,
    cache, pc, command, listed, inits, actions      \* WemoAdapter

adapterVars == <<directory, booted, targetConfigured, initialized, initLock,
                 cacheMutex, cache, pc, command, listed, inits, actions>>
handlerVars == <<reachable, isOn, level, label, commandedOnOff, commandedLevel,
                 onOffWindow, levelWindow, work, seen>>
lightVars == <<handlerVars, wemo, changed, adrift>>
vars == <<lightVars, adapterVars>>

Adapter == INSTANCE WemoAdapter
    WITH Udns <- Devices, MaxItems <- Cardinality(Devices),
         Percents <- {MatterToWemoPercent(m) : m \in MatterLevels}

\* The command a thread carries, as the handler that started it saw it.
AsWritten(c) ==
    IF c.level = -1 THEN [dev |-> c.udn, kind |-> "onoff", value |-> c.state]
    ELSE [dev |-> c.udn, kind |-> "level", value |-> c.level]

carried == [t \in Threads |->
              IF pc[t] \in {"new", "done"} THEN Idle ELSE AsWritten(command[t])]

Lights == INSTANCE BridgedLights WITH threads <- carried

ASSUME IdleAssumption == Idle \notin Lights!Command

-----------------------------------------------------------------------------
(* Faulty variants of definitions below, which the properties must catch. *)
CachedAtDiscovery_Nothing == {}

-----------------------------------------------------------------------------
\* Discover put every light that has a UDN in the cache.
CachedAtDiscovery == Devices \ Nameless

Init ==
    /\ directory \in Injection(Devices, 0 .. Cardinality(Devices) - 1)
    /\ booted = TRUE
    /\ targetConfigured = TRUE
    /\ initialized = TRUE
    /\ initLock = None
    /\ cacheMutex = None
    /\ cache = [d \in Devices |-> IF d \in CachedAtDiscovery THEN directory[d] ELSE None]
    /\ pc = [t \in Threads |-> "new"]
    /\ command = [t \in Threads |-> None]
    /\ listed = [t \in Threads |-> Adapter!NoDevices]
    /\ inits = 1
    /\ actions = {}
    /\ Lights!Init

-----------------------------------------------------------------------------
(* The Matter thread: a handler and the thread it starts. *)

WriteOnOff(d, t, on) ==
    /\ Lights!HandleWriteOnOff(d, on)
    /\ Adapter!StartCommand(t, Adapter!OnOffCommand(d, on))

WriteLevel(d, t, m) ==
    /\ Lights!HandleWriteLevel(d, m)
    /\ Adapter!StartCommand(t, Adapter!LevelCommand(d, MatterToWemoPercent(m)))

\* Writes that start no thread, and the work queue.
OtherWrite ==
    /\ UNCHANGED adapterVars
    /\ \/ \E d \in Dimmers, m \in MatterLevels : Lights!IgnoreLevelWrite(d, m)
       \/ \E d \in Devices, name \in Labels : Lights!WriteNodeLabel(d, name)

RunWork == UNCHANGED adapterVars /\ Lights!RunWork

-----------------------------------------------------------------------------
(* The command threads. *)

\* A step of a thread that neither ends it nor asks the engine for anything.
Proceed(t) ==
    /\ pc[t] # "send"
    /\ Adapter!Run(t)
    /\ pc'[t] # "done"
    /\ UNCHANGED lightVars

\* The thread ends: the engine is not there, lists nothing, or not the light.
GiveUp(t) ==
    /\ pc[t] # "send"
    /\ Adapter!Run(t)
    /\ pc'[t] = "done"
    /\ adrift' = adrift \cup {<<carried[t].dev, carried[t].kind>>}
    /\ UNCHANGED <<handlerVars, wemo, changed>>

\* What we_set_action makes of a device's state; level -1 leaves it alone.
SetAction(s, state, percent) ==
    IF percent >= 0 THEN [s EXCEPT !.on = (state = 1), !.percent = percent]
    ELSE [s EXCEPT !.on = (state = 1)]

\* The engine carries out what it is asked for, on the device with the id that
\* the cache holds.
SendSucceeds(t) ==
    /\ Adapter!SendState(t)
    /\ LET d == Adapter!DeviceWithId(cache[command[t].udn])
       IN  Lights!DeviceTakes(d, SetAction(wemo[d], command[t].state, command[t].level))
    /\ UNCHANGED <<handlerVars, adrift>>

\* ... or refuses it, which SendState reports and nobody reads.
SendFails(t) ==
    /\ Adapter!SendState(t)
    /\ adrift' = adrift \cup {<<carried[t].dev, carried[t].kind>>}
    /\ UNCHANGED <<handlerVars, wemo, changed>>

CommandStep(t) == Proceed(t) \/ GiveUp(t) \/ SendSucceeds(t) \/ SendFails(t)

-----------------------------------------------------------------------------
ControllerWrites ==
    \/ \E d \in Devices, t \in Threads, on \in BOOLEAN : WriteOnOff(d, t, on)
    \/ \E d \in Dimmers, t \in Threads, m \in MatterLevels : WriteLevel(d, t, m)
    \/ OtherWrite

WorldChanges == UNCHANGED adapterVars /\ Lights!WorldChanges

\* The engine reports and the clock moves on, whatever the threads do.
EngineReports == UNCHANGED adapterVars /\ Lights!EngineReports
Tick == UNCHANGED adapterVars /\ Lights!Tick

CommandSteps == \E t \in Threads : CommandStep(t)

Next == ControllerWrites \/ WorldChanges \/ RunWork \/ EngineReports \/ Tick \/ CommandSteps

Spec == Init /\ [][Next]_vars

\* A thread that can go on does, whatever the Matter thread is doing.
FairSpec == Spec /\ \A t \in Threads : WF_vars(CommandStep(t))

-----------------------------------------------------------------------------
(* Properties. *)

\* Seen from the endpoints, everything inside the adapter is a thread that
\* carries a command and then succeeds or fails at once, on the device the
\* controller wrote to: what holds of BridgedLights holds of the bridge.
ImplementsLights == Lights!Spec

\* A command for a light that has a UDN finds it in the cache, so only those
\* for a light without one ever leave the fast path (and list the devices).
NamedLightsHit ==
    \A t \in Threads : pc[t] \in {"list", "fill"} => command[t].udn \in Nameless

\* What BridgedLights takes for granted of its threads: none stays for ever.
CommandsEnd == \A t \in Threads : carried[t] # Idle ~> carried[t] = Idle
=============================================================================
