------------------------------ MODULE Startup ------------------------------
(***************************************************************************)
(* ApplicationInit, boot after boot: discovery, publication of the lights  *)
(* on dynamic endpoints in UDN order (AddDeviceEndpoint), registration of  *)
(* the state callback and the refresh after it.  The engine's IPC thread   *)
(* reports devices meanwhile, and the process may be stopped or killed and *)
(* started again at any point; only the devices survive that.              *)
(***************************************************************************)
EXTENDS Integers, Sequences, FiniteSets

CONSTANTS
    Udns,       \* devices, numbered in the order ApplicationInit sorts them
    FirstId,    \* gFirstDynamicEndpointId
    IdModulus,  \* number of values of an EndpointId
    Capacity,   \* CHIP_DEVICE_CONFIG_DYNAMIC_ENDPOINT_COUNT
    None        \* an empty slot, a device without endpoint, no event

ASSUME UdnAssumption == Udns \subseteq Nat /\ None \notin Udns
ASSUME CapacityAssumption == Capacity \in Nat \ {0} /\ FirstId \in Nat /\ IdModulus \in Nat
ASSUME EndpointRoom == FirstId + Capacity <= IdModulus /\ None \notin 0 .. IdModulus

VARIABLES
    step,         \* where ApplicationInit stands
    initialized,  \* EnsureEngineInitialized succeeded in this process
    callback,     \* gStateCallback is set and registered
    remaining,    \* discovered devices not yet looked at
    lights,       \* gBridgedWemoLights, by UDN
    slots,        \* gDevices
    endpointOf,   \* the endpoint id of each published device
    currentId,    \* gCurrentEndpointId
    shown,        \* the on/off state each published light shows
    inbox,        \* the state of the last event queued for the Matter thread
    wemo,         \* the on/off state of each device
    unreported,   \* the engine has not reported that state
    had           \* history: pairs <<udn, endpoint id>> of all boots

memory == <<initialized, callback, remaining, lights, slots, endpointOf, currentId, shown, inbox>>
world == <<wemo, unreported>>
vars == <<step, initialized, callback, remaining, lights, slots, endpointOf,
          currentId, shown, inbox, wemo, unreported, had>>

Published == {lights[i] : i \in DOMAIN lights}
SlotIndex == 0 .. Capacity - 1
EndpointIds == FirstId .. IdModulus - 1    \* those of dynamic endpoints

Init ==
    /\ step = "off"
    /\ initialized = FALSE
    /\ callback = FALSE
    /\ remaining = {}
    /\ lights = << >>
    /\ slots = [i \in SlotIndex |-> None]
    /\ endpointOf = [u \in Udns |-> None]
    /\ currentId = FirstId
    /\ shown = [u \in Udns |-> FALSE]
    /\ inbox = [u \in Udns |-> None]
    /\ wemo \in [Udns -> BOOLEAN]
    /\ unreported = [u \in Udns |-> FALSE]
    /\ had = {}

-----------------------------------------------------------------------------
(***************************************************************************)
(* Faulty variants of definitions below.  No action uses them; each stands *)
(* for a slip the properties must catch when it replaces the definition    *)
(* named first in its own name.                                            *)
(***************************************************************************)
IdInUse_Unchecked(id) == FALSE
FirstFreeSlot_Last == CHOOSE i \in SlotIndex :
                         slots[i] = None /\ \A j \in SlotIndex : slots[j] = None => j <= i
IdAfter_Twice(id) == (id + 2) % IdModulus
IdAfter_WrapsEarly(id) == FirstId + ((id - FirstId + 1) % (Capacity - 1))
EngineReady_Forgotten(up) == up
Reprobed_BeforeInit(up) == unreported

-----------------------------------------------------------------------------
Start ==
    /\ step = "off"
    /\ step' = "discover"
    /\ UNCHANGED <<memory, world, had>>

\* gWemoAdapter.Discover() answers: the engine has been initialised, and lists
\* the devices it found.  The list is sorted by UDN, and by friendly_name where
\* UDNs are equal (several devices may report an empty one): lights are
\* published from the least one up.  Devices that agree in both are taken in a
\* fixed order, where std::sort promises none.
Discover(found) ==
    /\ step = "discover"
    /\ step' = "publish"
    /\ initialized' = TRUE
    /\ remaining' = found
    /\ shown' = wemo
    /\ UNCHANGED <<callback, lights, slots, endpointOf, currentId, inbox, world, had>>

\* The engine cannot be initialised, or cannot list: nothing is discovered.
DiscoverFails ==
    /\ step = "discover"
    /\ step' = "publish"
    /\ initialized' \in BOOLEAN
    /\ UNCHANGED <<callback, remaining, lights, slots, endpointOf, currentId,
                   shown, inbox, world, had>>

Publishing == step = "publish" /\ remaining # {}
NextUdn == CHOOSE u \in remaining : \A w \in remaining : u <= w

\* No dynamic endpoint is left for the device.
SkipDevice ==
    /\ Publishing
    /\ Len(lights) >= Capacity
    /\ remaining' = remaining \ {NextUdn}
    /\ UNCHANGED <<step, initialized, callback, lights, slots, endpointOf,
                   currentId, shown, inbox, world, had>>

IdInUse(id) == \E u \in Published : endpointOf[u] = id
FreeSlots == {i \in SlotIndex : slots[i] = None}
FirstFreeSlot == CHOOSE i \in FreeSlots : \A j \in FreeSlots : i <= j

\* ++gCurrentEndpointId, with its wrap condition (which EndpointRoom keeps from
\* coming true: the ids from FirstId up outnumber the slots).
IdAfter(id) == LET incremented == (id + 1) % IdModulus
               IN  IF incremented < FirstId THEN FirstId ELSE incremented

\* The stack has an endpoint of this id already: the next one is tried.
SkipUsedId ==
    /\ Publishing
    /\ Len(lights) < Capacity
    /\ FreeSlots # {}
    /\ IdInUse(currentId)
    /\ currentId' = IdAfter(currentId)
    /\ UNCHANGED <<step, initialized, callback, remaining, lights, slots,
                   endpointOf, shown, inbox, world, had>>

\* The device gets the first free slot and the current endpoint id.
AddDeviceEndpoint ==
    /\ Publishing
    /\ Len(lights) < Capacity
    /\ FreeSlots # {}
    /\ ~IdInUse(currentId)
    /\ slots' = [slots EXCEPT ![FirstFreeSlot] = NextUdn]
    /\ lights' = Append(lights, NextUdn)
    /\ endpointOf' = [endpointOf EXCEPT ![NextUdn] = currentId]
    /\ had' = had \cup {<<NextUdn, currentId>>}
    /\ remaining' = remaining \ {NextUdn}
    /\ UNCHANGED <<step, initialized, callback, currentId, shown, inbox, world>>

\* The stack refuses the endpoint for another reason, or no slot is free: the
\* slot and the entry of gBridgedWemoLights are given back.
AddFails ==
    /\ Publishing
    /\ Len(lights) < Capacity
    /\ remaining' = remaining \ {NextUdn}
    /\ UNCHANGED <<step, initialized, callback, lights, slots, endpointOf,
                   currentId, shown, inbox, world, had>>

\* EnsureEngineInitialized: a process initialises the engine once; up is what
\* we_init would return.
EngineReady(up) == initialized \/ up

\* we_discover makes the engine report every device.
Reprobed(up) == IF EngineReady(up) THEN [u \in Udns |-> TRUE] ELSE unreported

\* RegisterStateCallback, which tries to initialise the engine once more.
RegisterStateCallback(up) ==
    /\ step = "publish"
    /\ remaining = {}
    /\ step' = "refresh"
    /\ initialized' = EngineReady(up)
    /\ callback' = EngineReady(up)
    /\ UNCHANGED <<remaining, lights, slots, endpointOf, currentId, shown, inbox, world, had>>

\* Refresh: the engine probes every device and will report it again.  Then
\* the event loop starts.
Refresh(up) ==
    /\ step = "refresh"
    /\ step' = "running"
    /\ initialized' = EngineReady(up)
    /\ unreported' = Reprobed(up)
    /\ UNCHANGED <<callback, remaining, lights, slots, endpointOf, currentId,
                   shown, inbox, wemo, had>>

\* The Matter thread handles the queued event of a published light.
HandleWemoEvent(u) ==
    /\ step = "running"
    /\ inbox[u] # None
    /\ shown' = IF u \in Published THEN [shown EXCEPT ![u] = inbox[u]] ELSE shown
    /\ inbox' = [inbox EXCEPT ![u] = None]
    /\ UNCHANGED <<step, initialized, callback, remaining, lights, slots,
                   endpointOf, currentId, world, had>>

\* The process ends, in an orderly way or not; all it kept is in memory.
Stop ==
    /\ step # "off"
    /\ step' = "off"
    /\ initialized' = FALSE
    /\ callback' = FALSE
    /\ remaining' = {}
    /\ lights' = << >>
    /\ slots' = [i \in SlotIndex |-> None]
    /\ endpointOf' = [u \in Udns |-> None]
    /\ currentId' = FirstId
    /\ shown' = [u \in Udns |-> FALSE]
    /\ inbox' = [u \in Udns |-> None]
    /\ UNCHANGED <<world, had>>

-----------------------------------------------------------------------------
DeviceChanges(u) ==
    /\ wemo' = [wemo EXCEPT ![u] = ~@]
    /\ unreported' = [unreported EXCEPT ![u] = TRUE]
    /\ UNCHANGED <<step, memory, had>>

\* The engine reports a device; without the callback the event is lost.
ReportState(u) ==
    /\ unreported[u]
    /\ unreported' = [unreported EXCEPT ![u] = FALSE]
    /\ inbox' = IF callback THEN [inbox EXCEPT ![u] = wemo[u]] ELSE inbox
    /\ UNCHANGED <<step, initialized, callback, remaining, lights, slots,
                   endpointOf, currentId, shown, wemo, had>>

-----------------------------------------------------------------------------
ApplicationInit ==
    \/ \E found \in SUBSET Udns : Discover(found)
    \/ DiscoverFails
    \/ SkipDevice
    \/ SkipUsedId
    \/ AddDeviceEndpoint
    \/ AddFails
    \/ \E up \in BOOLEAN : RegisterStateCallback(up) \/ Refresh(up)

Next ==
    \/ Start
    \/ ApplicationInit
    \/ Stop
    \/ \E u \in Udns : HandleWemoEvent(u) \/ DeviceChanges(u) \/ ReportState(u)

Spec == Init /\ [][Next]_vars

\* ApplicationInit runs to its end unless the process is stopped.
FairSpec == Spec /\ WF_vars(ApplicationInit)

-----------------------------------------------------------------------------
(* Properties. *)

TypeOK ==
    /\ step \in {"off", "discover", "publish", "refresh", "running"}
    /\ initialized \in BOOLEAN
    /\ callback \in BOOLEAN
    /\ remaining \subseteq Udns
    /\ lights \in Seq(Udns)
    /\ slots \in [SlotIndex -> Udns \cup {None}]
    /\ endpointOf \in [Udns -> EndpointIds \cup {None}]
    /\ currentId \in EndpointIds
    /\ shown \in [Udns -> BOOLEAN]
    /\ inbox \in [Udns -> BOOLEAN \cup {None}]
    /\ wemo \in [Udns -> BOOLEAN]
    /\ unreported \in [Udns -> BOOLEAN]
    /\ had \subseteq Udns \X EndpointIds

\* An attribute access finds its own light: the slot of the i-th published
\* light holds that light, and no other slot is taken, also after additions
\* that failed on the way.
SlotsMatchLights ==
    \A i \in SlotIndex :
        slots[i] = IF i < Len(lights) THEN lights[i + 1] ELSE None

\* Endpoints are assigned deterministically: the id of a light is given by its
\* rank among the published UDNs, whatever was skipped or refused, so the same
\* set of lights gets the same endpoints on every boot.
EndpointIsRank ==
    \A u \in Published :
        endpointOf[u] = FirstId + Cardinality({w \in Published : w < u})

\* A bridge that publishes lights also receives their events: the engine, once
\* initialised by Discover, cannot be missing when the callback is registered.
LightsHaveEvents == step \in {"refresh", "running"} /\ lights # << >> => callback

\* No change is missed between discovery and the callback: once the bridge
\* runs, a light that shows another state than its device's has an event
\* queued or a report to come.
NothingMissed ==
    step = "running" =>
        \A u \in Published :
            \/ unreported[u]
            \/ inbox[u] = wemo[u]
            \/ inbox[u] = None /\ shown[u] = wemo[u]

\* Below the endpoint limit the next device has a place: a slot of gDevices is
\* free, and the current endpoint id or the one tried after it is, so that the
\* search of AddDeviceEndpoint, which has no bound of its own, is short.
RoomForNext ==
    Publishing /\ Len(lights) < Capacity =>
        /\ FreeSlots # {}
        /\ ~IdInUse(currentId) \/ ~IdInUse(IdAfter(currentId))

\* ApplicationInit ends: the search for a free endpoint id does too.
StartupEnds == step = "discover" ~> step \in {"running", "off"}

\* The README promises that "UDN -> endpointId" is persisted for endpoint
\* stability: a device has the same endpoint id on every boot.
EndpointsPersist == \A a, b \in had : a[1] = b[1] => a[2] = b[2]

-----------------------------------------------------------------------------
(* The abstract specification of the registry that startup does without. *)

Map == INSTANCE EndpointMap WITH ids <- endpointOf, NoId <- None

\* Within a boot the lights get their endpoint ids as the registry's map gives
\* them, the next free one each, kept from then on, with none passed over for
\* the devices that were skipped or refused; but a restart begins a new map.
BootsAsMap == Map!Init /\ [][Map!Next \/ Map!Init']_endpointOf
=============================================================================
