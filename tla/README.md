# A formal model of wemo-matter-bridge

TLA+ models of the WeMo to Matter bridge, the TLC runs that check them on small
instances, and proofs of the main results that the TLA+ proof system checks
for every value of the constants.  Source lines below are those of the
repository; `main.cpp` alone means `matter-bridge-app/main.cpp`.

## 1. The system

    controllers
        |  attribute writes / reports          (Matter thread)
    +---v------------------------------+
    | Matter app: endpoints, handlers, |<-- ApplicationInit, at boot
    | settle windows, work queue       |
    +---|--------------------------^---+
        | detached threads         | state events, queued (IPC thread)
    +---v--------------------------|---+
    | WemoAdapterOpenWemo              |<-- command-line tool
    | engine init, UDN -> wemo_id      |        |
    +---|--------------------------^---+        v
        v        TCP               |     EndpointRegistry (SQLite file)
      openwemo engine / wemo_ctrl, devices

| Component | State | Operations | Talks to |
|---|---|---|---|
| Bridged lights at run time (`main.cpp` 444-802, 939-968, 1174-1257; `DeviceDimmable.cpp`) | `gBridgedWemoLights`: device (reachable, on, level), commanded values and windows; the Matter work queue | OnOff, CurrentLevel and NodeLabel writes, reads, WeMo events, reporting callbacks | starts a thread per command that calls the adapter; gets events from the adapter's callback through the work queue |
| Startup and publication (`main.cpp` 366-421, 1261-1459) | `gDevices` slots, `gCurrentEndpointId`, the vector of lights | discovery, one endpoint per light, callback, refresh | calls the adapter, then hands over to the event loop |
| WeMo adapter (`wemo_adapter_openwemo.cpp`) | `initialized`, `target_configured`, `mUdnToWemoId`, two mutexes, `gStateCallback` | Discover, Refresh, RegisterStateCallback, SetOnOff, SetLevelPercent | the engine, over one TCP connection |
| Endpoint registry (`endpoint_registry.cpp`) | tables `endpoint_map`, `bridge_meta` | GetOrAssign (Lookup has no caller) | SQLite; called by `list` of the command-line tool |
| Command-line tool (`src/main.cpp`) | none | list, set-on, set-off, set-level | adapter and registry |
| Level conversions (`main.cpp` 747-754, 1230; adapter 247) | none | Matter level <-> WeMo percent | used by the handlers |

Not modelled, and why: the sample devices, rooms, actions, power sources,
temperature sensors and polling thread left over from the SDK's example
(neither published nor started), the named pipe hook (only touches an
unpublished sample light), the adapter stub (no state), build, installation and
service files.  The engine, the devices and the Matter SDK are not part of the
repository: they appear as the environment, as the bridge uses them.

### What is hard here, and what must be right

* **Run time.** A write is acknowledged and shown at once while a thread of its
  own carries it to the device.  Threads overtake each other and fail
  silently; events report states from before or after the command; the settle
  window suppresses contradicting events for two seconds, and its fields are
  reset lazily by whichever handler notices first.  It must hold that: a
  commanded value stays shown for its window and no longer; a light at rest is
  shown as it is unless a known cause (a command still under way, a suppressed
  event, a failed command) excuses it, and later events remove every cause;
  dimming never means "off"; subscribers are never left with an old value.
* **Startup.** Devices may change between discovery and callback; the stack may
  refuse an endpoint; there may be more devices than slots.  It must hold that
  slots, lights and ids stay consistent, that ids depend on the published set
  only, and that no change is missed.
* **Adapter.** Any number of command threads share two locks and a cache that is
  refreshed outside the lock.  It must hold that the engine is initialised
  once, that it gets one action at a time for the right device, that nothing
  learned is lost and that every thread ends.
* **Registry.** Several processes share a file without a busy handler and may
  die at any step.  It must hold that ids are unique, permanent, gapless, and
  that what was answered was stored.

The full list of hazards, each at its line and with the properties that cover
it, is in `PROJECT.json`.

## 2. The modules

| Module | Models |
|---|---|
| `LevelScale` | the integer conversions, with their casts |
| `BridgedLights` | the running bridge: handlers, windows, work queue, command threads, engine events |
| `SettledValue` | abstract: a commanded value that is held for its window and otherwise follows the events, in their order |
| `Startup` | ApplicationInit, boot after boot |
| `WemoAdapter` | command threads inside the adapter |
| `CommandDelivery` | abstract: a command is handed to its device at most once, or given up |
| `Bridge` | composition: the handlers of `BridgedLights` with the threads of `WemoAdapter` |
| `EndpointRegistry` | GetOrAssign over SQLite, by several processes |
| `EndpointMap` | abstract: each UDN gets the next id once and keeps it |
| `MCLevelScale`, `MCBridgedLights`, `MCToggle`, `MCConfirmedCommand`, `MCStartup`, `MCBridge` | the instances for TLC: budgets and histories |
| `LevelScale_proofs`, `MCLevelScale_proofs`, `Bridge_proofs`, `BridgedLights_proofs`, `WorkQueue_proofs`, `EndpointRegistry_proofs`, `WemoAdapter_proofs`, `Startup_proofs` | theorems and proofs (`WorkQueue_proofs` also those about `MCToggle`) |

### BridgedLights

`reachable`, `label`, `isOn`, `level` are the fields of `Device`, `DeviceOnOff` and
`DeviceDimmable`; `commandedOnOff`, `commandedLevel` those of
`BridgedWemoLight`; `onOffWindow`, `levelWindow` stand for the two `...Until`
time points as the ticks for which `now <= until` still holds.  `threads` holds
the commands of the detached threads, `work` the Matter work queue (events and
reports in one FIFO), `seen` what subscribers were last sent, `wemo` what the
engine knows of each device and `changed` whether it has yet to report it.
`adrift` is a history variable: the values whose last event was suppressed or
whose command failed, until an event is applied.

| Action | Code |
|---|---|
| `WriteOnOff` | `HandleWriteOnOffAttribute` of a reachable light |
| `WriteLevel`, `IgnoreLevelWrite` | `HandleWriteLevelControlAttribute`, by its early returns |
| `WriteNodeLabel` | `HandleWriteBridgedDeviceBasicAttribute`: `SetName` and its callback report a new name, the handler reports it again |
| `HandleOnlineEvent`, `HandleOfflineEvent` | `HandleWemoEventOnMatterThread` |
| `CallReportingCallback` | the function of that name, which marks the attribute dirty, and the reporting engine's read after it |
| `CommandSucceeds`, `CommandFails` | the end of a thread: `SetOnOff`, `SetLevelPercent` |
| `ReportState` | `OnWeStateEvent` and the callback that queues the event |
| `DeviceChanges`, `Tick` | the environment: devices and the clock |

A handler is one action because it runs to completion on the Matter thread, and
it reads the clock at its start.  A write is the handler proper
(`HandleWriteOnOff`, `HandleWriteLevel`) and the thread it starts (`StartThread`); the
handlers are used once more, with other threads, in `Bridge`.  The adapter's inner
steps are in `WemoAdapter`; here a command takes effect at one moment between the
write and the end of its thread, so commands of two threads are applied in any order.

`QuiescentAgreement` is the central property: of a device whose events are handled,
every mirrored value `Agrees`, or is `Explained` by one of three causes.  A command
under way is a cause only if it carries what the shown value would be sent as
(`Sent`), so a light that shows one value while the only thread left carries another is
a violation.

`SettledValue` is what the handlers promise of each attribute that can be commanded, and
has a clock of its own.  A command is shown at once and held for `Window` ticks, no fewer
and no more.  The events of the queue are its observations: when one is taken, the value
*must* follow it, unless a command is held that it contradicts, and then must not.  Under the
refinement mapping what is held is the commanded field for as long as the clock has not passed
its `...Until` point, whatever the handlers take to be over; so a window they end early, or a
field they forget to reset and go on comparing with, shows as an event that was followed too
soon or not followed.

Two simplifications.  The result of `ScheduleWork`, which no caller looks at (`main.cpp` 476,
1416), is taken to be success: it fails when memory or the queue of the SDK is exhausted.
`MatterReportingAttributeChangeCallback` only marks an attribute dirty; the run of the reporting
engine that follows is part of the same step.

### Startup

`step` is the place in `ApplicationInit`; publication is one action per turn of
the loop (`SkipDevice`, `AddDeviceEndpoint`, `AddFails`) and per turn of the
search for an id (`SkipUsedId`).  Only the on/off state of the devices is kept,
enough to tell whether a change was missed, and of queued events the last one.
Devices are numbers in the order `ApplicationInit` sorts them: by UDN, then by friendly name,
so devices that report an empty UDN are in their place; for two that agree in both, whose order
`std::sort` leaves open, the model takes a fixed one.
`Stop` ends the process at any step, in an orderly way or not.

`BootsAsMap` reads `endpointOf` as the map of the registry (`EndpointMap`): a boot begins an
empty map, and within it every light gets the next free id once.  So the two parts that
give out endpoint ids agree on how, and differ only in what survives a restart, which is
the finding of `startup_persist`.

### WemoAdapter

`pc` follows each thread through `EnsureEngineInitialized`, the cache lookup, the
refresh on a miss and `SendState`; lock holders are explicit.  The module models
the adapter for any caller that the class allows: the Matter app only sends
commands for devices that `Discover` returned, the command-line tool sends one
without having called it.  That a device keeps its `wemo_id` is assumed.

A list holds at most `MaxItems` devices (`WE_DEVICE_LIST_MAX_ITEMS`); which of them when
there are more is the engine's choice (`Listings`).  Devices in `Nameless` report an empty
UDN and are skipped by both loops that fill the cache (`IdsOf`).  A command for such a
device is one for the empty UDN, which several devices may share; here each has a name
of its own that never is in a list, which comes to the same: nothing is found.

`CommandDelivery` is what the adapter promises of a command.  Under its refinement mapping a
command is pending from its thread's start to its end, and what was sent is read as the
engine reads it: the device is the one to which the engine gave the `wemo_id`.

### Bridge

`BridgedLights` takes a command thread for something that holds a command and then succeeds
or fails at once; `WemoAdapter` takes the commands as given.  `Bridge` puts the two
together: it has the variables of both except `threads`, which becomes `carried`, the
command of each thread that has started and not ended.

| Action | Code |
|---|---|
| `WriteOnOff`, `WriteLevel` | the handler, which starts a thread with the command as the adapter takes it |
| `Proceed` | a step of `EnsureEngineInitialized`, `SetOnOff` or `SetLevelPercent` inside the adapter |
| `GiveUp` | a step after which the thread returns false without having sent anything |
| `SendSucceeds`, `SendFails` | `SendState`, as the engine answers: the device with the cached id takes the state, or nothing changes |
| `OtherWrite`, `RunWork`, `WorldChanges`, `EngineReports`, `Tick` | those of `BridgedLights`, which leave the adapter alone |

It begins where `Startup` ends: the lights were published from the list that filled the
cache, so the engine is initialised and every light with a UDN is in the cache
(`CachedAtDiscovery`).  Only devices that are published are in the model.

### EndpointRegistry

The phases of a call are the statements that take or need a lock.  `stagedMap` and
`stagedNext` are the tables as the open transaction sees them, `endpointMap` and
`nextId` the committed ones.  `GiveUp` covers the early returns with
`std::nullopt`, `Crash` the death of the process; both leave the committed
tables.  `CommitFails` is a COMMIT that meets a reader or, with `DiskFails`, a file that
cannot be written.

## 3. The runs

| Run | Question | Bounds |
|---|---|---|
| `scale` | conversions on every level | none: all 256 values |
| `dimmer` | one dimmer: windows, stale events, overtaking and failing threads, and that it refines `SettledValue` | 2 writes, 1 change by hand, 2 threads, 1 tick, queue of 2 when added to |
| `toggle` | toggling, with the level writes controllers add to it, keeps the brightness | 5 writes, 2 changes by hand, 2 threads, 1 tick |
| `live` | resynchronisation and delivery to subscribers, under fairness | 2 writes, 2 threads, 1 change, window of one instant |
| `confirmed` | violation, see findings | 1 change |
| `registry` | registry: safety, progress, refinement of `EndpointMap` | 2 processes, 3 devices, COMMITs that fail for any reason |
| `registry_busy` | violation, see findings | 2 processes, 2 devices, COMMITs that only fail for a reader |
| `startup`, `startup_live` | publication, safety and progress; each boot refines `EndpointMap` | 3 devices for 2 slots, 5 ids; 3 devices for 3 slots at rest |
| `startup_persist` | violation, see findings | 2 devices |
| `adapter` | adapter threads: safety, no circle of waiting, progress, refinement of `CommandDelivery` | 2 threads, 3 devices of which one is nameless, lists of 2 |
| `bridge` | handlers and adapter threads together: refinement of `BridgedLights`, progress | a dimmer and a nameless switch, 2 threads, 2 writes or changes by hand, window of one instant, queue of 1 when added to |

Why the bounds are enough.  Two writes give every order of two commands and of
their events, and a command that meets the window of the one before; one
change by hand supplies the genuine change that looks like an echo.  The levels
are the two the minimum guard drops (0 and 1), one that truncates to 0%, and one
in the middle; 1% and 50% are echoes that differ from those commands.  The queue bound
only keeps actions that add an item from running further ahead: a full queue of
events and reports of both kinds occurs.  Three devices for two slots make
devices be skipped and refused.  The wrap of `gCurrentEndpointId` (`main.cpp` 411-414) is
translated (`IdAfter`) but never taken, in the model or in the program: the ids from the
first dynamic one up outnumber the endpoints (`EndpointRoom`), and each boot begins at
that one.  Two writers of a lock protocol contend in every
way.  Two adapter threads with three devices and lists of two let one thread merge a
list between the other's listing and its merge, with each list holding a device the
other lacks.  In `toggle`, five writes are an on/off pair with a level write before,
between and after.  `bridge` has two lights, so that an event, a report or a command of
one could stand in for the other's, and one of each kind of path through the adapter.
The proofs of the refinement and of the invariants put no bound on any of these.

**Fairness.**  `BridgedLights`: the event loop runs queued work, a thread ends when
the engine answers or fails (a TCP round trip returns), the clock moves.  Neither
controllers nor devices nor the engine's reports are fair; `Resynchronises` is
about devices that are reported again and again, as `wemo_ctrl` does on its polls.
`Startup`: ApplicationInit runs on unless stopped.  `WemoAdapter` and `Bridge`: a
thread that is not blocked goes on, one fairness condition per thread, none for locks:
a mutex need not be fair, and since every thread carries one command nobody is
overtaken for ever.  `EndpointRegistry`: a call that has begun goes on; it
is never blocked by a lock as no busy handler is set.

Deadlock is checked everywhere except for `WemoAdapter` and `Bridge`, where all commands
may be done; `ThreadsEnd` and `CommandsEnd` say there that nobody is stuck.  (The clock of
`Bridge` never stops, so a deadlock check would say nothing.)

`toggle` does not check a handler against itself: `HandleWriteLevelControlAttribute` tells a
transient level write by the open window and a synthetic one by its value, and the run
asks whether these two guards, the lazy reset and the suppression of events together keep
what `COMPATIBILITY.md:15` expects.  `OnOffSettling` ending one tick early breaks it.  The
controllers of this run write only levels that the guards are meant to drop, the minimum or any
level while the window is open; a level above the minimum ahead of the on/off write, or after the
window, is a dimming, and `dimmer` covers it.

### Findings

* `startup_persist`: the README promises that UDN to endpoint id is persisted;
  the Matter app numbers the lights of each discovery anew, so a missing device
  moves the ids of those behind it (the registry is only used by the
  command-line tool).
* `confirmed`: the comment at `main.cpp:644` says echoes are suppressed "until
  confirmed"; a confirming event does not end the suppression.
* `registry_busy`: the result of COMMIT is not looked at, so an id may be
  returned that was not stored and is given to another UDN later.

## 4. The proofs

Assumptions are those named in the modules.  `BridgedLights`: `Dimmers` is part of
`Devices`, levels and percentages are in their ranges, `SettleTicks` is a natural
number, and `Idle` is not a command; no bound is put on lights, threads, the queue or
the window.  `EndpointRegistry`: there are finitely many UDNs and, with the fixed
endpoints, fewer of them than ids (`RoomAssumption`).  `WemoAdapter`: finitely many
devices.  `Bridge`: the same of lights and levels; `None` and `Idle` are no other value.
`Startup`: UDNs are natural numbers (only their order matters), there is at
least one endpoint, and the ids from `FirstId` on suffice for all endpoints
(`FirstId + Capacity <= IdModulus`); how many devices there are is not bounded.  Every
safety property the passing runs check is proved, and so are the five refinements
(`SettledValue`; `EndpointMap` by the registry and, boot by boot, by startup;
`CommandDelivery`; and `BridgedLights` by `Bridge`).

* `LevelScale_proofs`: lemmas on the conversions: their ranges, `PercentIsShareAlways`,
  `EchoCloseToCommand`, `ShownLevelsOrdered`, `RecallCloseToShown` (writing a shown level back
  loses exactly one percent except at 0, 1, 50 and 100, so a scene that is captured and
  recalled over and over drifts to 50% or to 1%).  `MCLevelScale_proofs` states them of the
  walk through all levels that the run `scale` checks.
* `TypeCorrect` (`TypeOK`): inductive as it stands, one step per action; the lemmas of
  `LevelScale_proofs` give the ranges of converted values.
* `SettleWindowHolds` (`SettleHolds`): inductive together with `TypeOK`.  A write sets
  value, command and window at once; an event either agrees with the command or is
  suppressed; the clock only closes windows; the lazy resets only forget commands.
* `DimmingKeepsLightOn` (`LevelCommandsKeepLightOn`): inductive with `TypeOK`, from
  `PercentNotZero` and the minimum guard.
* `SettledRefinement` (`ImplementsSettledValue`): every action is a step of
  `SettledValue` or changes nothing of it: an accepted write is a `Command`, each of the three
  handlers of queued work an `Observe`, the clock a `Tick`, and what else schedules work a
  `Queue`.  It is proved in `WorkQueue_proofs`, from what handlers and writes do to the queue
  (`QueueKept`, `QueueMoved`: the observations still waiting keep their order).  The lemma that
  carries it is `RunWorkObserves`: a handler's lazy test, the field set and the window not over,
  and the window of the mapping agree at every event, although the field may be reset at any of
  them or not at all.
* `SubscribersStayCurrent` (`ViewCurrent`), in `WorkQueue_proofs`: by lemmas about appending
  to a sequence and removing its head, no queued report is dropped except by the
  callback that sends it, and every step that changes what a read returns appends one.
  Inductive with `TypeOK`.
* `LastEventIsCurrent` (`LastEventCurrent`): every step but `ReportState` either appends
  reports only (`QueueKept`) or takes the head and appends reports only
  (`QueueMoved`); so the last event of a device stays the last until it is handled.
* `QuietLightsAgree` (`QuiescentAgreement`): inductive only together with `TypeOK`,
  `LastEventCurrent` (the event that makes a device quiet carries its present state)
  and `LevelCommandsKeepLightOn` (a level command that leaves the device unchanged
  leaves it at the percentage sent: the clamp of `SetLevelPercent` does nothing).  One
  lemma per action; `ExplainedKept` carries explanations across the steps that do not
  touch the value.
* `HandlingDrains`: each item the Matter thread handles leaves one event less, or one item less
  and no event more.  A handled event may schedule reports, so the queue may grow, but never
  by an event: what is left is the pair of events and items, which falls.
* `TogglingKeepsBrightness` (`TogglesKeepBrightness`), for `ToggleSpec` with any budgets:
  inductive with `TypeOK` and `OnlyToggled`, which says why toggling is harmless.  An open
  on/off window always has its command, so a transient level meets a guard; no thread
  carries a level; and every queued event carries the brightness of before, so it does
  not matter when it is applied.

`EndpointRegistry_proofs`: one inductive invariant `IInv` carries all theorems.  Its parts are
`TypeOK`; `Locked`, the process between BEGIN and the end of its call is the writer;
`Rows`, the ids of the committed rows are exactly those from `FirstId` to the counter;
and `StagedByPhase`, what the writer's private tables hold after each statement.  `Rows`
is needed in that strength because `QueryNextEndpointId` answers `FirstId` when it fails:
that id is free only while there is no row (`InsertsNext`), so the UNIQUE constraint
catches the failure.  `RowAdded` shows that the next row keeps `Rows` and that the counter
does not wrap.  `MapRefinement` follows since `Commit` is the only step that changes the
committed tables, and it adds one row with the next id; `EndpointsPermanent`, that no row
ever changes, is the part of it the repository's README promises.

`WemoAdapter_proofs`: again one invariant.  `Locked` ties each lock to the places in the code
where it is held; `EngineState` says what the two statics know; `Copies` says that neither the
cache nor a list a thread still holds contradicts the engine, which is why merging them in any
order loses nothing; `Actions` keeps what was sent, whose thread is over.  For
`DeliveryRefinement` one more part is needed, `IdsUnique`: the engine gives every device an id
of its own (the number of those it knew), so the device that has the id of an action is the
one the cache was asked for, and stays it when others appear.  `LocksAreShort` follows from
`Locked`: the places where a lock is held are not those where one is waited for.
`ActionsExclude` is about `we_set_action` alone: from the lookup of an id to the engine's answer
no other thread sends an action or changes the cache.  Other threads may call `we_init`,
`we_discover` and `we_list_devices` meanwhile, which the code does without the mutex.
`CommandsAdvance` orders the places (`Stage`) and shows that a thread only moves up.

`Bridge_proofs`: `BridgeRefinement` rests on an invariant `BInv` of the adapter's half only, which
says nothing of the locks.  `Threaded`: a running thread carries a command that a handler
gave it; `Identified`: no two lights share an id; `Cached`: the cache holds the ids of all lights
that have a UDN and of no other, lists in hand contradict none of them, and where a thread
stands tells whether its light has one.  With it,
`Proceed` changes nothing `BridgedLights` sees, `GiveUp` and `SendFails` are `CommandFails`, and
`SendSucceeds` is `CommandSucceeds`: the light with the cached id is the one written to, and
`SetAction` of the adapter's state and level is `Commanded` of the handler's value, where the
clamp and the on/off state derived from the percentage meet.  `NamedLightsAlwaysHit` follows
from the cache being filled at discovery and never shrinking.  What is proved of
`BridgedLights` for its `Spec` thereby holds of the composition; the theorems themselves are
not restated for `Bridge`, since the prover does not instantiate theorems along `INSTANCE`.

`Startup_proofs`: one invariant for the whole of ApplicationInit.  `Ordered`: the lights
are in UDN order and before every device still to come, since each turn of the loop takes
the least one (`NextUdnIsLeast`, by well-founded minimum).  `Numbered`: the ids of the
lights run from `FirstId` without gaps and `gCurrentEndpointId` is the last id used or
the one after it; so the search for a free id stops there at once or one further on
(`CurrentIdLemma`, `NoWrap`), and a refused addition that has already advanced it leaves no hole.
`Discovered`: before discovery there is nothing to publish and afterwards the engine is
known to be there if anything was found, which is why RegisterStateCallback cannot drop
the callback of a bridge that has lights.  `EndpointsByRank` then counts the lights before
one of them by the bijection of their positions (`RankInOrder`).  `Numbered` also gives
`NextDeviceHasRoom` (`SearchIsShort`: if the current id is in use, the one after it is not)
and with it `StartupAdvances`: each step moves `step` on, or shortens the list of remaining
devices, or makes the current id a free one.  `StartupRefinesMap` adds `Mapped`, that the
devices with an id are those on the list, so the id an addition gives (`currentId`, free and
hence the one after the last) is `FirstId` plus the number of ids given.

Only model-checked: what is stated under fairness (`Resynchronises`, `ViewConverges`,
`StartupEnds`, `ThreadsEnd`, `CallsReturn`, `CommandsEnd`), as the prover can reason neither
about ENABLED nor by induction on a measure.  Of three of them the part that is safety is
proved: every step of the process in question lowers a measure that nothing else but new
work raises (`HandlingDrains` for the work queue, `StartupAdvances`, `CommandsAdvance`); that no
wait blocks such a step for ever rests on `LocksAreShort` and `NextDeviceHasRoom`.  What
remains to TLC is that fairness makes the steps happen.

## 5. State of the plan

Done: the running bridge, startup, the registry and the adapter; the abstract
specifications of commanded values, of endpoint maps and of the delivery of commands, each
implemented by the detailed modules; the composition of handlers and adapter, which
implements the running bridge; their runs; and proofs of every safety property, action
property and refinement that the passing runs check.

Left: the same safety half for `CommandsEnd` and `CallsReturn`, that a step of `Bridge` or of a
call to the registry only moves on; it needs nothing new.  The command-line tool's `list` as a
whole would add nothing that the calls of several processes in `EndpointRegistry` do not
already have: it is a loop of `GetOrAssign` that keeps no state.

Not modelled: see the end of the table in section 1.  Beyond the components named there: the
destruction of `gWemoAdapter` at exit while threads use it (undefined behaviour of a process
that has left `main`), a restart of `wemo_ctrl` that renumbers devices (not determined by this
repository), and event levels above 100 (outside the engine's contract).
