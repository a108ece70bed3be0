--------------------------- MODULE BridgedLights ---------------------------
(***************************************************************************)
(* The running bridge: the Matter endpoints of the published WeMo lights,  *)
(* the handlers that run on the Matter thread (attribute writes, WeMo      *)
(* events, reporting callbacks), the detached threads that carry commands  *)
(* to the engine, and the engine's asynchronous state events.              *)
(*                                                                         *)
(* A write changes the shown value at once and opens a settle window for   *)
(* it; while the window is open, events that contradict the command are    *)
(* suppressed.  Fields of BridgedWemoLight are only reset lazily, by the   *)
(* next handler that finds the window over.                                *)
(*                                                                         *)
(* Time is counted in ticks: onOffWindow[d] is the number of ticks for     *)
(* which now <= commandedOnOffUntil still holds, -1 once now is past it.   *)
(***************************************************************************)
EXTENDS LevelScale, Sequences

CONSTANTS
    Devices,      \* published WeMo lights
    Dimmers,      \* those published as dimmable lights
    MatterLevels, \* levels a controller may write
    Percents,     \* brightness values a WeMo device may have
    Labels,       \* node labels
    SettleTicks,  \* kCommandSettleWindow, in ticks
    Threads,      \* bound on the detached command threads alive at once
    Idle,         \* a thread that carries no command
    MaxWork       \* bound on the Matter work queue when a step adds to it

Command == [dev : Devices, kind : {"onoff"}, value : {0, 1}]
           \cup [dev : Dimmers, kind : {"level"}, value : Byte]

ASSUME DimmersAssumption == Dimmers \subseteq Devices
ASSUME LevelsAssumption == MatterLevels \subseteq Byte /\ Percents \subseteq Percent
ASSUME SettleAssumption == SettleTicks \in Nat
ASSUME IdleAssumption == Idle \notin Command
ASSUME MaxWorkAssumption == MaxWork \in Nat

VARIABLES
    reachable,      \* Device::IsReachable
    isOn,           \* DeviceOnOff::IsOn
    level,          \* DeviceDimmable::GetLevel
    label,          \* Device::GetName, the NodeLabel attribute
    commandedOnOff, \* BridgedWemoLight::commandedOnOff: -1, 0 or 1
    commandedLevel, \* BridgedWemoLight::commandedLevel: -1 or a level
    onOffWindow,    \* ticks left of commandedOnOffUntil
    levelWindow,    \* ticks left of commandedLevelUntil
    threads,        \* the command each detached thread carries
    work,           \* PlatformMgr's work queue: WeMo events and reports
    seen,           \* the attribute values the subscribers were last sent
    wemo,           \* state of each WeMo device, as the engine knows it
    changed,        \* the engine has a state of the device it did not report
    adrift          \* history: values whose last event was suppressed or
                    \* whose command failed, until an event is applied again

shownVars == <<reachable, isOn, level, label>>
settleVars == <<commandedOnOff, commandedLevel, onOffWindow, levelWindow>>
engineVars == <<wemo, changed>>
vars == <<reachable, isOn, level, label, commandedOnOff, commandedLevel,
          onOffWindow, levelWindow, threads, work, seen, wemo, changed, adrift>>

\* The attributes with a value of the device's own, and those among them that
\* mirror the device.
Attributes(d) == {"reachable", "onoff", "label"} \cup IF d \in Dimmers THEN {"level"} ELSE {}
Mirrored(d) == Attributes(d) \ {"reachable", "label"}

\* What a device may be found in, and what a command may leave it in.
WemoState == [online : BOOLEAN, on : BOOLEAN, percent : Percents \cup {-1}]
DeviceState == [online : BOOLEAN, on : BOOLEAN, percent : Percent \cup {-1}]

EventItem == [kind : {"event"}, dev : Devices, state : DeviceState]
ReportItem == [kind : {"report"}, dev : Devices,
               attr : {"reachable", "onoff", "level", "label"}]
WorkItem == EventItem \cup ReportItem

-----------------------------------------------------------------------------
(***************************************************************************)
(* Faulty variants of definitions below.  No action uses them; each stands *)
(* for a slip the properties must catch when it replaces the definition    *)
(* named first in its own name.                                            *)
(***************************************************************************)
Bit_RawByte(b) == IF b THEN 255 ELSE 0
ScheduleWork_InFront(queue, items) == items \o queue
SuppressOnOff_Never(d, s) == FALSE
OnOffSettling_NeverOver(d) == commandedOnOff[d] >= 0
OnOffSettling_EndsEarly(d) == commandedOnOff[d] >= 0 /\ onOffWindow[d] > 0
NewOn_WhenReachable(d, s) == IF reachable[d] THEN s.on ELSE isOn[d]
Reports_DimmerNotBridged(d, a, old, new) ==
    IF old # new /\ a \in {"reachable", "level", "label"} \cup IF d \in Dimmers THEN {} ELSE {"onoff"}
    THEN << [kind |-> "report", dev |-> d, attr |-> a] >>
    ELSE << >>

-----------------------------------------------------------------------------
Bit(b) == IF b THEN 1 ELSE 0

\* What a read of the attribute returns.
ReadAttribute(d, a) == CASE a = "reachable" -> Bit(reachable[d])
                         [] a = "onoff"     -> Bit(isOn[d])
                         [] a = "level"     -> level[d]
                         [] a = "label"     -> label[d]

ReportOf(d, a) == [kind |-> "report", dev |-> d, attr |-> a]

\* The work a setter's change callback schedules: one report for the
\* attribute, if its value changed and the endpoint has it.
Reports(d, a, old, new) ==
    IF old # new /\ a \in Attributes(d) THEN <<ReportOf(d, a)>> ELSE << >>

\* PlatformMgr().ScheduleWork appends to the work queue of the Matter thread.
\* Its result, which no caller looks at, is taken to be success.
ScheduleWork(queue, items) == queue \o items

EventsOf(d) == {i \in DOMAIN work : work[i].kind = "event" /\ work[i].dev = d}
ReportPending(d, a) == \E i \in DOMAIN work : work[i] = ReportOf(d, a)
InFlight(d, k) ==
    {t \in Threads : threads[t] # Idle /\ threads[t].dev = d /\ threads[t].kind = k}

-----------------------------------------------------------------------------
(***************************************************************************)
(* ApplicationInit leaves each light as discovery saw it, with no command  *)
(* pending.  Events fired before the callback was registered are lost, so  *)
(* the device may have moved on since; Refresh makes the engine report     *)
(* every device again.                                                     *)
(***************************************************************************)
Init ==
    /\ wemo \in [Devices -> WemoState]
    /\ \E found \in [Devices -> WemoState] :
        /\ reachable = [d \in Devices |-> found[d].online]
        /\ isOn = [d \in Devices |-> found[d].on]
        /\ level = [d \in Devices |->
                      IF d \in Dimmers /\ found[d].percent >= 0
                      THEN WemoToMatterLevel(found[d].percent) ELSE 0]
    /\ commandedOnOff = [d \in Devices |-> -1]
    /\ commandedLevel = [d \in Devices |-> -1]
    /\ onOffWindow = [d \in Devices |-> -1]
    /\ levelWindow = [d \in Devices |-> -1]
    /\ threads = [t \in Threads |-> Idle]
    /\ work = << >>
    /\ label \in [Devices -> Labels]
    /\ seen = [d \in Devices |-> [reachable |-> Bit(reachable[d]), onoff |-> Bit(isOn[d]),
                                  level |-> level[d], label |-> label[d]]]
    /\ changed = [d \in Devices |-> TRUE]
    /\ adrift = {}

-----------------------------------------------------------------------------
(* Attribute writes, on the Matter thread. *)

\* What the on/off handler itself does for a reachable light.  (A write to an
\* unreachable one fails and changes nothing.)
HandleWriteOnOff(d, on) ==
    /\ reachable[d]
    /\ Len(work) < MaxWork
    /\ isOn' = [isOn EXCEPT ![d] = on]
    /\ work' = ScheduleWork(work, Reports(d, "onoff", isOn[d], on))
    /\ commandedOnOff' = [commandedOnOff EXCEPT ![d] = Bit(on)]
    /\ onOffWindow' = [onOffWindow EXCEPT ![d] = SettleTicks]
    /\ UNCHANGED <<reachable, level, label, commandedLevel, levelWindow, seen, engineVars, adrift>>

\* The detached thread it starts.
StartThread(t, c) ==
    /\ threads[t] = Idle
    /\ threads' = [threads EXCEPT ![t] = c]

\* A controller writes OnOff.
WriteOnOff(d, t, on) ==
    /\ HandleWriteOnOff(d, on)
    /\ StartThread(t, [dev |-> d, kind |-> "onoff", value |-> Bit(on)])

OnOffSettling(d) == commandedOnOff[d] >= 0 /\ onOffWindow[d] >= 0
LevelSettling(d) == commandedLevel[d] >= 0 /\ levelWindow[d] >= 0

\* A level write that changes nothing the controller sees: sent during an
\* on/off settle window, or the synthetic minimum level of an "off".  The
\* pending on/off command is forgotten if its window is over.
IgnoreLevelWrite(d, m) ==
    /\ reachable[d]
    /\ OnOffSettling(d) \/ m <= 1
    /\ commandedOnOff' =
         [commandedOnOff EXCEPT ![d] = IF OnOffSettling(d) THEN @ ELSE -1]
    /\ UNCHANGED <<shownVars, commandedLevel, onOffWindow, levelWindow, threads,
                   work, seen, engineVars, adrift>>

\* A level write that is accepted.
HandleWriteLevel(d, m) ==
    /\ reachable[d]
    /\ ~OnOffSettling(d)
    /\ m > 1
    /\ Len(work) < MaxWork
    /\ commandedOnOff' = [commandedOnOff EXCEPT ![d] = -1]
    /\ level' = [level EXCEPT ![d] = m]
    /\ work' = ScheduleWork(work, Reports(d, "level", level[d], m))
    /\ commandedLevel' = [commandedLevel EXCEPT ![d] = m]
    /\ levelWindow' = [levelWindow EXCEPT ![d] = SettleTicks]
    /\ UNCHANGED <<reachable, isOn, label, onOffWindow, seen, engineVars, adrift>>

\* ... and sent to the device as a percentage.
WriteLevel(d, t, m) ==
    /\ HandleWriteLevel(d, m)
    /\ StartThread(t, [dev |-> d, kind |-> "level", value |-> MatterToWemoPercent(m)])

\* A controller names a light.  SetName reports a new name by its callback, and
\* the handler reports it once more, new or not.
WriteNodeLabel(d, name) ==
    /\ reachable[d]
    /\ Len(work) < MaxWork
    /\ label' = [label EXCEPT ![d] = name]
    /\ work' = ScheduleWork(work, Reports(d, "label", label[d], name) \o <<ReportOf(d, "label")>>)
    /\ UNCHANGED <<reachable, isOn, level, settleVars, threads, seen, engineVars, adrift>>

-----------------------------------------------------------------------------
(* The Matter work queue: each step takes the item at its head. *)

SuppressOnOff(d, s) == OnOffSettling(d) /\ Bit(s.on) # commandedOnOff[d]
SuppressLevel(d, s) == LevelSettling(d) /\ WemoToMatterLevel(s.percent) # commandedLevel[d]

\* An event that finds its device offline only moves reachability.
HandleOfflineEvent ==
    /\ work # << >>
    /\ Head(work).kind = "event"
    /\ ~Head(work).state.online
    /\ LET d == Head(work).dev
       IN  /\ reachable' = [reachable EXCEPT ![d] = FALSE]
           /\ work' = ScheduleWork(Tail(work), Reports(d, "reachable", reachable[d], FALSE))
    /\ UNCHANGED <<isOn, level, label, settleVars, threads, seen, engineVars, adrift>>

\* The on/off state and level shown after an event of an online device.  Only
\* a dimmer that reports a level has one to show.
HasLevel(d, s) == d \in Dimmers /\ s.percent >= 0
NewOn(d, s) == IF SuppressOnOff(d, s) THEN isOn[d] ELSE s.on
NewLevel(d, s) == IF ~HasLevel(d, s) \/ SuppressLevel(d, s)
                  THEN level[d] ELSE WemoToMatterLevel(s.percent)

\* What the event observed, and the part of it that was suppressed.
Observed(d, s) == {<<d, "onoff">>} \cup IF HasLevel(d, s) THEN {<<d, "level">>} ELSE {}
Suppressed(d, s) ==
    (IF SuppressOnOff(d, s) THEN {<<d, "onoff">>} ELSE {})
    \cup (IF HasLevel(d, s) /\ SuppressLevel(d, s) THEN {<<d, "level">>} ELSE {})

\* An event of an online device: reachability, then on/off, then the level,
\* each value unless it is suppressed; commands whose window is over are
\* forgotten.
HandleOnlineEvent ==
    /\ work # << >>
    /\ Head(work).kind = "event"
    /\ Head(work).state.online
    /\ LET d == Head(work).dev
           s == Head(work).state
       IN  /\ reachable' = [reachable EXCEPT ![d] = TRUE]
           /\ isOn' = [isOn EXCEPT ![d] = NewOn(d, s)]
           /\ level' = [level EXCEPT ![d] = NewLevel(d, s)]
           /\ commandedOnOff' =
                [commandedOnOff EXCEPT ![d] = IF OnOffSettling(d) THEN @ ELSE -1]
           /\ commandedLevel' =
                [commandedLevel EXCEPT ![d] =
                   IF ~HasLevel(d, s) \/ LevelSettling(d) THEN @ ELSE -1]
           /\ work' = ScheduleWork(Tail(work), Reports(d, "reachable", reachable[d], TRUE)
                                               \o Reports(d, "onoff", isOn[d], NewOn(d, s))
                                               \o Reports(d, "level", level[d], NewLevel(d, s)))
           /\ adrift' = (adrift \ Observed(d, s)) \cup Suppressed(d, s)
    /\ UNCHANGED <<label, onOffWindow, levelWindow, threads, seen, engineVars>>

\* CallReportingCallback marks the attribute dirty, for the reporting engine to
\* read it and send its value to the subscribers.  The engine's run is part of
\* this step: it reads no older value than this, and is run again for a later
\* one.
CallReportingCallback ==
    /\ work # << >>
    /\ Head(work).kind = "report"
    /\ LET d == Head(work).dev
           a == Head(work).attr
       IN  seen' = [seen EXCEPT ![d] = [@ EXCEPT ![a] = ReadAttribute(d, a)]]
    /\ work' = Tail(work)
    /\ UNCHANGED <<shownVars, settleVars, threads, engineVars, adrift>>

RunWork == HandleOfflineEvent \/ HandleOnlineEvent \/ CallReportingCallback

-----------------------------------------------------------------------------
(* Detached command threads and the engine. *)

\* The state a device takes on a command: SendState(on, -1) leaves the
\* brightness alone, SendState(percent > 0, percent) sets both.
Commanded(s, c) ==
    IF c.kind = "onoff" THEN [s EXCEPT !.on = (c.value = 1)]
    ELSE [s EXCEPT !.on = (c.value > 0), !.percent = ClampPercent(c.value)]

\* The device an online command reaches takes the state s.
DeviceTakes(d, s) ==
    /\ wemo[d].online
    /\ wemo' = [wemo EXCEPT ![d] = s]
    /\ changed' = [changed EXCEPT ![d] = @ \/ s # wemo[d]]

\* The engine carries the command out; the thread ends.
CommandSucceeds(t) ==
    /\ threads[t] # Idle
    /\ LET c == threads[t] IN DeviceTakes(c.dev, Commanded(wemo[c.dev], c))
    /\ threads' = [threads EXCEPT ![t] = Idle]
    /\ UNCHANGED <<shownVars, settleVars, work, seen, adrift>>

\* The engine refuses the command, or cannot be reached: SetOnOff and
\* SetLevelPercent return false and the thread ignores it.
CommandFails(t) ==
    /\ threads[t] # Idle
    /\ adrift' = adrift \cup {<<threads[t].dev, threads[t].kind>>}
    /\ threads' = [threads EXCEPT ![t] = Idle]
    /\ UNCHANGED <<shownVars, settleVars, work, seen, engineVars>>

\* Someone presses the switch, dims the light, or the network loses it.
DeviceChanges(d, s) ==
    /\ s # wemo[d]
    /\ wemo' = [wemo EXCEPT ![d] = s]
    /\ changed' = [changed EXCEPT ![d] = TRUE]
    /\ UNCHANGED <<shownVars, settleVars, threads, work, seen, adrift>>

\* wemo_ctrl reports a device, after a change or of its own accord, and the
\* state callback queues the event for the Matter thread.
ReportState(d) ==
    /\ Len(work) < MaxWork
    /\ work' = ScheduleWork(work, << [kind |-> "event", dev |-> d, state |-> wemo[d]] >>)
    /\ changed' = [changed EXCEPT ![d] = FALSE]
    /\ UNCHANGED <<shownVars, settleVars, threads, seen, wemo, adrift>>

\* The clock moves on.
Tick ==
    LET Countdown(w) == [d \in Devices |-> IF w[d] >= 0 THEN w[d] - 1 ELSE -1]
    IN  /\ onOffWindow' = Countdown(onOffWindow)
        /\ levelWindow' = Countdown(levelWindow)
        /\ UNCHANGED <<shownVars, commandedOnOff, commandedLevel, threads, work,
                       seen, engineVars, adrift>>

-----------------------------------------------------------------------------
ControllerWrites ==
    \/ \E d \in Devices, t \in Threads, on \in BOOLEAN : WriteOnOff(d, t, on)
    \/ \E d \in Dimmers, m \in MatterLevels : IgnoreLevelWrite(d, m)
    \/ \E d \in Dimmers, t \in Threads, m \in MatterLevels : WriteLevel(d, t, m)
    \/ \E d \in Devices, name \in Labels : WriteNodeLabel(d, name)

WorldChanges == \E d \in Devices, s \in WemoState : DeviceChanges(d, s)

CommandEnds == \E t \in Threads : CommandSucceeds(t) \/ CommandFails(t)

EngineReports == \E d \in Devices : ReportState(d)

Next == ControllerWrites \/ WorldChanges \/ CommandEnds \/ EngineReports \/ RunWork \/ Tick

Spec == Init /\ [][Next]_vars

(***************************************************************************)
(* Fairness.  The Matter event loop runs until the process ends, a         *)
(* detached thread returns once the engine answers it, and the clock       *)
(* moves on.  Nothing is assumed of controllers, of the devices or of how  *)
(* often wemo_ctrl reports.                                                *)
(***************************************************************************)
Fairness ==
    /\ WF_vars(RunWork)
    /\ \A t \in Threads : WF_vars(CommandSucceeds(t) \/ CommandFails(t))
    /\ WF_vars(Tick)

FairSpec == Spec /\ Fairness

-----------------------------------------------------------------------------
(* Properties. *)

\* Every variable keeps its type: in particular what the uint8_t level, the
\* commanded fields and the queued work hold after the conversions of the
\* write and event handlers.
TypeOK ==
    /\ reachable \in [Devices -> BOOLEAN]
    /\ isOn \in [Devices -> BOOLEAN]
    /\ level \in [Devices -> Byte]
    /\ label \in [Devices -> Labels]
    /\ commandedOnOff \in [Devices -> {-1, 0, 1}]
    /\ commandedLevel \in [Devices -> Byte \cup {-1}]
    /\ onOffWindow \in [Devices -> -1 .. SettleTicks]
    /\ levelWindow \in [Devices -> -1 .. SettleTicks]
    /\ threads \in [Threads -> Command \cup {Idle}]
    /\ work \in Seq(WorkItem)
    /\ seen \in [Devices -> [reachable : {0, 1}, onoff : {0, 1}, level : Byte, label : Labels]]
    /\ wemo \in [Devices -> DeviceState]
    /\ changed \in [Devices -> BOOLEAN]
    /\ adrift \subseteq Devices \X {"onoff", "level"}

\* No stale event flips a commanded value back: as long as the settle window
\* of a command is open, the light shows the commanded on/off state and the
\* commanded level, whatever events and other writes were handled meanwhile
\* (HandleWemoEventOnMatterThread, HandleWrite*Attribute).
SettleHolds ==
    \A d \in Devices :
        /\ OnOffSettling(d) => Bit(isOn[d]) = commandedOnOff[d]
        /\ LevelSettling(d) => level[d] = commandedLevel[d]

\* Dimming never turns a light off: a level command under way carries 1..100
\* percent, so the state SetLevelPercent derives from it is "on".  It takes
\* the minimum-level guard and the truncating conversion together.
LevelCommandsKeepLightOn ==
    \A t \in Threads :
        threads[t] # Idle /\ threads[t].kind = "level" =>
            /\ ClampPercent(threads[t].value) = threads[t].value
            /\ threads[t].value > 0

\* Subscribers are never silently behind: whenever what they were last sent
\* differs from what a read returns, a report for that attribute is queued.
\* It relates every setter's change callback (the bridged one of a dimmer
\* included) to the work queue.
ViewCurrent ==
    \A d \in Devices : \A a \in Attributes(d) :
        seen[d][a] = ReadAttribute(d, a) \/ ReportPending(d, a)

\* The shown value and the device's are the same, brightness up to the two
\* conversions.
Agrees(d, a) ==
    IF a = "onoff" THEN isOn[d] = wemo[d].on
    ELSE wemo[d].percent >= 0 =>
            \/ level[d] = WemoToMatterLevel(wemo[d].percent)
            \/ MatterToWemoPercent(level[d]) = wemo[d].percent

\* What a command for the shown value carries.
Sent(d, a) == IF a = "onoff" THEN Bit(isOn[d]) ELSE MatterToWemoPercent(level[d])

\* A value is shown as it is, or there is a reason why not.
Explained(d, a) ==
    \/ <<d, a>> \in adrift
    \/ \E t \in InFlight(d, a) : threads[t].value = Sent(d, a)
    \/ Agrees(d, a)

\* Once the engine has nothing new to report of a device and its events are
\* handled, the bridge shows its reachability, and shows an online device as
\* it is, unless a command for the very value it shows is still under way, the
\* value's last event was suppressed, or a command for it failed since.
QuiescentAgreement ==
    \A d \in Devices :
        ~changed[d] /\ EventsOf(d) = {} =>
            /\ reachable[d] = wemo[d].online
            /\ wemo[d].online => \A a \in Mirrored(d) : Explained(d, a)

\* The last event queued for a device the engine has nothing new of carries
\* its current state: events are neither lost nor reordered between the IPC
\* thread and the Matter thread.
LastEventCurrent ==
    \A d \in Devices :
        ~changed[d] =>
            \A i \in EventsOf(d) :
                (\A j \in EventsOf(d) : j <= i) => work[i].state = wemo[d]

\* A device that wemo_ctrl keeps reporting is shown as it is in the end, also
\* after suppressed events and failed commands: no command is remembered past
\* its window.
Resynchronises ==
    \A d \in Devices :
        []<><<ReportState(d)>>_vars =>
            <>[](/\ reachable[d] = wemo[d].online
                 /\ wemo[d].online =>
                      \A a \in Mirrored(d) : Agrees(d, a))

\* What subscribers were sent is what a read returns, in the end.
ViewConverges ==
    \A d \in Devices : \A a \in Attributes(d) :
        <>[](seen[d][a] = ReadAttribute(d, a))

-----------------------------------------------------------------------------
(***************************************************************************)
(* The abstract specification each attribute implements.  The commanded    *)
(* fields are reset lazily, each handler looking at its own; what is held  *)
(* is the field until the clock passes the end of its window.              *)
(***************************************************************************)
Commandable == (Devices \X {"onoff"}) \cup (Dimmers \X {"level"})

ShownOf(c) == IF c[2] = "onoff" THEN Bit(isOn[c[1]]) ELSE level[c[1]]

WindowOf(c) == IF c[2] = "onoff" THEN onOffWindow[c[1]] ELSE levelWindow[c[1]]

HeldOf(c) == IF WindowOf(c) < 0 THEN -1
             ELSE IF c[2] = "onoff" THEN commandedOnOff[c[1]] ELSE commandedLevel[c[1]]

\* What an item of the work queue says of an attribute: reports, and events
\* that find their device offline, say nothing.
Told(item, c) ==
    IF item.kind = "event" /\ item.dev = c[1] /\ item.state.online
    THEN IF c[2] = "onoff" THEN Bit(item.state.on)
         ELSE IF item.state.percent >= 0 THEN WemoToMatterLevel(item.state.percent) ELSE -1
    ELSE -1

shownValues == [c \in Commandable |-> ShownOf(c)]
heldValues == [c \in Commandable |-> HeldOf(c)]
ticksLeft == [c \in Commandable |-> WindowOf(c)]
observations == [i \in DOMAIN work |-> [c \in Commandable |-> Told(work[i], c)]]

Settled == INSTANCE SettledValue
    WITH Keys <- Commandable, Values <- Byte, Window <- SettleTicks, None <- -1,
         shown <- shownValues, held <- heldValues, left <- ticksLeft, queue <- observations

\* The write and event handlers, the clock and the lazy resets together
\* implement a commanded value that is held for exactly its window and then
\* follows the events again, in their order, for the on/off state and the level
\* of every light: no reset is forgotten, comes early or hits the other value.
ImplementsSettledValue == Settled!Spec
=============================================================================
