------------------------ MODULE BridgedLights_proofs ------------------------
(***************************************************************************)
(* Proofs about BridgedLights, for any set of lights, dimmers, levels,     *)
(* threads, any settle window and any queue bound.                         *)
(***************************************************************************)
EXTENDS BridgedLights, LevelScale_proofs, SequenceTheorems

\* What a setter's callback schedules is a sequence of work items.
LEMMA ReportsType ==
    ASSUME NEW d \in Devices, NEW a \in {"reachable", "onoff", "level", "label"},
           NEW old, NEW new
    PROVE  /\ ReportOf(d, a) \in WorkItem
           /\ Reports(d, a, old, new) \in Seq(WorkItem)
  <1>1. ReportOf(d, a) \in WorkItem
    BY DEF WorkItem, ReportItem, ReportOf
  <1>2. QED
    BY <1>1 DEF Reports

\* Taking the head of the work queue and scheduling reports keeps it one.
LEMMA WorkType ==
    ASSUME work \in Seq(WorkItem), work # << >>
    PROVE  /\ Head(work) \in WorkItem
           /\ Tail(work) \in Seq(WorkItem)
  OBVIOUS

\* ... and so does scheduling several reports one after the other.
LEMMA ConcatType ==
    ASSUME NEW p \in Seq(WorkItem), NEW q \in Seq(WorkItem),
           NEW r \in Seq(WorkItem), NEW s \in Seq(WorkItem)
    PROVE  p \o q \in Seq(WorkItem) /\ p \o (q \o r \o s) \in Seq(WorkItem)
  OBVIOUS

\* A command under way, of either kind, is a Command.
LEMMA ThreadType ==
    ASSUME TypeOK, NEW t \in Threads, threads[t] # Idle
    PROVE  /\ threads[t] \in Command
           /\ threads[t].dev \in Devices
           /\ threads[t].kind \in {"onoff", "level"}
           /\ threads[t].value \in Byte
  <1>1. threads[t] \in Command
    BY DEF TypeOK
  <1>2. QED
    BY <1>1, DimmersAssumption DEF Command, Byte

\* The state a command leaves a device in is a device state.
LEMMA CommandedType ==
    ASSUME NEW s \in DeviceState, NEW c \in Command
    PROVE  Commanded(s, c) \in DeviceState
  <1>1. c.value \in Byte /\ ClampPercent(c.value) \in Percent
    BY DEF Command, Byte, ClampPercent, Percent
  <1>2. [s EXCEPT !.on = (c.value = 1)] \in DeviceState
    BY DEF DeviceState
  <1> DEFINE b == c.value > 0
             p == ClampPercent(c.value)
  <1>3. b \in BOOLEAN /\ p \in Percent
    BY <1>1
  <1>4. [s EXCEPT !.on = b, !.percent = p] \in DeviceState
    <2> HIDE DEF b, p
    <2>1. QED
      BY <1>3 DEF DeviceState
  <1>5. QED
    BY <1>2, <1>4 DEF Commanded

\* The state a device is found in is a device state.
LEMMA FoundType == WemoState \subseteq DeviceState
  BY LevelsAssumption DEF WemoState, DeviceState

LEMMA InitTypeOK == Init => TypeOK
  <1> SUFFICES ASSUME Init PROVE TypeOK
    OBVIOUS
  <1> PICK found \in [Devices -> WemoState] :
        /\ reachable = [d \in Devices |-> found[d].online]
        /\ isOn = [d \in Devices |-> found[d].on]
        /\ level = [d \in Devices |->
                      IF d \in Dimmers /\ found[d].percent >= 0
                      THEN WemoToMatterLevel(found[d].percent) ELSE 0]
    BY DEF Init
  <1>1. /\ reachable \in [Devices -> BOOLEAN]
        /\ isOn \in [Devices -> BOOLEAN]
    BY DEF WemoState
  <1>2. level \in [Devices -> Byte]
    <2>1. \A d \in Devices : found[d].percent \in Int
      BY FoundType DEF DeviceState, Percent
    <2>2. \A d \in Devices : WemoToMatterLevel(found[d].percent) \in Byte
      BY <2>1, LevelInRange
    <2>3. QED
      BY <2>2 DEF Byte
  <1>3. wemo \in [Devices -> DeviceState]
    BY FoundType DEF Init
  <1>4. /\ label \in [Devices -> Labels]
        /\ seen \in [Devices -> [reachable : {0, 1}, onoff : {0, 1}, level : Byte, label : Labels]]
    BY <1>1, <1>2 DEF Init, Bit
  <1>5. /\ commandedOnOff \in [Devices -> {-1, 0, 1}]
        /\ commandedLevel \in [Devices -> Byte \cup {-1}]
        /\ onOffWindow \in [Devices -> -1 .. SettleTicks]
        /\ levelWindow \in [Devices -> -1 .. SettleTicks]
    BY SettleAssumption DEF Init
  <1>6. work \in Seq(WorkItem) /\ threads \in [Threads -> Command \cup {Idle}]
        /\ changed \in [Devices -> BOOLEAN] /\ adrift \subseteq Devices \X {"onoff", "level"}
    BY DEF Init
  <1>7. QED
    BY <1>1, <1>2, <1>3, <1>4, <1>5, <1>6 DEF TypeOK

LEMMA NextTypeOK == TypeOK /\ [Next]_vars => TypeOK'
  <1> SUFFICES ASSUME TypeOK, [Next]_vars PROVE TypeOK'
    OBVIOUS
  <1>1. ASSUME NEW d \in Devices, NEW t \in Threads, NEW on \in BOOLEAN, WriteOnOff(d, t, on)
        PROVE  TypeOK'
    <2>1. /\ isOn' \in [Devices -> BOOLEAN]
          /\ commandedOnOff' \in [Devices -> {-1, 0, 1}]
          /\ onOffWindow' \in [Devices -> -1 .. SettleTicks]
      BY <1>1, SettleAssumption DEF WriteOnOff, HandleWriteOnOff, StartThread, TypeOK, Bit
    <2>2. work' \in Seq(WorkItem)
      BY <1>1, ReportsType DEF WriteOnOff, HandleWriteOnOff, StartThread, ScheduleWork, TypeOK
    <2>3. threads' \in [Threads -> Command \cup {Idle}]
      <3>1. [dev |-> d, kind |-> "onoff", value |-> Bit(on)] \in Command
        BY DEF Command, Bit
      <3>2. QED
        BY <1>1, <3>1 DEF WriteOnOff, HandleWriteOnOff, StartThread, TypeOK
    <2>4. QED
      BY <1>1, <2>1, <2>2, <2>3 DEF WriteOnOff, HandleWriteOnOff, StartThread, TypeOK, engineVars
  <1>2. ASSUME NEW d \in Dimmers, NEW m \in MatterLevels, IgnoreLevelWrite(d, m)
        PROVE  TypeOK'
    BY <1>2 DEF IgnoreLevelWrite, TypeOK, shownVars, engineVars
  <1>3. ASSUME NEW d \in Dimmers, NEW t \in Threads, NEW m \in MatterLevels, WriteLevel(d, t, m)
        PROVE  TypeOK'
    <2>1. m \in Byte /\ d \in Devices
      BY LevelsAssumption, DimmersAssumption
    <2>2. /\ level' \in [Devices -> Byte]
          /\ commandedLevel' \in [Devices -> Byte \cup {-1}]
          /\ commandedOnOff' \in [Devices -> {-1, 0, 1}]
          /\ levelWindow' \in [Devices -> -1 .. SettleTicks]
      BY <1>3, <2>1, SettleAssumption DEF WriteLevel, HandleWriteLevel, StartThread, TypeOK
    <2>3. work' \in Seq(WorkItem)
      BY <1>3, <2>1, ReportsType DEF WriteLevel, HandleWriteLevel, StartThread, ScheduleWork, TypeOK
    <2>4. threads' \in [Threads -> Command \cup {Idle}]
      <3>1. MatterToWemoPercent(m) \in Byte
        BY <2>1, PercentIsByte
      <3>2. [dev |-> d, kind |-> "level", value |-> MatterToWemoPercent(m)] \in Command
        BY <3>1 DEF Command
      <3>3. QED
        BY <1>3, <3>2 DEF WriteLevel, HandleWriteLevel, StartThread, TypeOK
    <2>5. QED
      BY <1>3, <2>2, <2>3, <2>4 DEF WriteLevel, HandleWriteLevel, StartThread, TypeOK, engineVars
  <1>4. CASE HandleOfflineEvent
    <2> DEFINE d == Head(work).dev
    <2>1. Head(work) \in EventItem /\ Tail(work) \in Seq(WorkItem)
      BY <1>4, WorkType DEF HandleOfflineEvent, TypeOK, WorkItem, ReportItem
    <2>2. d \in Devices
      BY <2>1 DEF EventItem
    <2>3. work' \in Seq(WorkItem)
      <3>1. Reports(d, "reachable", reachable[d], FALSE) \in Seq(WorkItem)
        BY <2>2, ReportsType
      <3>2. work' = Tail(work) \o Reports(d, "reachable", reachable[d], FALSE)
        BY <1>4 DEF HandleOfflineEvent, ScheduleWork
      <3>3. QED
        BY <2>1, <3>1, <3>2, ConcatType
    <2>4. reachable' \in [Devices -> BOOLEAN]
      BY <1>4 DEF HandleOfflineEvent, TypeOK
    <2>5. QED
      BY <1>4, <2>3, <2>4 DEF HandleOfflineEvent, TypeOK, settleVars, engineVars
  <1>5. CASE HandleOnlineEvent
    <2> DEFINE d == Head(work).dev
               s == Head(work).state
               hasLevel == HasLevel(d, s)
               newOn == NewOn(d, s)
               newLevel == NewLevel(d, s)
    <2>1. Head(work) \in EventItem /\ Tail(work) \in Seq(WorkItem)
      BY <1>5, WorkType DEF HandleOnlineEvent, TypeOK, WorkItem, ReportItem
    <2>2. d \in Devices /\ s \in DeviceState
      BY <2>1 DEF EventItem
    <2>3. newOn \in BOOLEAN
      BY <2>2 DEF TypeOK, DeviceState, NewOn
    <2>4. newLevel \in Byte
      <3>1. s.percent \in Int
        BY <2>2 DEF DeviceState, Percent
      <3>2. QED
        BY <2>2, <3>1, LevelInRange DEF TypeOK, NewLevel
    <2>5. work' \in Seq(WorkItem)
      <3>1. /\ Reports(d, "reachable", reachable[d], TRUE) \in Seq(WorkItem)
            /\ Reports(d, "onoff", isOn[d], newOn) \in Seq(WorkItem)
            /\ Reports(d, "level", level[d], newLevel) \in Seq(WorkItem)
        BY <2>2, ReportsType
      <3>2. work' = Tail(work) \o (Reports(d, "reachable", reachable[d], TRUE)
                                  \o Reports(d, "onoff", isOn[d], newOn)
                                  \o Reports(d, "level", level[d], newLevel))
        BY <1>5 DEF HandleOnlineEvent, ScheduleWork
      <3>3. QED
        BY <2>1, <3>1, <3>2, ConcatType
    <2>6. /\ isOn' = [isOn EXCEPT ![d] = newOn]
          /\ level' = [level EXCEPT ![d] = newLevel]
      BY <1>5 DEF HandleOnlineEvent
    <2>7. /\ isOn' \in [Devices -> BOOLEAN]
          /\ level' \in [Devices -> Byte]
      BY <2>3, <2>4, <2>6 DEF TypeOK
    <2>8. /\ reachable' \in [Devices -> BOOLEAN]
          /\ commandedOnOff' \in [Devices -> {-1, 0, 1}]
          /\ commandedLevel' \in [Devices -> Byte \cup {-1}]
      BY <1>5 DEF HandleOnlineEvent, TypeOK
    <2>9. adrift' \subseteq Devices \X {"onoff", "level"}
      <3>1. Suppressed(d, s) \subseteq Devices \X {"onoff", "level"}
        BY <2>2 DEF Suppressed
      <3>2. adrift' = (adrift \ Observed(d, s)) \cup Suppressed(d, s)
        BY <1>5 DEF HandleOnlineEvent
      <3>3. QED
        BY <3>1, <3>2 DEF TypeOK
    <2>10. QED
      BY <1>5, <2>5, <2>7, <2>8, <2>9 DEF HandleOnlineEvent, TypeOK, engineVars
  <1>6. CASE CallReportingCallback
    <2> DEFINE d == Head(work).dev
               a == Head(work).attr
    <2>1. Head(work) \in ReportItem /\ Tail(work) \in Seq(WorkItem)
      BY <1>6, WorkType DEF CallReportingCallback, TypeOK, WorkItem, EventItem
    <2>2. d \in Devices /\ a \in {"reachable", "onoff", "level", "label"}
      BY <2>1 DEF ReportItem
    <2>3. /\ a \in {"reachable", "onoff"} => ReadAttribute(d, a) \in {0, 1}
          /\ a = "level" => ReadAttribute(d, a) \in Byte
          /\ a = "label" => ReadAttribute(d, a) \in Labels
      BY <2>2 DEF ReadAttribute, TypeOK, Bit
    <2>4. seen' = [seen EXCEPT ![d] = [seen[d] EXCEPT ![a] = ReadAttribute(d, a)]]
      BY <1>6 DEF CallReportingCallback
    <2>5. seen[d] \in [reachable : {0, 1}, onoff : {0, 1}, level : Byte, label : Labels]
      BY <2>2 DEF TypeOK
    <2>6. [seen[d] EXCEPT ![a] = ReadAttribute(d, a)]
            \in [reachable : {0, 1}, onoff : {0, 1}, level : Byte, label : Labels]
      BY <2>2, <2>3, <2>5
    <2>7. seen' \in [Devices -> [reachable : {0, 1}, onoff : {0, 1}, level : Byte, label : Labels]]
      BY <2>4, <2>6 DEF TypeOK
    <2>8. QED
      BY <1>6, <2>1, <2>7 DEF CallReportingCallback, TypeOK, shownVars, settleVars, engineVars
  <1>7. ASSUME NEW t \in Threads, CommandSucceeds(t)
        PROVE  TypeOK'
    <2> DEFINE c == threads[t]
    <2>1. c \in Command /\ c.dev \in Devices
      BY <1>7, ThreadType DEF CommandSucceeds, DeviceTakes
    <2>2. wemo[c.dev] \in DeviceState
      BY <2>1 DEF TypeOK
    <2>3. Commanded(wemo[c.dev], c) \in DeviceState
      BY <2>1, <2>2, CommandedType
    <2>4. wemo' = [wemo EXCEPT ![c.dev] = Commanded(wemo[c.dev], c)]
      BY <1>7 DEF CommandSucceeds, DeviceTakes
    <2>5. wemo' \in [Devices -> DeviceState]
      BY <2>3, <2>4 DEF TypeOK
    <2>6. changed' \in [Devices -> BOOLEAN] /\ threads' \in [Threads -> Command \cup {Idle}]
      BY <1>7 DEF CommandSucceeds, DeviceTakes, TypeOK
    <2>7. QED
      BY <1>7, <2>5, <2>6 DEF CommandSucceeds, DeviceTakes, TypeOK, shownVars, settleVars
  <1>8. ASSUME NEW t \in Threads, CommandFails(t)
        PROVE  TypeOK'
    BY <1>8, ThreadType DEF CommandFails, TypeOK, shownVars, settleVars, engineVars
  <1>9. ASSUME NEW d \in Devices, NEW s \in WemoState, DeviceChanges(d, s)
        PROVE  TypeOK'
    BY <1>9, FoundType DEF DeviceChanges, TypeOK, shownVars, settleVars
  <1>10. ASSUME NEW d \in Devices, ReportState(d)
         PROVE  TypeOK'
    <2>1. [kind |-> "event", dev |-> d, state |-> wemo[d]] \in WorkItem
      BY DEF WorkItem, EventItem, TypeOK
    <2>2. work' \in Seq(WorkItem)
      BY <1>10, <2>1 DEF ReportState, ScheduleWork, TypeOK
    <2>3. QED
      BY <1>10, <2>2 DEF ReportState, TypeOK, shownVars, settleVars
  <1>11. CASE Tick
    BY <1>11, SettleAssumption DEF Tick, TypeOK, shownVars, engineVars
  <1>12. ASSUME NEW d \in Devices, NEW name \in Labels, WriteNodeLabel(d, name)
         PROVE  TypeOK'
    <2>1. work' \in Seq(WorkItem)
      <3> DEFINE reports == Reports(d, "label", label[d], name)
      <3>1. reports \in Seq(WorkItem) /\ <<ReportOf(d, "label")>> \in Seq(WorkItem)
        BY ReportsType
      <3>2. reports \o <<ReportOf(d, "label")>> \in Seq(WorkItem)
        BY <3>1, ConcatType
      <3>3. work' = work \o (reports \o <<ReportOf(d, "label")>>)
        BY <1>12 DEF WriteNodeLabel, ScheduleWork
      <3>4. QED
        BY <3>2, <3>3, ConcatType DEF TypeOK
    <2>2. label' \in [Devices -> Labels]
      BY <1>12 DEF WriteNodeLabel, TypeOK
    <2>3. QED
      BY <1>12, <2>1, <2>2 DEF WriteNodeLabel, TypeOK, settleVars, engineVars
  <1>13. CASE UNCHANGED vars
    BY <1>13 DEF vars, TypeOK
  <1>14. QED
    BY <1>1, <1>2, <1>3, <1>4, <1>5, <1>6, <1>7, <1>8, <1>9, <1>10, <1>11, <1>12, <1>13
    DEF Next, ControllerWrites, WorldChanges, CommandEnds, EngineReports, RunWork

\* The variables keep their types whatever controllers, devices and the
\* engine do: the handlers' conversions stay in their C++ types.
THEOREM TypeCorrect == Spec => []TypeOK
  BY InitTypeOK, NextTypeOK, PTL DEF Spec

-----------------------------------------------------------------------------
(* The settle window. *)

\* An event leaves a commanded value alone or confirms it, and resets the
\* command only once its window is over.
LEMMA OnlineEventSettles ==
    ASSUME TypeOK, SettleHolds, HandleOnlineEvent
    PROVE  SettleHolds'
  <1> DEFINE d == Head(work).dev
             s == Head(work).state
             hasLevel == HasLevel(d, s)
             newOn == NewOn(d, s)
             newLevel == NewLevel(d, s)
  <1>1. /\ isOn' = [isOn EXCEPT ![d] = newOn]
        /\ level' = [level EXCEPT ![d] = newLevel]
        /\ commandedOnOff' = [commandedOnOff EXCEPT ![d] = IF OnOffSettling(d) THEN @ ELSE -1]
        /\ commandedLevel' =
             [commandedLevel EXCEPT ![d] = IF ~hasLevel \/ LevelSettling(d) THEN @ ELSE -1]
        /\ UNCHANGED <<onOffWindow, levelWindow>>
    BY DEF HandleOnlineEvent
  <1>2. OnOffSettling(d) => Bit(newOn) = commandedOnOff[d]
    <2>1. CASE Head(work) \in EventItem
      BY <2>1 DEF SettleHolds, NewOn, SuppressOnOff, EventItem
    <2>2. CASE Head(work) \notin EventItem
      BY <2>2, WorkType DEF HandleOnlineEvent, TypeOK, WorkItem, ReportItem
    <2>3. QED
      BY <2>1, <2>2
  <1>3. LevelSettling(d) => newLevel = commandedLevel[d]
    <2>1. Head(work) \in EventItem
      BY WorkType DEF HandleOnlineEvent, TypeOK, WorkItem, ReportItem
    <2>2. QED
      BY <2>1 DEF SettleHolds, NewLevel, SuppressLevel, EventItem
  <1>4. ASSUME NEW e \in Devices, OnOffSettling(e)'
        PROVE  Bit(isOn'[e]) = commandedOnOff'[e]
    <2> HIDE DEF d, newOn, newLevel
    <2>1. OnOffSettling(e)
      BY <1>1, <1>4 DEF OnOffSettling, TypeOK
    <2>2. QED
      BY <1>1, <1>2, <2>1 DEF SettleHolds, TypeOK
  <1>5. ASSUME NEW e \in Devices, LevelSettling(e)'
        PROVE  level'[e] = commandedLevel'[e]
    <2> HIDE DEF d, newOn, newLevel, hasLevel
    <2>1. LevelSettling(e)
      BY <1>1, <1>5 DEF LevelSettling, TypeOK
    <2>2. QED
      BY <1>1, <1>3, <2>1 DEF SettleHolds, TypeOK
  <1>6. QED
    BY <1>4, <1>5 DEF SettleHolds

LEMMA NextSettleHolds == TypeOK /\ SettleHolds /\ [Next]_vars => SettleHolds'
  <1> SUFFICES ASSUME TypeOK, SettleHolds, [Next]_vars PROVE SettleHolds'
    OBVIOUS
  <1> USE DEF SettleHolds, OnOffSettling, LevelSettling
  <1>1. ASSUME NEW d \in Devices, NEW t \in Threads, NEW on \in BOOLEAN, WriteOnOff(d, t, on)
        PROVE  SettleHolds'
    BY <1>1 DEF WriteOnOff, HandleWriteOnOff, StartThread, TypeOK
  <1>2. ASSUME NEW d \in Dimmers, NEW m \in MatterLevels, IgnoreLevelWrite(d, m)
        PROVE  SettleHolds'
    BY <1>2 DEF IgnoreLevelWrite, TypeOK, shownVars
  <1>3. ASSUME NEW d \in Dimmers, NEW t \in Threads, NEW m \in MatterLevels, WriteLevel(d, t, m)
        PROVE  SettleHolds'
    BY <1>3 DEF WriteLevel, HandleWriteLevel, StartThread, TypeOK
  <1>4. CASE HandleOnlineEvent
    BY <1>4, OnlineEventSettles
  <1>5. CASE HandleOfflineEvent \/ CallReportingCallback
    BY <1>5 DEF HandleOfflineEvent, CallReportingCallback, shownVars, settleVars
  <1>6. CASE CommandEnds \/ WorldChanges \/ EngineReports
    BY <1>6 DEF CommandEnds, CommandSucceeds, DeviceTakes, CommandFails, WorldChanges, DeviceChanges,
                EngineReports, ReportState, shownVars, settleVars
  <1>7. CASE Tick
    BY <1>7 DEF Tick, TypeOK, shownVars
  <1>8. ASSUME NEW d \in Devices, NEW name \in Labels, WriteNodeLabel(d, name)
        PROVE  SettleHolds'
    BY <1>8 DEF WriteNodeLabel, settleVars
  <1>9. CASE UNCHANGED vars
    BY <1>9 DEF vars
  <1>10. QED
    BY <1>1, <1>2, <1>3, <1>4, <1>5, <1>6, <1>7, <1>8, <1>9
    DEF Next, ControllerWrites, RunWork

\* While the settle window of a command is open the light shows what was
\* commanded: no event handled by HandleWemoEventOnMatterThread, however late,
\* and no other write changes it.
THEOREM SettleWindowHolds == Spec => []SettleHolds
  <1>1. Init => SettleHolds
    BY DEF Init, SettleHolds, OnOffSettling, LevelSettling
  <1>2. QED
    BY <1>1, NextSettleHolds, TypeCorrect, PTL DEF Spec

-----------------------------------------------------------------------------
(* Level commands. *)

LEMMA NextLevelCommands ==
    TypeOK /\ LevelCommandsKeepLightOn /\ [Next]_vars => LevelCommandsKeepLightOn'
  <1> SUFFICES ASSUME TypeOK, LevelCommandsKeepLightOn, [Next]_vars
               PROVE  LevelCommandsKeepLightOn'
    OBVIOUS
  <1> USE DEF LevelCommandsKeepLightOn
  <1>1. ASSUME NEW d \in Devices, NEW t \in Threads, NEW on \in BOOLEAN, WriteOnOff(d, t, on)
        PROVE  LevelCommandsKeepLightOn'
    BY <1>1 DEF WriteOnOff, HandleWriteOnOff, StartThread, TypeOK
  <1>2. ASSUME NEW d \in Dimmers, NEW t \in Threads, NEW m \in MatterLevels, WriteLevel(d, t, m)
        PROVE  LevelCommandsKeepLightOn'
    <2>1. m \in Byte /\ m > 0
      BY <1>2, LevelsAssumption DEF WriteLevel, HandleWriteLevel, StartThread, Byte
    <2>2. MatterToWemoPercent(m) \in Percent /\ MatterToWemoPercent(m) > 0
      BY <2>1, PercentInRange, PercentNotZero
    <2>3. ClampPercent(MatterToWemoPercent(m)) = MatterToWemoPercent(m)
      BY <2>2 DEF ClampPercent, Percent
    <2>4. QED
      BY <1>2, <2>2, <2>3 DEF WriteLevel, HandleWriteLevel, StartThread, TypeOK
  <1>3. ASSUME NEW t \in Threads, CommandSucceeds(t) \/ CommandFails(t)
        PROVE  LevelCommandsKeepLightOn'
    BY <1>3 DEF CommandSucceeds, DeviceTakes, CommandFails, TypeOK
  <1>4. CASE UNCHANGED threads
    BY <1>4
  <1>5. QED
    BY <1>1, <1>2, <1>3, <1>4
    DEF Next, ControllerWrites, IgnoreLevelWrite, WriteNodeLabel, CommandEnds, WorldChanges, DeviceChanges,
        EngineReports, ReportState, RunWork, HandleOfflineEvent, HandleOnlineEvent,
        CallReportingCallback, Tick, vars

\* No level a controller writes is ever sent as 0%: SetLevelPercent, which
\* turns 0% into "off", never turns a light off on behalf of a dimming.
THEOREM DimmingKeepsLightOn == Spec => []LevelCommandsKeepLightOn
  <1>1. Init => LevelCommandsKeepLightOn
    BY DEF Init, LevelCommandsKeepLightOn
  <1>2. QED
    BY <1>1, NextLevelCommands, TypeCorrect, PTL DEF Spec
=============================================================================
