-------------------------- MODULE WorkQueue_proofs --------------------------
(***************************************************************************)
(* Proofs about what passes through the Matter work queue of               *)
(* BridgedLights: reports to subscribers and events of the engine, which   *)
(* handling drains; the values that are commanded and then follow those    *)
(* events again (SettledValue); the agreement of quiet lights with their   *)
(* devices; and, with what the queue may hold of events, controllers that  *)
(* only toggle (MCToggle).                                                 *)
(***************************************************************************)
EXTENDS BridgedLights_proofs, MCToggle, FiniteSetTheorems

\* Appending to a sequence keeps its items where they are.
LEMMA Appended ==
    ASSUME NEW S, NEW p \in Seq(S), NEW q \in Seq(S)
    PROVE  /\ \A i \in DOMAIN p : i \in DOMAIN (p \o q) /\ (p \o q)[i] = p[i]
           /\ \A i \in DOMAIN q : /\ i + Len(p) \in DOMAIN (p \o q)
                                  /\ (p \o q)[i + Len(p)] = q[i]
           /\ \A i \in DOMAIN (p \o q) :
                \/ i \in DOMAIN p
                \/ i - Len(p) \in DOMAIN q /\ (p \o q)[i] = q[i - Len(p)]
  <1>1. /\ Len(p) \in Nat /\ DOMAIN p = 1 .. Len(p)
        /\ Len(q) \in Nat /\ DOMAIN q = 1 .. Len(q)
    BY LenProperties
  <1>2. /\ p \o q \in Seq(S) /\ Len(p \o q) = Len(p) + Len(q)
        /\ \A i \in 1 .. Len(p) + Len(q) :
             (p \o q)[i] = IF i <= Len(p) THEN p[i] ELSE q[i - Len(p)]
    BY ConcatProperties
  <1>3. DOMAIN (p \o q) = 1 .. Len(p) + Len(q)
    BY <1>2, LenProperties
  <1>4. QED
    BY <1>1, <1>2, <1>3

\* Removing the head moves every other item one place forward.
LEMMA Removed ==
    ASSUME NEW S, NEW p \in Seq(S), p # << >>
    PROVE  /\ Tail(p) \in Seq(S)
           /\ \A i \in DOMAIN Tail(p) : i + 1 \in DOMAIN p /\ Tail(p)[i] = p[i + 1]
           /\ \A i \in DOMAIN p : i = 1 \/ (i - 1 \in DOMAIN Tail(p) /\ Tail(p)[i - 1] = p[i])
           /\ 1 \in DOMAIN p /\ Head(p) = p[1]
  <1>1. Len(p) \in Nat /\ Len(p) > 0 /\ DOMAIN p = 1 .. Len(p)
    BY LenProperties, EmptySeq
  <1>2. /\ Tail(p) \in Seq(S) /\ Len(Tail(p)) = Len(p) - 1
        /\ \A i \in 1 .. Len(Tail(p)) : Tail(p)[i] = p[i + 1]
    BY HeadTailProperties
  <1>3. DOMAIN Tail(p) = 1 .. Len(p) - 1
    BY <1>2, LenProperties
  <1>4. Head(p) = p[1]
    OBVIOUS
  <1>5. \A i \in DOMAIN Tail(p) : i + 1 \in DOMAIN p /\ Tail(p)[i] = p[i + 1]
    BY <1>1, <1>2, <1>3
  <1>6. ASSUME NEW i \in DOMAIN p, i # 1
        PROVE  i - 1 \in DOMAIN Tail(p) /\ Tail(p)[i - 1] = p[i]
    <2>1. i - 1 \in DOMAIN Tail(p) /\ (i - 1) + 1 = i
      BY <1>1, <1>3, <1>6
    <2>2. QED
      BY <1>5, <2>1
  <1>7. QED
    BY <1>1, <1>2, <1>4, <1>5, <1>6

\* What the queue holds of reports.
Queued(x, q) == \E i \in DOMAIN q : q[i] = x

LEMMA QueuedAppended ==
    ASSUME NEW S, NEW p \in Seq(S), NEW q \in Seq(S), NEW x
    PROVE  Queued(x, p) \/ Queued(x, q) => Queued(x, p \o q)
  <1> DEFINE r == p \o q
  <1>a. /\ \A i \in DOMAIN p : i \in DOMAIN r /\ r[i] = p[i]
        /\ \A i \in DOMAIN q : i + Len(p) \in DOMAIN r /\ r[i + Len(p)] = q[i]
    BY Appended
  <1> HIDE DEF r
  <1>1. ASSUME NEW i \in DOMAIN p, p[i] = x PROVE Queued(x, r)
    BY <1>a, <1>1, Zenon DEF Queued
  <1>2. ASSUME NEW i \in DOMAIN q, q[i] = x PROVE Queued(x, r)
    BY <1>a, <1>2, Zenon DEF Queued
  <1>3. QED
    BY <1>1, <1>2, Zenon DEF Queued, r

LEMMA QueuedRemoved ==
    ASSUME NEW S, NEW p \in Seq(S), p # << >>, NEW x
    PROVE  Queued(x, p) => x = Head(p) \/ Queued(x, Tail(p))
  <1>1. ASSUME NEW i \in DOMAIN p, p[i] = x
        PROVE  x = Head(p) \/ Queued(x, Tail(p))
    <2>1. i = 1 \/ (i - 1 \in DOMAIN Tail(p) /\ Tail(p)[i - 1] = p[i])
      BY <1>1, Removed, Zenon
    <2>2. Head(p) = p[1]
      BY Removed, Zenon
    <2>3. QED
      BY <1>1, <2>1, <2>2, Zenon DEF Queued
  <1>2. QED
    BY <1>1, Zenon DEF Queued

\* A setter that changes a value schedules its report.
LEMMA ReportsQueued ==
    ASSUME NEW d \in Devices, NEW a \in Attributes(d), NEW old, NEW new, old # new
    PROVE  Queued(ReportOf(d, a), Reports(d, a, old, new))
  BY DEF Queued, Reports

\* Subscribers stay current if whatever changes has a report queued and no
\* queued report is dropped.
LEMMA ViewStep ==
    ASSUME ViewCurrent, seen' = seen,
           \A d \in Devices : \A a \in Attributes(d) :
              /\ ReportPending(d, a) => ReportPending(d, a)'
              /\ ReadAttribute(d, a)' # ReadAttribute(d, a) => ReportPending(d, a)'
    PROVE  ViewCurrent'
  BY DEF ViewCurrent, Attributes

LEMMA NextViewCurrent == TypeOK /\ ViewCurrent /\ [Next]_vars => ViewCurrent'
  <1> SUFFICES ASSUME TypeOK, ViewCurrent, [Next]_vars PROVE ViewCurrent'
    OBVIOUS
  <1> DEFINE pending(d, a) == ReportPending(d, a)
  <1>0. ASSUME NEW q \in Seq(WorkItem), work' = work \o q
        PROVE  \A d \in Devices : \A a \in Attributes(d) :
                  ReportPending(d, a) \/ Queued(ReportOf(d, a), q) => ReportPending(d, a)'
    <2> SUFFICES ASSUME NEW d \in Devices, NEW a \in Attributes(d),
                        ReportPending(d, a) \/ Queued(ReportOf(d, a), q)
                 PROVE  Queued(ReportOf(d, a), work')
      BY DEF ReportPending, Queued, ReportOf
    <2>1. work \in Seq(WorkItem) /\ (Queued(ReportOf(d, a), work) \/ Queued(ReportOf(d, a), q))
      BY DEF TypeOK, ReportPending, Queued
    <2>2. QED
      BY <1>0, <2>1, QueuedAppended
  <1>1. ASSUME NEW d \in Devices, NEW t \in Threads, NEW on \in BOOLEAN, WriteOnOff(d, t, on)
        PROVE  ViewCurrent'
    <2> DEFINE q == Reports(d, "onoff", isOn[d], on)
    <2>1. q \in Seq(WorkItem) /\ work' = work \o q
      BY <1>1, ReportsType DEF WriteOnOff, HandleWriteOnOff, StartThread, ScheduleWork
    <2>2. ASSUME NEW e \in Devices, NEW a \in Attributes(e),
                 ReadAttribute(e, a)' # ReadAttribute(e, a)
          PROVE  Queued(ReportOf(e, a), q)
      <3>1. e = d /\ a = "onoff" /\ isOn[d] # on
        BY <1>1, <2>2 DEF WriteOnOff, HandleWriteOnOff, StartThread, ReadAttribute, Attributes, TypeOK
      <3>2. QED
        BY <2>2, <3>1, ReportsQueued
    <2>3. QED
      BY <1>0, <1>1, <2>1, <2>2, ViewStep DEF WriteOnOff, HandleWriteOnOff, StartThread
  <1>2. ASSUME NEW d \in Dimmers, NEW t \in Threads, NEW m \in MatterLevels, WriteLevel(d, t, m)
        PROVE  ViewCurrent'
    <2> DEFINE q == Reports(d, "level", level[d], m)
    <2>0. d \in Devices
      BY DimmersAssumption
    <2>1. q \in Seq(WorkItem) /\ work' = work \o q
      BY <1>2, <2>0, ReportsType DEF WriteLevel, HandleWriteLevel, StartThread, ScheduleWork
    <2>2. ASSUME NEW e \in Devices, NEW a \in Attributes(e),
                 ReadAttribute(e, a)' # ReadAttribute(e, a)
          PROVE  Queued(ReportOf(e, a), q)
      <3>1. e = d /\ a = "level" /\ level[d] # m
        BY <1>2, <2>0, <2>2 DEF WriteLevel, HandleWriteLevel, StartThread, ReadAttribute, Attributes, TypeOK
      <3>2. QED
        BY <2>2, <3>1, ReportsQueued
    <2>3. QED
      BY <1>0, <1>2, <2>1, <2>2, ViewStep DEF WriteLevel, HandleWriteLevel, StartThread
  <1>3. ASSUME NEW d \in Devices, NEW name \in Labels, WriteNodeLabel(d, name)
        PROVE  ViewCurrent'
    <2> DEFINE q == Reports(d, "label", label[d], name) \o <<ReportOf(d, "label")>>
    <2>1. q \in Seq(WorkItem) /\ work' = work \o q
      BY <1>3, ReportsType DEF WriteNodeLabel, ScheduleWork
    <2>2. Queued(ReportOf(d, "label"), q)
      <3> DEFINE x == ReportOf(d, "label")
                 reports == Reports(d, "label", label[d], name)
      <3>1. Queued(x, <<x>>)
        BY DEF Queued
      <3>2. reports \in Seq(WorkItem) /\ <<x>> \in Seq(WorkItem)
        BY ReportsType
      <3> HIDE DEF x, reports
      <3>3. Queued(x, reports \o <<x>>)
        BY <3>1, <3>2, QueuedAppended
      <3>4. QED
        BY <3>3 DEF x, reports
    <2>3. ASSUME NEW e \in Devices, NEW a \in Attributes(e),
                 ReadAttribute(e, a)' # ReadAttribute(e, a)
          PROVE  e = d /\ a = "label"
      BY <1>3, <2>3 DEF WriteNodeLabel, ReadAttribute, Attributes, TypeOK
    <2>4. QED
      BY <1>0, <1>3, <2>1, <2>2, <2>3, ViewStep DEF WriteNodeLabel
  <1>4. ASSUME NEW d \in Devices, ReportState(d)
        PROVE  ViewCurrent'
    <2> DEFINE x == [kind |-> "event", dev |-> d, state |-> wemo[d]]
               q == <<x>>
    <2>1. q \in Seq(WorkItem) /\ work' = work \o q
      <3>1. x \in WorkItem
        BY DEF WorkItem, EventItem, TypeOK
      <3>2. work' = work \o q
        BY <1>4 DEF ReportState, ScheduleWork
      <3> HIDE DEF x
      <3>3. QED
        BY <3>1, <3>2
    <2> HIDE DEF q
    <2>2. QED
      BY <1>0, <1>4, <2>1, ViewStep DEF ReportState, ReadAttribute, Attributes, shownVars
  <1>5. ASSUME NEW q \in Seq(WorkItem), work # << >>, Head(work) \in EventItem,
               work' = Tail(work) \o q
        PROVE  \A d \in Devices : \A a \in Attributes(d) :
                  ReportPending(d, a) \/ Queued(ReportOf(d, a), q) => ReportPending(d, a)'
    <2> SUFFICES ASSUME NEW d \in Devices, NEW a \in Attributes(d),
                        ReportPending(d, a) \/ Queued(ReportOf(d, a), q)
                 PROVE  Queued(ReportOf(d, a), work')
      BY DEF ReportPending, Queued, ReportOf
    <2>1. Head(work) # ReportOf(d, a)
      BY <1>5 DEF EventItem, ReportOf
    <2>2. Queued(ReportOf(d, a), Tail(work)) \/ Queued(ReportOf(d, a), q)
      BY <1>5, <2>1, QueuedRemoved DEF TypeOK, ReportPending, Queued
    <2>3. QED
      BY <1>5, <2>2, WorkType, QueuedAppended DEF TypeOK
  <1>6. CASE HandleOfflineEvent
    <2> DEFINE d == Head(work).dev
               q == Reports(d, "reachable", reachable[d], FALSE)
    <2>1. Head(work) \in EventItem /\ d \in Devices
      BY <1>6, WorkType DEF HandleOfflineEvent, TypeOK, WorkItem, ReportItem, EventItem
    <2>2. q \in Seq(WorkItem) /\ work' = Tail(work) \o q
      BY <1>6, <2>1, ReportsType DEF HandleOfflineEvent, ScheduleWork
    <2>3. ASSUME NEW e \in Devices, NEW a \in Attributes(e),
                 ReadAttribute(e, a)' # ReadAttribute(e, a)
          PROVE  Queued(ReportOf(e, a), q)
      <3>1. e = d /\ a = "reachable" /\ reachable[d] # FALSE
        BY <1>6, <2>1, <2>3 DEF HandleOfflineEvent, ReadAttribute, Attributes, TypeOK
      <3>2. QED
        BY <2>3, <3>1, ReportsQueued
    <2>4. QED
      BY <1>5, <1>6, <2>1, <2>2, <2>3, ViewStep DEF HandleOfflineEvent
  <1>7. CASE HandleOnlineEvent
    <2> DEFINE d == Head(work).dev
               s == Head(work).state
               newOn == NewOn(d, s)
               newLevel == NewLevel(d, s)
               q1 == Reports(d, "reachable", reachable[d], TRUE)
               q2 == Reports(d, "onoff", isOn[d], newOn)
               q3 == Reports(d, "level", level[d], newLevel)
               q == q1 \o q2 \o q3
    <2>1. Head(work) \in EventItem /\ d \in Devices
      BY <1>7, WorkType DEF HandleOnlineEvent, TypeOK, WorkItem, ReportItem, EventItem
    <2>2. q1 \in Seq(WorkItem) /\ q2 \in Seq(WorkItem) /\ q3 \in Seq(WorkItem)
      BY <2>1, ReportsType
    <2>3. work' = Tail(work) \o q
      BY <1>7 DEF HandleOnlineEvent, ScheduleWork
    <2>4. /\ reachable' = [reachable EXCEPT ![d] = TRUE]
          /\ isOn' = [isOn EXCEPT ![d] = newOn]
          /\ level' = [level EXCEPT ![d] = newLevel]
          /\ label' = label /\ seen' = seen
      BY <1>7 DEF HandleOnlineEvent
    <2> HIDE DEF newOn, newLevel
    <2>5. ASSUME NEW e \in Devices, NEW a \in Attributes(e),
                 ReadAttribute(e, a)' # ReadAttribute(e, a)
          PROVE  Queued(ReportOf(e, a), q)
      <3>1. /\ e = d
            /\ \/ a = "reachable" /\ reachable[d] # TRUE
               \/ a = "onoff" /\ isOn[d] # newOn
               \/ a = "level" /\ level[d] # newLevel
        BY <2>1, <2>4, <2>5 DEF ReadAttribute, Attributes, TypeOK
      <3>2. \/ Queued(ReportOf(e, a), q1) \/ Queued(ReportOf(e, a), q2)
            \/ Queued(ReportOf(e, a), q3)
        BY <2>5, <3>1, ReportsQueued
      <3> HIDE DEF q1, q2, q3
      <3>3. q1 \o q2 \in Seq(WorkItem)
        BY <2>2, ConcatProperties
      <3>4. QED
        BY <2>2, <3>2, <3>3, QueuedAppended
    <2>6. q \in Seq(WorkItem)
      <3> HIDE DEF q1, q2, q3
      <3>1. q1 \o q2 \in Seq(WorkItem)
        BY <2>2, ConcatProperties
      <3>2. QED
        BY <2>2, <3>1, ConcatProperties
    <2> HIDE DEF q
    <2>7. QED
      BY <1>5, <1>7, <2>1, <2>3, <2>4, <2>5, <2>6, ViewStep DEF HandleOnlineEvent
  <1>8. CASE CallReportingCallback
    <2> DEFINE d == Head(work).dev
               a == Head(work).attr
    <2>1. Head(work) \in ReportItem /\ work' = Tail(work)
      BY <1>8, WorkType DEF CallReportingCallback, TypeOK, WorkItem, EventItem
    <2>2. d \in Devices /\ Head(work) = ReportOf(d, a)
      BY <2>1 DEF ReportItem, ReportOf
    <2>3. seen' = [seen EXCEPT ![d] = [seen[d] EXCEPT ![a] = ReadAttribute(d, a)]]
      BY <1>8 DEF CallReportingCallback
    <2>4. ASSUME NEW e \in Devices, NEW b \in Attributes(e)
          PROVE  seen'[e][b] = ReadAttribute(e, b)' \/ ReportPending(e, b)'
      <3>1. ReadAttribute(e, b)' = ReadAttribute(e, b)
        BY <1>8 DEF CallReportingCallback, ReadAttribute, Attributes, shownVars
      <3>2. CASE e = d /\ b = a
        <4>1. seen'[d][a] = ReadAttribute(d, a)
          BY <2>2, <2>3, <2>4, <3>2 DEF TypeOK, Attributes
        <4>2. QED
          BY <3>1, <3>2, <4>1
      <3>3. CASE ~(e = d /\ b = a)
        <4>1. seen'[e][b] = seen[e][b]
          BY <2>2, <2>3, <3>3 DEF TypeOK
        <4>2. ReportOf(e, b) # Head(work)
          BY <2>2, <3>3 DEF ReportOf
        <4>3. ReportPending(e, b) => ReportPending(e, b)'
          <5>1. work \in Seq(WorkItem) /\ work # << >>
            BY <1>8 DEF TypeOK, CallReportingCallback
          <5>2. Queued(ReportOf(e, b), work) => Queued(ReportOf(e, b), Tail(work))
            BY <4>2, <5>1, QueuedRemoved
          <5>3. QED
            BY <2>1, <5>2 DEF ReportPending, Queued, ReportOf
        <4>4. QED
          BY <3>1, <4>1, <4>3 DEF ViewCurrent
      <3>4. QED
        BY <3>2, <3>3
    <2>5. QED
      BY <2>4 DEF ViewCurrent, Attributes
  <1>9. CASE UNCHANGED <<shownVars, work, seen>>
    BY <1>9, ViewStep DEF ReadAttribute, Attributes, ReportPending, ReportOf, shownVars
  <1>10. QED
    <2>1. ASSUME NEW d \in Dimmers, NEW m \in MatterLevels, IgnoreLevelWrite(d, m)
          PROVE  UNCHANGED <<shownVars, work, seen>>
      BY <2>1 DEF IgnoreLevelWrite
    <2>2. WorldChanges \/ CommandEnds \/ Tick \/ UNCHANGED vars => UNCHANGED <<shownVars, work, seen>>
      BY DEF WorldChanges, DeviceChanges, CommandEnds, CommandSucceeds, DeviceTakes, CommandFails, Tick, vars,
             shownVars
    <2>3. QED
      BY <1>1, <1>2, <1>3, <1>4, <1>6, <1>7, <1>8, <1>9, <2>1, <2>2
      DEF Next, ControllerWrites, EngineReports, RunWork

\* Whatever handlers, threads and the engine do in whatever order, a
\* subscriber that was sent another value than a read returns has a report
\* queued: no setter's change callback is missing or late.
THEOREM SubscribersStayCurrent == Spec => []ViewCurrent
  <1>1. Init => ViewCurrent
    BY DEF Init, ViewCurrent, ReadAttribute, Attributes
  <1>2. QED
    BY <1>1, NextViewCurrent, TypeCorrect, PTL DEF Spec
-----------------------------------------------------------------------------
(* Events. *)

AllReports(q) == \A i \in DOMAIN q : q[i].kind = "report"

\* Setters schedule nothing but reports.
LEMMA ReportsOnly ==
    ASSUME NEW d, NEW a, NEW old, NEW new
    PROVE  AllReports(Reports(d, a, old, new))
  BY DEF AllReports, Reports, ReportOf

LEMMA ReportsConcat ==
    ASSUME NEW S, NEW p \in Seq(S), NEW q \in Seq(S), AllReports(p), AllReports(q)
    PROVE  AllReports(p \o q)
  <1> SUFFICES ASSUME NEW i \in DOMAIN (p \o q) PROVE (p \o q)[i].kind = "report"
    BY DEF AllReports
  <1>1. CASE i \in DOMAIN p
    <2>1. (p \o q)[i] = p[i]
      BY <1>1, Appended
    <2>2. QED
      BY <1>1, <2>1 DEF AllReports
  <1>2. CASE i - Len(p) \in DOMAIN q /\ (p \o q)[i] = q[i - Len(p)]
    BY <1>2 DEF AllReports
  <1>3. QED
    BY <1>1, <1>2, Appended

\* Scheduling reports leaves the events where they are.
LEMMA EventsKept ==
    ASSUME work \in Seq(WorkItem), NEW q \in Seq(WorkItem), AllReports(q),
           work' = work \o q, NEW d \in Devices
    PROVE  /\ EventsOf(d)' = EventsOf(d)
           /\ \A i \in EventsOf(d) : work'[i] = work[i]
  <1>1. /\ \A i \in DOMAIN work : i \in DOMAIN work' /\ work'[i] = work[i]
        /\ \A i \in DOMAIN work' :
             \/ i \in DOMAIN work
             \/ i - Len(work) \in DOMAIN q /\ work'[i] = q[i - Len(work)]
    BY Appended
  <1>2. \A i \in DOMAIN work' : work'[i].kind = "event" => i \in DOMAIN work
    BY <1>1 DEF AllReports
  <1>3. QED
    BY <1>1, <1>2 DEF EventsOf

\* Handling the head and scheduling reports moves the other events forward.
LEMMA EventsMoved ==
    ASSUME work \in Seq(WorkItem), work # << >>, NEW q \in Seq(WorkItem), AllReports(q),
           work' = Tail(work) \o q, NEW d \in Devices
    PROVE  /\ \A i \in EventsOf(d)' : i + 1 \in EventsOf(d) /\ work'[i] = work[i + 1]
           /\ \A i \in EventsOf(d) : i = 1 \/ i - 1 \in EventsOf(d)'
  <1>1. Tail(work) \in Seq(WorkItem)
    BY WorkType
  <1>2. /\ \A i \in DOMAIN Tail(work) : i \in DOMAIN work' /\ work'[i] = Tail(work)[i]
        /\ \A i \in DOMAIN work' :
             \/ i \in DOMAIN Tail(work)
             \/ i - Len(Tail(work)) \in DOMAIN q /\ work'[i] = q[i - Len(Tail(work))]
    BY <1>1, Appended
  <1>3. /\ \A i \in DOMAIN Tail(work) : i + 1 \in DOMAIN work /\ Tail(work)[i] = work[i + 1]
        /\ \A i \in DOMAIN work :
             i = 1 \/ (i - 1 \in DOMAIN Tail(work) /\ Tail(work)[i - 1] = work[i])
    BY Removed
  <1>4. \A i \in DOMAIN work' : work'[i].kind = "event" => i \in DOMAIN Tail(work)
    BY <1>2 DEF AllReports
  <1>5. ASSUME NEW i \in EventsOf(d)'
        PROVE  i + 1 \in EventsOf(d) /\ work'[i] = work[i + 1]
    <2>1. i \in DOMAIN Tail(work) /\ work'[i].kind = "event" /\ work'[i].dev = d
      BY <1>4, <1>5 DEF EventsOf
    <2>2. i + 1 \in DOMAIN work /\ work'[i] = work[i + 1]
      BY <1>2, <1>3, <2>1
    <2>3. QED
      BY <2>1, <2>2 DEF EventsOf
  <1>6. ASSUME NEW i \in EventsOf(d), i # 1
        PROVE  i - 1 \in EventsOf(d)'
    <2>1. i \in DOMAIN work /\ work[i].kind = "event" /\ work[i].dev = d
      BY <1>6 DEF EventsOf
    <2>2. i - 1 \in DOMAIN work' /\ work'[i - 1] = work[i]
      BY <1>2, <1>3, <1>6, <2>1
    <2>3. QED
      BY <2>1, <2>2 DEF EventsOf
  <1>7. QED
    BY <1>5, <1>6

\* If the engine has nothing new of a device and did not have before, what
\* was true of the last event stays true while reports are scheduled ...
LEMMA LastEventKept ==
    ASSUME work \in Seq(WorkItem), LastEventCurrent,
           NEW q \in Seq(WorkItem), AllReports(q), work' = work \o q,
           \A d \in Devices : ~changed'[d] => ~changed[d] /\ wemo'[d] = wemo[d]
    PROVE  LastEventCurrent'
  <1> SUFFICES ASSUME NEW d \in Devices, ~changed'[d], NEW i \in EventsOf(d)',
                      \A j \in EventsOf(d)' : j <= i
               PROVE  work'[i].state = wemo'[d]
    BY DEF LastEventCurrent
  <1>1. EventsOf(d)' = EventsOf(d) /\ work'[i] = work[i]
    BY EventsKept
  <1>2. QED
    BY <1>1 DEF LastEventCurrent

\* ... and while the head of the queue is handled.
LEMMA LastEventMoved ==
    ASSUME work \in Seq(WorkItem), work # << >>, LastEventCurrent,
           NEW q \in Seq(WorkItem), AllReports(q), work' = Tail(work) \o q,
           \A d \in Devices : ~changed'[d] => ~changed[d] /\ wemo'[d] = wemo[d]
    PROVE  LastEventCurrent'
  <1> SUFFICES ASSUME NEW d \in Devices, ~changed'[d], NEW i \in EventsOf(d)',
                      \A j \in EventsOf(d)' : j <= i
               PROVE  work'[i].state = wemo'[d]
    BY DEF LastEventCurrent
  <1>1. i + 1 \in EventsOf(d) /\ work'[i] = work[i + 1]
    BY EventsMoved
  <1>2. \A j \in EventsOf(d) : j \in Int /\ j >= 1
    BY LenProperties DEF EventsOf
  <1>3. i \in Int /\ i >= 1
    <2>1. work' \in Seq(WorkItem)
      BY WorkType, ConcatProperties
    <2>2. QED
      BY <2>1, LenProperties DEF EventsOf
  <1>4. \A j \in EventsOf(d) : j <= i + 1
    <2>1. \A j \in EventsOf(d) : j = 1 \/ j - 1 \in EventsOf(d)'
      BY EventsMoved
    <2>2. ASSUME NEW j \in EventsOf(d) PROVE j <= i + 1
      <3>1. CASE j = 1
        BY <1>3, <3>1
      <3>2. CASE j - 1 \in EventsOf(d)'
        <4>1. j - 1 <= i
          BY <3>2
        <4>2. QED
          BY <1>2, <1>3, <4>1
      <3>3. QED
        BY <2>1, <3>1, <3>2
    <2>3. QED
      BY <2>2
  <1>5. QED
    BY <1>1, <1>4 DEF LastEventCurrent

\* The work queue without its items' meaning: what each step does to it.
QueueKept == \E q \in Seq(WorkItem) : AllReports(q) /\ work' = work \o q
QueueMoved == /\ work # << >>
              /\ \E q \in Seq(WorkItem) : AllReports(q) /\ work' = Tail(work) \o q

LEMMA NothingScheduled == AllReports(<< >>) /\ << >> \in Seq(WorkItem)
  BY DEF AllReports

LEMMA QueueUnchanged == TypeOK /\ UNCHANGED work => QueueKept
  <1> SUFFICES ASSUME TypeOK, UNCHANGED work PROVE QueueKept
    OBVIOUS
  <1>1. work' = work \o << >>
    BY ConcatEmptySeq DEF TypeOK
  <1>2. QED
    BY <1>1, NothingScheduled DEF QueueKept

LEMMA WritesKeepQueue == TypeOK /\ ControllerWrites => QueueKept
  <1> SUFFICES ASSUME TypeOK, ControllerWrites PROVE QueueKept
    OBVIOUS
  <1>1. ASSUME NEW d \in Devices, NEW t \in Threads, NEW on \in BOOLEAN, WriteOnOff(d, t, on)
        PROVE  QueueKept
    BY <1>1, ReportsType, ReportsOnly DEF WriteOnOff, HandleWriteOnOff, StartThread, ScheduleWork, QueueKept
  <1>2. ASSUME NEW d \in Dimmers, NEW t \in Threads, NEW m \in MatterLevels, WriteLevel(d, t, m)
        PROVE  QueueKept
    BY <1>2, DimmersAssumption, ReportsType, ReportsOnly
    DEF WriteLevel, HandleWriteLevel, StartThread, ScheduleWork, QueueKept
  <1>3. ASSUME NEW d \in Dimmers, NEW m \in MatterLevels, IgnoreLevelWrite(d, m)
        PROVE  QueueKept
    BY <1>3, QueueUnchanged DEF IgnoreLevelWrite
  <1>4. ASSUME NEW d \in Devices, NEW name \in Labels, WriteNodeLabel(d, name)
        PROVE  QueueKept
    <2> DEFINE x == ReportOf(d, "label")
               reports == Reports(d, "label", label[d], name)
    <2>1. /\ reports \in Seq(WorkItem) /\ AllReports(reports)
          /\ <<x>> \in Seq(WorkItem) /\ AllReports(<<x>>)
      <3>1. AllReports(<<x>>)
        BY DEF AllReports, ReportOf
      <3>2. QED
        BY <3>1, ReportsType, ReportsOnly
    <2>2. work' = work \o (reports \o <<x>>)
      BY <1>4 DEF WriteNodeLabel, ScheduleWork
    <2> HIDE DEF x, reports
    <2>3. QED
      BY <2>1, <2>2, ConcatProperties, ReportsConcat DEF QueueKept
  <1>5. QED
    BY <1>1, <1>2, <1>3, <1>4 DEF ControllerWrites

LEMMA RunWorkMovesQueue == TypeOK /\ RunWork => QueueMoved
  <1> SUFFICES ASSUME TypeOK, RunWork PROVE QueueMoved
    OBVIOUS
  <1> DEFINE d == Head(work).dev
             s == Head(work).state
  <1>0. work # << >> /\ work \in Seq(WorkItem)
    BY DEF RunWork, HandleOfflineEvent, HandleOnlineEvent, CallReportingCallback, TypeOK
  <1>1. d \in Devices
    BY <1>0, WorkType DEF WorkItem, ReportItem, EventItem
  <1>2. CASE HandleOfflineEvent
    BY <1>0, <1>1, <1>2, ReportsType, ReportsOnly
    DEF HandleOfflineEvent, ScheduleWork, QueueMoved
  <1>3. CASE HandleOnlineEvent
    <2> DEFINE q1 == Reports(d, "reachable", reachable[d], TRUE)
               q2 == Reports(d, "onoff", isOn[d], NewOn(d, s))
               q3 == Reports(d, "level", level[d], NewLevel(d, s))
    <2>1. /\ q1 \in Seq(WorkItem) /\ q2 \in Seq(WorkItem) /\ q3 \in Seq(WorkItem)
          /\ AllReports(q1) /\ AllReports(q2) /\ AllReports(q3)
      BY <1>1, ReportsType, ReportsOnly
    <2>2. work' = Tail(work) \o (q1 \o q2 \o q3)
      BY <1>3 DEF HandleOnlineEvent, ScheduleWork
    <2> HIDE DEF q1, q2, q3
    <2>3. q1 \o q2 \in Seq(WorkItem) /\ AllReports(q1 \o q2)
      BY <2>1, ConcatProperties, ReportsConcat
    <2>4. q1 \o q2 \o q3 \in Seq(WorkItem) /\ AllReports(q1 \o q2 \o q3)
      BY <2>1, <2>3, ConcatProperties, ReportsConcat
    <2>5. QED
      BY <1>0, <2>2, <2>4 DEF QueueMoved
  <1>4. CASE CallReportingCallback
    <2>1. work' = Tail(work) \o << >>
      BY <1>0, <1>4, WorkType, ConcatEmptySeq DEF CallReportingCallback
    <2>2. QED
      BY <1>0, <2>1, NothingScheduled DEF QueueMoved
  <1>5. QED
    BY <1>2, <1>3, <1>4 DEF RunWork

\* The engine's report becomes the last event of its device and disturbs no
\* other.
LEMMA EventReported ==
    ASSUME TypeOK, NEW d \in Devices, ReportState(d)
    PROVE  /\ Len(work) + 1 \in EventsOf(d)'
           /\ \A i \in EventsOf(d)' : i <= Len(work) + 1
           /\ work'[Len(work) + 1].state = wemo[d]
           /\ \A e \in Devices \ {d} : /\ EventsOf(e)' = EventsOf(e)
                                       /\ \A i \in EventsOf(e) : work'[i] = work[i]
  <1> DEFINE x == [kind |-> "event", dev |-> d, state |-> wemo[d]]
             n == Len(work)
  <1>1. x \in WorkItem /\ x.kind = "event" /\ x.dev = d /\ x.state = wemo[d]
    BY DEF WorkItem, EventItem, TypeOK
  <1>2. work' = work \o <<x>>
    BY DEF ReportState, ScheduleWork
  <1>3. work \in Seq(WorkItem)
    BY DEF TypeOK
  <1>a. n \in Nat /\ DOMAIN work = 1 .. n
    BY <1>3, LenProperties
  <1> HIDE DEF x, n
  <1>4. /\ work' \in Seq(WorkItem) /\ Len(work') = n + 1
        /\ work'[n + 1] = x /\ \A i \in 1 .. n : work'[i] = work[i]
    BY <1>1, <1>2, <1>3, <1>a DEF n
  <1>5. DOMAIN work' = 1 .. n + 1
    BY <1>4, LenProperties
  <1>6. n + 1 \in EventsOf(d)' /\ \A i \in EventsOf(d)' : i <= n + 1
    BY <1>1, <1>4, <1>5, <1>a DEF EventsOf
  <1>7. ASSUME NEW e \in Devices \ {d}
        PROVE  EventsOf(e)' = EventsOf(e) /\ \A i \in EventsOf(e) : work'[i] = work[i]
    BY <1>1, <1>4, <1>5, <1>7, <1>a DEF EventsOf
  <1>8. QED
    BY <1>1, <1>4, <1>6, <1>7 DEF n

LEMMA NextLastEvent == TypeOK /\ LastEventCurrent /\ [Next]_vars => LastEventCurrent'
  <1> SUFFICES ASSUME TypeOK, LastEventCurrent, [Next]_vars PROVE LastEventCurrent'
    OBVIOUS
  <1> DEFINE same == \A d \in Devices : ~changed'[d] => ~changed[d] /\ wemo'[d] = wemo[d]
  <1>0. work \in Seq(WorkItem)
    BY DEF TypeOK
  <1>1. ASSUME QueueKept, same PROVE LastEventCurrent'
    BY <1>0, <1>1, LastEventKept DEF QueueKept
  <1>2. ASSUME QueueMoved, same PROVE LastEventCurrent'
    BY <1>0, <1>2, LastEventMoved DEF QueueMoved
  <1>3. CASE ControllerWrites
    <2>1. same
      BY <1>3 DEF ControllerWrites, WriteOnOff, HandleWriteOnOff, StartThread, WriteLevel,
                  HandleWriteLevel, IgnoreLevelWrite, WriteNodeLabel,
                  engineVars
    <2>2. QED
      BY <1>1, <1>3, <2>1, WritesKeepQueue
  <1>4. CASE WorldChanges
    <2>1. same /\ UNCHANGED work
      BY <1>4 DEF WorldChanges, DeviceChanges, TypeOK
    <2>2. QED
      BY <1>1, <2>1, QueueUnchanged
  <1>5. CASE CommandEnds
    <2>1. same /\ UNCHANGED work
      <3>1. ASSUME NEW t \in Threads, CommandSucceeds(t) PROVE same /\ UNCHANGED work
        <4> DEFINE c == threads[t]
                   s == Commanded(wemo[c.dev], c)
        <4>1. c \in Command /\ c.dev \in Devices
          BY <3>1, DimmersAssumption DEF CommandSucceeds, DeviceTakes, TypeOK, Command
        <4>2. /\ wemo' = [wemo EXCEPT ![c.dev] = s]
              /\ changed' = [changed EXCEPT ![c.dev] = changed[c.dev] \/ s # wemo[c.dev]]
              /\ UNCHANGED work
          BY <3>1 DEF CommandSucceeds, DeviceTakes
        <4> HIDE DEF s, c
        <4>3. QED
          BY <4>1, <4>2 DEF TypeOK
      <3>2. ASSUME NEW t \in Threads, CommandFails(t) PROVE same /\ UNCHANGED work
        BY <3>2 DEF CommandFails, engineVars
      <3>3. QED
        BY <1>5, <3>1, <3>2 DEF CommandEnds
    <2>2. QED
      BY <1>1, <2>1, QueueUnchanged
  <1>6. ASSUME NEW d \in Devices, ReportState(d) PROVE LastEventCurrent'
    <2> SUFFICES ASSUME NEW e \in Devices, ~changed'[e], NEW i \in EventsOf(e)',
                        \A j \in EventsOf(e)' : j <= i
                 PROVE  work'[i].state = wemo'[e]
      BY DEF LastEventCurrent
    <2>1. wemo' = wemo /\ changed' = [changed EXCEPT ![d] = FALSE]
      BY <1>6 DEF ReportState
    <2>2. CASE e = d
      <3>1. work' \in Seq(WorkItem)
        BY NextTypeOK DEF TypeOK
      <3>2. i \in Int /\ Len(work) \in Int
        BY <1>0, <3>1, LenProperties DEF EventsOf
      <3>3. i = Len(work) + 1
        BY <1>6, <2>2, <3>2, EventReported
      <3>4. QED
        BY <1>6, <2>1, <2>2, <3>3, EventReported
    <2>3. CASE e # d
      <3>1. EventsOf(e)' = EventsOf(e) /\ \A j \in EventsOf(e) : work'[j] = work[j]
        BY <1>6, <2>3, EventReported
      <3>2. ~changed[e]
        BY <2>1, <2>3 DEF TypeOK
      <3>3. QED
        BY <2>1, <3>1, <3>2 DEF LastEventCurrent
    <2>4. QED
      BY <2>2, <2>3
  <1>7. CASE RunWork
    <2>1. same
      BY <1>7 DEF RunWork, HandleOfflineEvent, HandleOnlineEvent, CallReportingCallback, engineVars
    <2>2. QED
      BY <1>2, <1>7, <2>1, RunWorkMovesQueue
  <1>8. CASE Tick \/ UNCHANGED vars
    <2>1. same /\ UNCHANGED work
      BY <1>8 DEF Tick, vars, engineVars
    <2>2. QED
      BY <1>1, <2>1, QueueUnchanged
  <1>9. QED
    BY <1>3, <1>4, <1>5, <1>6, <1>7, <1>8 DEF Next, EngineReports

\* Between the engine and the Matter thread no event is lost or overtaken:
\* the last one queued for a device the engine has nothing new of carries the
\* state the device has.
THEOREM LastEventIsCurrent == Spec => []LastEventCurrent
  <1>1. Init => LastEventCurrent
    BY DEF Init, LastEventCurrent
  <1>2. QED
    BY <1>1, NextLastEvent, TypeCorrect, PTL DEF Spec

-----------------------------------------------------------------------------
(* The settled value of each commandable attribute. *)

\* What a light shows is a byte, also where SettledValue starts.
LEMMA ShownType ==
    ASSUME TypeOK, NEW c \in Commandable
    PROVE  c[1] \in Devices /\ ShownOf(c) \in Byte
  <1>1. c[1] \in Devices
    BY DimmersAssumption DEF Commandable
  <1>2. isOn[c[1]] \in BOOLEAN /\ level[c[1]] \in Byte
    BY <1>1 DEF TypeOK
  <1>3. QED
    BY <1>1, <1>2 DEF ShownOf, Bit, Byte

LEMMA ShownTypePrimed ==
    ASSUME TypeOK', NEW c \in Commandable
    PROVE  ShownOf(c)' \in Byte
  <1>1. c[1] \in Devices
    BY DimmersAssumption DEF Commandable
  <1>2. isOn'[c[1]] \in BOOLEAN /\ level'[c[1]] \in Byte
    BY <1>1 DEF TypeOK
  <1>3. QED
    BY <1>2 DEF ShownOf, Bit, Byte

\* The observations are those of the queued items, in their order.
Telling == {[c \in Commandable |-> Told(x, c)] : x \in WorkItem}

LEMMA ObservationsType ==
    ASSUME TypeOK
    PROVE  /\ observations \in Seq(Telling) /\ DOMAIN observations = DOMAIN work
           /\ Len(observations) = Len(work)
  <1>1. /\ Len(work) \in Nat /\ DOMAIN work = 1 .. Len(work)
        /\ \A i \in 1 .. Len(work) : work[i] \in WorkItem
    BY LenProperties DEF TypeOK
  <1>2. observations = [i \in 1 .. Len(work) |-> [c \in Commandable |-> Told(work[i], c)]]
    BY <1>1 DEF observations
  <1>3. \A i \in 1 .. Len(work) : [c \in Commandable |-> Told(work[i], c)] \in Telling
    BY <1>1 DEF Telling
  <1> HIDE DEF observations
  <1>4. observations \in [1 .. Len(work) -> Telling]
    BY <1>2, <1>3, Zenon
  <1>5. QED
    BY <1>1, <1>4

\* Work that is only scheduled leaves every observation waiting.
LEMMA ObservationsKept == TypeOK /\ QueueKept => Settled!Waiting(observations)
  <1> SUFFICES ASSUME TypeOK, QueueKept PROVE Settled!Waiting(observations)
    OBVIOUS
  <1>1. PICK q \in Seq(WorkItem) : work' = work \o q
    BY DEF QueueKept
  <1>2. \A i \in DOMAIN work : i \in DOMAIN work' /\ work'[i] = work[i]
    <2>1. work \in Seq(WorkItem)
      BY DEF TypeOK
    <2>2. QED
      BY <1>1, <2>1, Appended
  <1>3. QED
    BY <1>2, Zenon DEF Settled!Waiting, observations

\* A handler takes one and leaves the others.
LEMMA ObservationsMoved == TypeOK /\ QueueMoved => Settled!Waiting(Tail(observations))
  <1> SUFFICES ASSUME TypeOK, QueueMoved PROVE Settled!Waiting(Tail(observations))
    OBVIOUS
  <1>1. PICK q \in Seq(WorkItem) : work # << >> /\ work' = Tail(work) \o q
    BY DEF QueueMoved
  <1>2. work \in Seq(WorkItem)
    BY DEF TypeOK
  <1>3. /\ Tail(work) \in Seq(WorkItem)
        /\ \A i \in DOMAIN Tail(work) : i + 1 \in DOMAIN work /\ Tail(work)[i] = work[i + 1]
    BY <1>1, <1>2, Removed, Zenon
  <1>4. \A i \in DOMAIN Tail(work) : i \in DOMAIN work' /\ work'[i] = Tail(work)[i]
    BY <1>1, <1>3, Appended
  <1>5. /\ observations \in Seq(Telling) /\ observations # << >>
        /\ DOMAIN Tail(observations) = DOMAIN Tail(work)
    <2>1. /\ observations \in Seq(Telling) /\ Len(observations) = Len(work)
          /\ Len(work) \in Nat /\ Len(work) # 0
      BY <1>1, <1>2, ObservationsType, LenProperties, EmptySeq
    <2>2. observations # << >>
      BY <2>1, EmptySeq
    <2>3. Len(Tail(observations)) = Len(work) - 1 /\ Len(Tail(work)) = Len(work) - 1
      BY <1>1, <1>2, <2>1, <2>2, HeadTailProperties
    <2>4. Tail(observations) \in Seq(Telling)
      BY <2>1, <2>2, HeadTailProperties
    <2>5. QED
      BY <1>3, <2>1, <2>2, <2>3, <2>4, LenProperties
  <1>6. ASSUME NEW i \in DOMAIN Tail(observations)
        PROVE  i \in DOMAIN observations' /\ observations'[i] = Tail(observations)[i]
    <2>1. /\ i \in DOMAIN Tail(work) /\ i + 1 \in DOMAIN work
          /\ i \in DOMAIN work' /\ work'[i] = work[i + 1]
      BY <1>3, <1>4, <1>5, <1>6, Zenon
    <2>2. Tail(observations)[i] = observations[i + 1]
      BY <1>5, <1>6, Removed, Zenon
    <2>3. QED
      BY <2>1, <2>2, Zenon DEF observations
  <1>7. QED
    BY <1>6, Zenon DEF Settled!Waiting

\* A write commands the one attribute whose value and window it sets.
LEMMA CommandStep ==
    ASSUME TypeOK, TypeOK', QueueKept, NEW c \in Commandable,
           HeldOf(c)' = ShownOf(c)', WindowOf(c)' = SettleTicks,
           \A b \in Commandable \ {c} : /\ ShownOf(b)' = ShownOf(b)
                                        /\ HeldOf(b)' = HeldOf(b)
                                        /\ WindowOf(b)' = WindowOf(b)
    PROVE  Settled!Next
  <1> DEFINE v == ShownOf(c)'
  <1>1. v \in Byte /\ shownValues'[c] = v
    BY ShownTypePrimed DEF shownValues
  <1>2. shownValues' = [shownValues EXCEPT ![c] = v]
    BY DEF shownValues
  <1>3. heldValues' = [heldValues EXCEPT ![c] = v]
    BY DEF heldValues
  <1>4. ticksLeft' = [ticksLeft EXCEPT ![c] = SettleTicks]
    BY DEF ticksLeft
  <1>5. Settled!Waiting(observations)
    BY ObservationsKept
  <1> HIDE DEF v
  <1>6. Settled!Command(c, shownValues'[c])
    BY <1>1, <1>2, <1>3, <1>4, <1>5, Zenon DEF Settled!Command
  <1>7. QED
    BY <1>6 DEF Settled!Next

\* The handler of the item at the head observes what the item says.
LEMMA ObserveStep ==
    ASSUME TypeOK, QueueMoved, NEW x \in WorkItem, x = Head(work),
           \A c \in Commandable :
              /\ HeldOf(c)' = HeldOf(c) /\ WindowOf(c)' = WindowOf(c)
              /\ ShownOf(c)' = IF Told(x, c) # -1 /\ HeldOf(c) \in {-1, Told(x, c)}
                               THEN Told(x, c) ELSE ShownOf(c)
    PROVE  Settled!Next
  <1>1. /\ observations # << >>
        /\ \A c \in Commandable : Head(observations)[c] = Told(x, c)
    <2>1. work # << >> /\ work \in Seq(WorkItem)
      BY DEF QueueMoved, TypeOK
    <2>2. observations \in Seq(Telling) /\ Len(observations) = Len(work)
      BY ObservationsType
    <2>3. observations # << >>
      BY <2>1, <2>2, LenProperties, EmptySeq
    <2>4. 1 \in DOMAIN work /\ Head(work) = work[1] /\ Head(observations) = observations[1]
      BY <2>1, <2>2, <2>3, Removed, Zenon
    <2>5. QED
      BY <2>3, <2>4, Zenon DEF observations
  <1>2. shownValues' = [c \in Commandable |-> Settled!Followed(c)]
    <2>1. ASSUME NEW c \in Commandable PROVE ShownOf(c)' = Settled!Followed(c)
      <3>1. shownValues[c] = ShownOf(c) /\ heldValues[c] = HeldOf(c)
        BY DEF shownValues, heldValues
      <3>2. QED
        BY <1>1, <3>1 DEF Settled!Followed
    <2>2. QED
      BY <2>1, Zenon DEF shownValues
  <1>3. UNCHANGED <<heldValues, ticksLeft>>
    BY DEF heldValues, ticksLeft
  <1>4. QED
    BY <1>1, <1>2, <1>3, ObservationsMoved, Zenon DEF Settled!Next, Settled!Observe

\* What else queues work disturbs no value and no window.
LEMMA QueueStep ==
    ASSUME TypeOK, QueueKept \/ Settled!Waiting(observations),
           UNCHANGED <<isOn, level, settleVars>>
    PROVE  Settled!Next
  <1>1. UNCHANGED <<shownValues, heldValues, ticksLeft>>
    BY DEF settleVars, shownValues, heldValues, ticksLeft, ShownOf, HeldOf, WindowOf
  <1>2. Settled!Waiting(observations)
    BY ObservationsKept
  <1>3. QED
    BY <1>1, <1>2, Zenon DEF Settled!Next, Settled!Queue

LEMMA WritesCommand ==
    ASSUME TypeOK, TypeOK', ControllerWrites
    PROVE  Settled!Next \/ UNCHANGED <<shownValues, heldValues, ticksLeft, observations>>
  <1>0. QueueKept
    BY WritesKeepQueue
  <1>1. ASSUME NEW d \in Devices, NEW t \in Threads, NEW on \in BOOLEAN, WriteOnOff(d, t, on)
        PROVE  Settled!Next
    <2> DEFINE c == <<d, "onoff">>
    <2>1. c \in Commandable
      BY DEF Commandable
    <2>2. HeldOf(c)' = ShownOf(c)' /\ WindowOf(c)' = SettleTicks
      BY <1>1, SettleAssumption
      DEF WriteOnOff, HandleWriteOnOff, TypeOK, ShownOf, HeldOf, WindowOf
    <2>3. ASSUME NEW b \in Commandable \ {c}
          PROVE  /\ ShownOf(b)' = ShownOf(b) /\ HeldOf(b)' = HeldOf(b)
                 /\ WindowOf(b)' = WindowOf(b)
      <3>1. b[1] \in Devices /\ (b[2] = "onoff" => b[1] # d)
        BY DimmersAssumption DEF Commandable
      <3>2. QED
        BY <1>1, <3>1
        DEF WriteOnOff, HandleWriteOnOff, TypeOK, ShownOf, HeldOf, WindowOf
    <2> HIDE DEF c
    <2>4. QED
      BY <1>0, <2>1, <2>2, <2>3, CommandStep
  <1>2. ASSUME NEW d \in Dimmers, NEW m \in MatterLevels, IgnoreLevelWrite(d, m)
        PROVE  UNCHANGED <<shownValues, heldValues, ticksLeft, observations>>
    <2>1. ASSUME NEW c \in Commandable
          PROVE  /\ ShownOf(c)' = ShownOf(c) /\ HeldOf(c)' = HeldOf(c)
                 /\ WindowOf(c)' = WindowOf(c)
      <3>1. c[1] \in Devices /\ d \in Devices
        BY DimmersAssumption DEF Commandable
      <3>2. QED
        BY <1>2, <3>1
        DEF IgnoreLevelWrite, TypeOK, ShownOf, HeldOf, WindowOf, OnOffSettling, shownVars
    <2>2. observations' = observations
      BY <1>2 DEF IgnoreLevelWrite, observations
    <2>3. QED
      BY <2>1, <2>2 DEF shownValues, heldValues, ticksLeft
  <1>3. ASSUME NEW d \in Dimmers, NEW t \in Threads, NEW m \in MatterLevels, WriteLevel(d, t, m)
        PROVE  Settled!Next
    <2> DEFINE c == <<d, "level">>
    <2>1. c \in Commandable /\ d \in Devices
      BY DimmersAssumption DEF Commandable
    <2>2. HeldOf(c)' = ShownOf(c)' /\ WindowOf(c)' = SettleTicks
      BY <1>3, <2>1, SettleAssumption
      DEF WriteLevel, HandleWriteLevel, TypeOK, ShownOf, HeldOf, WindowOf
    <2>3. ASSUME NEW b \in Commandable \ {c}
          PROVE  /\ ShownOf(b)' = ShownOf(b) /\ HeldOf(b)' = HeldOf(b)
                 /\ WindowOf(b)' = WindowOf(b)
      <3>1. b[1] \in Devices /\ (b[2] # "onoff" => b[1] # d)
        BY DimmersAssumption DEF Commandable
      <3>2. /\ isOn' = isOn /\ onOffWindow' = onOffWindow /\ ~OnOffSettling(d)
            /\ commandedOnOff' = [commandedOnOff EXCEPT ![d] = -1]
            /\ level' = [level EXCEPT ![d] = m]
            /\ commandedLevel' = [commandedLevel EXCEPT ![d] = m]
            /\ levelWindow' = [levelWindow EXCEPT ![d] = SettleTicks]
        BY <1>3 DEF WriteLevel, HandleWriteLevel
      <3>3. CASE b[2] # "onoff"
        BY <3>1, <3>2, <3>3 DEF TypeOK, ShownOf, HeldOf, WindowOf
      <3>4. CASE b[2] = "onoff"
        <4>1. ShownOf(b)' = ShownOf(b) /\ WindowOf(b)' = WindowOf(b)
          BY <3>2, <3>4 DEF ShownOf, WindowOf
        <4>2. onOffWindow[b[1]] >= 0 => commandedOnOff'[b[1]] = commandedOnOff[b[1]]
          <5>1. CASE b[1] = d
            <6>1. commandedOnOff[d] \in {-1, 0, 1} /\ commandedOnOff'[d] = -1
              BY <2>1, <3>2 DEF TypeOK
            <6>2. QED
              BY <3>2, <5>1, <6>1 DEF OnOffSettling
          <5>2. CASE b[1] # d
            BY <3>1, <3>2, <5>2 DEF TypeOK
          <5>3. QED
            BY <5>1, <5>2
        <4>3. onOffWindow[b[1]] < 0 \/ onOffWindow[b[1]] >= 0
          BY <3>1 DEF TypeOK
        <4>4. QED
          BY <3>2, <3>4, <4>1, <4>2, <4>3 DEF HeldOf, WindowOf
      <3>5. QED
        BY <3>3, <3>4
    <2> HIDE DEF c
    <2>4. QED
      BY <1>0, <2>1, <2>2, <2>3, CommandStep
  <1>4. ASSUME NEW d \in Devices, NEW name \in Labels, WriteNodeLabel(d, name)
        PROVE  Settled!Next
    <2>1. UNCHANGED <<isOn, level, settleVars>>
      BY <1>4 DEF WriteNodeLabel
    <2>2. QED
      BY <1>0, <2>1, QueueStep
  <1>5. QED
    BY <1>1, <1>2, <1>3, <1>4 DEF ControllerWrites

LEMMA RunWorkObserves ==
    ASSUME TypeOK, RunWork
    PROVE  Settled!Next
  <1> DEFINE x == Head(work)
             d == x.dev
             s == x.state
             moved(c) == /\ HeldOf(c)' = HeldOf(c) /\ WindowOf(c)' = WindowOf(c)
                         /\ ShownOf(c)' = IF Told(x, c) # -1 /\ HeldOf(c) \in {-1, Told(x, c)}
                                          THEN Told(x, c) ELSE ShownOf(c)
  <1>1. QueueMoved /\ work # << >> /\ x \in WorkItem
    BY RunWorkMovesQueue, WorkType DEF QueueMoved, TypeOK
  <1>2. ASSUME HandleOfflineEvent \/ CallReportingCallback, NEW c \in Commandable
        PROVE  moved(c)
    <2>1. Told(x, c) = -1
      BY <1>2 DEF HandleOfflineEvent, CallReportingCallback, Told
    <2>2. UNCHANGED <<isOn, level, settleVars>>
      BY <1>2 DEF HandleOfflineEvent, CallReportingCallback, shownVars
    <2>3. QED
      BY <2>1, <2>2 DEF ShownOf, HeldOf, WindowOf, settleVars
  <1>3. ASSUME HandleOnlineEvent, NEW c \in Commandable
        PROVE  moved(c)
    <2>1. /\ x.kind = "event" /\ s.online /\ d \in Devices
          /\ s.on \in BOOLEAN /\ s.percent \in Percent \cup {-1}
      BY <1>1, <1>3 DEF HandleOnlineEvent, WorkItem, EventItem, ReportItem, DeviceState
    <2>2. /\ isOn' = [isOn EXCEPT ![d] = NewOn(d, s)]
          /\ level' = [level EXCEPT ![d] = NewLevel(d, s)]
          /\ commandedOnOff' = [commandedOnOff EXCEPT ![d] = IF OnOffSettling(d) THEN @ ELSE -1]
          /\ commandedLevel' =
               [commandedLevel EXCEPT ![d] =
                  IF ~HasLevel(d, s) \/ LevelSettling(d) THEN @ ELSE -1]
          /\ onOffWindow' = onOffWindow /\ levelWindow' = levelWindow
      BY <1>3 DEF HandleOnlineEvent
    <2>3. c[1] \in Devices /\ (c[2] # "onoff" => c[1] \in Dimmers)
      BY DimmersAssumption DEF Commandable
    <2> HIDE DEF x, d, s
    <2>4. WindowOf(c)' = WindowOf(c)
      BY <2>2 DEF WindowOf
    <2>5. HeldOf(c)' = HeldOf(c)
      <3>1. /\ onOffWindow[c[1]] \in Int /\ commandedOnOff[c[1]] \in {-1, 0, 1}
            /\ levelWindow[c[1]] \in Int /\ commandedLevel[c[1]] \in Byte \cup {-1}
        BY <2>3, SettleAssumption DEF TypeOK
      <3>2. onOffWindow[c[1]] >= 0 => commandedOnOff'[c[1]] = commandedOnOff[c[1]]
        <4>1. CASE c[1] = d
          BY <2>1, <2>2, <3>1, <4>1 DEF TypeOK, OnOffSettling
        <4>2. CASE c[1] # d
          BY <2>2, <2>3, <4>2 DEF TypeOK
        <4>3. QED
          BY <4>1, <4>2
      <3>3. levelWindow[c[1]] >= 0 => commandedLevel'[c[1]] = commandedLevel[c[1]]
        <4>1. CASE c[1] = d
          <5>1. /\ commandedLevel[d] = -1 \/ commandedLevel[d] >= 0
                /\ commandedLevel'[d] \in {commandedLevel[d], -1}
                /\ LevelSettling(d) => commandedLevel'[d] = commandedLevel[d]
            <6>1. commandedLevel'[d] =
                    IF ~HasLevel(d, s) \/ LevelSettling(d) THEN commandedLevel[d] ELSE -1
              BY <2>1, <2>2 DEF TypeOK
            <6>2. commandedLevel[d] = -1 \/ commandedLevel[d] >= 0
              BY <3>1, <4>1 DEF Byte
            <6>3. QED
              BY <6>1, <6>2
          <5>2. QED
            BY <3>1, <4>1, <5>1 DEF LevelSettling
        <4>2. CASE c[1] # d
          BY <2>2, <2>3, <4>2 DEF TypeOK
        <4>3. QED
          BY <4>1, <4>2
      <3>4. QED
        BY <2>2, <3>1, <3>2, <3>3 DEF HeldOf, WindowOf
    <2>6. CASE c[1] # d
      <3>1. Told(x, c) = -1
        BY <2>6 DEF Told, d
      <3>2. ShownOf(c)' = ShownOf(c)
        BY <2>1, <2>2, <2>3, <2>6 DEF ShownOf, TypeOK
      <3>3. QED
        BY <2>4, <2>5, <3>1, <3>2
    <2>7. CASE c[1] = d /\ c[2] = "onoff"
      <3>1. Told(x, c) = Bit(s.on) /\ Bit(s.on) \in {0, 1}
        BY <2>1, <2>7 DEF Told, Bit, d, s
      <3>2. ShownOf(c)' = Bit(NewOn(d, s)) /\ ShownOf(c) = Bit(isOn[d])
        BY <2>1, <2>2, <2>7 DEF ShownOf, TypeOK
      <3>a. onOffWindow[d] \in Int /\ commandedOnOff[d] \in {-1, 0, 1}
        BY <2>1, SettleAssumption DEF TypeOK
      <3>3. HeldOf(c) = -1 <=> ~OnOffSettling(d)
        BY <2>7, <3>a DEF HeldOf, WindowOf, OnOffSettling
      <3>4. OnOffSettling(d) => HeldOf(c) = commandedOnOff[d]
        BY <2>7, <3>a DEF HeldOf, WindowOf, OnOffSettling
      <3>5. QED
        BY <2>4, <2>5, <3>1, <3>2, <3>3, <3>4 DEF NewOn, SuppressOnOff
    <2>8. CASE c[1] = d /\ c[2] # "onoff"
      <3>1. /\ d \in Dimmers
            /\ Told(x, c) = IF s.percent >= 0 THEN WemoToMatterLevel(s.percent) ELSE -1
        BY <2>1, <2>3, <2>8 DEF Told, d, s
      <3>2. s.percent >= 0 => WemoToMatterLevel(s.percent) \in Byte
        BY <2>1, LevelInRange DEF Percent
      <3>3. ShownOf(c)' = NewLevel(d, s) /\ ShownOf(c) = level[d]
        BY <2>1, <2>2, <2>8 DEF ShownOf, TypeOK
      <3>a. levelWindow[d] \in Int /\ commandedLevel[d] \in Byte \cup {-1}
        BY <2>1, SettleAssumption DEF TypeOK
      <3>4. HeldOf(c) = -1 <=> ~LevelSettling(d)
        BY <2>8, <3>a DEF HeldOf, WindowOf, LevelSettling, Byte
      <3>5. LevelSettling(d) => HeldOf(c) = commandedLevel[d]
        BY <2>8, <3>a DEF HeldOf, WindowOf, LevelSettling
      <3> HIDE DEF s
      <3>6. CASE s.percent >= 0
        BY <2>4, <2>5, <3>1, <3>2, <3>3, <3>4, <3>5, <3>6 DEF NewLevel, SuppressLevel, HasLevel, Byte
      <3>7. CASE ~(s.percent >= 0)
        BY <2>4, <2>5, <3>1, <3>3, <3>7 DEF NewLevel, HasLevel
      <3>8. QED
        BY <3>6, <3>7
    <2>9. QED
      BY <2>6, <2>7, <2>8
  <1>4. \A c \in Commandable : moved(c)
    BY <1>2, <1>3 DEF RunWork
  <1> HIDE DEF x
  <1>5. QED
    BY <1>1, <1>4, ObserveStep DEF x

LEMMA TickTicks == TypeOK /\ Tick => Settled!Next
  <1> SUFFICES ASSUME TypeOK, Tick PROVE Settled!Tick
    BY DEF Settled!Next
  <1>1. ASSUME NEW c \in Commandable
        PROVE  /\ ShownOf(c)' = ShownOf(c)
               /\ WindowOf(c)' = IF WindowOf(c) >= 0 THEN WindowOf(c) - 1 ELSE -1
               /\ HeldOf(c)' = IF WindowOf(c) > 0 THEN HeldOf(c) ELSE -1
    <2>1. c[1] \in Devices
      BY ShownType
    <2>2. QED
      BY <2>1, SettleAssumption DEF Tick, TypeOK, ShownOf, HeldOf, WindowOf, shownVars
  <1>2. observations' = observations
    BY DEF Tick, observations
  <1>3. QED
    BY <1>1, <1>2 DEF Settled!Tick, shownValues, heldValues, ticksLeft

LEMMA SettledNext ==
    TypeOK /\ TypeOK' /\ [Next]_vars
        => [Settled!Next]_<<shownValues, heldValues, ticksLeft, observations>>
  <1> SUFFICES ASSUME TypeOK, TypeOK', [Next]_vars
               PROVE  \/ Settled!Next
                      \/ UNCHANGED <<shownValues, heldValues, ticksLeft, observations>>
    OBVIOUS
  <1>1. ASSUME UNCHANGED <<isOn, level, settleVars>>, UNCHANGED work
        PROVE  UNCHANGED <<shownValues, heldValues, ticksLeft, observations>>
    BY <1>1 DEF settleVars, shownValues, heldValues, ticksLeft, observations,
                ShownOf, HeldOf, WindowOf
  <1>2. CommandEnds \/ WorldChanges \/ UNCHANGED vars
            => UNCHANGED <<isOn, level, settleVars>> /\ UNCHANGED work
    BY DEF CommandEnds, CommandSucceeds, DeviceTakes, CommandFails, WorldChanges, DeviceChanges,
           vars, shownVars, settleVars
  <1>3. ASSUME NEW d \in Devices, ReportState(d)
        PROVE  Settled!Next
    <2> DEFINE y == [kind |-> "event", dev |-> d, state |-> wemo[d]]
    <2>1. y \in WorkItem /\ work \in Seq(WorkItem)
      BY DEF WorkItem, EventItem, TypeOK
    <2>2. work' = work \o <<y>>
      BY <1>3 DEF ReportState, ScheduleWork
    <2> HIDE DEF y
    <2>3. \A i \in DOMAIN work : i \in DOMAIN work' /\ work'[i] = work[i]
      BY <2>1, <2>2, Appended
    <2>4. Settled!Waiting(observations)
      BY <2>3, Zenon DEF Settled!Waiting, observations
    <2>5. UNCHANGED <<isOn, level, settleVars>>
      BY <1>3 DEF ReportState, shownVars
    <2>6. QED
      BY <2>4, <2>5, QueueStep
  <1>4. QED
    BY <1>1, <1>2, <1>3, WritesCommand, RunWorkObserves, TickTicks DEF Next, EngineReports

LEMMA SettledInit == TypeOK /\ Init => Settled!Init
  <1> SUFFICES ASSUME TypeOK, Init PROVE Settled!Init
    OBVIOUS
  <1>1. shownValues \in [Commandable -> Byte]
    BY ShownType DEF shownValues
  <1>2. ASSUME NEW c \in Commandable PROVE WindowOf(c) = -1 /\ HeldOf(c) = -1
    <2>1. c[1] \in Devices
      BY ShownType
    <2>2. QED
      BY <2>1 DEF Init, HeldOf, WindowOf
  <1>3. observations = << >>
    <2>1. observations \in Seq(Telling) /\ Len(observations) = 0
      BY ObservationsType DEF Init
    <2>2. QED
      BY <2>1, EmptySeq
  <1>4. QED
    BY <1>1, <1>2, <1>3 DEF Settled!Init, heldValues, ticksLeft

\* The lazily reset commanded fields, the windows and the queued events
\* implement the settled value: whatever is commanded is shown at once, held
\* against contradicting events until the clock has ticked through its window,
\* and from then on every event handled is shown, in the order of the queue.
THEOREM SettledRefinement == Spec => ImplementsSettledValue
  <1>1. QED
    BY SettledInit, SettledNext, TypeCorrect, InitTypeOK, PTL
    DEF Spec, ImplementsSettledValue, Settled!Spec

-----------------------------------------------------------------------------
(* Handling the queue drains it. *)

EventPlaces == {i \in DOMAIN work : work[i].kind = "event"}

\* Every event is of some light.
EventsPlaced ==
    /\ EventPlaces = UNION {EventsOf(d) : d \in Devices}
    /\ IsFiniteSet(EventPlaces)
    /\ EventPlaces \subseteq Nat \ {0}

LEMMA EventPlacesByDevice == TypeOK => EventsPlaced
  <1> SUFFICES ASSUME TypeOK PROVE EventsPlaced
    OBVIOUS
  <1>1. /\ Len(work) \in Nat /\ DOMAIN work = 1 .. Len(work)
        /\ \A i \in DOMAIN work : work[i] \in WorkItem
    BY LenProperties DEF TypeOK
  <1>2. \A i \in EventPlaces : work[i].dev \in Devices
    BY <1>1 DEF EventPlaces, WorkItem, EventItem, ReportItem
  <1>3. EventPlaces = UNION {EventsOf(d) : d \in Devices}
    BY <1>2 DEF EventPlaces, EventsOf
  <1>4. IsFiniteSet(EventPlaces)
    <2>1. IsFiniteSet(1 .. Len(work)) /\ EventPlaces \subseteq 1 .. Len(work)
      BY <1>1, FS_Interval DEF EventPlaces
    <2>2. QED
      BY <2>1, FS_Subset
  <1>5. QED
    BY <1>1, <1>3, <1>4 DEF EventPlaces, EventsPlaced

LEMMA EventPlacesPrimed == TypeOK' => EventsPlaced'
  BY EventPlacesByDevice, PTL

\* Whatever handling the head schedules, the events behind it are all that
\* is left of them.
LEMMA EventsLeft ==
    ASSUME TypeOK, TypeOK', QueueMoved
    PROVE  Cardinality(EventPlaces') = Cardinality(EventPlaces \ {1})
  <1> DEFINE S == EventPlaces'
             T == EventPlaces \ {1}
             f == [i \in S |-> i + 1]
  <1>0. work \in Seq(WorkItem) /\ work' \in Seq(WorkItem)
    BY DEF TypeOK
  <1>1. PICK q \in Seq(WorkItem) : work # << >> /\ AllReports(q) /\ work' = Tail(work) \o q
    BY DEF QueueMoved
  <1>2. EventsPlaced
    BY EventPlacesByDevice
  <1>3. EventsPlaced'
    BY EventPlacesPrimed
  <1>4. /\ \A i \in S : i + 1 \in EventPlaces
        /\ \A i \in EventPlaces : i = 1 \/ i - 1 \in S
    <2>1. ASSUME NEW d \in Devices
          PROVE  /\ \A i \in EventsOf(d)' : i + 1 \in EventsOf(d)
                 /\ \A i \in EventsOf(d) : i = 1 \/ i - 1 \in EventsOf(d)'
      BY <1>0, <1>1, EventsMoved
    <2>2. QED
      BY <1>2, <1>3, <2>1 DEF EventsPlaced
  <1>5. f \in [S -> T]
    <2>1. S \subseteq Nat \ {0}
      BY <1>3 DEF EventsPlaced
    <2>2. ASSUME NEW i \in S PROVE i + 1 \in T
      <3>1. i + 1 # 1
        BY <2>1
      <3>2. QED
        BY <1>4, <3>1
    <2>3. QED
      BY <2>2
  <1>6. f \in Injection(S, T)
    <2>1. S \subseteq Nat
      BY <1>3 DEF EventsPlaced
    <2>2. ASSUME NEW i \in S, NEW k \in S, f[i] = f[k] PROVE i = k
      <3>1. i \in Nat /\ k \in Nat /\ i + 1 = k + 1
        BY <2>1, <2>2
      <3>2. QED
        BY <3>1
    <2>3. QED
      BY <1>5, <2>2 DEF Injection, IsInjective
  <1>7. f \in Surjection(S, T)
    <2>1. \A j \in T : j - 1 \in S /\ f[j - 1] = j
      BY <1>2, <1>4 DEF EventsPlaced
    <2>2. QED
      BY <1>5, <2>1 DEF Surjection
  <1>8. ExistsBijection(S, T)
    BY <1>6, <1>7 DEF ExistsBijection, Bijection
  <1>9. QED
    <2> HIDE DEF f, S, T
    <2>1. IsFiniteSet(S)
      BY <1>3 DEF S, EventsPlaced
    <2>2. Cardinality(T) = Cardinality(S)
      BY <1>8, <2>1, FS_Bijection
    <2>3. QED
      BY <2>2 DEF S, T

\* The Matter thread gets through its queue: an event that is handled leaves
\* one event less, whatever it makes the setters schedule, and a report that
\* is sent one item less; no handler queues an event.  This is the safety half
\* of ViewConverges, for a queue of any length.
THEOREM HandlingDrains ==
    Spec => [][RunWork => \/ Cardinality(EventPlaces') = Cardinality(EventPlaces) - 1
                          \/ /\ Cardinality(EventPlaces') = Cardinality(EventPlaces)
                             /\ Len(work') = Len(work) - 1]_vars
  <1>1. ASSUME TypeOK, TypeOK', RunWork
        PROVE  \/ Cardinality(EventPlaces') = Cardinality(EventPlaces) - 1
               \/ /\ Cardinality(EventPlaces') = Cardinality(EventPlaces)
                  /\ Len(work') = Len(work) - 1
    <2>1. work \in Seq(WorkItem) /\ work # << >> /\ 1 \in DOMAIN work /\ Head(work) = work[1]
      <3>1. work \in Seq(WorkItem) /\ work # << >>
        BY <1>1 DEF TypeOK, RunWork, HandleOfflineEvent, HandleOnlineEvent, CallReportingCallback
      <3>2. QED
        BY <3>1, Removed
    <2>2. Cardinality(EventPlaces') = Cardinality(EventPlaces \ {1})
      BY <1>1, RunWorkMovesQueue, EventsLeft
    <2>3. CASE Head(work).kind = "event"
      <3>1. 1 \in EventPlaces /\ IsFiniteSet(EventPlaces)
        BY <1>1, <2>1, <2>3, EventPlacesByDevice DEF EventPlaces, EventsPlaced
      <3>2. Cardinality(EventPlaces \ {1}) = Cardinality(EventPlaces) - 1
        BY <3>1, FS_RemoveElement
      <3>3. QED
        BY <2>2, <3>2
    <2>4. CASE Head(work).kind # "event"
      <3>1. EventPlaces \ {1} = EventPlaces
        BY <2>1, <2>4 DEF EventPlaces
      <3>2. work' = Tail(work)
        BY <1>1, <2>4
        DEF RunWork, HandleOfflineEvent, HandleOnlineEvent, CallReportingCallback
      <3>3. Len(work') = Len(work) - 1
        BY <2>1, <3>2, HeadTailProperties
      <3>4. QED
        BY <2>2, <3>1, <3>3
    <2>5. QED
      BY <2>3, <2>4
  <1>2. QED
    BY <1>1, TypeCorrect, PTL DEF Spec

-----------------------------------------------------------------------------
(* Agreement with the devices. *)

\* QuiescentAgreement of one device.
Quiet(d) == ~changed[d] /\ EventsOf(d) = {}
ShownAsIs(d) ==
    /\ reachable[d] = wemo[d].online
    /\ wemo[d].online => \A a \in Mirrored(d) : Explained(d, a)

LEMMA MirroredType ==
    ASSUME NEW d \in Devices, NEW a \in Mirrored(d)
    PROVE  a = "onoff" \/ (a = "level" /\ d \in Dimmers)
  BY DEF Mirrored, Attributes

\* An explanation lasts as long as the values it is about.
LEMMA ExplainedKept ==
    ASSUME NEW d \in Devices, NEW a \in Mirrored(d), Explained(d, a),
           <<d, a>> \in adrift => <<d, a>> \in adrift',
           \A t \in InFlight(d, a) : threads'[t] = threads[t],
           UNCHANGED <<isOn[d], wemo[d]>>,
           a = "level" => UNCHANGED level[d]
    PROVE  Explained(d, a)'
  <1>1. Sent(d, a)' = Sent(d, a)
    BY MirroredType DEF Sent
  <1>2. Agrees(d, a) => Agrees(d, a)'
    BY MirroredType DEF Agrees
  <1>3. \A t \in InFlight(d, a) : t \in InFlight(d, a)' /\ threads'[t].value = threads[t].value
    BY DEF InFlight
  <1>4. QED
    BY <1>1, <1>2, <1>3 DEF Explained

\* Handling the head of the queue makes a device quiet only if it was, or if
\* the head is its event ...
LEMMA QuietBefore ==
    ASSUME TypeOK, RunWork, NEW d \in Devices, Quiet(d)',
           ~(Head(work).kind = "event" /\ Head(work).dev = d)
    PROVE  Quiet(d)
  <1>1. work # << >> /\ work \in Seq(WorkItem) /\ changed' = changed
    BY DEF RunWork, HandleOfflineEvent, HandleOnlineEvent, CallReportingCallback, TypeOK, engineVars
  <1>2. PICK q \in Seq(WorkItem) : AllReports(q) /\ work' = Tail(work) \o q
    BY RunWorkMovesQueue DEF QueueMoved
  <1>3. \A i \in EventsOf(d) : i = 1 \/ i - 1 \in EventsOf(d)'
    BY <1>1, <1>2, EventsMoved
  <1>4. 1 \notin EventsOf(d)
    BY <1>1, Removed DEF EventsOf
  <1>5. QED
    BY <1>1, <1>3, <1>4 DEF Quiet

\* ... which then carries the device's state.
LEMMA LastHandled ==
    ASSUME TypeOK, LastEventCurrent, RunWork, NEW d \in Devices, Quiet(d)',
           Head(work).kind = "event", Head(work).dev = d
    PROVE  Head(work).state = wemo[d]
  <1>1. work # << >> /\ work \in Seq(WorkItem) /\ changed' = changed
    BY DEF RunWork, HandleOfflineEvent, HandleOnlineEvent, CallReportingCallback, TypeOK, engineVars
  <1>2. PICK q \in Seq(WorkItem) : AllReports(q) /\ work' = Tail(work) \o q
    BY RunWorkMovesQueue DEF QueueMoved
  <1>3. \A i \in EventsOf(d) : i = 1
    BY <1>1, <1>2, EventsMoved DEF Quiet
  <1>4. 1 \in EventsOf(d) /\ Head(work) = work[1]
    BY <1>1, Removed DEF EventsOf
  <1>5. ~changed[d]
    BY <1>1 DEF Quiet
  <1>6. QED
    BY <1>3, <1>4, <1>5 DEF LastEventCurrent

LEMMA WriteOnOffQuiescent ==
    ASSUME TypeOK, QuiescentAgreement,
           NEW d \in Devices, NEW t \in Threads, NEW on \in BOOLEAN, WriteOnOff(d, t, on),
           NEW e \in Devices, Quiet(e)'
    PROVE  ShownAsIs(e)'
  <1>1. QueueKept
    BY WritesKeepQueue DEF ControllerWrites
  <1>2. Quiet(e)
    BY <1>1, EventsKept DEF Quiet, QueueKept, TypeOK, WriteOnOff, HandleWriteOnOff, StartThread, engineVars
  <1>3. ShownAsIs(e)
    BY <1>2 DEF QuiescentAgreement, Quiet, ShownAsIs
  <1>4. /\ UNCHANGED <<reachable, level, wemo, adrift>>
        /\ isOn' = [isOn EXCEPT ![d] = on]
        /\ threads' = [threads EXCEPT ![t] = [dev |-> d, kind |-> "onoff", value |-> Bit(on)]]
        /\ threads[t] = Idle
    BY DEF WriteOnOff, HandleWriteOnOff, StartThread, engineVars
  <1>5. ASSUME NEW a \in Mirrored(e), Explained(e, a) PROVE Explained(e, a)'
    <2>1. CASE e = d /\ a = "onoff"
      <3>1. threads'[t] = [dev |-> d, kind |-> "onoff", value |-> Bit(on)] /\ isOn'[d] = on
        BY <1>4 DEF TypeOK
      <3>2. threads'[t] # Idle
        BY <3>1, IdleAssumption DEF Command, Bit
      <3>3. t \in InFlight(e, a)' /\ threads'[t].value = Sent(e, a)'
        BY <2>1, <3>1, <3>2 DEF InFlight, Sent, Bit
      <3>4. QED
        BY <3>3 DEF Explained
    <2>2. CASE e = d /\ a = "level"
      <3>1. \A u \in InFlight(e, a) : threads'[u] = threads[u]
        BY <1>4 DEF InFlight, TypeOK
      <3>2. Sent(e, a)' = Sent(e, a) /\ (Agrees(e, a) => Agrees(e, a)')
        BY <1>4, <2>2 DEF Sent, Agrees
      <3>3. QED
        BY <1>4, <1>5, <3>1, <3>2 DEF Explained, InFlight
    <2>3. CASE e # d
      <3>1. \A u \in InFlight(e, a) : threads'[u] = threads[u]
        BY <1>4 DEF InFlight, TypeOK
      <3>2. QED
        BY <1>4, <1>5, <2>3, <3>1, ExplainedKept DEF TypeOK
    <2>4. QED
      BY <2>1, <2>2, <2>3, MirroredType
  <1>6. QED
    BY <1>3, <1>4, <1>5 DEF ShownAsIs, Mirrored, Attributes

LEMMA WriteLevelQuiescent ==
    ASSUME TypeOK, QuiescentAgreement,
           NEW d \in Dimmers, NEW t \in Threads, NEW m \in MatterLevels, WriteLevel(d, t, m),
           NEW e \in Devices, Quiet(e)'
    PROVE  ShownAsIs(e)'
  <1>1. QueueKept
    BY WritesKeepQueue DEF ControllerWrites
  <1>2. Quiet(e)
    BY <1>1, EventsKept DEF Quiet, QueueKept, TypeOK, WriteLevel, HandleWriteLevel, StartThread, engineVars
  <1>3. ShownAsIs(e)
    BY <1>2 DEF QuiescentAgreement, Quiet, ShownAsIs
  <1> DEFINE c == [dev |-> d, kind |-> "level", value |-> MatterToWemoPercent(m)]
  <1>4. /\ UNCHANGED <<reachable, isOn, wemo, adrift>>
        /\ level' = [level EXCEPT ![d] = m]
        /\ threads' = [threads EXCEPT ![t] = c]
        /\ threads[t] = Idle
    BY DEF WriteLevel, HandleWriteLevel, StartThread, engineVars
  <1>5. ASSUME NEW a \in Mirrored(e), Explained(e, a) PROVE Explained(e, a)'
    <2>1. CASE e = d /\ a = "level"
      <3>1. threads'[t] = c /\ level'[d] = m /\ d \in Devices
        BY <1>4, DimmersAssumption DEF TypeOK
      <3>2. c \in Command /\ m \in Byte
        BY LevelsAssumption DEF MatterToWemoPercent, Byte, Command
      <3>3. threads'[t] # Idle
        BY <3>1, <3>2, IdleAssumption
      <3>4. t \in InFlight(e, a)' /\ threads'[t].value = Sent(e, a)'
        BY <2>1, <3>1, <3>3 DEF InFlight, Sent
      <3>5. QED
        BY <3>4 DEF Explained
    <2>2. CASE ~(e = d /\ a = "level")
      <3>1. \A u \in InFlight(e, a) : threads'[u] = threads[u]
        BY <1>4 DEF InFlight, TypeOK
      <3>2. a = "level" => level'[e] = level[e]
        BY <1>4, <2>2 DEF TypeOK
      <3>3. QED
        BY <1>4, <1>5, <3>1, <3>2, ExplainedKept
    <2>3. QED
      BY <2>1, <2>2
  <1>6. QED
    BY <1>3, <1>4, <1>5 DEF ShownAsIs, Mirrored, Attributes

\* The command that ends without changing its device left it as it is shown;
\* one that fails leaves its value adrift.
LEMMA CommandSucceedsQuiescent ==
    ASSUME TypeOK, LevelCommandsKeepLightOn, QuiescentAgreement,
           NEW t \in Threads, CommandSucceeds(t), NEW e \in Devices, Quiet(e)'
    PROVE  ShownAsIs(e)'
  <1> DEFINE c == threads[t]
             s == Commanded(wemo[c.dev], c)
  <1>1. /\ threads[t] # Idle
        /\ threads' = [threads EXCEPT ![t] = Idle]
        /\ wemo' = [wemo EXCEPT ![c.dev] = s]
        /\ changed' = [changed EXCEPT ![c.dev] = changed[c.dev] \/ s # wemo[c.dev]]
        /\ UNCHANGED <<reachable, isOn, level, work, adrift>>
    BY DEF CommandSucceeds, DeviceTakes, shownVars
  <1>2. c.dev \in Devices /\ c.kind \in {"onoff", "level"} /\ c.value \in Byte
    BY <1>1, ThreadType
  <1>3. EventsOf(e)' = EventsOf(e)
    BY <1>1 DEF EventsOf
  <1>4. ~changed[e] /\ wemo'[e] = wemo[e] /\ (e = c.dev => s = wemo[e])
    <2> HIDE DEF s, c
    <2>1. QED
      BY <1>1, <1>2 DEF Quiet, TypeOK
  <1>5. ShownAsIs(e)
    BY <1>3, <1>4 DEF QuiescentAgreement, Quiet, ShownAsIs
  <1>6. ASSUME NEW a \in Mirrored(e), Explained(e, a), wemo[e].online PROVE Explained(e, a)'
    <2>1. ASSUME t \in InFlight(e, a), c.value = Sent(e, a) PROVE Agrees(e, a)
      <3>1. c.dev = e /\ c.kind = a /\ Commanded(wemo[e], c) = wemo[e] /\ wemo[e] \in DeviceState
        BY <1>4, <2>1 DEF InFlight, TypeOK
      <3>2. CASE a = "onoff"
        <4>1. wemo[e].on = (c.value = 1)
          BY <3>1, <3>2 DEF Commanded, DeviceState
        <4>2. c.value = Bit(isOn[e])
          BY <2>1, <3>2 DEF Sent
        <4>3. QED
          BY <3>1, <3>2, <4>1, <4>2 DEF Agrees, Bit, TypeOK, DeviceState
      <3>3. CASE a = "level"
        <4>1. wemo[e].percent = ClampPercent(c.value)
          BY <3>1, <3>3 DEF Commanded, DeviceState
        <4>2. ClampPercent(c.value) = c.value
          BY <1>1, <3>1, <3>3 DEF LevelCommandsKeepLightOn
        <4>3. c.value = MatterToWemoPercent(level[e])
          BY <2>1, <3>3 DEF Sent
        <4>4. QED
          BY <3>3, <4>1, <4>2, <4>3 DEF Agrees
      <3>4. QED
        BY <3>2, <3>3, MirroredType
    <2>2. Agrees(e, a) => Agrees(e, a)'
      BY <1>1, <1>4 DEF Agrees
    <2>3. \A u \in Threads \ {t} : threads'[u] = threads[u]
      BY <1>1 DEF TypeOK
    <2>4. CASE \E u \in InFlight(e, a) : threads[u].value = Sent(e, a)
      <3>1. PICK u \in InFlight(e, a) : threads[u].value = Sent(e, a)
        BY <2>4
      <3>2. CASE u = t
        BY <2>1, <2>2, <3>1, <3>2 DEF Explained
      <3>3. CASE u # t
        <4>1. u \in InFlight(e, a)' /\ threads'[u].value = Sent(e, a)'
          BY <1>1, <2>3, <3>1, <3>3 DEF InFlight, Sent
        <4>2. QED
          BY <4>1 DEF Explained
      <3>4. QED
        BY <3>2, <3>3
    <2>5. QED
      BY <1>1, <1>6, <2>2, <2>4 DEF Explained
  <1>7. QED
    BY <1>1, <1>4, <1>5, <1>6 DEF ShownAsIs, Mirrored, Attributes

LEMMA CommandFailsQuiescent ==
    ASSUME TypeOK, QuiescentAgreement,
           NEW t \in Threads, CommandFails(t), NEW e \in Devices, Quiet(e)'
    PROVE  ShownAsIs(e)'
  <1>1. /\ threads[t] # Idle
        /\ threads' = [threads EXCEPT ![t] = Idle]
        /\ adrift' = adrift \cup {<<threads[t].dev, threads[t].kind>>}
        /\ UNCHANGED <<reachable, isOn, level, work, wemo, changed>>
    BY DEF CommandFails, shownVars, engineVars
  <1>2. ShownAsIs(e)
    BY <1>1 DEF QuiescentAgreement, Quiet, ShownAsIs, EventsOf
  <1>3. ASSUME NEW a \in Mirrored(e), Explained(e, a) PROVE Explained(e, a)'
    <2>1. CASE t \in InFlight(e, a)
      BY <1>1, <2>1 DEF InFlight, Explained
    <2>2. CASE t \notin InFlight(e, a)
      <3>1. \A u \in InFlight(e, a) : threads'[u] = threads[u]
        BY <1>1, <2>2 DEF InFlight, TypeOK
      <3>2. QED
        BY <1>1, <1>3, <3>1, ExplainedKept
    <2>3. QED
      BY <2>1, <2>2
  <1>4. QED
    BY <1>1, <1>2, <1>3 DEF ShownAsIs, Mirrored, Attributes

\* A step that leaves the device, the shown values and their explanations
\* alone.
LEMMA UntouchedQuiescent ==
    ASSUME QuiescentAgreement, NEW d \in Devices, Quiet(d),
           UNCHANGED <<reachable[d], isOn[d], level[d], wemo[d], threads>>,
           \A a \in Mirrored(d) : <<d, a>> \in adrift => <<d, a>> \in adrift'
    PROVE  ShownAsIs(d)'
  <1>1. ShownAsIs(d)
    BY DEF QuiescentAgreement, Quiet, ShownAsIs
  <1>2. ASSUME NEW a \in Mirrored(d), Explained(d, a) PROVE Explained(d, a)'
    BY <1>2, ExplainedKept
  <1>3. QED
    BY <1>1, <1>2 DEF ShownAsIs, Mirrored, Attributes

LEMMA OfflineEventQuiescent ==
    ASSUME TypeOK, LastEventCurrent, QuiescentAgreement, HandleOfflineEvent,
           NEW e \in Devices, Quiet(e)'
    PROVE  ShownAsIs(e)'
  <1> DEFINE d == Head(work).dev
  <1>1. /\ Head(work).kind = "event" /\ ~Head(work).state.online
        /\ reachable' = [reachable EXCEPT ![d] = FALSE]
        /\ UNCHANGED <<isOn, level, threads, wemo, adrift>>
        /\ RunWork
    BY DEF HandleOfflineEvent, engineVars, RunWork
  <1>2. CASE e = d
    <2>1. Head(work).state = wemo[e]
      BY <1>1, <1>2, LastHandled
    <2>2. reachable'[e] = FALSE
      BY <1>1, <1>2 DEF TypeOK
    <2>3. wemo'[e].online = FALSE
      <3>1. wemo[e] \in DeviceState /\ ~wemo[e].online /\ wemo' = wemo
        BY <1>1, <2>1 DEF TypeOK
      <3>2. QED
        BY <3>1 DEF DeviceState
    <2>4. QED
      BY <2>2, <2>3 DEF ShownAsIs
  <1>3. CASE e # d
    <2>1. Quiet(e)
      BY <1>1, <1>3, QuietBefore
    <2>2. QED
      BY <1>1, <1>3, <2>1, UntouchedQuiescent DEF TypeOK
  <1>4. QED
    BY <1>2, <1>3

\* What an event shows or suppresses of a device's state is explained.
LEMMA OnlineEventQuiescent ==
    ASSUME TypeOK, LastEventCurrent, QuiescentAgreement, HandleOnlineEvent,
           NEW e \in Devices, Quiet(e)'
    PROVE  ShownAsIs(e)'
  <1> DEFINE d == Head(work).dev
             s == Head(work).state
  <1>1. /\ Head(work).kind = "event" /\ s.online
        /\ reachable' = [reachable EXCEPT ![d] = TRUE]
        /\ isOn' = [isOn EXCEPT ![d] = NewOn(d, s)]
        /\ level' = [level EXCEPT ![d] = NewLevel(d, s)]
        /\ adrift' = (adrift \ Observed(d, s)) \cup Suppressed(d, s)
        /\ UNCHANGED <<threads, wemo>>
        /\ RunWork
    BY DEF HandleOnlineEvent, engineVars, RunWork
  <1>2. CASE e = d
    <2>1. s = wemo[e] /\ wemo'[e] = s
      BY <1>1, <1>2, LastHandled
    <2>2. reachable'[e] /\ isOn'[e] = NewOn(e, s) /\ level'[e] = NewLevel(e, s)
      BY <1>1, <1>2 DEF TypeOK
    <2>3. ASSUME NEW a \in Mirrored(e) PROVE Explained(e, a)'
      <3>1. CASE a = "onoff"
        <4>1. CASE SuppressOnOff(e, s)
          <5>1. <<e, a>> \in Suppressed(d, s)
            BY <1>2, <3>1, <4>1 DEF Suppressed
          <5>2. QED
            BY <1>1, <5>1 DEF Explained
        <4>2. CASE ~SuppressOnOff(e, s)
          <5>1. Agrees(e, a)'
            BY <2>1, <2>2, <3>1, <4>2 DEF Agrees, NewOn
          <5>2. QED
            BY <5>1 DEF Explained
        <4>3. QED
          BY <4>1, <4>2
      <3>2. CASE a = "level" /\ e \in Dimmers
        <4>1. CASE ~HasLevel(e, s)
          <5>1. ~(wemo'[e].percent >= 0)
            BY <2>1, <3>2, <4>1 DEF HasLevel
          <5>2. QED
            BY <3>2, <5>1 DEF Agrees, Explained
        <4>2. CASE HasLevel(e, s) /\ SuppressLevel(e, s)
          <5>1. <<e, a>> \in Suppressed(d, s)
            BY <1>2, <3>2, <4>2 DEF Suppressed
          <5>2. QED
            BY <1>1, <5>1 DEF Explained
        <4>3. CASE HasLevel(e, s) /\ ~SuppressLevel(e, s)
          <5>1. level'[e] = WemoToMatterLevel(wemo'[e].percent)
            BY <2>1, <2>2, <4>3 DEF NewLevel
          <5>2. QED
            BY <3>2, <5>1 DEF Agrees, Explained
        <4>4. QED
          BY <4>1, <4>2, <4>3
      <3>3. QED
        BY <3>1, <3>2, MirroredType
    <2>4. QED
      BY <1>1, <2>1, <2>2, <2>3 DEF ShownAsIs, Mirrored, Attributes
  <1>3. CASE e # d
    <2>1. Quiet(e)
      BY <1>1, <1>3, QuietBefore
    <2>2. ASSUME NEW a \in Mirrored(e), <<e, a>> \in adrift PROVE <<e, a>> \in adrift'
      BY <1>1, <1>3, <2>2 DEF Observed
    <2>3. QED
      BY <1>1, <1>3, <2>1, <2>2, UntouchedQuiescent DEF TypeOK
  <1>4. QED
    BY <1>2, <1>3

LEMMA NextQuiescent ==
    TypeOK /\ LevelCommandsKeepLightOn /\ LastEventCurrent /\ QuiescentAgreement /\ [Next]_vars
        => QuiescentAgreement'
  <1> SUFFICES ASSUME TypeOK, LevelCommandsKeepLightOn, LastEventCurrent, QuiescentAgreement,
                      [Next]_vars, NEW e \in Devices, Quiet(e)'
               PROVE  ShownAsIs(e)'
    BY DEF QuiescentAgreement, Quiet, ShownAsIs
  <1>1. ASSUME NEW d \in Devices, NEW name \in Labels, WriteNodeLabel(d, name)
        PROVE  ShownAsIs(e)'
    <2>1. QueueKept
      BY <1>1, WritesKeepQueue DEF ControllerWrites
    <2>2. Quiet(e)
      BY <1>1, <2>1, EventsKept DEF Quiet, QueueKept, TypeOK, WriteNodeLabel, engineVars
    <2>3. QED
      BY <1>1, <2>2, UntouchedQuiescent DEF WriteNodeLabel, engineVars
  <1>2. ASSUME NEW d \in Devices, NEW s \in WemoState, DeviceChanges(d, s)
        PROVE  ShownAsIs(e)'
    <2>1. Quiet(e) /\ wemo'[e] = wemo[e]
      <3>1. /\ wemo' = [wemo EXCEPT ![d] = s]
            /\ changed' = [changed EXCEPT ![d] = TRUE]
            /\ UNCHANGED work
        BY <1>2 DEF DeviceChanges
      <3>2. EventsOf(e)' = EventsOf(e)
        BY <3>1 DEF EventsOf
      <3>3. QED
        BY <3>1, <3>2 DEF Quiet, TypeOK
    <2>2. QED
      BY <1>2, <2>1, UntouchedQuiescent DEF DeviceChanges, shownVars
  <1>3. ASSUME NEW d \in Devices, ReportState(d)
        PROVE  ShownAsIs(e)'
    <2>1. e # d
      BY <1>3, EventReported DEF Quiet
    <2>2. Quiet(e)
      BY <1>3, <2>1, EventReported DEF Quiet, ReportState, TypeOK
    <2>3. QED
      BY <1>3, <2>2, UntouchedQuiescent DEF ReportState, shownVars
  <1>4. CASE CallReportingCallback
    <2>1. RunWork /\ Head(work).kind # "event"
      BY <1>4 DEF RunWork, CallReportingCallback
    <2>2. QED
      BY <1>4, <2>1, QuietBefore, UntouchedQuiescent
      DEF CallReportingCallback, shownVars, engineVars
  <1>5. CASE UNCHANGED <<shownVars, threads, work, engineVars, adrift>>
    <2>1. Quiet(e)
      BY <1>5 DEF Quiet, EventsOf, engineVars
    <2>2. QED
      BY <1>5, <2>1, UntouchedQuiescent DEF shownVars, engineVars
  <1>6. ASSUME ControllerWrites PROVE ShownAsIs(e)'
    <2>1. ASSUME NEW d \in Dimmers, NEW m \in MatterLevels, IgnoreLevelWrite(d, m)
          PROVE  ShownAsIs(e)'
      BY <1>5, <2>1 DEF IgnoreLevelWrite
    <2>2. QED
      BY <1>1, <1>6, <2>1, WriteOnOffQuiescent, WriteLevelQuiescent DEF ControllerWrites
  <1>7. Tick \/ UNCHANGED vars => ShownAsIs(e)'
    BY <1>5 DEF Tick, vars, shownVars, engineVars
  <1>8. QED
    BY <1>2, <1>3, <1>4, <1>6, <1>7, CommandSucceedsQuiescent, CommandFailsQuiescent,
       OfflineEventQuiescent, OnlineEventQuiescent
    DEF Next, WorldChanges, CommandEnds, EngineReports, RunWork

\* A quiet light is shown as it is, or for a reason: whatever commands, events
\* and changes crossed, for any number of lights and threads and any settle
\* window, a shown value that differs from the device's is still being
\* commanded, was protected by a settle window, or belongs to a failed command.
THEOREM QuietLightsAgree == Spec => []QuiescentAgreement
  <1>1. Init => QuiescentAgreement
    BY DEF Init, QuiescentAgreement
  <1>2. QED
    BY <1>1, NextQuiescent, TypeCorrect, DimmingKeepsLightOn, LastEventIsCurrent, PTL DEF Spec

-----------------------------------------------------------------------------
(* Controllers that only toggle. *)

ToggleNext == Toggle \/ ByHand \/ GoOn

\* Why toggling is harmless.  An open on/off window always has its command, so
\* that a level written in it is ignored; no level command is ever sent; and
\* every event, however long it was queued, carries the brightness of before.
OnlyToggled ==
    /\ \A t \in Threads : threads[t] # Idle => threads[t].kind = "onoff"
    /\ \A d \in Devices : onOffWindow[d] >= 0 => commandedOnOff[d] >= 0
    /\ \A d \in Dimmers : \A i \in EventsOf(d) : work[i].state.percent = brightness[d]

\* What toggling controllers do is what controllers may do.
LEMMA ToggleIsNext == [ToggleNext]_toggleVars => [Next]_vars
  BY DEF ToggleNext, Toggle, WriteAnyLevel, ByHand, GoOn, Next, ControllerWrites, WorldChanges,
         toggleVars

\* A level write that a toggling controller may send is ignored.
LEMMA ToggleWrites ==
    ASSUME TypeOK, OnlyToggled, Toggle
    PROVE  \/ \E d \in Devices, t \in Threads, on \in BOOLEAN : WriteOnOff(d, t, on)
           \/ \E d \in Dimmers, m \in MatterLevels : IgnoreLevelWrite(d, m)
  <1>1. ASSUME NEW d \in Dimmers, NEW m \in MatterLevels, NEW t \in Threads,
               m <= 1 \/ onOffWindow[d] >= 0
        PROVE  ~WriteLevel(d, t, m)
    <2>1. d \in Devices /\ m \in Int
      BY DimmersAssumption, LevelsAssumption DEF Byte
    <2>2. QED
      BY <1>1, <2>1 DEF WriteLevel, HandleWriteLevel, OnOffSettling, OnlyToggled
  <1>2. QED
    BY <1>1 DEF Toggle, WriteAnyLevel

\* No step of toggling controllers sends a level.
LEMMA ToggleThreads ==
    ASSUME TypeOK, OnlyToggled, ToggleNext \/ UNCHANGED toggleVars
    PROVE  \A t \in Threads : threads'[t] # Idle => threads'[t].kind = "onoff"
  <1>1. ASSUME NEW d \in Devices, NEW t \in Threads, NEW on \in BOOLEAN, WriteOnOff(d, t, on),
               NEW u \in Threads, threads'[u] # Idle
        PROVE  threads'[u].kind = "onoff"
    BY <1>1 DEF WriteOnOff, StartThread, OnlyToggled, TypeOK
  <1>2. ASSUME NEW t \in Threads, CommandSucceeds(t) \/ CommandFails(t),
               NEW u \in Threads, threads'[u] # Idle
        PROVE  threads'[u].kind = "onoff"
    BY <1>2 DEF CommandSucceeds, CommandFails, OnlyToggled, TypeOK
  <1>3. CASE UNCHANGED threads
    BY <1>3 DEF OnlyToggled
  <1>4. ByHand \/ EngineReports \/ RunWork \/ Tick \/ UNCHANGED toggleVars => UNCHANGED threads
    BY DEF ByHand, DeviceChanges, EngineReports, ReportState, RunWork, HandleOfflineEvent,
           HandleOnlineEvent, CallReportingCallback, Tick, toggleVars, vars
  <1>5. \A d \in Dimmers, m \in MatterLevels : IgnoreLevelWrite(d, m) => UNCHANGED threads
    BY DEF IgnoreLevelWrite
  <1>6. QED
    BY <1>1, <1>2, <1>3, <1>4, <1>5, ToggleWrites DEF ToggleNext, GoOn, CommandEnds

\* A pending on/off command is forgotten only once its window is over.
LEMMA ToggleWindows ==
    ASSUME TypeOK, OnlyToggled, ToggleNext \/ UNCHANGED toggleVars
    PROVE  \A d \in Devices : onOffWindow'[d] >= 0 => commandedOnOff'[d] >= 0
  <1> SUFFICES ASSUME NEW e \in Devices, onOffWindow'[e] >= 0
               PROVE  commandedOnOff'[e] >= 0
    OBVIOUS
  <1>1. onOffWindow[e] >= 0 => commandedOnOff[e] >= 0
    BY DEF OnlyToggled
  <1>2. ASSUME NEW d \in Devices, NEW t \in Threads, NEW on \in BOOLEAN, WriteOnOff(d, t, on)
        PROVE  commandedOnOff'[e] >= 0
    BY <1>1, <1>2 DEF WriteOnOff, HandleWriteOnOff, Bit, TypeOK
  <1>3. ASSUME NEW d, commandedOnOff' = [commandedOnOff EXCEPT ![d] = IF OnOffSettling(d) THEN @ ELSE -1],
               UNCHANGED onOffWindow
        PROVE  commandedOnOff'[e] >= 0
    BY <1>1, <1>3 DEF OnOffSettling, TypeOK
  <1>4. CASE Tick
    BY <1>1, <1>4 DEF Tick, TypeOK
  <1>5. CASE UNCHANGED <<commandedOnOff, onOffWindow>>
    BY <1>1, <1>5
  <1>6. CASE RunWork
    BY <1>3, <1>5, <1>6
    DEF RunWork, HandleOfflineEvent, HandleOnlineEvent, CallReportingCallback, settleVars
  <1>7. ByHand \/ CommandEnds \/ EngineReports \/ UNCHANGED toggleVars
            => UNCHANGED <<commandedOnOff, onOffWindow>>
    BY DEF ByHand, DeviceChanges, CommandEnds, CommandSucceeds, CommandFails, EngineReports,
           ReportState, toggleVars, vars, settleVars
  <1>8. ASSUME NEW d \in Dimmers, NEW m \in MatterLevels, IgnoreLevelWrite(d, m)
        PROVE  commandedOnOff'[e] >= 0
    BY <1>3, <1>8 DEF IgnoreLevelWrite
  <1>9. QED
    BY <1>2, <1>4, <1>5, <1>6, <1>7, <1>8, ToggleWrites DEF ToggleNext, GoOn

\* The brightness of a device survives whatever a toggle does to it.
LEMMA ToggleDevices ==
    ASSUME TypeOK, OnlyToggled, TogglesKeepBrightness, ToggleNext \/ UNCHANGED toggleVars
    PROVE  /\ brightness' = brightness
           /\ \A d \in Dimmers : wemo'[d].percent = brightness'[d]
  <1>1. brightness' = brightness
    BY DEF ToggleNext, Toggle, ByHand, GoOn, toggleVars
  <1>2. ASSUME NEW d \in Dimmers PROVE wemo'[d].percent = wemo[d].percent
    <2>0. d \in Devices
      BY DimmersAssumption
    <2>1. CASE UNCHANGED wemo
      BY <2>1
    <2>2. ASSUME NEW t \in Threads, CommandSucceeds(t)
          PROVE  wemo'[d].percent = wemo[d].percent
      <3> DEFINE c == threads[t]
      <3>1. c.kind = "onoff" /\ c.dev \in Devices
        BY <2>2, ThreadType DEF CommandSucceeds, OnlyToggled
      <3>2. wemo' = [wemo EXCEPT ![c.dev] = [wemo[c.dev] EXCEPT !.on = (c.value = 1)]]
        BY <2>2, <3>1 DEF CommandSucceeds, DeviceTakes, Commanded
      <3>3. wemo[d] \in DeviceState
        BY <2>0 DEF TypeOK
      <3> HIDE DEF c
      <3>4. QED
        BY <2>0, <3>1, <3>2, <3>3 DEF TypeOK, DeviceState
    <2>3. CASE ByHand
      BY <2>0, <2>3 DEF ByHand, DeviceChanges, TypeOK
    <2>4. \A t \in Threads : CommandFails(t) => UNCHANGED wemo
      BY DEF CommandFails, engineVars
    <2>5. EngineReports \/ RunWork \/ Tick \/ UNCHANGED toggleVars => UNCHANGED wemo
      BY DEF EngineReports, ReportState, RunWork, HandleOfflineEvent, HandleOnlineEvent,
             CallReportingCallback, Tick, toggleVars, vars, engineVars
    <2>6. Toggle => UNCHANGED wemo
      BY DEF Toggle, WriteAnyLevel, WriteOnOff, HandleWriteOnOff, IgnoreLevelWrite, WriteLevel,
             HandleWriteLevel, engineVars
    <2>7. QED
      BY <2>1, <2>2, <2>3, <2>4, <2>5, <2>6 DEF ToggleNext, GoOn, CommandEnds
  <1>3. QED
    BY <1>1, <1>2 DEF TogglesKeepBrightness

\* ... and every event that leaves the engine, or waits, carries it.
LEMMA ToggleEvents ==
    ASSUME TypeOK, OnlyToggled, TogglesKeepBrightness, ToggleNext \/ UNCHANGED toggleVars
    PROVE  \A d \in Dimmers : \A i \in EventsOf(d)' : work'[i].state.percent = brightness'[d]
  <1> SUFFICES ASSUME NEW e \in Dimmers, NEW i \in EventsOf(e)'
               PROVE  work'[i].state.percent = brightness[e]
    BY ToggleDevices
  <1>0. e \in Devices /\ work \in Seq(WorkItem)
    BY DimmersAssumption DEF TypeOK
  <1>1. CASE QueueKept
    <2>1. i \in EventsOf(e) /\ work'[i] = work[i]
      BY <1>0, <1>1, EventsKept DEF QueueKept
    <2>2. QED
      BY <2>1 DEF OnlyToggled
  <1>2. CASE QueueMoved
    <2>1. i + 1 \in EventsOf(e) /\ work'[i] = work[i + 1]
      BY <1>0, <1>2, EventsMoved DEF QueueMoved
    <2>2. QED
      BY <2>1 DEF OnlyToggled
  <1>3. ASSUME NEW d \in Devices, ReportState(d)
        PROVE  work'[i].state.percent = brightness[e]
    <2>1. CASE e # d
      BY <1>0, <1>3, <2>1, EventReported DEF OnlyToggled
    <2>2. CASE e = d
      <3> DEFINE x == [kind |-> "event", dev |-> d, state |-> wemo[d]]
      <3>1. x \in WorkItem /\ x.state.percent = brightness[e]
        BY <2>2 DEF WorkItem, EventItem, TypeOK, TogglesKeepBrightness
      <3>2. work' = work \o <<x>>
        BY <1>3 DEF ReportState, ScheduleWork
      <3> HIDE DEF x
      <3>3. \/ i \in DOMAIN work /\ work'[i] = work[i]
            \/ work'[i] = x
        BY <1>0, <3>1, <3>2 DEF EventsOf
      <3>4. QED
        BY <3>1, <3>3 DEF EventsOf, OnlyToggled
    <2>3. QED
      BY <2>1, <2>2
  <1>4. Toggle \/ ByHand \/ CommandEnds \/ Tick \/ UNCHANGED toggleVars => QueueKept
    <2>1. Toggle => ControllerWrites
      BY DEF Toggle, WriteAnyLevel, ControllerWrites
    <2>2. ByHand \/ CommandEnds \/ Tick \/ UNCHANGED toggleVars => UNCHANGED work
      BY DEF ByHand, DeviceChanges, CommandEnds, CommandSucceeds, CommandFails, Tick, toggleVars, vars
    <2>3. QED
      BY <2>1, <2>2, WritesKeepQueue, QueueUnchanged
  <1>5. QED
    BY <1>1, <1>2, <1>3, <1>4, RunWorkMovesQueue DEF ToggleNext, GoOn, EngineReports

\* The shown level follows events only, and they carry the brightness.
LEMMA ToggleLevels ==
    ASSUME TypeOK, OnlyToggled, TogglesKeepBrightness, ToggleNext \/ UNCHANGED toggleVars
    PROVE  \A d \in Dimmers : level'[d] = WemoToMatterLevel(brightness'[d])
  <1> SUFFICES ASSUME NEW e \in Dimmers PROVE level'[e] = level[e]
    BY ToggleDevices DEF TogglesKeepBrightness
  <1>0. e \in Devices
    BY DimmersAssumption
  <1>1. CASE HandleOnlineEvent
    <2> DEFINE d == Head(work).dev
               s == Head(work).state
    <2>1. level' = [level EXCEPT ![d] = NewLevel(d, s)]
      BY <1>1 DEF HandleOnlineEvent
    <2>2. CASE e # d
      BY <1>0, <2>1, <2>2 DEF TypeOK
    <2>3. CASE e = d
      <3>1. work \in Seq(WorkItem) /\ work # << >> /\ Head(work).kind = "event"
        BY <1>1 DEF HandleOnlineEvent, TypeOK
      <3>2. 1 \in EventsOf(e) /\ Head(work) = work[1]
        BY <2>3, <3>1, Removed DEF EventsOf
      <3>3. s.percent = brightness[e]
        BY <3>2 DEF OnlyToggled
      <3>4. NewLevel(d, s) = level[e]
        BY <2>3, <3>3 DEF NewLevel, TogglesKeepBrightness
      <3>5. level'[d] = NewLevel(d, s)
        BY <1>0, <2>1, <2>3 DEF TypeOK
      <3>6. QED
        BY <2>3, <3>4, <3>5
    <2>4. QED
      BY <2>2, <2>3
  <1>2. Toggle => UNCHANGED level
    BY ToggleWrites DEF WriteOnOff, HandleWriteOnOff, IgnoreLevelWrite, shownVars
  <1>3. HandleOfflineEvent \/ CallReportingCallback \/ UNCHANGED toggleVars => UNCHANGED level
    BY DEF HandleOfflineEvent, CallReportingCallback, toggleVars, vars, shownVars
  <1>4. ByHand \/ CommandEnds \/ EngineReports \/ Tick => UNCHANGED level
    BY DEF ByHand, DeviceChanges, CommandEnds, CommandSucceeds, CommandFails, EngineReports,
           ReportState, Tick, shownVars
  <1>5. QED
    BY <1>1, <1>2, <1>3, <1>4 DEF ToggleNext, GoOn, RunWork

\* Toggling never moves the brightness, in the device or as shown: however
\* many controllers write on/off and the levels HandleWriteLevelControlAttribute
\* takes for part of a toggle, however late their commands and the engine's
\* events arrive, and whoever presses the switch.
THEOREM TogglingKeepsBrightness == ToggleSpec => []TogglesKeepBrightness
  <1> DEFINE Inv == TypeOK /\ OnlyToggled /\ TogglesKeepBrightness
  <1>1. ToggleInit => Inv
    <2> SUFFICES ASSUME ToggleInit PROVE Inv
      OBVIOUS
    <2>1. TypeOK
      BY InitTypeOK DEF ToggleInit
    <2>2. OnlyToggled
      BY DEF ToggleInit, Init, OnlyToggled, EventsOf
    <2>3. TogglesKeepBrightness
      BY DimmersAssumption DEF ToggleInit, TogglesKeepBrightness
    <2>4. QED
      BY <2>1, <2>2, <2>3
  <1>2. Inv /\ [ToggleNext]_toggleVars => Inv'
    <2> SUFFICES ASSUME Inv, ToggleNext \/ UNCHANGED toggleVars PROVE Inv'
      OBVIOUS
    <2>1. TypeOK'
      BY ToggleIsNext, NextTypeOK
    <2>2. OnlyToggled'
      BY ToggleThreads, ToggleWindows, ToggleEvents DEF OnlyToggled
    <2>3. TogglesKeepBrightness'
      BY ToggleDevices, ToggleLevels DEF TogglesKeepBrightness
    <2>4. QED
      BY <2>1, <2>2, <2>3
  <1>3. QED
    BY <1>1, <1>2, PTL DEF ToggleSpec, ToggleNext
=============================================================================
