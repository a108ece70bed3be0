------------------------ MODULE WemoAdapter_proofs ------------------------
(***************************************************************************)
(* Proofs about the command threads inside WemoAdapterOpenWemo.  The       *)
(* strengthening: each lock is held by exactly the thread that stands      *)
(* between taking and releasing it, the statics of EnsureEngineInitialized *)
(* tell how often the engine was initialised, and no copy of the device    *)
(* list contradicts the engine's.                                          *)
(***************************************************************************)
EXTENDS WemoAdapter, FiniteSetTheorems, TLAPS

Locked ==
    \A t \in Threads : /\ pc[t] \in {"init", "we_init"} <=> initLock = t
                       /\ pc[t] = "send" <=> cacheMutex = t

\* Before Discover nothing has happened; afterwards the statics agree.
EngineState ==
    /\ IF initialized THEN inits = 1 /\ targetConfigured ELSE inits = 0
    /\ ~booted => ~initialized /\ cache = NoDevices /\ \A t \in Threads : pc[t] = "new"
    /\ \A t \in Threads : /\ pc[t] = "we_init" => ~initialized /\ targetConfigured
                          /\ pc[t] \in {"lookup", "list", "fill", "send"} => initialized

\* What a copy of the device list says of a device is what the engine says.
Faithful(ids) == \A u \in Udns : ids[u] # None => ids[u] = directory[u]

Copies ==
    /\ Faithful(cache)
    /\ \A t \in Threads : /\ Faithful(listed[t])
                          /\ pc[t] = "send" => cache[command[t].udn] # None

\* A level and a state that belong together.
Consistent(c) == (c.level = 0 => c.state = 0) /\ (c.level > 0 => c.state = 1)

Action == [thread : Threads, wemo_id : Nat, state : {0, 1}, level : Percent \cup {-1}]

\* What the engine was asked for stays true: its thread has ended.
Actions ==
    /\ \A t \in Threads : pc[t] # "new" => Consistent(command[t])
    /\ \A a \in actions : /\ a \in Action
                          /\ pc[a.thread] = "done"
                          /\ a.wemo_id = directory[command[a.thread].udn]
                          /\ Consistent(a)

IInv == TypeOK /\ Locked /\ EngineState /\ Copies /\ Actions

-----------------------------------------------------------------------------
LEMMA KnownCounted == Cardinality(Known) \in Nat
  BY UdnsAssumption, FS_Subset, FS_CardinalityType DEF Known

\* SetOnOff and SetLevelPercent derive a state that fits the level they send.
LEMMA CommandsLemma ==
    ASSUME NEW c \in Commands
    PROVE  c \in Command /\ Consistent(c)
  <1>1. ASSUME NEW u \in Udns, NEW on \in BOOLEAN, c = OnOffCommand(u, on)
        PROVE  c \in Command /\ Consistent(c)
    BY <1>1 DEF OnOffCommand, Command, Consistent
  <1>2. ASSUME NEW u \in Udns, NEW p \in Percents, c = LevelCommand(u, p)
        PROVE  c \in Command /\ Consistent(c)
    <2>1. ClampPercent(p) \in Percent
      BY PercentsAssumption DEF ClampPercent, Percent, Byte
    <2>2. QED
      BY <1>2, <2>1 DEF LevelCommand, StateOf, Command, Consistent, Percent
  <1>3. QED
    BY <1>1, <1>2 DEF Commands

\* A list gives the engine's ids of the devices on it that have a name.
LEMMA IdsOfType ==
    ASSUME NEW S
    PROVE  /\ TypeOK => IdsOf(S) \in [Udns -> Nat \cup {None}]
           /\ Faithful(IdsOf(S))
  BY DEF IdsOf, TypeOK, Faithful

LEMMA InitIInv == Init => IInv
  <1> SUFFICES ASSUME Init PROVE IInv
    OBVIOUS
  <1>1. NoDevices \in [Udns -> Nat \cup {None}] /\ Faithful(NoDevices)
    BY DEF NoDevices, Faithful
  <1>2. TypeOK
    BY <1>1 DEF Init, TypeOK
  <1>3. Locked
    BY NoneAssumption DEF Init, Locked
  <1>4. EngineState
    BY DEF Init, EngineState
  <1>5. Copies /\ Actions
    BY <1>1 DEF Init, Copies, Actions
  <1>6. QED
    BY <1>2, <1>3, <1>4, <1>5 DEF IInv

LEMMA NextTypeOK == TypeOK /\ [Next]_vars => TypeOK'
  <1> SUFFICES ASSUME TypeOK, [Next]_vars PROVE TypeOK'
    OBVIOUS
  <1> USE DEF TypeOK, Goto, engineVars
  <1>1. ASSUME NEW u \in Udns, DeviceAppears(u) PROVE TypeOK'
    BY <1>1, KnownCounted DEF DeviceAppears
  <1>2. ASSUME NEW up \in BOOLEAN, NEW lists \in BOOLEAN, NEW S \in Listings,
               Discover(up, lists, S) PROVE TypeOK'
    BY <1>2, IdsOfType DEF Discover
  <1>3. ASSUME NEW t \in Threads, NEW c \in Commands, StartCommand(t, c) PROVE TypeOK'
    BY <1>3, CommandsLemma DEF StartCommand
  <1>4. ASSUME NEW t \in Threads, LockInit(t) PROVE TypeOK'
    BY <1>4 DEF LockInit
  <1>5. ASSUME NEW t \in Threads, AlreadyInitialized(t) PROVE TypeOK'
    BY <1>5 DEF AlreadyInitialized
  <1>6. ASSUME NEW t \in Threads, ConfigureTarget(t) PROVE TypeOK'
    BY <1>6 DEF ConfigureTarget
  <1>7. ASSUME NEW t \in Threads, NEW up \in BOOLEAN, InitEngine(t, up) PROVE TypeOK'
    BY <1>7 DEF InitEngine
  <1>8. ASSUME NEW t \in Threads, LookupCache(t) PROVE TypeOK'
    BY <1>8 DEF LookupCache
  <1>9. ASSUME NEW t \in Threads, ListDevices(t) \/ ListFails(t) PROVE TypeOK'
    <2>1. listed' \in [Threads -> [Udns -> Nat \cup {None}]]
      <3>1. CASE UNCHANGED listed
        BY <3>1
      <3>2. ASSUME NEW S, listed' = [listed EXCEPT ![t] = IdsOf(S)]
            PROVE  listed' \in [Threads -> [Udns -> Nat \cup {None}]]
        <4>1. IdsOf(S) \in [Udns -> Nat \cup {None}]
          BY IdsOfType
        <4>2. QED
          BY <3>2, <4>1
      <3>3. QED
        BY <1>9, <3>1, <3>2 DEF ListDevices, ListFails
    <2>2. QED
      BY <1>9, <2>1 DEF ListDevices, ListFails
  <1>10. ASSUME NEW t \in Threads, FillCache(t) PROVE TypeOK'
    <2>1. cache' \in [Udns -> Nat \cup {None}]
      BY <1>10 DEF FillCache, Merged
    <2>2. QED
      BY <1>10, <2>1 DEF FillCache
  <1>11. ASSUME NEW t \in Threads, SendState(t) PROVE TypeOK'
    BY <1>11 DEF SendState, ReleaseMutex, AfterSend
  <1>12. CASE UNCHANGED vars
    BY <1>12 DEF vars
  <1>13. QED
    BY <1>1, <1>2, <1>3, <1>4, <1>5, <1>6, <1>7, <1>8, <1>9, <1>10, <1>11, <1>12
    DEF Next, Run

LEMMA NextLocked == TypeOK /\ Locked /\ [Next]_vars => Locked'
  <1> SUFFICES ASSUME TypeOK, Locked, [Next]_vars PROVE Locked'
    OBVIOUS
  <1> USE NoneAssumption DEF TypeOK, Locked, Goto
  <1>1. ASSUME NEW t \in Threads, NEW c \in Commands, StartCommand(t, c) PROVE Locked'
    BY <1>1 DEF StartCommand
  <1>2. ASSUME NEW t \in Threads, LockInit(t) PROVE Locked'
    BY <1>2 DEF LockInit, InitLockFree
  <1>3. ASSUME NEW t \in Threads, AlreadyInitialized(t) PROVE Locked'
    BY <1>3 DEF AlreadyInitialized
  <1>4. ASSUME NEW t \in Threads, ConfigureTarget(t) PROVE Locked'
    BY <1>4 DEF ConfigureTarget
  <1>5. ASSUME NEW t \in Threads, NEW up \in BOOLEAN, InitEngine(t, up) PROVE Locked'
    BY <1>5 DEF InitEngine
  <1>6. ASSUME NEW t \in Threads, LookupCache(t) PROVE Locked'
    BY <1>6 DEF LookupCache, MutexFree
  <1>7. ASSUME NEW t \in Threads, ListDevices(t) \/ ListFails(t) PROVE Locked'
    BY <1>7 DEF ListDevices, ListFails
  <1>8. ASSUME NEW t \in Threads, FillCache(t) PROVE Locked'
    BY <1>8 DEF FillCache, MutexFree
  <1>9. ASSUME NEW t \in Threads, SendState(t) PROVE Locked'
    BY <1>9 DEF SendState, ReleaseMutex, AfterSend
  <1>10. CASE UNCHANGED <<pc, initLock, cacheMutex>>
    BY <1>10
  <1>11. QED
    BY <1>1, <1>2, <1>3, <1>4, <1>5, <1>6, <1>7, <1>8, <1>9, <1>10
    DEF Next, Run, DeviceAppears, Discover, vars

LEMMA NextEngineState == TypeOK /\ Locked /\ EngineState /\ [Next]_vars => EngineState'
  <1> SUFFICES ASSUME TypeOK, Locked, EngineState, [Next]_vars PROVE EngineState'
    OBVIOUS
  <1> USE DEF TypeOK, EngineState, Goto, engineVars
  <1>1. ASSUME NEW t \in Threads, NEW c \in Commands, StartCommand(t, c) PROVE EngineState'
    BY <1>1 DEF StartCommand
  <1>2. ASSUME NEW t \in Threads, LockInit(t) PROVE EngineState'
    BY <1>2 DEF LockInit
  <1>3. ASSUME NEW t \in Threads, AlreadyInitialized(t) PROVE EngineState'
    BY <1>3 DEF AlreadyInitialized
  <1>4. ASSUME NEW t \in Threads, ConfigureTarget(t) PROVE EngineState'
    BY <1>4 DEF ConfigureTarget
  <1>5. ASSUME NEW t \in Threads, NEW up \in BOOLEAN, InitEngine(t, up) PROVE EngineState'
    <2>1. \A v \in Threads \ {t} : pc[v] # "we_init"
      BY <1>5, NoneAssumption DEF InitEngine, Locked
    <2>2. QED
      BY <1>5, <2>1 DEF InitEngine
  <1>6. ASSUME NEW t \in Threads, LookupCache(t) PROVE EngineState'
    BY <1>6 DEF LookupCache
  <1>7. ASSUME NEW t \in Threads, ListDevices(t) \/ ListFails(t) PROVE EngineState'
    BY <1>7 DEF ListDevices, ListFails
  <1>8. ASSUME NEW t \in Threads, FillCache(t) PROVE EngineState'
    BY <1>8 DEF FillCache
  <1>9. ASSUME NEW t \in Threads, SendState(t) PROVE EngineState'
    BY <1>9 DEF SendState, AfterSend
  <1>10. ASSUME NEW up \in BOOLEAN, NEW lists \in BOOLEAN, NEW S \in Listings,
               Discover(up, lists, S) PROVE EngineState'
    BY <1>10 DEF Discover
  <1>11. CASE UNCHANGED <<booted, engineVars, cache, pc>>
    BY <1>11
  <1>12. QED
    BY <1>1, <1>2, <1>3, <1>4, <1>5, <1>6, <1>7, <1>8, <1>9, <1>10, <1>11
    DEF Next, Run, DeviceAppears, vars

\* Two copies that do not contradict the engine merge into a third, which
\* keeps all that the first one has.
LEMMA MergeLemma ==
    ASSUME NEW old, NEW new, Faithful(old), Faithful(new)
    PROVE  /\ Faithful(Merged(old, new))
           /\ \A u \in Udns : old[u] # None => Merged(old, new)[u] = old[u]
  BY DEF Faithful, Merged

LEMMA NextCopies == IInv /\ [Next]_vars => Copies'
  <1> SUFFICES ASSUME TypeOK, Locked, EngineState, Copies, [Next]_vars PROVE Copies'
    BY DEF IInv
  <1>0. ASSUME UNCHANGED directory, cache' = cache \/ Faithful(cache'),
               \A t \in Threads : listed'[t] = listed[t] \/ Faithful(listed'[t]),
               \A t \in Threads : pc'[t] = "send" => cache'[command'[t].udn] # None
        PROVE  Copies'
    BY <1>0 DEF Copies, Faithful
  <1>1. ASSUME NEW u \in Udns, DeviceAppears(u) PROVE Copies'
    <2>1. \A w \in Udns : directory[w] # None => directory'[w] = directory[w]
      BY <1>1 DEF DeviceAppears, TypeOK
    <2>2. ASSUME NEW ids, Faithful(ids)
          PROVE  \A w \in Udns : ids[w] # None => ids[w] = directory'[w]
      BY <2>1, <2>2 DEF Faithful
    <2>3. QED
      BY <1>1, <2>2 DEF DeviceAppears, Copies, Faithful
  <1>2. ASSUME NEW up \in BOOLEAN, NEW lists \in BOOLEAN, NEW S \in Listings,
               Discover(up, lists, S) PROVE Copies'
    <2>1. \A t \in Threads : pc'[t] = "new"
      BY <1>2 DEF Discover, EngineState
    <2>2. cache' = cache \/ Faithful(cache')
      BY <1>2, IdsOfType DEF Discover
    <2>3. QED
      BY <1>0, <1>2, <2>1, <2>2 DEF Discover, Faithful
  <1>3. ASSUME NEW t \in Threads, NEW c \in Commands, StartCommand(t, c) PROVE Copies'
    BY <1>0, <1>3 DEF StartCommand, Goto, TypeOK, Copies
  <1>4. ASSUME NEW t \in Threads, LookupCache(t) PROVE Copies'
    BY <1>0, <1>4 DEF LookupCache, Goto, TypeOK, Copies
  <1>5. ASSUME NEW t \in Threads, ListDevices(t) PROVE Copies'
    <2>1. \A v \in Threads : listed'[v] = listed[v] \/ Faithful(listed'[v])
      <3>1. PICK S : listed' = [listed EXCEPT ![t] = IdsOf(S)]
        BY <1>5 DEF ListDevices
      <3>2. QED
        BY <3>1, IdsOfType DEF TypeOK
    <2>2. QED
      BY <1>0, <1>5, <2>1 DEF ListDevices, Goto, TypeOK, Copies
  <1>6. ASSUME NEW t \in Threads, FillCache(t) PROVE Copies'
    <2>1. cache' = Merged(cache, listed[t]) /\ UNCHANGED <<directory, listed, command>>
      BY <1>6 DEF FillCache
    <2>2. Faithful(cache')
      BY <2>1, MergeLemma DEF Copies
    <2>3. ASSUME NEW v \in Threads, pc'[v] = "send" PROVE cache'[command[v].udn] # None
      <3>1. v = t
        BY <1>6, <2>3, NoneAssumption DEF FillCache, Goto, MutexFree, TypeOK, Locked
      <3>2. QED
        BY <1>6, <2>3, <3>1 DEF FillCache, Goto, TypeOK
    <2>4. QED
      BY <1>0, <2>1, <2>2, <2>3
  <1>7. ASSUME NEW t \in Threads,
               \/ LockInit(t) \/ AlreadyInitialized(t) \/ ConfigureTarget(t) \/ ListFails(t)
               \/ SendState(t) \/ \E up \in BOOLEAN : InitEngine(t, up)
        PROVE  Copies'
    <2>1. UNCHANGED <<directory, cache, listed, command>>
      BY <1>7 DEF LockInit, AlreadyInitialized, ConfigureTarget, ListFails, SendState, InitEngine
    <2>2. \A v \in Threads : pc'[v] = "send" => pc[v] = "send"
      BY <1>7 DEF LockInit, AlreadyInitialized, ConfigureTarget, ListFails, SendState, InitEngine,
                  AfterSend, Goto, TypeOK
    <2>3. QED
      BY <1>0, <2>1, <2>2 DEF Copies
  <1>8. CASE UNCHANGED vars
    BY <1>0, <1>8 DEF vars, Copies
  <1>9. QED
    BY <1>1, <1>2, <1>3, <1>4, <1>5, <1>6, <1>7, <1>8 DEF Next, Run

LEMMA NextActions == IInv /\ [Next]_vars => Actions'
  <1> SUFFICES ASSUME TypeOK, EngineState, Copies, Actions, [Next]_vars PROVE Actions'
    BY DEF IInv
  <1>0. ASSUME UNCHANGED <<command, actions>>,
               \A t \in Threads : pc'[t] # "new" => pc[t] # "new",
               \A t \in Threads : pc[t] = "done" => pc'[t] = "done",
               \A u \in Udns : directory[u] # None => directory'[u] = directory[u]
        PROVE  Actions'
    <2>1. ASSUME NEW a \in actions
          PROVE  directory[command[a.thread].udn] = directory'[command[a.thread].udn]
      <3>1. a.thread \in Threads /\ a.wemo_id # None /\ command[a.thread] \in Command
        BY NoneAssumption DEF Actions, Action, TypeOK
      <3>2. QED
        BY <1>0, <3>1 DEF Actions, Command
    <2>2. QED
      BY <1>0, <2>1 DEF Actions, Action
  <1>1. ASSUME NEW t \in Threads, NEW c \in Commands, StartCommand(t, c) PROVE Actions'
    <2>1. /\ pc[t] = "new" /\ command' = [command EXCEPT ![t] = c]
          /\ pc' = [pc EXCEPT ![t] = "ensure"]
          /\ UNCHANGED <<directory, actions>>
      BY <1>1 DEF StartCommand, Goto
    <2>2. \A v \in Threads : pc'[v] # "new" => Consistent(command'[v])
      BY <2>1, CommandsLemma DEF TypeOK, Actions
    <2>3. ASSUME NEW a \in actions
          PROVE  a.thread \in Threads /\ a.thread # t
      BY <2>1 DEF Actions, Action
    <2>4. \A a \in actions : pc'[a.thread] = pc[a.thread] /\ command'[a.thread] = command[a.thread]
      BY <2>1, <2>3 DEF TypeOK
    <2>5. QED
      BY <2>1, <2>2, <2>4 DEF Actions
  <1>2. ASSUME NEW t \in Threads, SendState(t) PROVE Actions'
    <2> DEFINE c == command[t]
               a == [thread |-> t, wemo_id |-> cache[c.udn], state |-> c.state, level |-> c.level]
    <2>1. /\ pc[t] = "send" /\ pc' = [pc EXCEPT ![t] = "done"]
          /\ actions' = actions \cup {a} /\ UNCHANGED <<directory, command>>
      BY <1>2 DEF SendState, AfterSend, Goto
    <2>2. c \in Command /\ Consistent(c)
      BY <2>1 DEF TypeOK, Actions
    <2>3. cache[c.udn] # None /\ cache[c.udn] = directory[c.udn] /\ cache[c.udn] \in Nat
      BY <2>1, <2>2 DEF Copies, Faithful, TypeOK, Command
    <2>4. a \in Action /\ Consistent(a)
      BY <2>2, <2>3 DEF Action, Command, Consistent
    <2>5. a.thread = t /\ a.wemo_id = directory[command[t].udn]
      BY <2>3
    <2> HIDE DEF a, c
    <2>6. \A v \in Threads : pc'[v] = IF v = t THEN "done" ELSE pc[v]
      BY <2>1 DEF TypeOK
    <2>7. \A b \in actions : b.thread \in Threads
      BY DEF Actions, Action
    <2>8. QED
      BY <2>1, <2>4, <2>5, <2>6, <2>7 DEF Actions
  <1>3. ASSUME NEW u \in Udns, DeviceAppears(u) PROVE Actions'
    BY <1>0, <1>3 DEF DeviceAppears, TypeOK
  <1>4. ASSUME NEW up \in BOOLEAN, NEW lists \in BOOLEAN, NEW S \in Listings,
               Discover(up, lists, S) PROVE Actions'
    BY <1>0, <1>4 DEF Discover
  <1>5. ASSUME NEW t \in Threads,
               \/ LockInit(t) \/ AlreadyInitialized(t) \/ ConfigureTarget(t) \/ LookupCache(t)
               \/ ListDevices(t) \/ ListFails(t) \/ FillCache(t)
               \/ \E up \in BOOLEAN : InitEngine(t, up)
        PROVE  Actions'
    <2>1. /\ UNCHANGED <<directory, command, actions>>
          /\ pc[t] \notin {"new", "done"}
          /\ \A v \in Threads \ {t} : pc'[v] = pc[v]
      BY <1>5 DEF LockInit, AlreadyInitialized, ConfigureTarget, LookupCache, ListDevices,
                  ListFails, FillCache, InitEngine, Goto, TypeOK
    <2>2. QED
      BY <1>0, <2>1
  <1>6. CASE UNCHANGED vars
    BY <1>0, <1>6 DEF vars
  <1>7. QED
    BY <1>1, <1>2, <1>3, <1>4, <1>5, <1>6 DEF Next, Run

LEMMA IInvHolds == Spec => []IInv
  <1>1. IInv /\ [Next]_vars => IInv'
    BY NextTypeOK, NextLocked, NextEngineState, NextCopies, NextActions DEF IInv
  <1>2. QED
    BY InitIInv, <1>1, PTL DEF Spec

-----------------------------------------------------------------------------
(* What follows from it. *)

\* The adapter's cache, locks and statics keep their types, and every command
\* carries a level the engine accepts (the clamp of SetLevelPercent).
THEOREM TypeCorrect == Spec => []TypeOK
  <1>1. IInv => TypeOK
    BY DEF IInv
  <1>2. QED
    BY <1>1, IInvHolds, PTL

\* However many writes have started a thread, while one of them sends the
\* action it looked an id up for, the mutex keeps the others from sending one
\* and from merging a list; it does not keep them from listing the devices or
\* initialising the engine.
THEOREM ActionsExclude == Spec => OneActionAtATime
  <1>1. ASSUME IInv, [Next]_vars, NEW t \in Threads, pc[t] = "send"
        PROVE  /\ cache' = cache
               /\ \A v \in Threads \ {t} : pc[v] # "send" /\ pc'[v] # "send"
    <2>1. /\ booted /\ cacheMutex = t /\ t # None
          /\ \A v \in Threads \ {t} : pc[v] # "send"
      BY <1>1, NoneAssumption DEF IInv, Locked, EngineState, TypeOK
    <2>2. ASSUME NEW v \in Threads, LookupCache(v) \/ FillCache(v) PROVE FALSE
      BY <2>1, <2>2 DEF LookupCache, FillCache, MutexFree
    <2>3. cache' = cache
      BY <1>1, <2>1, <2>2
      DEF Next, Run, DeviceAppears, Discover, StartCommand, LockInit, AlreadyInitialized,
          ConfigureTarget, InitEngine, ListDevices, ListFails, SendState, vars
    <2>4. ASSUME NEW v \in Threads \ {t} PROVE pc'[v] # "send"
      <3>1. ASSUME NEW w \in Threads, Run(w) PROVE pc'[v] # "send"
        BY <1>1, <2>1, <2>2, <2>4, <3>1
        DEF IInv, TypeOK, Run, LockInit, AlreadyInitialized, ConfigureTarget, InitEngine,
            ListDevices, ListFails, SendState, AfterSend, Goto
      <3>2. ASSUME NEW w \in Threads, NEW c \in Commands, StartCommand(w, c)
            PROVE  pc'[v] # "send"
        BY <1>1, <2>1, <2>4, <3>2 DEF IInv, TypeOK, StartCommand, Goto
      <3>3. CASE UNCHANGED pc
        BY <2>1, <2>4, <3>3
      <3>4. QED
        BY <1>1, <3>1, <3>2, <3>3 DEF Next, DeviceAppears, Discover, vars
    <2>5. QED
      BY <2>1, <2>3, <2>4
  <1>2. IInv /\ [Next]_vars =>
          [\A t \in Threads : pc[t] = "send" =>
              /\ cache' = cache
              /\ \A v \in Threads \ {t} : pc[v] # "send" /\ pc'[v] # "send"]_vars
    BY <1>1
  <1>3. QED
    BY <1>2, IInvHolds, PTL DEF Spec, OneActionAtATime

\* init_lock makes any number of threads initialise the engine once between
\* them, and none goes on without it.
THEOREM EngineInitializedOnce == Spec => []InitializedOnce
  <1>1. IInv => InitializedOnce
    BY DEF IInv, EngineState, InitializedOnce
  <1>2. QED
    BY <1>1, IInvHolds, PTL

\* The engine is asked for what a command says, of the device the command is
\* for, whatever lists other threads merged between its lookup and its end.
THEOREM CommandsArrive == Spec => []CommandsReachTheirDevice
  <1>1. IInv => CommandsReachTheirDevice
    BY DEF IInv, Actions, Consistent, CommandsReachTheirDevice
  <1>2. QED
    BY <1>1, IInvHolds, PTL

\* Merging lists that were fetched without the mutex neither forgets nor
\* renumbers a device.
THEOREM CacheGrows == Spec => CacheOnlyGrows
  <1>1. ASSUME IInv, [Next]_vars, booted, NEW u \in Udns, cache[u] # None
        PROVE  cache'[u] = cache[u]
    <2>1. ASSUME NEW t \in Threads, FillCache(t) PROVE cache'[u] = cache[u]
      BY <1>1, <2>1, MergeLemma DEF FillCache, IInv, Copies
    <2>2. CASE UNCHANGED cache
      BY <2>2
    <2>3. (\E t \in Threads : FillCache(t)) \/ UNCHANGED cache
      BY <1>1
      DEF Next, Run, DeviceAppears, Discover, StartCommand, LockInit, AlreadyInitialized,
          ConfigureTarget, InitEngine, LookupCache, ListDevices, ListFails, SendState, vars
    <2>4. QED
      BY <2>1, <2>2, <2>3
  <1>2. IInv /\ [Next]_vars =>
          [booted => \A u \in Udns : cache[u] # None => cache'[u] = cache[u]]_vars
    BY <1>1
  <1>3. QED
    BY <1>2, IInvHolds, PTL DEF Spec, CacheOnlyGrows

-----------------------------------------------------------------------------
(***************************************************************************)
(* The safety half of ThreadsEnd, for any number of threads: whoever waits *)
(* waits for a thread that can go on, and every step of a thread brings it *)
(* nearer its end.  That a thread that can go on does is left to TLC.      *)
(***************************************************************************)

\* Nobody waits for a thread that waits itself or has ended: init_lock and the
\* cache mutex are released on every way out of EnsureEngineInitialized and
\* the Set functions, and no thread takes one while it holds the other.
THEOREM LocksAreShort == Spec => []WaitsAreShort
  <1>1. ASSUME IInv, NEW t \in Threads, NEW v \in Threads, WaitsFor(t, v)
        PROVE  pc[v] # "done" /\ \A w \in Threads : ~WaitsFor(v, w)
    <2>1. pc[v] \in {"init", "we_init", "send"}
      BY <1>1 DEF WaitsFor, IInv, Locked
    <2>2. QED
      BY <2>1 DEF WaitsFor
  <1>2. IInv => WaitsAreShort
    BY <1>1 DEF WaitsAreShort
  <1>3. QED
    BY <1>2, IInvHolds, PTL

\* How far SetOnOff or SetLevelPercent has come.
Stage == [new |-> 0, ensure |-> 1, init |-> 2, we_init |-> 3, lookup |-> 4,
          list |-> 5, fill |-> 6, send |-> 7, done |-> 8]

\* A command never goes back: after a failed initialisation, a list without
\* its device or a refused action it ends, and nothing another thread does
\* moves it.
THEOREM CommandsAdvance ==
    Spec => [][\A t \in Threads : pc'[t] # pc[t] => Stage[pc[t]] < Stage[pc'[t]]]_vars
  <1> DEFINE Advance == \A t \in Threads : pc'[t] # pc[t] => Stage[pc[t]] < Stage[pc'[t]]
  <1>1. ASSUME TypeOK, Next PROVE Advance
    <2>1. ASSUME NEW t \in Threads, Run(t) PROVE Advance
      BY <1>1, <2>1
      DEF Run, LockInit, AlreadyInitialized, ConfigureTarget, InitEngine, LookupCache, ListDevices,
          ListFails, FillCache, SendState, AfterSend, Goto, TypeOK, Stage
    <2>2. ASSUME NEW t \in Threads, NEW c \in Commands, StartCommand(t, c) PROVE Advance
      BY <1>1, <2>2 DEF StartCommand, Goto, TypeOK, Stage
    <2>3. (\E t \in Threads : Run(t) \/ \E c \in Commands : StartCommand(t, c)) \/ UNCHANGED pc
      BY <1>1 DEF Next, DeviceAppears, Discover
    <2>4. QED
      BY <2>1, <2>2, <2>3
  <1>2. TypeOK /\ [Next]_vars => [Advance]_vars
    BY <1>1
  <1>3. QED
    BY <1>2, TypeCorrect, PTL DEF Spec

-----------------------------------------------------------------------------
(* Commands as the engine understands them. *)

\* The engine numbers the devices it knows from 0, each once.
IdsUnique ==
    /\ \A u \in Known : directory[u] < Cardinality(Known)
    /\ \A u, v \in Known : directory[u] = directory[v] => u = v

LEMMA NextIdsUnique == TypeOK /\ IdsUnique /\ [Next]_vars => IdsUnique'
  <1> SUFFICES ASSUME TypeOK, IdsUnique, [Next]_vars PROVE IdsUnique'
    OBVIOUS
  <1>1. ASSUME NEW u \in Udns, DeviceAppears(u) PROVE IdsUnique'
    <2>1. IsFiniteSet(Known) /\ u \notin Known
      BY <1>1, UdnsAssumption, FS_Subset DEF Known, DeviceAppears
    <2>2. directory' = [directory EXCEPT ![u] = Cardinality(Known)]
      BY <1>1 DEF DeviceAppears
    <2>3. Known' = Known \cup {u}
      BY <2>2, KnownCounted, NoneAssumption DEF Known, TypeOK
    <2>4. Cardinality(Known') = Cardinality(Known) + 1
      BY <2>1, <2>3, FS_AddElement
    <2>5. \A v \in Known' : directory'[v] = IF v = u THEN Cardinality(Known) ELSE directory[v]
      BY <2>2, <2>3 DEF TypeOK, Known
    <2>6. \A v \in Known : directory[v] \in Nat /\ directory[v] < Cardinality(Known)
      BY DEF Known, TypeOK, IdsUnique
    <2>7. \A v \in Known' : directory'[v] < Cardinality(Known')
      BY <2>3, <2>4, <2>5, <2>6, KnownCounted
    <2>8. \A v, w \in Known' : directory'[v] = directory'[w] => v = w
      BY <2>3, <2>5, <2>6, KnownCounted DEF IdsUnique
    <2>9. QED
      BY <2>7, <2>8 DEF IdsUnique
  <1>2. CASE UNCHANGED directory
    BY <1>2 DEF IdsUnique, Known
  <1>3. QED
    BY <1>1, <1>2
    DEF Next, Run, Discover, StartCommand, LockInit, AlreadyInitialized, ConfigureTarget,
        InitEngine, LookupCache, ListDevices, ListFails, FillCache, SendState, vars

RInv == IInv /\ IdsUnique

LEMMA RInvHolds == Spec => []RInv
  <1>1. Init => IdsUnique
    BY DEF Init, IdsUnique, Known, NoDevices
  <1>2. QED
    BY <1>1, NextIdsUnique, IInvHolds, PTL DEF Spec, RInv, IInv

\* An action's id names the device its command was for.
CommandsSent ==
    {[thread |-> a.thread, what |-> [udn |-> command[a.thread].udn, state |-> a.state,
                                     level |-> a.level]] : a \in actions}

IdsNameDevices == carriedOut = CommandsSent

LEMMA CarriedOutLemma == RInv => IdsNameDevices
  <1> SUFFICES ASSUME RInv, NEW a \in actions
               PROVE  DeviceWithId(a.wemo_id) = command[a.thread].udn
    BY DEF carriedOut, CommandsSent, IdsNameDevices
  <1> DEFINE u == command[a.thread].udn
  <1>1. a \in Action /\ pc[a.thread] = "done" /\ a.wemo_id = directory[u]
    BY DEF RInv, IInv, Actions
  <1>2. u \in Udns /\ a.wemo_id # None
    BY <1>1, NoneAssumption DEF RInv, IInv, TypeOK, Action, Command
  <1>3. \A v \in Udns : directory[v] = a.wemo_id => v = u
    BY <1>1, <1>2 DEF RInv, IdsUnique, Known
  <1>4. QED
    BY <1>1, <1>2, <1>3 DEF DeviceWithId

LEMMA CarriedOutPrimed == RInv' => IdsNameDevices'
  BY CarriedOutLemma, PTL

LEMMA DeliveryInit == Init => Delivery!Init
  BY DEF Init, Delivery!Init, outcomes, Outcome, carriedOut

\* A step of one thread that sends nothing ends its command or leaves it pending.
LEMMA QuietStep ==
    ASSUME RInv, RInv', UNCHANGED <<command, actions>>, NEW t \in Threads, NEW l,
           pc[t] \notin {"new", "done"}, l # "new", pc' = [pc EXCEPT ![t] = l]
    PROVE  Delivery!GiveUp(t) \/ UNCHANGED <<command, outcomes, carriedOut>>
  <1>1. carriedOut' = carriedOut
    BY CarriedOutLemma, CarriedOutPrimed DEF CommandsSent, IdsNameDevices
  <1>2. ~\E a \in actions : a.thread = t
    BY DEF RInv, IInv, Actions
  <1>3. \A v \in Threads : pc'[v] = IF v = t THEN l ELSE pc[v]
    BY DEF RInv, IInv, TypeOK
  <1>4. outcomes[t] = "pending"
    BY DEF outcomes, Outcome
  <1>5. CASE l = "done"
    <2>1. outcomes' = [outcomes EXCEPT ![t] = "failed"]
      BY <1>2, <1>3, <1>5 DEF outcomes, Outcome
    <2>2. QED
      BY <1>1, <1>4, <2>1 DEF Delivery!GiveUp
  <1>6. CASE l # "done"
    <2>1. outcomes' = outcomes
      BY <1>2, <1>3, <1>6 DEF outcomes, Outcome
    <2>2. QED
      BY <1>1, <2>1
  <1>7. QED
    BY <1>5, <1>6

LEMMA DeliverySend ==
    ASSUME RInv, RInv', NEW t \in Threads, SendState(t)
    PROVE  Delivery!Send(t)
  <1> DEFINE c == command[t]
             a == [thread |-> t, wemo_id |-> cache[c.udn], state |-> c.state, level |-> c.level]
             Item(b) == [thread |-> b.thread, what |-> [udn |-> command[b.thread].udn,
                                                        state |-> b.state, level |-> b.level]]
  <1>1. /\ pc[t] = "send" /\ pc' = [pc EXCEPT ![t] = "done"]
        /\ actions' = actions \cup {a} /\ UNCHANGED command
    BY DEF SendState, AfterSend, Goto
  <1>2. c \in Command
    BY <1>1 DEF RInv, IInv, TypeOK
  <1>3. Item(a) = [thread |-> t, what |-> c]
    BY <1>2 DEF Command
  <1>4. carriedOut = {Item(b) : b \in actions}
    BY CarriedOutLemma DEF CommandsSent, IdsNameDevices
  <1>5. carriedOut' = {Item(b) : b \in actions'}
    BY <1>1, CarriedOutPrimed DEF CommandsSent, IdsNameDevices
  <1>6. carriedOut' = carriedOut \cup {[thread |-> t, what |-> c]}
    <2> HIDE DEF a, Item
    <2>1. QED
      BY <1>1, <1>3, <1>4, <1>5
  <1>7. \A v \in Threads : pc'[v] = IF v = t THEN "done" ELSE pc[v]
    BY <1>1 DEF RInv, IInv, TypeOK
  <1>8. outcomes[t] = "pending"
    BY <1>1 DEF outcomes, Outcome
  <1>9. outcomes' = [outcomes EXCEPT ![t] = "sent"]
    <2>1. a.thread = t
      OBVIOUS
    <2> HIDE DEF a
    <2>2. \A v \in Threads : (\E b \in actions' : b.thread = v) <=>
                              v = t \/ \E b \in actions : b.thread = v
      BY <1>1, <2>1
    <2>3. QED
      BY <1>7, <2>2 DEF outcomes, Outcome
  <1>10. QED
    BY <1>1, <1>6, <1>8, <1>9 DEF Delivery!Send

LEMMA DeliveryAsk ==
    ASSUME RInv, RInv', NEW t \in Threads, NEW c \in Commands, StartCommand(t, c)
    PROVE  Delivery!Ask(t, c)
  <1>1. /\ pc[t] = "new" /\ pc' = [pc EXCEPT ![t] = "ensure"]
        /\ command' = [command EXCEPT ![t] = c] /\ UNCHANGED actions
    BY DEF StartCommand, Goto
  <1>2. \A a \in actions : a.thread \in Threads /\ a.thread # t
    BY <1>1 DEF RInv, IInv, Actions, Action
  <1>3. \A a \in actions : command'[a.thread] = command[a.thread]
    BY <1>1, <1>2 DEF RInv, IInv, TypeOK
  <1>4. carriedOut' = carriedOut
    <2>1. CommandsSent' = CommandsSent
      <3> DEFINE Item(a, c2) == [thread |-> a.thread, what |-> [udn |-> c2[a.thread].udn,
                                                           state |-> a.state, level |-> a.level]]
      <3>1. \A a \in actions : Item(a, command') = Item(a, command)
        BY <1>3
      <3>2. CommandsSent = {Item(a, command) : a \in actions}
            /\ CommandsSent' = {Item(a, command') : a \in actions}
        BY <1>1 DEF CommandsSent
      <3> HIDE DEF Item
      <3>3. QED
        BY <3>1, <3>2
    <2>2. QED
      BY <2>1, CarriedOutLemma, CarriedOutPrimed DEF IdsNameDevices
  <1>5. \A v \in Threads : pc'[v] = IF v = t THEN "ensure" ELSE pc[v]
    BY <1>1 DEF RInv, IInv, TypeOK
  <1>6. outcomes[t] = "none" /\ outcomes' = [outcomes EXCEPT ![t] = "pending"]
    <2>1. Outcome(t) = "none"
      BY <1>1 DEF Outcome
    <2>2. \A v \in Threads : Outcome(v)' = IF v = t THEN "pending" ELSE Outcome(v)
      BY <1>1, <1>5 DEF Outcome
    <2>3. QED
      BY <2>1, <2>2 DEF outcomes
  <1>7. QED
    BY <1>1, <1>4, <1>6 DEF Delivery!Ask

\* A step outside the threads' commands hands nothing over.
LEMMA DeliveryIdle ==
    ASSUME RInv, RInv', UNCHANGED <<pc, command, actions>>
    PROVE  UNCHANGED <<command, outcomes, carriedOut>>
  <1>1. carriedOut' = carriedOut
    BY CarriedOutLemma, CarriedOutPrimed DEF CommandsSent, IdsNameDevices
  <1>2. QED
    BY <1>1 DEF outcomes, Outcome

LEMMA DeliveryNext ==
    RInv /\ RInv' /\ [Next]_vars => [Delivery!Next]_<<command, outcomes, carriedOut>>
  <1> SUFFICES ASSUME RInv, RInv', [Next]_vars
               PROVE  Delivery!Next \/ UNCHANGED <<command, outcomes, carriedOut>>
    OBVIOUS
  <1>1. ASSUME NEW t \in Threads, SendState(t) PROVE Delivery!Next
    BY <1>1, DeliverySend DEF Delivery!Next
  <1>2. ASSUME NEW t \in Threads, NEW c \in Commands, StartCommand(t, c) PROVE Delivery!Next
    BY <1>2, DeliveryAsk DEF Delivery!Next
  <1>3. ASSUME NEW t \in Threads,
               \/ LockInit(t) \/ AlreadyInitialized(t) \/ ConfigureTarget(t) \/ LookupCache(t)
               \/ ListDevices(t) \/ ListFails(t) \/ FillCache(t)
               \/ \E up \in BOOLEAN : InitEngine(t, up)
        PROVE  Delivery!Next \/ UNCHANGED <<command, outcomes, carriedOut>>
    <2>1. /\ UNCHANGED <<command, actions>> /\ pc[t] \notin {"new", "done"}
          /\ \E l : l # "new" /\ pc' = [pc EXCEPT ![t] = l]
      BY <1>3 DEF LockInit, AlreadyInitialized, ConfigureTarget, LookupCache, ListDevices,
                  ListFails, FillCache, InitEngine, Goto
    <2>2. QED
      BY <2>1, QuietStep DEF Delivery!Next
  <1>4. CASE UNCHANGED <<pc, command, actions>>
    BY <1>4, DeliveryIdle
  <1>5. QED
    BY <1>1, <1>2, <1>3, <1>4 DEF Next, Run, DeviceAppears, Discover, vars

\* SetOnOff and SetLevelPercent, run on any number of threads at once over the
\* shared cache, hand each command to its own device at most once.
THEOREM DeliveryRefinement == Spec => ImplementsCommandDelivery
  BY DeliveryInit, DeliveryNext, RInvHolds, PTL DEF Spec, ImplementsCommandDelivery, Delivery!Spec
=============================================================================
