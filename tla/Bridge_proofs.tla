---------------------------- MODULE Bridge_proofs ----------------------------
(***************************************************************************)
(* Proofs about the composed bridge: with the adapter's threads, locks,    *)
(* cache and device lists inside, it still implements BridgedLights.  The  *)
(* strengthening says which commands threads carry, and that every copy of *)
(* the engine's ids is right and holds all lights with a name.             *)
(***************************************************************************)
EXTENDS Bridge, LevelScale_proofs

\* What the two handlers give a thread to carry.
Given(c) ==
    \/ \E d \in Devices, on \in BOOLEAN : c = Adapter!OnOffCommand(d, on)
    \/ \E d \in Dimmers, m \in MatterLevels :
         m > 1 /\ c = Adapter!LevelCommand(d, MatterToWemoPercent(m))

Places == {"new", "ensure", "init", "we_init", "lookup", "list", "fill", "send", "done"}

Running(t) == pc[t] \notin {"new", "done"}

Threaded ==
    /\ pc \in [Threads -> Places]
    /\ DOMAIN command = Threads
    /\ \A t \in Threads : Running(t) => Given(command[t])

Identified ==
    /\ \A d, e \in Devices : directory[d] = directory[e] => d = e
    /\ \A d \in Devices : directory[d] # None

\* A copy of the engine's ids, complete but for the lights without a UDN.
Copied(ids) == \A d \in Devices : ids[d] = IF d \in Nameless THEN None ELSE directory[d]

Faithful(ids) == \A d \in Devices : ids[d] = None \/ (ids[d] = directory[d] /\ d \notin Nameless)

Cached ==
    /\ Copied(cache)
    /\ DOMAIN listed = Threads
    /\ \A t \in Threads : Faithful(listed[t])
    /\ \A t \in Threads : /\ pc[t] = "send" => command[t].udn \notin Nameless
                          /\ pc[t] \in {"list", "fill"} => command[t].udn \in Nameless

BInv == Threaded /\ Identified /\ Cached

-----------------------------------------------------------------------------
LEMMA PercentClamped ==
    ASSUME NEW m \in MatterLevels, m > 1
    PROVE  LET p == MatterToWemoPercent(m)
           IN  p \in Percent /\ p > 0 /\ Adapter!ClampPercent(p) = p
  <1>1. m \in Byte /\ m > 0
    BY LevelsAssumption DEF Byte
  <1>2. MatterToWemoPercent(m) \in Percent /\ MatterToWemoPercent(m) > 0
    BY <1>1, PercentInRange, PercentNotZero
  <1> DEFINE p == MatterToWemoPercent(m)
  <1> HIDE DEF p
  <1>3. p \in Percent => Adapter!ClampPercent(p) = p
    BY DEF Percent, Adapter!ClampPercent
  <1>4. QED
    BY <1>2, <1>3 DEF p

\* A command is carried as the handler meant it, and names a light.
LEMMA GivenWritten ==
    /\ \A d \in Devices, on \in BOOLEAN :
         LET c == Adapter!OnOffCommand(d, on)
         IN  /\ c.udn = d /\ c.level = -1 /\ c.state = Lights!Bit(on)
             /\ AsWritten(c) = [dev |-> d, kind |-> "onoff", value |-> Lights!Bit(on)]
    /\ \A d \in Dimmers, m \in MatterLevels :
         LET p == MatterToWemoPercent(m)
             c == Adapter!LevelCommand(d, p)
         IN  m > 1 => /\ c.udn = d /\ c.level = p /\ c.state = 1 /\ p > 0 /\ p \in Percent
                      /\ AsWritten(c) = [dev |-> d, kind |-> "level", value |-> p]
  <1>1. ASSUME NEW d \in Devices, NEW on \in BOOLEAN
        PROVE  LET c == Adapter!OnOffCommand(d, on)
               IN  /\ c.udn = d /\ c.level = -1 /\ c.state = Lights!Bit(on)
                   /\ AsWritten(c) = [dev |-> d, kind |-> "onoff", value |-> Lights!Bit(on)]
    BY DEF Adapter!OnOffCommand, AsWritten, Lights!Bit
  <1>2. ASSUME NEW d \in Dimmers, NEW m \in MatterLevels, m > 1
        PROVE  LET p == MatterToWemoPercent(m)
                   c == Adapter!LevelCommand(d, p)
               IN  /\ c.udn = d /\ c.level = p /\ c.state = 1 /\ p > 0 /\ p \in Percent
                   /\ AsWritten(c) = [dev |-> d, kind |-> "level", value |-> p]
    <2> DEFINE p == MatterToWemoPercent(m)
    <2>1. p \in Percent /\ p > 0 /\ Adapter!ClampPercent(p) = p
      BY <1>2, PercentClamped
    <2> HIDE DEF p
    <2>2. Adapter!LevelCommand(d, p) = [udn |-> d, state |-> 1, level |-> p]
      BY <2>1 DEF Adapter!LevelCommand, Adapter!StateOf
    <2>3. AsWritten([udn |-> d, state |-> 1, level |-> p])
            = [dev |-> d, kind |-> "level", value |-> p]
      BY <2>1 DEF AsWritten, Percent
    <2>4. QED
      BY <2>1, <2>2, <2>3 DEF p
  <1>3. QED
    BY <1>1, <1>2

\* So a command under way is one of the lights', and never Idle.
LEMMA CarriedCommand ==
    ASSUME NEW c, Given(c)
    PROVE  c.udn \in Devices /\ AsWritten(c) \in Lights!Command /\ AsWritten(c).dev = c.udn
  <1>1. ASSUME NEW d \in Devices, NEW on \in BOOLEAN, c = Adapter!OnOffCommand(d, on)
        PROVE  c.udn \in Devices /\ AsWritten(c) \in Lights!Command /\ AsWritten(c).dev = c.udn
    BY <1>1, GivenWritten DEF Lights!Command, Lights!Bit
  <1>2. ASSUME NEW d \in Dimmers, NEW m \in MatterLevels, m > 1,
               c = Adapter!LevelCommand(d, MatterToWemoPercent(m))
        PROVE  c.udn \in Devices /\ AsWritten(c) \in Lights!Command /\ AsWritten(c).dev = c.udn
    <2> DEFINE p == MatterToWemoPercent(m)
    <2>1. /\ c.udn = d /\ p \in Percent
          /\ AsWritten(c) = [dev |-> d, kind |-> "level", value |-> p]
      BY <1>2, GivenWritten
    <2> HIDE DEF p
    <2>2. p \in Lights!Byte
      BY <2>1 DEF Percent, Lights!Byte
    <2>3. QED
      BY <2>1, <2>2, DimmersAssumption DEF Lights!Command
  <1>3. QED
    BY <1>1, <1>2 DEF Given

-----------------------------------------------------------------------------
(* The invariant. *)

LEMMA InitBInv == Init => BInv
  <1> SUFFICES ASSUME Init PROVE BInv
    OBVIOUS
  <1>1. Threaded
    BY DEF Init, Threaded, Running, Places
  <1>2. Identified
    <2>1. directory \in [Devices -> 0 .. Cardinality(Devices) - 1] /\ IsInjective(directory)
      BY DEF Init, Injection
    <2>2. \A d, e \in Devices : directory[d] = directory[e] => d = e
      BY <2>1 DEF IsInjective
    <2>3. \A d \in Devices : directory[d] # None
      BY <2>1, NoneAssumption
    <2>4. QED
      BY <2>2, <2>3 DEF Identified
  <1>3. Cached
    <2>1. Copied(cache)
      BY NamelessAssumption DEF Init, Copied, CachedAtDiscovery
    <2>2. Faithful(Adapter!NoDevices)
      BY DEF Faithful, Adapter!NoDevices
    <2>3. QED
      BY <2>1, <2>2 DEF Init, Cached
  <1>4. QED
    BY <1>1, <1>2, <1>3 DEF BInv

\* A handler starts a thread with a command it may be given.
LEMMA StartKeepsBInv ==
    ASSUME BInv, NEW t \in Threads, NEW c, Given(c), Adapter!StartCommand(t, c)
    PROVE  /\ BInv'
           /\ carried[t] = Idle
           /\ carried' = [carried EXCEPT ![t] = AsWritten(c)]
  <1>1. /\ pc[t] = "new" /\ command' = [command EXCEPT ![t] = c]
        /\ pc' = [pc EXCEPT ![t] = "ensure"]
        /\ UNCHANGED <<directory, cache, listed>>
    BY DEF Adapter!StartCommand, Adapter!Goto
  <1>2. /\ pc' \in [Threads -> Places] /\ DOMAIN command' = Threads
        /\ \A v \in Threads : /\ pc'[v] = IF v = t THEN "ensure" ELSE pc[v]
                              /\ command'[v] = IF v = t THEN c ELSE command[v]
    BY <1>1 DEF BInv, Threaded, Places
  <1>3. Threaded'
    BY <1>2 DEF BInv, Threaded, Running
  <1>4. Identified' /\ Cached'
    BY <1>1, <1>2 DEF BInv, Identified, Cached, Copied, Faithful
  <1>5. carried[t] = Idle /\ carried' = [carried EXCEPT ![t] = AsWritten(c)]
    BY <1>1, <1>2 DEF carried
  <1>6. QED
    BY <1>3, <1>4, <1>5 DEF BInv

\* A list gives the ids the engine gave, and none to a light without a UDN.
LEMMA ListFaithful == \A S : Identified => Faithful(Adapter!IdsOf(S))
  BY DEF Faithful, Adapter!IdsOf

\* Merging such a list into the complete cache changes nothing.
LEMMA MergeChangesNothing ==
    ASSUME Identified, Copied(cache), NEW ids, Faithful(ids)
    PROVE  Copied(Adapter!Merged(cache, ids))
  BY NamelessAssumption DEF Identified, Copied, Faithful, Adapter!Merged

\* What a step of a thread leaves alone, and where it may go.
ThreadStep(t) ==
    /\ UNCHANGED <<directory, command>>
    /\ Running(t)
    /\ \E l \in {"init", "we_init", "lookup", "list", "fill", "send", "done"} :
         /\ pc' = [pc EXCEPT ![t] = l]
         /\ pc[t] = "send" => l = "done"
    /\ cache' = cache \/ cache' = Adapter!Merged(cache, listed[t])
    /\ DOMAIN listed' = Threads /\ \A v \in Threads : Faithful(listed'[v])
    /\ pc'[t] = "send" => cache'[command[t].udn] # None
    /\ pc'[t] = "list" => cache[command[t].udn] = None
    /\ pc'[t] = "fill" => pc[t] = "list"

LEMMA RunIsThreadStep ==
    ASSUME BInv, NEW t \in Threads, Adapter!Run(t)
    PROVE  ThreadStep(t)
  <1> USE DEF ThreadStep, Running, Adapter!Goto
  <1>0. /\ pc \in [Threads -> Places] /\ DOMAIN listed = Threads
        /\ \A v \in Threads : Faithful(listed[v])
    BY DEF BInv, Threaded, Cached
  <1>1. CASE Adapter!LockInit(t) \/ Adapter!AlreadyInitialized(t) \/ Adapter!ConfigureTarget(t)
             \/ \E up \in BOOLEAN : Adapter!InitEngine(t, up)
    BY <1>0, <1>1 DEF Adapter!LockInit, Adapter!AlreadyInitialized, Adapter!ConfigureTarget,
                      Adapter!InitEngine
  <1>2. CASE Adapter!LookupCache(t)
    BY <1>0, <1>2 DEF Adapter!LookupCache
  <1>3. CASE Adapter!ListDevices(t)
    <2>1. PICK S : listed' = [listed EXCEPT ![t] = Adapter!IdsOf(S)]
      BY <1>3 DEF Adapter!ListDevices
    <2>2. DOMAIN listed' = Threads /\ \A v \in Threads : Faithful(listed'[v])
      BY <1>0, <2>1, ListFaithful DEF BInv
    <2>3. QED
      BY <1>0, <1>3, <2>2 DEF Adapter!ListDevices
  <1>4. CASE Adapter!ListFails(t)
    BY <1>0, <1>4 DEF Adapter!ListFails
  <1>5. CASE Adapter!FillCache(t)
    BY <1>0, <1>5 DEF Adapter!FillCache
  <1>6. CASE Adapter!SendState(t)
    BY <1>0, <1>6 DEF Adapter!SendState, Adapter!AfterSend
  <1>7. QED
    BY <1>1, <1>2, <1>3, <1>4, <1>5, <1>6 DEF Adapter!Run

LEMMA ThreadStepKeepsBInv ==
    ASSUME BInv, NEW t \in Threads, ThreadStep(t)
    PROVE  BInv'
  <1>1. PICK l \in {"init", "we_init", "lookup", "list", "fill", "send", "done"} :
          pc' = [pc EXCEPT ![t] = l]
    BY DEF ThreadStep
  <1>2. \A v \in Threads : pc'[v] = IF v = t THEN l ELSE pc[v]
    BY <1>1 DEF BInv, Threaded
  <1>3. Threaded'
    BY <1>1, <1>2 DEF BInv, Threaded, ThreadStep, Running, Places
  <1>4. Identified'
    BY DEF BInv, Identified, ThreadStep
  <1>5. Cached'
    <2>1. Copied(cache')
      BY MergeChangesNothing DEF BInv, Cached, ThreadStep
    <2>2. Copied(cache)' /\ \A v \in Threads : Faithful(listed[v])'
      BY <2>1 DEF ThreadStep, Copied, Faithful
    <2>3. command[t].udn \in Devices
      BY CarriedCommand DEF BInv, Threaded, ThreadStep
    <2>4. /\ l = "send" => command[t].udn \notin Nameless
          /\ l \in {"list", "fill"} => command[t].udn \in Nameless
      <3>1. l = "send" => command[t].udn \notin Nameless
        BY <1>2, <2>1, <2>3 DEF ThreadStep, Copied
      <3>2. l = "list" => command[t].udn \in Nameless
        BY <1>2, <2>3 DEF ThreadStep, BInv, Cached, Copied, Identified
      <3>3. l = "fill" => command[t].udn \in Nameless
        BY <1>2 DEF ThreadStep, BInv, Cached
      <3>4. QED
        BY <3>1, <3>2, <3>3
    <2>5. QED
      BY <1>2, <2>2, <2>4 DEF BInv, Cached, ThreadStep
  <1>6. QED
    BY <1>3, <1>4, <1>5 DEF BInv

LEMMA StutterKeepsBInv == BInv /\ UNCHANGED adapterVars => BInv'
  BY DEF BInv, Threaded, Identified, Cached, Copied, Faithful, Running, Given, adapterVars

LEMMA NextBInv == BInv /\ [Next]_vars => BInv'
  <1> SUFFICES ASSUME BInv, [Next]_vars PROVE BInv'
    OBVIOUS
  <1>1. ASSUME NEW d \in Devices, NEW t \in Threads, NEW on \in BOOLEAN, WriteOnOff(d, t, on)
        PROVE  BInv'
    BY <1>1, StartKeepsBInv DEF WriteOnOff, Given
  <1>2. ASSUME NEW d \in Dimmers, NEW t \in Threads, NEW m \in MatterLevels, WriteLevel(d, t, m)
        PROVE  BInv'
    <2>1. m > 1
      BY <1>2 DEF WriteLevel, Lights!HandleWriteLevel
    <2>2. QED
      BY <1>2, <2>1, StartKeepsBInv DEF WriteLevel, Given
  <1>3. CASE CommandSteps
    <2>1. PICK t \in Threads : Adapter!Run(t)
      BY <1>3 DEF CommandSteps, CommandStep, Proceed, GiveUp, SendSucceeds, SendFails, Adapter!Run
    <2>2. QED
      BY <2>1, RunIsThreadStep, ThreadStepKeepsBInv
  <1>4. CASE UNCHANGED adapterVars
    BY <1>4, StutterKeepsBInv
  <1>5. QED
    BY <1>1, <1>2, <1>3, <1>4
    DEF Next, ControllerWrites, OtherWrite, RunWork, WorldChanges, EngineReports, Tick, vars

LEMMA BInvHolds == Spec => []BInv
  BY InitBInv, NextBInv, PTL DEF Spec

\* Discover's cache serves every later command for a light with a UDN; merging
\* the lists of other threads' misses takes none of it away.
THEOREM NamedLightsAlwaysHit == Spec => []NamedLightsHit
  <1>1. BInv => NamedLightsHit
    BY DEF BInv, Cached, NamedLightsHit
  <1>2. QED
    BY <1>1, BInvHolds, PTL

-----------------------------------------------------------------------------
(* The refinement. *)

\* While a thread runs, the lights see it carry its command.
LEMMA CarriedWhileRunning ==
    ASSUME BInv, NEW t \in Threads, Running(t)
    PROVE  /\ carried[t] = AsWritten(command[t])
           /\ carried[t] # Idle
           /\ carried[t].dev = command[t].udn
           /\ carried[t].dev \in Devices
  <1>1. Given(command[t]) /\ carried[t] = AsWritten(command[t])
    BY DEF BInv, Threaded, Running, carried
  <1>2. QED
    BY <1>1, CarriedCommand, IdleAssumption

\* A thread that goes on still carries its command; one that ends does not.
LEMMA CarriedStep ==
    ASSUME BInv, NEW t \in Threads, ThreadStep(t)
    PROVE  /\ pc'[t] # "done" => carried' = carried
           /\ pc'[t] = "done" => carried' = [carried EXCEPT ![t] = Idle]
  <1>1. PICK l \in {"init", "we_init", "lookup", "list", "fill", "send", "done"} :
          pc' = [pc EXCEPT ![t] = l]
    BY DEF ThreadStep
  <1>2. \A v \in Threads : pc'[v] = IF v = t THEN l ELSE pc[v]
    BY <1>1 DEF BInv, Threaded
  <1>3. Running(t) /\ command' = command
    BY DEF ThreadStep
  <1>4. QED
    BY <1>2, <1>3 DEF carried, Running

\* The id that the cache holds for a command under way is its own light's.
LEMMA IdNamesLight ==
    ASSUME BInv, NEW t \in Threads, pc[t] = "send"
    PROVE  Adapter!DeviceWithId(cache[command[t].udn]) = command[t].udn
  <1> DEFINE d == command[t].udn
  <1>1. d \in Devices /\ d \notin Nameless
    BY CarriedCommand DEF BInv, Threaded, Cached, Running
  <1>2. cache[d] = directory[d] /\ \A e \in Devices : directory[e] = cache[d] => e = d
    BY <1>1 DEF BInv, Cached, Copied, Identified
  <1>3. QED
    BY <1>1, <1>2 DEF Adapter!DeviceWithId

\* The engine does with an action what the handler's command asks for.
LEMMA SetActionIsCommand ==
    ASSUME NEW c, Given(c), NEW s
    PROVE  SetAction(s, c.state, c.level) = Lights!Commanded(s, AsWritten(c))
  <1>1. ASSUME NEW d \in Devices, NEW on \in BOOLEAN, c = Adapter!OnOffCommand(d, on)
        PROVE  SetAction(s, c.state, c.level) = Lights!Commanded(s, AsWritten(c))
    <2>1. /\ c.level = -1 /\ c.state = Lights!Bit(on)
          /\ AsWritten(c) = [dev |-> d, kind |-> "onoff", value |-> Lights!Bit(on)]
      BY <1>1, GivenWritten
    <2>2. QED
      BY <2>1 DEF SetAction, Lights!Commanded
  <1>2. ASSUME NEW d \in Dimmers, NEW m \in MatterLevels, m > 1,
               c = Adapter!LevelCommand(d, MatterToWemoPercent(m))
        PROVE  SetAction(s, c.state, c.level) = Lights!Commanded(s, AsWritten(c))
    <2> DEFINE p == MatterToWemoPercent(m)
    <2>1. /\ c.level = p /\ c.state = 1 /\ p > 0 /\ p \in Percent
          /\ AsWritten(c) = [dev |-> d, kind |-> "level", value |-> p]
      BY <1>2, GivenWritten
    <2> HIDE DEF p
    <2>2. p >= 0 /\ Lights!ClampPercent(p) = p
      BY <2>1 DEF Percent, Lights!ClampPercent
    <2>3. SetAction(s, 1, p) = [s EXCEPT !.on = TRUE, !.percent = p]
      BY <2>2 DEF SetAction
    <2>4. Lights!Commanded(s, [dev |-> d, kind |-> "level", value |-> p])
            = [s EXCEPT !.on = TRUE, !.percent = p]
      <3>1. (p > 0) = TRUE
        BY <2>1
      <3>2. QED
        BY <2>2, <3>1 DEF Lights!Commanded
    <2>5. QED
      BY <2>1, <2>3, <2>4
  <1>3. QED
    BY <1>1, <1>2 DEF Given

\* A thread that ends without the engine's consent is a command that fails.
LEMMA EndIsFailure ==
    ASSUME BInv, NEW t \in Threads, ThreadStep(t), pc'[t] = "done",
           adrift' = adrift \cup {<<carried[t].dev, carried[t].kind>>},
           UNCHANGED <<handlerVars, wemo, changed>>
    PROVE  Lights!CommandFails(t)
  <1>1. carried[t] # Idle
    BY CarriedWhileRunning DEF ThreadStep
  <1>2. carried' = [carried EXCEPT ![t] = Idle]
    BY CarriedStep
  <1>3. QED
    BY <1>1, <1>2
    DEF Lights!CommandFails, handlerVars, Lights!shownVars, Lights!settleVars, Lights!engineVars

LEMMA SendIsSuccess ==
    ASSUME BInv, NEW t \in Threads, SendSucceeds(t)
    PROVE  Lights!CommandSucceeds(t)
  <1>1. pc[t] = "send" /\ Adapter!Run(t)
    BY DEF SendSucceeds, Adapter!SendState, Adapter!Run
  <1>2. ThreadStep(t)
    BY <1>1, RunIsThreadStep
  <1>3. /\ carried[t] # Idle /\ carried[t].dev = command[t].udn
        /\ carried[t] = AsWritten(command[t]) /\ Given(command[t])
    BY <1>2, CarriedWhileRunning DEF ThreadStep, BInv, Threaded
  <1>4. carried' = [carried EXCEPT ![t] = Idle]
    <2>1. pc'[t] = "done"
      BY <1>1 DEF SendSucceeds, Adapter!SendState, Adapter!AfterSend, Adapter!Goto, BInv, Threaded
    <2>2. QED
      BY <1>2, <2>1, CarriedStep
  <1> DEFINE d == command[t].udn
  <1>5. Adapter!DeviceWithId(cache[d]) = d
    BY <1>1, IdNamesLight
  <1>6. Lights!DeviceTakes(d, SetAction(wemo[d], command[t].state, command[t].level))
    BY <1>5 DEF SendSucceeds
  <1>7. SetAction(wemo[d], command[t].state, command[t].level)
          = Lights!Commanded(wemo[d], carried[t])
    BY <1>3, SetActionIsCommand
  <1>8. UNCHANGED <<handlerVars, adrift>>
    BY DEF SendSucceeds
  <1>9. QED
    BY <1>3, <1>4, <1>6, <1>7, <1>8
    DEF Lights!CommandSucceeds, handlerVars, Lights!shownVars, Lights!settleVars

LEMMA NextIsLightsNext == BInv /\ [Next]_vars => [Lights!Next]_(Lights!vars)
  <1> SUFFICES ASSUME BInv, [Next]_vars
               PROVE  Lights!Next \/ UNCHANGED Lights!vars
    OBVIOUS
  <1>1. ASSUME NEW d \in Devices, NEW t \in Threads, NEW on \in BOOLEAN, WriteOnOff(d, t, on)
        PROVE  Lights!Next
    <2> DEFINE c == Adapter!OnOffCommand(d, on)
    <2>1. Given(c) /\ AsWritten(c) = [dev |-> d, kind |-> "onoff", value |-> Lights!Bit(on)]
      BY GivenWritten DEF Given
    <2>2. carried[t] = Idle /\ carried' = [carried EXCEPT ![t] = AsWritten(c)]
      BY <1>1, <2>1, StartKeepsBInv DEF WriteOnOff
    <2>3. Lights!WriteOnOff(d, t, on)
      BY <1>1, <2>1, <2>2 DEF WriteOnOff, Lights!WriteOnOff, Lights!StartThread
    <2>4. QED
      BY <2>3 DEF Lights!Next, Lights!ControllerWrites
  <1>2. ASSUME NEW d \in Dimmers, NEW t \in Threads, NEW m \in MatterLevels, WriteLevel(d, t, m)
        PROVE  Lights!Next
    <2> DEFINE p == MatterToWemoPercent(m)
               c == Adapter!LevelCommand(d, p)
    <2>1. m > 1
      BY <1>2 DEF WriteLevel, Lights!HandleWriteLevel
    <2>2. Given(c) /\ AsWritten(c) = [dev |-> d, kind |-> "level", value |-> p]
      BY <2>1, GivenWritten DEF Given
    <2>3. carried[t] = Idle /\ carried' = [carried EXCEPT ![t] = AsWritten(c)]
      BY <1>2, <2>2, StartKeepsBInv DEF WriteLevel
    <2>4. p = Lights!MatterToWemoPercent(m)
      BY DEF MatterToWemoPercent, Lights!MatterToWemoPercent
    <2> HIDE DEF p
    <2>5. Lights!StartThread(t, [dev |-> d, kind |-> "level",
                                 value |-> Lights!MatterToWemoPercent(m)])
      BY <2>2, <2>3, <2>4 DEF Lights!StartThread
    <2>6. Lights!WriteLevel(d, t, m)
      BY <1>2, <2>5 DEF WriteLevel, Lights!WriteLevel
    <2>7. QED
      BY <2>6 DEF Lights!Next, Lights!ControllerWrites
  <1>3. CASE OtherWrite
    BY <1>3 DEF OtherWrite, Lights!Next, Lights!ControllerWrites
  <1>4. CASE RunWork \/ WorldChanges \/ EngineReports \/ Tick
    BY <1>4 DEF RunWork, WorldChanges, EngineReports, Tick, Lights!Next
  <1>5. ASSUME NEW t \in Threads, CommandStep(t)
        PROVE  Lights!Next \/ UNCHANGED Lights!vars
    <2>1. Adapter!Run(t)
      BY <1>5 DEF CommandStep, Proceed, GiveUp, SendSucceeds, SendFails, Adapter!Run
    <2>2. ThreadStep(t)
      BY <2>1, RunIsThreadStep
    <2>3. CASE Proceed(t)
      <3>1. carried' = carried /\ UNCHANGED lightVars
        BY <2>2, <2>3, CarriedStep DEF Proceed
      <3>2. QED
        BY <3>1 DEF lightVars, handlerVars, Lights!vars
    <2>4. CASE GiveUp(t)
      <3>1. Lights!CommandFails(t)
        BY <2>2, <2>4, EndIsFailure DEF GiveUp
      <3>2. QED
        BY <3>1 DEF Lights!Next, Lights!CommandEnds
    <2>5. CASE SendFails(t)
      <3>1. pc'[t] = "done"
        BY <2>5 DEF SendFails, Adapter!SendState, Adapter!AfterSend, Adapter!Goto, BInv, Threaded
      <3>2. Lights!CommandFails(t)
        BY <2>2, <2>5, <3>1, EndIsFailure DEF SendFails
      <3>3. QED
        BY <3>2 DEF Lights!Next, Lights!CommandEnds
    <2>6. CASE SendSucceeds(t)
      <3>1. Lights!CommandSucceeds(t)
        BY <2>6, SendIsSuccess
      <3>2. QED
        BY <3>1 DEF Lights!Next, Lights!CommandEnds
    <2>7. QED
      BY <1>5, <2>3, <2>4, <2>5, <2>6 DEF CommandStep
  <1>6. CASE UNCHANGED vars
    BY <1>6 DEF vars, adapterVars, lightVars, handlerVars, Lights!vars, carried
  <1>7. QED
    BY <1>1, <1>2, <1>3, <1>4, <1>5, <1>6 DEF Next, ControllerWrites, CommandSteps

\* The endpoints cannot tell the adapter, with its locks, cache, lists and ids,
\* from threads that carry a command and then succeed or fail at once.
THEOREM BridgeRefinement == Spec => ImplementsLights
  <1>1. Init => Lights!Init
    BY DEF Init
  <1>2. QED
    BY <1>1, NextIsLightsNext, BInvHolds, PTL DEF Spec, ImplementsLights, Lights!Spec
=============================================================================
