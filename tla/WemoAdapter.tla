---------------------------- MODULE WemoAdapter ----------------------------
(***************************************************************************)
(* WemoAdapterOpenWemo: Discover at startup, then SetOnOff and             *)
(* SetLevelPercent on any number of detached threads at once.  A command   *)
(* initialises the engine if that has not been done (under init_lock),     *)
(* looks the device up in the UDN -> wemo_id cache, lists the devices      *)
(* again on a miss, and sends the action to the engine while it holds the  *)
(* cache mutex.  The engine may be out of reach at any call, and devices   *)
(* may appear on the network at any time; their ids do not change.         *)
(***************************************************************************)
EXTENDS LevelScale, FiniteSets

CONSTANTS
    Threads,   \* command threads; each carries one command
    Udns,      \* device identities
    Nameless,  \* devices that report an empty UDN: listed, but never cached
    MaxItems,  \* WE_DEVICE_LIST_MAX_ITEMS, the devices one list holds
    Percents,  \* percentages asked for
    None       \* no wemo_id, no lock holder

ASSUME UdnsAssumption == IsFiniteSet(Udns) /\ Nameless \subseteq Udns
ASSUME MaxItemsAssumption == MaxItems \in Nat
ASSUME PercentsAssumption == Percents \subseteq Byte
ASSUME NoneAssumption == None \notin Nat \cup Threads

VARIABLES
    directory,         \* wemo_id of each device the engine knows, or None
    booted,            \* ApplicationInit is over
    targetConfigured,  \* statics of EnsureEngineInitialized
    initialized,
    initLock,          \* holder of init_lock
    cacheMutex,        \* holder of mCacheMutex
    cache,             \* mUdnToWemoId
    pc,                \* where each thread stands
    command,           \* what it was asked for, None before
    listed,            \* the device list it got on a miss
    inits,             \* history: number of times we_init has succeeded
    actions            \* history: actions the engine was asked for

engineVars == <<targetConfigured, initialized, inits>>
vars == <<directory, booted, targetConfigured, initialized, initLock, cacheMutex,
          cache, pc, command, listed, inits, actions>>

-----------------------------------------------------------------------------
(***************************************************************************)
(* Faulty variants of definitions below.  No action uses them; each stands *)
(* for a slip the properties must catch when it replaces the definition    *)
(* named first in its own name.                                            *)
(***************************************************************************)
OnOffCommand_LevelZero(u, on) == [udn |-> u, state |-> IF on THEN 1 ELSE 0, level |-> 0]
MutexFree_NotLocked == TRUE
InitLockFree_NotLocked == TRUE
Merged_Replaced(old, new) == new
StateOf_Inclusive(percent) == IF percent >= 0 THEN 1 ELSE 0
ReleaseMutex_Forgotten(t) == UNCHANGED cacheMutex
AfterSend_GoOn(t) == pc' = [pc EXCEPT ![t] = "list"]

-----------------------------------------------------------------------------
NoDevices == [u \in Udns |-> None]
Known == {u \in Udns : directory[u] # None}

\* SetOnOff(udn, on) sends level -1: the brightness is left alone.
OnOffCommand(u, on) == [udn |-> u, state |-> IF on THEN 1 ELSE 0, level |-> -1]

StateOf(percent) == IF percent > 0 THEN 1 ELSE 0

\* SetLevelPercent(udn, percent) clamps, and turns the light on unless at 0.
LevelCommand(u, percent) ==
    [udn |-> u, state |-> StateOf(ClampPercent(percent)), level |-> ClampPercent(percent)]

Command == [udn : Udns, state : {0, 1}, level : Percent \cup {-1}]

\* The commands handlers and the command-line tool give.
Commands == {OnOffCommand(u, on) : u \in Udns, on \in BOOLEAN}
            \cup {LevelCommand(u, p) : u \in Udns, p \in Percents}

Init ==
    /\ directory = NoDevices
    /\ booted = FALSE
    /\ targetConfigured = FALSE
    /\ initialized = FALSE
    /\ initLock = None
    /\ cacheMutex = None
    /\ cache = NoDevices
    /\ pc = [t \in Threads |-> "new"]
    /\ command = [t \in Threads |-> None]
    /\ listed = [t \in Threads |-> NoDevices]
    /\ inits = 0
    /\ actions = {}

Goto(t, l) == pc' = [pc EXCEPT ![t] = l]

\* A device shows up and the engine gives it an id of its own.
DeviceAppears(u) ==
    /\ directory[u] = None
    /\ directory' = [directory EXCEPT ![u] = Cardinality(Known)]
    /\ UNCHANGED <<booted, engineVars, initLock, cacheMutex, cache, pc, command, listed, actions>>

\* we_list_devices: every device the engine knows, or as many as a list holds.
Listings == {S \in SUBSET Known : IF S = Known THEN Cardinality(S) <= MaxItems
                                  ELSE Cardinality(S) = MaxItems}

\* What the cache takes from such a list.
IdsOf(S) == [u \in Udns |-> IF u \in S \ Nameless THEN directory[u] ELSE None]

-----------------------------------------------------------------------------
\* Discover, on the main thread before any command: the engine is initialised
\* if it answers, and when it lists its devices the cache is filled anew.
Discover(up, lists, S) ==
    /\ ~booted
    /\ booted' = TRUE
    /\ targetConfigured' = TRUE
    /\ initialized' = up
    /\ inits' = inits + IF up THEN 1 ELSE 0
    /\ cache' = IF up /\ lists THEN IdsOf(S) ELSE cache
    /\ UNCHANGED <<directory, initLock, cacheMutex, pc, command, listed, actions>>

\* A handler starts a thread with one command.
StartCommand(t, c) ==
    /\ booted
    /\ pc[t] = "new"
    /\ command' = [command EXCEPT ![t] = c]
    /\ Goto(t, "ensure")
    /\ UNCHANGED <<directory, booted, engineVars, initLock, cacheMutex, cache, listed, actions>>

-----------------------------------------------------------------------------
(* EnsureEngineInitialized *)

InitLockFree == initLock = None

LockInit(t) ==
    /\ pc[t] = "ensure"
    /\ InitLockFree
    /\ initLock' = t
    /\ Goto(t, "init")
    /\ UNCHANGED <<directory, booted, engineVars, cacheMutex, cache, command, listed, actions>>

\* The engine has been initialised already.
AlreadyInitialized(t) ==
    /\ pc[t] = "init"
    /\ initialized
    /\ initLock' = None
    /\ Goto(t, "lookup")
    /\ UNCHANGED <<directory, booted, engineVars, cacheMutex, cache, command, listed, actions>>

\* It has not: the IPC target is set the first time, and we_init called.
ConfigureTarget(t) ==
    /\ pc[t] = "init"
    /\ ~initialized
    /\ targetConfigured' = TRUE
    /\ Goto(t, "we_init")
    /\ UNCHANGED <<directory, booted, initialized, inits, initLock, cacheMutex,
                   cache, command, listed, actions>>

\* we_init returns; without an engine the command is given up.
InitEngine(t, up) ==
    /\ pc[t] = "we_init"
    /\ initialized' = up
    /\ inits' = inits + IF up THEN 1 ELSE 0
    /\ initLock' = None
    /\ Goto(t, IF up THEN "lookup" ELSE "done")
    /\ UNCHANGED <<directory, booted, targetConfigured, cacheMutex, cache,
                   command, listed, actions>>

-----------------------------------------------------------------------------
(* SetOnOff and SetLevelPercent *)

MutexFree == cacheMutex = None

\* The cache is looked up under the mutex, which is kept on a hit.
LookupCache(t) ==
    /\ pc[t] = "lookup"
    /\ MutexFree
    /\ IF cache[command[t].udn] # None
       THEN cacheMutex' = t /\ Goto(t, "send")
       ELSE Goto(t, "list") /\ UNCHANGED cacheMutex
    /\ UNCHANGED <<directory, booted, engineVars, initLock, cache, command, listed, actions>>

\* A miss: we_discover and we_list_devices run without the mutex.
ListDevices(t) ==
    /\ pc[t] = "list"
    /\ \E S \in Listings : listed' = [listed EXCEPT ![t] = IdsOf(S)]
    /\ Goto(t, "fill")
    /\ UNCHANGED <<directory, booted, engineVars, initLock, cacheMutex, cache, command, actions>>

ListFails(t) ==
    /\ pc[t] = "list"
    /\ Goto(t, "done")
    /\ UNCHANGED <<directory, booted, engineVars, initLock, cacheMutex, cache,
                   command, listed, actions>>

Merged(old, new) == [u \in Udns |-> IF new[u] # None THEN new[u] ELSE old[u]]

\* The list is merged into the cache and the device looked up once more.
FillCache(t) ==
    /\ pc[t] = "fill"
    /\ MutexFree
    /\ cache' = Merged(cache, listed[t])
    /\ IF cache'[command[t].udn] # None
       THEN cacheMutex' = t /\ Goto(t, "send")
       ELSE Goto(t, "done") /\ UNCHANGED cacheMutex
    /\ UNCHANGED <<directory, booted, engineVars, initLock, command, listed, actions>>

ReleaseMutex(t) == cacheMutex' = None

\* SetOnOff and SetLevelPercent return what SendState returned.
AfterSend(t) == Goto(t, "done")

\* SendState: the engine is asked for the action, and the mutex released when
\* it has answered, whatever the answer is.
SendState(t) ==
    /\ pc[t] = "send"
    /\ actions' = actions \cup {[thread |-> t, wemo_id |-> cache[command[t].udn],
                                 state |-> command[t].state, level |-> command[t].level]}
    /\ ReleaseMutex(t)
    /\ AfterSend(t)
    /\ UNCHANGED <<directory, booted, engineVars, initLock, cache, command, listed>>

-----------------------------------------------------------------------------
Run(t) ==
    \/ LockInit(t)
    \/ AlreadyInitialized(t)
    \/ ConfigureTarget(t)
    \/ \E up \in BOOLEAN : InitEngine(t, up)
    \/ LookupCache(t)
    \/ ListDevices(t)
    \/ ListFails(t)
    \/ FillCache(t)
    \/ SendState(t)

Next ==
    \/ \E u \in Udns : DeviceAppears(u)
    \/ \E up, lists \in BOOLEAN, S \in Listings : Discover(up, lists, S)
    \/ \E t \in Threads : Run(t) \/ \E c \in Commands : StartCommand(t, c)

Spec == Init /\ [][Next]_vars

\* A thread that can go on does; the engine answers every call.
FairSpec == Spec /\ \A t \in Threads : WF_vars(Run(t))

-----------------------------------------------------------------------------
(* Properties. *)

TypeOK ==
    /\ directory \in [Udns -> Nat \cup {None}]
    /\ cache \in [Udns -> Nat \cup {None}]
    /\ booted \in BOOLEAN /\ targetConfigured \in BOOLEAN /\ initialized \in BOOLEAN
    /\ initLock \in Threads \cup {None}
    /\ cacheMutex \in Threads \cup {None}
    /\ pc \in [Threads -> {"new", "ensure", "init", "we_init", "lookup", "list", "fill", "send", "done"}]
    /\ command \in [Threads -> Command \cup {None}]
    /\ \A t \in Threads : pc[t] # "new" => command[t] \in Command
    /\ listed \in [Threads -> [Udns -> Nat \cup {None}]]
    /\ inits \in Nat

\* From the lookup of a wemo_id until the engine has answered we_set_action, no
\* other thread sends an action and no list is merged into the cache.  (Only
\* we_set_action is exclusive: the we_init, we_discover and we_list_devices of
\* other threads run beside it, without the mutex.)
OneActionAtATime ==
    [][\A t \in Threads : pc[t] = "send" =>
          /\ cache' = cache
          /\ \A v \in Threads \ {t} : pc[v] # "send" /\ pc'[v] # "send"]_vars

\* The engine is initialised once: threads that find it missing at the same
\* moment do not both initialise it, and none goes on without it.
InitializedOnce ==
    /\ inits <= 1
    /\ \A t \in Threads :
         pc[t] \in {"lookup", "list", "fill", "send"} => inits = 1 /\ targetConfigured

\* A command reaches the device it was written for and says what was asked:
\* neither a list another thread merged into the cache meanwhile nor a device
\* that appeared since redirects it.
CommandsReachTheirDevice ==
    \A a \in actions :
        /\ directory[command[a.thread].udn] = a.wemo_id
        /\ a.level = 0 => a.state = 0
        /\ a.level > 0 => a.state = 1

\* What one thread learned is not lost to the others: the cache never forgets
\* or renumbers a device once commands run.
CacheOnlyGrows ==
    [][booted => \A u \in Udns : cache[u] # None => cache'[u] = cache[u]]_vars

\* Thread t stands where the code takes a lock that thread v holds.
WaitsFor(t, v) ==
    \/ pc[t] = "ensure" /\ initLock = v
    \/ pc[t] \in {"lookup", "fill"} /\ cacheMutex = v

\* Threads never wait in a circle, nor for a thread that has ended: who holds
\* init_lock or the cache mutex, across whichever early return, is under way
\* and waits for neither of them itself.
WaitsAreShort ==
    \A t, v \in Threads :
        WaitsFor(t, v) => pc[v] # "done" /\ \A w \in Threads : ~WaitsFor(v, w)

\* Every command thread ends: no thread waits for ever for either lock.
ThreadsEnd == \A t \in Threads : pc[t] = "ensure" ~> pc[t] = "done"

-----------------------------------------------------------------------------
(* The abstract specification the locks, the cache and the lists implement. *)

DeviceWithId(id) == CHOOSE u \in Udns : directory[u] = id

Outcome(t) ==
    CASE pc[t] = "new"  -> "none"
      [] pc[t] = "done" -> IF \E a \in actions : a.thread = t THEN "sent" ELSE "failed"
      [] OTHER          -> "pending"

outcomes == [t \in Threads |-> Outcome(t)]

\* Each action as the engine understands it: of the device it gave the id to.
carriedOut == {[thread |-> a.thread,
                what |-> [udn |-> DeviceWithId(a.wemo_id), state |-> a.state,
                          level |-> a.level]] : a \in actions}

Delivery == INSTANCE CommandDelivery
    WITH request <- command, outcome <- outcomes, sent <- carriedOut

\* However commands interleave at init_lock and the cache mutex, and whatever
\* lists they merge, each is handed to its own device at most once and as it
\* was asked for, or given up without a trace.
ImplementsCommandDelivery == Delivery!Spec
=============================================================================
