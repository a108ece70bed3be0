-------------------------- MODULE EndpointRegistry --------------------------
(***************************************************************************)
(* EndpointRegistry::GetOrAssign over its SQLite file, called by any       *)
(* number of bridge processes at once.  A call opens the file, makes sure  *)
(* the tables exist (a reader of the file while it does), takes the write  *)
(* lock with BEGIN IMMEDIATE and works on a private copy of the tables     *)
(* until COMMIT.  No busy handler is set: a lock that is taken makes the   *)
(* statement fail at once.  A process may be killed between any two steps; *)
(* the journal then restores the committed tables.                         *)
(***************************************************************************)
EXTENDS Integers, FiniteSets

CONSTANTS
    Procs,      \* bridge processes that may call GetOrAssign
    Udns,       \* device identities
    DiskFails,  \* whether a COMMIT may fail for want of space or an I/O error
    FirstId,    \* kFirstDynamicEndpointId
    IdModulus,  \* number of values of a uint16_t
    NoId,       \* no row for the UDN (std::nullopt)
    Nobody      \* no process

Ids == 0 .. IdModulus - 1

ASSUME UdnsAssumption == IsFiniteSet(Udns)
ASSUME DiskAssumption == DiskFails \in BOOLEAN
ASSUME IdAssumption == FirstId \in Nat /\ IdModulus \in Nat /\ NoId \notin Ids
ASSUME NobodyAssumption == Nobody \notin Procs
\* The file never holds as many devices as there are ids.
ASSUME RoomAssumption == FirstId + Cardinality(Udns) < IdModulus

VARIABLES
    endpointMap,  \* committed table endpoint_map: UDN -> endpoint id
    nextId,       \* committed next_endpoint_id (kFirstDynamicEndpointId without a row)
    stagedMap,    \* endpoint_map as the writer's transaction sees it
    stagedNext,   \* next_endpoint_id as the writer's transaction sees it
    writer,       \* the process that holds the write lock
    phase,        \* where each call stands
    udn,          \* the UDN it asks for
    endpoint,     \* endpoint_id, the local variable of the call
    answers,      \* history: the pairs <<udn, id>> calls have returned
    lost          \* history: those whose COMMIT had failed

tables == <<endpointMap, nextId>>
staged == <<stagedMap, stagedNext>>
locals == <<udn, endpoint>>
vars == <<endpointMap, nextId, stagedMap, stagedNext, writer, phase, udn, endpoint, answers, lost>>

Phases == {"idle", "schema", "begin", "query", "upsert", "commit"}

Init ==
    /\ endpointMap = [u \in Udns |-> NoId]
    /\ nextId = FirstId
    /\ stagedMap = endpointMap
    /\ stagedNext = nextId
    /\ writer = Nobody
    /\ phase = [p \in Procs |-> "idle"]
    /\ udn \in [Procs -> Udns]
    /\ endpoint = [p \in Procs |-> FirstId]
    /\ answers = {}
    /\ lost = {}

-----------------------------------------------------------------------------
(***************************************************************************)
(* Faulty variants of definitions below.  No action uses them; each stands *)
(* for a slip the properties must catch when it replaces the definition    *)
(* named first in its own name.                                            *)
(***************************************************************************)
WriteLockFree_Deferred == TRUE
HasRow_Replaced(p) == FALSE
UniqueId_Unchecked(id) == TRUE
IdAfter_Twice(id) == id + 2
IdAfter_NotAdvanced(id) == id
CommitFails_Waits(p) == FALSE

-----------------------------------------------------------------------------
Goto(p, ph) == phase' = [phase EXCEPT ![p] = ph]

\* The call is over and its connection closed: a transaction still open is
\* rolled back, so nothing it staged remains.
Close(p) ==
    /\ Goto(p, "idle")
    /\ writer' = IF writer = p THEN Nobody ELSE writer
    /\ UNCHANGED <<staged, locals>>

-----------------------------------------------------------------------------
\* sqlite3_open succeeds; the CREATE TABLE statements read the schema and
\* hold a SHARED lock meanwhile.
Open(p, u) ==
    /\ phase[p] = "idle"
    /\ Goto(p, "schema")
    /\ udn' = [udn EXCEPT ![p] = u]
    /\ UNCHANGED <<tables, staged, writer, endpoint, answers, lost>>

TablesExist(p) ==
    /\ phase[p] = "schema"
    /\ Goto(p, "begin")
    /\ UNCHANGED <<tables, staged, writer, locals, answers, lost>>

WriteLockFree == writer = Nobody

\* BEGIN IMMEDIATE gets the write lock: the transaction starts from the
\* committed tables.
BeginImmediate(p) ==
    /\ phase[p] = "begin"
    /\ WriteLockFree
    /\ writer' = p
    /\ stagedMap' = endpointMap
    /\ stagedNext' = nextId
    /\ Goto(p, "query")
    /\ UNCHANGED <<tables, locals, answers, lost>>

\* The transaction sees a row for the UDN it was asked for.
HasRow(p) == stagedMap[udn[p]] # NoId

\* The UDN has an id already: it is returned, whatever the COMMIT says.
FindExisting(p) ==
    /\ phase[p] = "query"
    /\ HasRow(p)
    /\ answers' = answers \cup {<<udn[p], stagedMap[udn[p]]>>}
    /\ Close(p)
    /\ UNCHANGED <<tables, lost>>

\* The UNIQUE constraint on endpoint_id.
UniqueId(id) == \A u \in Udns : stagedMap[u] # id

\* QueryEndpointId found no row and QueryNextEndpointId returned id: the new
\* row is inserted if it breaks neither the PRIMARY KEY nor the UNIQUE
\* constraint.  When a statement cannot be prepared the two queries answer
\* "no row" and kFirstDynamicEndpointId.
InsertMapping(p, id) ==
    /\ phase[p] = "query"
    /\ id \in {stagedNext, FirstId}
    /\ ~HasRow(p)
    /\ UniqueId(id)
    /\ endpoint' = [endpoint EXCEPT ![p] = id]
    /\ stagedMap' = [stagedMap EXCEPT ![udn[p]] = id]
    /\ Goto(p, "upsert")
    /\ UNCHANGED <<tables, stagedNext, writer, udn, answers, lost>>

\* next_id, cut to a uint16_t.
IdAfter(id) == (id + 1) % IdModulus

UpsertNextEndpointId(p) ==
    /\ phase[p] = "upsert"
    /\ stagedNext' = IdAfter(endpoint[p])
    /\ Goto(p, "commit")
    /\ UNCHANGED <<tables, stagedMap, writer, locals, answers, lost>>

\* COMMIT needs the file for itself: no other process may be reading it.
OthersReading(p) == \E q \in Procs \ {p} : phase[q] = "schema"

Commit(p) ==
    /\ phase[p] = "commit"
    /\ ~OthersReading(p)
    /\ endpointMap' = stagedMap
    /\ nextId' = stagedNext
    /\ answers' = answers \cup {<<udn[p], endpoint[p]>>}
    /\ lost' = lost \ {<<udn[p], endpoint[p]>>}
    /\ Close(p)

\* The COMMIT fails: with SQLITE_BUSY where another process reads, or because
\* the file cannot be written.  Its result is not looked at: the id is returned,
\* and closing the connection rolls the transaction back.
CommitFails(p) ==
    /\ phase[p] = "commit"
    /\ OthersReading(p) \/ DiskFails
    /\ answers' = answers \cup {<<udn[p], endpoint[p]>>}
    /\ lost' = lost \cup {<<udn[p], endpoint[p]>>}
    /\ Close(p)
    /\ UNCHANGED tables

\* A call gives up and returns std::nullopt: the tables cannot be created or
\* the write lock is taken, or an INSERT fails and the ROLLBACK runs.
GiveUp(p) ==
    /\ phase[p] \in {"schema", "begin", "query", "upsert"}
    /\ Close(p)
    /\ UNCHANGED <<tables, answers, lost>>

\* The process is killed between two steps of a call.
Crash(p) ==
    /\ phase[p] # "idle"
    /\ Close(p)
    /\ UNCHANGED <<tables, answers, lost>>

Call(p) ==
    \/ TablesExist(p)
    \/ BeginImmediate(p)
    \/ FindExisting(p)
    \/ \E id \in Ids : InsertMapping(p, id)
    \/ UpsertNextEndpointId(p)
    \/ Commit(p)
    \/ CommitFails(p)
    \/ GiveUp(p)

Next == \E p \in Procs : Call(p) \/ Crash(p) \/ \E u \in Udns : Open(p, u)

Spec == Init /\ [][Next]_vars

\* Once started, a call is executed to its end.
FairSpec == Spec /\ \A p \in Procs : WF_vars(Call(p))

-----------------------------------------------------------------------------
(* Properties. *)

AssignedIn(map) == {u \in Udns : map[u] # NoId}

Injective(map) == \A u, w \in AssignedIn(map) : map[u] = map[w] => u = w

\* Ids given out are dynamic endpoint ids below the next one: a new id is
\* never one that is in use (the counter in bridge_meta and the rows of
\* endpoint_map belong together).
BelowNext(map, next) == \A u \in AssignedIn(map) : map[u] \in FirstId .. next - 1

TypeOK ==
    /\ endpointMap \in [Udns -> Ids \cup {NoId}]
    /\ stagedMap \in [Udns -> Ids \cup {NoId}]
    /\ nextId \in Ids
    /\ stagedNext \in Ids
    /\ writer \in Procs \cup {Nobody}
    /\ phase \in [Procs -> Phases]
    /\ udn \in [Procs -> Udns]
    /\ endpoint \in [Procs -> Ids]
    /\ answers \subseteq Udns \X Ids
    /\ lost \subseteq answers

\* No two devices share an endpoint id, and none has the id of the root or of
\* the aggregator endpoint, in whatever order processes interleave or die.
UniqueEndpoints ==
    /\ Injective(endpointMap)
    /\ BelowNext(endpointMap, nextId)

\* A row and the counter it consumed are committed together: a process that
\* dies between InsertMapping and UpsertNextEndpointId, or a refused COMMIT,
\* leaves neither without the other, so no id is skipped or used twice.
CounterMatchesRows == nextId = FirstId + Cardinality(AssignedIn(endpointMap))

\* One transaction at a time: the process between BEGIN IMMEDIATE and the end
\* of its call is the one that holds the write lock, and what it staged only
\* adds to what is committed.
OneTransaction ==
    /\ \A p \in Procs : phase[p] \in {"query", "upsert", "commit"} <=> writer = p
    /\ writer # Nobody =>
         \A u \in AssignedIn(endpointMap) : stagedMap[u] = endpointMap[u]

\* What a call returned is what the file says from then on, unless its COMMIT
\* had failed.
AnswersKept == \A a \in answers \ lost : endpointMap[a[1]] = a[2]

Map == INSTANCE EndpointMap WITH ids <- endpointMap

\* The committed table is the abstract map: every change to it is one UDN
\* getting the next free id, and a UDN keeps its id for ever (README: "for
\* endpoint stability").
ImplementsEndpointMap == Map!Spec

\* No call waits for another: every call returns although processes keep the
\* file locked now and then.
CallsReturn == \A p \in Procs : phase[p] # "idle" ~> phase[p] = "idle"

\* The README says the registry "Persists UDN -> endpointId for endpoint
\* stability": a UDN is never given a second id, nor an id a second UDN.
EndpointsStable == \A a, b \in answers : a[1] = b[1] <=> a[2] = b[2]
=============================================================================
