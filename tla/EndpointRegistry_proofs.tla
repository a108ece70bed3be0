---------------------- MODULE EndpointRegistry_proofs ----------------------
(***************************************************************************)
(* Proofs about the endpoint registry.  The strengthening: the committed   *)
(* rows are numbered without gaps from FirstId, and the staged tables of   *)
(* the writer are the committed ones plus what its phase has done so far.  *)
(***************************************************************************)
EXTENDS EndpointRegistry, FiniteSetTheorems, TLAPS

\* The ids in use are exactly those from FirstId to the counter.
Rows(map, next) ==
    /\ Injective(map)
    /\ BelowNext(map, next)
    /\ \A id \in FirstId .. next - 1 : \E u \in Udns : map[u] = id
    /\ next = FirstId + Cardinality(AssignedIn(map))

Locked == \A p \in Procs : phase[p] \in {"query", "upsert", "commit"} <=> writer = p

\* The writer has inserted the row of its UDN.
Inserted(p) ==
    /\ endpointMap[udn[p]] = NoId
    /\ endpoint[p] = nextId
    /\ stagedMap = [endpointMap EXCEPT ![udn[p]] = nextId]

StagedByPhase ==
    \A p \in Procs :
        /\ phase[p] = "query" => stagedMap = endpointMap /\ stagedNext = nextId
        /\ phase[p] = "upsert" => Inserted(p) /\ stagedNext = nextId
        /\ phase[p] = "commit" => Inserted(p) /\ stagedNext = nextId + 1

IInv == TypeOK /\ Rows(endpointMap, nextId) /\ Locked /\ StagedByPhase

-----------------------------------------------------------------------------
(* The tables. *)

LEMMA RoomLemma ==
    /\ FirstId \in Ids
    /\ Cardinality(Udns) \in Nat
    /\ \A map : /\ IsFiniteSet(AssignedIn(map))
                /\ Cardinality(AssignedIn(map)) \in Nat
                /\ Cardinality(AssignedIn(map)) <= Cardinality(Udns)
  <1>1. Cardinality(Udns) \in Nat
    BY UdnsAssumption, FS_CardinalityType
  <1>2. FirstId \in Ids
    BY <1>1, IdAssumption, RoomAssumption DEF Ids
  <1>3. ASSUME NEW map
        PROVE  /\ IsFiniteSet(AssignedIn(map))
               /\ Cardinality(AssignedIn(map)) \in Nat
               /\ Cardinality(AssignedIn(map)) <= Cardinality(Udns)
    <2>1. AssignedIn(map) \subseteq Udns
      BY DEF AssignedIn
    <2>2. QED
      BY <2>1, UdnsAssumption, FS_Subset, FS_CardinalityType
  <1>4. QED
    BY <1>1, <1>2, <1>3

\* Giving the next id to a UDN without one keeps the rows numbered without
\* gaps, and there is room for the next id.
LEMMA RowAdded ==
    ASSUME NEW map \in [Udns -> Ids \cup {NoId}], NEW next \in Ids, Rows(map, next),
           NEW u \in Udns, map[u] = NoId
    PROVE  /\ Rows([map EXCEPT ![u] = next], next + 1)
           /\ next + 1 \in Ids
  <1> DEFINE more == [map EXCEPT ![u] = next]
  <1>1. next # NoId /\ next \in Int /\ FirstId \in Int /\ next >= FirstId
    BY IdAssumption, RoomLemma DEF Ids, Rows
  <1>2. /\ more[u] = next
        /\ \A w \in Udns \ {u} : more[w] = map[w]
    OBVIOUS
  <1>3. AssignedIn(more) = AssignedIn(map) \cup {u} /\ u \notin AssignedIn(map)
    BY <1>1, <1>2 DEF AssignedIn
  <1>4. Cardinality(AssignedIn(more)) = Cardinality(AssignedIn(map)) + 1
    BY <1>3, RoomLemma, FS_AddElement
  <1>5. next + 1 = FirstId + Cardinality(AssignedIn(more))
    BY <1>1, <1>4, RoomLemma DEF Rows
  <1>6. next + 1 \in Ids
    BY <1>1, <1>5, RoomLemma, RoomAssumption, IdAssumption DEF Ids
  <1> HIDE DEF more
  <1>7. BelowNext(more, next + 1)
    <2> SUFFICES ASSUME NEW w \in AssignedIn(more) PROVE more[w] \in FirstId .. (next + 1) - 1
      BY DEF BelowNext
    <2>1. CASE w = u
      BY <1>1, <1>2, <2>1
    <2>2. CASE w # u
      <3>1. w \in AssignedIn(map) /\ more[w] = map[w]
        BY <1>2, <1>3, <2>2 DEF AssignedIn
      <3>2. QED
        BY <1>1, <3>1 DEF Rows, BelowNext
    <2>3. QED
      BY <2>1, <2>2
  <1>8. Injective(more)
    <2>1. \A w \in AssignedIn(map) : w # u /\ more[w] = map[w] /\ map[w] # next
      BY <1>1, <1>2, <1>3 DEF Rows, BelowNext, AssignedIn
    <2>2. QED
      BY <1>2, <1>3, <2>1 DEF Rows, Injective
  <1>9. ASSUME NEW id \in FirstId .. (next + 1) - 1
        PROVE  \E w \in Udns : more[w] = id
    <2>1. CASE id = next
      BY <1>2, <2>1
    <2>2. CASE id # next
      <3>1. id \in FirstId .. next - 1 /\ id # NoId
        BY <1>1, <1>6, <2>2, IdAssumption, RoomLemma DEF Ids
      <3>2. PICK w \in Udns : map[w] = id
        BY <3>1 DEF Rows
      <3>3. w # u
        BY <3>1, <3>2
      <3>4. QED
        BY <1>2, <3>2, <3>3
    <2>3. QED
      BY <2>1, <2>2
  <1>10. QED
    BY <1>5, <1>6, <1>7, <1>8, <1>9 DEF Rows, more

\* The id a call inserts is the next one: FirstId, which a failed query
\* stands for, is free only while no row exists.
LEMMA InsertsNext ==
    ASSUME IInv, NEW p \in Procs, NEW id \in Ids, InsertMapping(p, id)
    PROVE  id = nextId /\ stagedMap = endpointMap /\ stagedNext = nextId
  <1>1. stagedMap = endpointMap /\ stagedNext = nextId
    BY DEF IInv, StagedByPhase, InsertMapping
  <1>2. CASE id = FirstId /\ nextId # FirstId
    <2>1. FirstId \in FirstId .. nextId - 1
      BY <1>2, RoomLemma DEF IInv, Rows, Ids
    <2>2. \E u \in Udns : endpointMap[u] = FirstId
      BY <2>1 DEF IInv, Rows
    <2>3. QED
      BY <1>1, <1>2, <2>2 DEF InsertMapping, UniqueId
  <1>3. QED
    BY <1>1, <1>2 DEF InsertMapping

-----------------------------------------------------------------------------
(* The inductive invariant. *)

LEMMA InitIInv == Init => IInv
  <1> SUFFICES ASSUME Init PROVE IInv
    OBVIOUS
  <1>1. TypeOK
    BY RoomLemma DEF Init, TypeOK, Phases
  <1>2. AssignedIn(endpointMap) = {}
    BY DEF Init, AssignedIn
  <1>3. Rows(endpointMap, nextId)
    <2>1. nextId = FirstId + Cardinality(AssignedIn(endpointMap))
      BY <1>2, FS_EmptySet, IdAssumption DEF Init
    <2>2. FirstId .. nextId - 1 = {}
      BY IdAssumption DEF Init
    <2>3. QED
      BY <1>2, <2>1, <2>2 DEF Rows, Injective, BelowNext
  <1>4. Locked /\ StagedByPhase
    BY NobodyAssumption DEF Init, Locked, StagedByPhase
  <1>5. QED
    BY <1>1, <1>3, <1>4 DEF IInv

LEMMA NextTypeOK == TypeOK /\ [Next]_vars => TypeOK'
  <1> SUFFICES ASSUME TypeOK, [Next]_vars PROVE TypeOK'
    OBVIOUS
  <1> USE DEF TypeOK, tables, staged, locals, Goto, Close
  <1>1. ASSUME NEW p \in Procs, NEW u \in Udns, Open(p, u) PROVE TypeOK'
    BY <1>1 DEF Open, Phases
  <1>2. ASSUME NEW p \in Procs, TablesExist(p) PROVE TypeOK'
    BY <1>2 DEF TablesExist, Phases
  <1>3. ASSUME NEW p \in Procs, BeginImmediate(p) PROVE TypeOK'
    BY <1>3 DEF BeginImmediate, Phases
  <1>4. ASSUME NEW p \in Procs, FindExisting(p) PROVE TypeOK'
    BY <1>4 DEF FindExisting, HasRow, Phases
  <1>5. ASSUME NEW p \in Procs, NEW id \in Ids, InsertMapping(p, id) PROVE TypeOK'
    BY <1>5 DEF InsertMapping, Phases
  <1>6. ASSUME NEW p \in Procs, UpsertNextEndpointId(p) PROVE TypeOK'
    <2>1. IdAfter(endpoint[p]) \in Ids
      BY RoomLemma, IdAssumption DEF IdAfter, Ids
    <2>2. QED
      BY <1>6, <2>1 DEF UpsertNextEndpointId, Phases
  <1>7. ASSUME NEW p \in Procs, Commit(p) PROVE TypeOK'
    BY <1>7 DEF Commit, Phases
  <1>8. ASSUME NEW p \in Procs, CommitFails(p) PROVE TypeOK'
    BY <1>8 DEF CommitFails, Phases
  <1>9. ASSUME NEW p \in Procs, GiveUp(p) \/ Crash(p) PROVE TypeOK'
    BY <1>9 DEF GiveUp, Crash, Phases
  <1>10. CASE UNCHANGED vars
    BY <1>10 DEF vars
  <1>11. QED
    BY <1>1, <1>2, <1>3, <1>4, <1>5, <1>6, <1>7, <1>8, <1>9, <1>10 DEF Next, Call

\* The end of a call releases the lock and stages nothing.
LEMMA CloseLemma ==
    ASSUME IInv, TypeOK', NEW p \in Procs, phase[p] # "idle", Close(p), UNCHANGED tables
    PROVE  IInv'
  <1>1. Rows(endpointMap, nextId)'
    BY DEF IInv, Rows, AssignedIn, Injective, BelowNext, tables
  <1>2. Locked'
    BY NobodyAssumption DEF IInv, TypeOK, Locked, Close, Goto
  <1>3. StagedByPhase'
    BY DEF IInv, TypeOK, StagedByPhase, Inserted, Close, Goto, tables, staged, locals
  <1>4. QED
    BY <1>1, <1>2, <1>3 DEF IInv

LEMMA CommitLemma ==
    ASSUME IInv, NEW p \in Procs, Commit(p)
    PROVE  /\ endpointMap[udn[p]] = NoId
           /\ endpoint[p] = nextId
           /\ endpointMap' = [endpointMap EXCEPT ![udn[p]] = nextId]
           /\ nextId' = nextId + 1
           /\ Rows(endpointMap, nextId)'
  <1>1. Inserted(p) /\ stagedNext = nextId + 1
    BY DEF IInv, StagedByPhase, Commit
  <1>2. endpointMap' = [endpointMap EXCEPT ![udn[p]] = nextId] /\ nextId' = nextId + 1
    BY <1>1 DEF Commit, Inserted
  <1>3. Rows([endpointMap EXCEPT ![udn[p]] = nextId], nextId + 1)
    BY <1>1, RowAdded DEF IInv, TypeOK, Inserted
  <1>4. QED
    BY <1>1, <1>2, <1>3 DEF Inserted, Rows, AssignedIn, Injective, BelowNext

LEMMA NextIInv == IInv /\ [Next]_vars => IInv'
  <1> SUFFICES ASSUME IInv, [Next]_vars PROVE IInv'
    OBVIOUS
  <1>0. TypeOK /\ TypeOK'
    BY NextTypeOK DEF IInv
  <1>a. ASSUME UNCHANGED tables PROVE Rows(endpointMap, nextId)'
    BY <1>a DEF IInv, Rows, AssignedIn, Injective, BelowNext, tables
  <1>1. ASSUME NEW p \in Procs, NEW u \in Udns, Open(p, u) PROVE IInv'
    <2>1. Locked' /\ StagedByPhase'
      BY <1>0, <1>1 DEF IInv, TypeOK, Locked, StagedByPhase, Inserted, Open, Goto, tables, staged
    <2>2. QED
      BY <1>0, <1>1, <1>a, <2>1 DEF IInv, Open
  <1>2. ASSUME NEW p \in Procs, TablesExist(p) PROVE IInv'
    <2>1. Locked' /\ StagedByPhase'
      BY <1>0, <1>2 DEF IInv, TypeOK, Locked, StagedByPhase, Inserted, TablesExist, Goto,
                        tables, staged, locals
    <2>2. QED
      BY <1>0, <1>2, <1>a, <2>1 DEF IInv, TablesExist
  <1>3. ASSUME NEW p \in Procs, BeginImmediate(p) PROVE IInv'
    <2>1. Locked'
      BY <1>0, <1>3, NobodyAssumption
      DEF IInv, TypeOK, Locked, BeginImmediate, WriteLockFree, Goto
    <2>2. StagedByPhase'
      BY <1>0, <1>3, NobodyAssumption
      DEF IInv, TypeOK, Locked, StagedByPhase, Inserted, BeginImmediate, WriteLockFree, Goto,
          tables, locals
    <2>3. QED
      BY <1>0, <1>3, <1>a, <2>1, <2>2 DEF IInv, BeginImmediate
  <1>4. ASSUME NEW p \in Procs, FindExisting(p) PROVE IInv'
    BY <1>0, <1>4, CloseLemma DEF FindExisting
  <1>5. ASSUME NEW p \in Procs, NEW id \in Ids, InsertMapping(p, id) PROVE IInv'
    <2>1. id = nextId /\ stagedMap = endpointMap /\ stagedNext = nextId
      BY <1>5, InsertsNext
    <2>2. /\ phase' = [phase EXCEPT ![p] = "upsert"] /\ phase[p] = "query"
          /\ endpoint' = [endpoint EXCEPT ![p] = nextId]
          /\ stagedMap' = [endpointMap EXCEPT ![udn[p]] = nextId]
          /\ stagedNext' = nextId
          /\ endpointMap[udn[p]] = NoId
          /\ UNCHANGED <<tables, writer, udn>>
      BY <1>5, <2>1 DEF InsertMapping, HasRow, Goto
    <2>3. Locked'
      BY <1>0, <2>2 DEF IInv, TypeOK, Locked
    <2>4. \A q \in Procs \ {p} : phase[q] \notin {"query", "upsert", "commit"}
      BY <2>2 DEF IInv, Locked
    <2>5. StagedByPhase'
      BY <1>0, <2>2, <2>4 DEF TypeOK, StagedByPhase, Inserted, tables
    <2>6. QED
      BY <1>0, <1>a, <2>2, <2>3, <2>5 DEF IInv
  <1>6. ASSUME NEW p \in Procs, UpsertNextEndpointId(p) PROVE IInv'
    <2>1. Inserted(p) /\ writer = p
      BY <1>6 DEF IInv, StagedByPhase, Locked, UpsertNextEndpointId
    <2>2. nextId + 1 \in Ids
      BY <1>0, <2>1, RowAdded DEF IInv, TypeOK, Inserted
    <2>3. IdAfter(endpoint[p]) = nextId + 1
      BY <2>1, <2>2, IdAssumption DEF IdAfter, Ids, Inserted
    <2>4. Locked'
      BY <1>0, <1>6 DEF IInv, TypeOK, Locked, UpsertNextEndpointId, Goto
    <2>5. \A q \in Procs \ {p} : phase[q] \notin {"query", "upsert", "commit"}
      BY <2>1 DEF IInv, Locked
    <2>6. StagedByPhase'
      BY <1>0, <1>6, <2>1, <2>3, <2>5
      DEF TypeOK, StagedByPhase, Inserted, UpsertNextEndpointId, Goto, tables, locals
    <2>7. QED
      BY <1>0, <1>6, <1>a, <2>4, <2>6 DEF IInv, UpsertNextEndpointId
  <1>7. ASSUME NEW p \in Procs, Commit(p) PROVE IInv'
    <2>1. Rows(endpointMap, nextId)'
      BY <1>7, CommitLemma
    <2>2. Locked'
      BY <1>0, <1>7, NobodyAssumption DEF IInv, TypeOK, Locked, Commit, Close, Goto
    <2>3. \A q \in Procs : phase'[q] \notin {"query", "upsert", "commit"}
      BY <1>0, <1>7 DEF IInv, TypeOK, Locked, Commit, Close, Goto
    <2>4. StagedByPhase'
      BY <2>3 DEF StagedByPhase
    <2>5. QED
      BY <1>0, <2>1, <2>2, <2>4 DEF IInv
  <1>8. ASSUME NEW p \in Procs, CommitFails(p) \/ GiveUp(p) \/ Crash(p) PROVE IInv'
    BY <1>0, <1>8, CloseLemma DEF CommitFails, GiveUp, Crash
  <1>9. CASE UNCHANGED vars
    BY <1>0, <1>9, <1>a
    DEF IInv, vars, Locked, StagedByPhase, Inserted, tables
  <1>10. QED
    BY <1>1, <1>2, <1>3, <1>4, <1>5, <1>6, <1>7, <1>8, <1>9 DEF Next, Call

LEMMA IInvHolds == Spec => []IInv
  BY InitIInv, NextIInv, PTL DEF Spec

-----------------------------------------------------------------------------
(* What follows from it. *)

\* Every table, local variable and answer keeps its type: in particular
\* next_id never leaves the range of a uint16_t, nor wraps while there is
\* room.
THEOREM TypeCorrect == Spec => []TypeOK
  <1>1. IInv => TypeOK
    BY DEF IInv
  <1>2. QED
    BY <1>1, IInvHolds, PTL

\* For any number of processes and devices, calls of GetOrAssign that
\* interleave, fail or die never give two devices the same endpoint id.
THEOREM EndpointsUnique == Spec => []UniqueEndpoints
  <1>1. IInv => UniqueEndpoints
    BY DEF IInv, Rows, UniqueEndpoints
  <1>2. QED
    BY <1>1, IInvHolds, PTL

\* The row InsertMapping adds and the counter UpsertNextEndpointId stores are
\* committed together or not at all.
THEOREM RowsAndCounter == Spec => []CounterMatchesRows
  <1>1. IInv => CounterMatchesRows
    BY DEF IInv, Rows, CounterMatchesRows
  <1>2. QED
    BY <1>1, IInvHolds, PTL

\* BEGIN IMMEDIATE lets one call at a time read and write, and what it staged
\* keeps every committed row.
THEOREM TransactionsExclude == Spec => []OneTransaction
  <1>1. ASSUME IInv PROVE OneTransaction
    <2>1. ASSUME writer # Nobody, NEW u \in AssignedIn(endpointMap)
          PROVE  stagedMap[u] = endpointMap[u]
      <3>1. writer \in Procs /\ phase[writer] \in {"query", "upsert", "commit"}
        BY <1>1, <2>1 DEF IInv, TypeOK, Locked
      <3>2. stagedMap = endpointMap \/ Inserted(writer)
        BY <1>1, <3>1 DEF IInv, StagedByPhase
      <3>3. QED
        BY <1>1, <2>1, <3>1, <3>2 DEF IInv, TypeOK, Inserted, AssignedIn
    <2>2. QED
      BY <1>1, <2>1 DEF OneTransaction, IInv, Locked
  <1>2. QED
    BY <1>1, IInvHolds, PTL

\* The committed tables change by Commit alone, which gives one UDN without an
\* id the next one.
LEMMA TablesStep ==
    ASSUME IInv, [Next]_vars
    PROVE  \/ UNCHANGED tables
           \/ \E p \in Procs : Commit(p)
  BY DEF Next, Call, Open, TablesExist, BeginImmediate, FindExisting, InsertMapping,
         UpsertNextEndpointId, CommitFails, GiveUp, Crash, vars, tables

\* No interleaving, failure or crash ever changes the endpoint id a UDN has:
\* GetOrAssign neither replaces nor deletes a committed row.
THEOREM EndpointsPermanent ==
    Spec => [][\A u \in AssignedIn(endpointMap) : endpointMap'[u] = endpointMap[u]]_vars
  <1>1. ASSUME IInv, [Next]_vars, NEW u \in AssignedIn(endpointMap)
        PROVE  endpointMap'[u] = endpointMap[u]
    <2>1. CASE UNCHANGED tables
      BY <2>1 DEF tables
    <2>2. ASSUME NEW p \in Procs, Commit(p) PROVE endpointMap'[u] = endpointMap[u]
      BY <1>1, <2>2, CommitLemma DEF IInv, TypeOK, AssignedIn
    <2>3. QED
      BY <1>1, <2>1, <2>2, TablesStep
  <1>2. IInv /\ [Next]_vars => [\A u \in AssignedIn(endpointMap) : endpointMap'[u] = endpointMap[u]]_vars
    BY <1>1
  <1>3. QED
    BY <1>2, IInvHolds, PTL DEF Spec

\* The SQL of GetOrAssign, with its locks, early returns and crashes,
\* implements the abstract map in which a UDN gets the next endpoint id once.
THEOREM MapRefinement == Spec => ImplementsEndpointMap
  <1>1. Init => Map!Init
    BY DEF Init, Map!Init
  <1>2. ASSUME IInv, [Next]_vars PROVE [Map!Next]_endpointMap
    <2>1. CASE UNCHANGED tables
      BY <2>1 DEF tables
    <2>2. ASSUME NEW p \in Procs, Commit(p) PROVE Map!Next
      <3>1. /\ endpointMap[udn[p]] = NoId
            /\ endpointMap' = [endpointMap EXCEPT ![udn[p]] = nextId]
            /\ udn[p] \in Udns
        BY <1>2, <2>2, CommitLemma DEF IInv, TypeOK
      <3>2. nextId = FirstId + Cardinality(Map!Assigned)
        <4>1. Map!Assigned = AssignedIn(endpointMap)
          BY DEF AssignedIn, Map!Assigned
        <4>2. QED
          BY <1>2, <4>1 DEF IInv, Rows
      <3>3. Map!Cardinality(Map!Assigned) = Cardinality(Map!Assigned)
        BY DEF Map!Cardinality, Cardinality
      <3>4. QED
        BY <3>1, <3>2, <3>3 DEF Map!Next, Map!Assign
    <2>3. QED
      BY <1>2, <2>1, <2>2, TablesStep
  <1>3. QED
    BY <1>1, <1>2, IInvHolds, PTL DEF Spec, ImplementsEndpointMap, Map!Spec

\* AnswersKept is preserved by every step: an id is returned after it was read
\* from the committed rows, or together with its COMMIT, unless that fails.
LEMMA NextAnswersKept == IInv /\ AnswersKept /\ [Next]_vars => AnswersKept'
  <1> SUFFICES ASSUME IInv, AnswersKept, [Next]_vars, NEW a \in (answers \ lost)'
               PROVE  endpointMap'[a[1]] = a[2]
    BY DEF AnswersKept
  <1>0. TypeOK
    BY DEF IInv
  <1>1. CASE UNCHANGED <<tables, answers, lost>>
    BY <1>1 DEF AnswersKept, tables
  <1>2. ASSUME NEW p \in Procs, FindExisting(p) PROVE endpointMap'[a[1]] = a[2]
    <2>1. stagedMap = endpointMap
      BY <1>2 DEF IInv, StagedByPhase, FindExisting
    <2>2. QED
      BY <1>2, <2>1 DEF AnswersKept, FindExisting, tables
  <1>3. ASSUME NEW p \in Procs, CommitFails(p) PROVE endpointMap'[a[1]] = a[2]
    BY <1>3 DEF AnswersKept, CommitFails, tables
  <1>4. ASSUME NEW p \in Procs, Commit(p) PROVE endpointMap'[a[1]] = a[2]
    <2>1. /\ endpointMap[udn[p]] = NoId /\ endpoint[p] = nextId
          /\ endpointMap' = [endpointMap EXCEPT ![udn[p]] = nextId]
          /\ udn[p] \in Udns
      BY <1>0, <1>4, CommitLemma DEF TypeOK
    <2>2. CASE a = <<udn[p], endpoint[p]>>
      BY <1>0, <2>1, <2>2 DEF TypeOK
    <2>3. CASE a # <<udn[p], endpoint[p]>>
      <3>1. a \in answers \ lost
        BY <1>4, <2>3 DEF Commit
      <3>2. a[2] # NoId /\ a[1] \in Udns
        BY <1>0, <3>1, IdAssumption DEF TypeOK
      <3>3. endpointMap[a[1]] = a[2]
        BY <3>1 DEF AnswersKept
      <3>4. QED
        BY <1>0, <2>1, <3>2, <3>3 DEF TypeOK
    <2>4. QED
      BY <2>2, <2>3
  <1>5. QED
    BY <1>1, <1>2, <1>3, <1>4
    DEF Next, Call, Open, TablesExist, BeginImmediate, InsertMapping, UpsertNextEndpointId,
        GiveUp, Crash, vars, tables

\* What GetOrAssign returned is what the file holds ever after, unless its
\* COMMIT had failed: the one case in which the code does not look.
THEOREM AnswersAreKept == Spec => []AnswersKept
  <1>1. Init => AnswersKept
    BY DEF Init, AnswersKept
  <1>2. QED
    BY <1>1, NextAnswersKept, IInvHolds, PTL DEF Spec
=============================================================================
