---------------------------- MODULE EndpointMap ----------------------------
(***************************************************************************)
(* What the endpoint registry promises its callers: each UDN gets the next *)
(* free endpoint id the first time it is asked for, and keeps it for ever. *)
(***************************************************************************)
EXTENDS Integers, FiniteSets

CONSTANTS Udns, FirstId, NoId

VARIABLE ids    \* the endpoint id of each UDN, or NoId

Assigned == {u \in Udns : ids[u] # NoId}

Init == ids = [u \in Udns |-> NoId]

Assign(u) ==
    /\ ids[u] = NoId
    /\ ids' = [ids EXCEPT ![u] = FirstId + Cardinality(Assigned)]

Next == \E u \in Udns : Assign(u)

Spec == Init /\ [][Next]_ids
=============================================================================
