--------------------------- MODULE Startup_proofs ---------------------------
(***************************************************************************)
(* Proofs about ApplicationInit.  The strengthening: whatever was skipped  *)
(* or refused, the published lights are in UDN order, each before the      *)
(* devices still to come, they are numbered from FirstId without gaps, and *)
(* gCurrentEndpointId is the last id used or the one after it.             *)
(***************************************************************************)
EXTENDS Startup, FiniteSetTheorems, SequenceTheorems, WellFoundedInduction, TLAPS

Ordered ==
    /\ \A i, j \in DOMAIN lights : i < j => lights[i] < lights[j]
    /\ \A i \in DOMAIN lights : \A u \in remaining : lights[i] < u

Numbered ==
    /\ Len(lights) <= Capacity
    /\ \A i \in DOMAIN lights : endpointOf[lights[i]] = FirstId + i - 1
    /\ currentId \in {FirstId + Len(lights) - 1, FirstId + Len(lights)}

\* Until devices have been discovered there is nothing to publish; from then on
\* the engine is known to be there if anything was found.
Discovered ==
    /\ step \in {"off", "discover"} => lights = << >> /\ remaining = {}
    /\ lights # << >> \/ remaining # {} => initialized
    /\ step \in {"refresh", "running"} => remaining = {}

IInv == TypeOK /\ SlotsMatchLights /\ Ordered /\ Numbered /\ Discovered /\ LightsHaveEvents
        /\ NothingMissed

-----------------------------------------------------------------------------
(* The choices of the publication loop. *)

LEMMA NextUdnIsLeast ==
    ASSUME TypeOK, remaining # {}
    PROVE  NextUdn \in remaining /\ \A u \in remaining : NextUdn <= u
  <1>1. remaining \subseteq Nat
    BY UdnAssumption DEF TypeOK
  <1> DEFINE R == OpToRel(<, Nat)
  <1>2. IsWellFoundedOn(R, Nat)
    BY NatLessThanWellFounded DEF OpToRel
  <1>3. \A u, w \in Nat : u < w => <<u, w>> \in R
    BY DEF OpToRel
  <1> HIDE DEF R
  <1>4. PICK u \in remaining : \A w \in remaining : ~(<<w, u>> \in R)
    BY <1>1, <1>2, WFMin
  <1>5. ASSUME NEW w \in remaining PROVE u <= w
    <2>1. u \in Nat /\ w \in Nat
      BY <1>1
    <2>2. ~(w < u)
      BY <1>3, <1>4, <2>1, Zenon
    <2>3. QED
      BY <2>1, <2>2
  <1>6. QED
    BY <1>5 DEF NextUdn

\* The slots that are free come after the lights.
LEMMA FirstFreeSlotFollows ==
    ASSUME TypeOK, SlotsMatchLights, Len(lights) < Capacity
    PROVE  FirstFreeSlot = Len(lights) /\ Len(lights) \in SlotIndex
  <1>1. Len(lights) \in Nat /\ \A i \in 1 .. Len(lights) : lights[i] \in Udns
    BY LenProperties DEF TypeOK
  <1>2. \A i \in SlotIndex : i < Len(lights) => slots[i] # None
    BY <1>1, UdnAssumption, CapacityAssumption DEF SlotsMatchLights, SlotIndex
  <1>3. Len(lights) \in SlotIndex /\ Len(lights) \in FreeSlots
    BY <1>1, CapacityAssumption DEF SlotsMatchLights, SlotIndex, FreeSlots
  <1>4. \A i \in FreeSlots : Len(lights) <= i
    BY <1>1, <1>2, CapacityAssumption DEF FreeSlots, SlotIndex
  <1>5. \A i \in FreeSlots : (\A j \in FreeSlots : i <= j) => i = Len(lights)
    BY <1>1, <1>3, <1>4, CapacityAssumption DEF FreeSlots, SlotIndex
  <1>6. QED
    BY <1>3, <1>4, <1>5 DEF FirstFreeSlot

\* An id that is in use is the last one, a free one the next.
LEMMA CurrentIdLemma ==
    ASSUME TypeOK, Numbered
    PROVE  /\ IdInUse(currentId) <=> currentId = FirstId + Len(lights) - 1
           /\ ~IdInUse(currentId) <=> currentId = FirstId + Len(lights)
  <1>1. Len(lights) \in Nat /\ DOMAIN lights = 1 .. Len(lights) /\ FirstId \in Nat
    BY LenProperties, CapacityAssumption DEF TypeOK
  <1>2. currentId \in Int /\ currentId >= FirstId
    BY <1>1, CapacityAssumption DEF TypeOK, EndpointIds
  <1>3. ASSUME IdInUse(currentId) PROVE currentId = FirstId + Len(lights) - 1
    <2>1. PICK i \in DOMAIN lights : endpointOf[lights[i]] = currentId
      BY <1>3 DEF IdInUse, Published
    <2>2. QED
      BY <1>1, <1>2, <2>1 DEF Numbered
  <1>4. ASSUME currentId = FirstId + Len(lights) - 1 PROVE IdInUse(currentId)
    <2>1. Len(lights) \in DOMAIN lights
      BY <1>1, <1>2, <1>4
    <2>2. endpointOf[lights[Len(lights)]] = currentId
      BY <1>4, <2>1 DEF Numbered
    <2>3. QED
      BY <2>1, <2>2 DEF IdInUse, Published
  <1>5. QED
    BY <1>1, <1>3, <1>4 DEF Numbered

\* No id below the modulus wraps.
LEMMA NoWrap ==
    ASSUME NEW x \in Nat, NEW m \in Nat, x < m
    PROVE  x % m = x
  OBVIOUS

\* The next id after one that is in use is the one after the last.
LEMMA IdAfterLemma ==
    ASSUME TypeOK, Numbered, Len(lights) < Capacity, IdInUse(currentId)
    PROVE  IdAfter(currentId) = FirstId + Len(lights) /\ IdAfter(currentId) \in EndpointIds
  <1>1. Len(lights) \in Nat
    BY LenProperties DEF TypeOK
  <1>2. currentId + 1 = FirstId + Len(lights)
    BY <1>1, CurrentIdLemma, CapacityAssumption
  <1>3. currentId + 1 < IdModulus /\ currentId + 1 \in Nat /\ IdModulus \in Nat
    BY <1>1, <1>2, CapacityAssumption, EndpointRoom
  <1>4. (currentId + 1) % IdModulus = currentId + 1
    BY <1>3, NoWrap
  <1>5. ~(currentId + 1 < FirstId)
    BY <1>1, <1>2, CapacityAssumption
  <1>6. IdAfter(currentId) = currentId + 1
    BY <1>4, <1>5, Zenon DEF IdAfter
  <1>7. QED
    BY <1>1, <1>2, <1>3, <1>6, CapacityAssumption DEF EndpointIds

-----------------------------------------------------------------------------
(* The inductive invariant. *)

LEMMA InitIInv == Init => IInv
  <1> SUFFICES ASSUME Init PROVE IInv
    OBVIOUS
  <1>1. FirstId \in EndpointIds
    BY CapacityAssumption, EndpointRoom DEF EndpointIds
  <1>2. TypeOK
    <2>1. /\ slots \in [SlotIndex -> Udns \cup {None}]
          /\ endpointOf \in [Udns -> EndpointIds \cup {None}]
          /\ shown \in [Udns -> BOOLEAN]
          /\ inbox \in [Udns -> BOOLEAN \cup {None}]
          /\ unreported \in [Udns -> BOOLEAN]
          /\ lights \in Seq(Udns)
      BY DEF Init
    <2>2. QED
      BY <1>1, <2>1 DEF Init, TypeOK
  <1>3. Len(lights) = 0 /\ DOMAIN lights = {}
    BY DEF Init
  <1>4. SlotsMatchLights
    BY <1>3 DEF Init, SlotsMatchLights, SlotIndex
  <1>5. Ordered /\ Numbered
    BY <1>3, CapacityAssumption DEF Init, Ordered, Numbered
  <1>6. Discovered /\ LightsHaveEvents /\ NothingMissed
    BY DEF Init, Discovered, LightsHaveEvents, NothingMissed
  <1>7. QED
    BY <1>2, <1>4, <1>5, <1>6 DEF IInv

\* A light is added behind the others, in the slot and with the id that follow.
LEMMA AddLemma ==
    ASSUME IInv, AddDeviceEndpoint
    PROVE  TypeOK' /\ SlotsMatchLights' /\ Ordered' /\ Numbered'
  <1> DEFINE n == Len(lights)
             u == NextUdn
  <1>0. TypeOK /\ SlotsMatchLights /\ Ordered /\ Numbered
    BY DEF IInv
  <1>1. n \in Nat /\ DOMAIN lights = 1 .. n /\ lights \in Seq(Udns)
    BY <1>0, LenProperties DEF TypeOK
  <1>2. u \in remaining /\ u \in Udns /\ \A w \in remaining : u <= w
    BY <1>0, NextUdnIsLeast DEF AddDeviceEndpoint, Publishing, TypeOK
  <1>3. FirstFreeSlot = n /\ n \in SlotIndex /\ n < Capacity
    BY <1>0, FirstFreeSlotFollows DEF AddDeviceEndpoint
  <1>4. currentId = FirstId + n
    BY <1>0, CurrentIdLemma DEF AddDeviceEndpoint
  <1>5. /\ slots' = [slots EXCEPT ![n] = u]
        /\ lights' = Append(lights, u)
        /\ endpointOf' = [endpointOf EXCEPT ![u] = currentId]
        /\ had' = had \cup {<<u, currentId>>}
        /\ remaining' = remaining \ {u}
        /\ UNCHANGED <<step, initialized, callback, currentId, shown, inbox, wemo, unreported>>
    BY <1>3 DEF AddDeviceEndpoint, world
  <1> HIDE DEF n, u
  <1>6. /\ lights' \in Seq(Udns) /\ Len(lights') = n + 1
        /\ \A i \in 1 .. n : lights'[i] = lights[i]
        /\ lights'[n + 1] = u
    BY <1>1, <1>2, <1>5, AppendProperties DEF n
  <1>7. DOMAIN lights' = 1 .. n + 1
    BY <1>6, LenProperties
  <1>8. TypeOK'
    <2>1. slots' \in [SlotIndex -> Udns \cup {None}]
      BY <1>0, <1>2, <1>5 DEF TypeOK
    <2>2. endpointOf' \in [Udns -> EndpointIds \cup {None}]
      BY <1>0, <1>2, <1>5 DEF TypeOK
    <2>3. had' \subseteq Udns \X EndpointIds
      <3>1. <<u, currentId>> \in Udns \X EndpointIds
        BY <1>0, <1>2 DEF TypeOK
      <3>2. QED
        BY <1>0, <1>5, <3>1 DEF TypeOK
    <2>4. remaining' \subseteq Udns
      BY <1>0, <1>5 DEF TypeOK
    <2>5. QED
      BY <1>0, <1>5, <1>6, <2>1, <2>2, <2>3, <2>4 DEF TypeOK
  <1>9. SlotsMatchLights'
    <2> SUFFICES ASSUME NEW i \in SlotIndex
                 PROVE  slots'[i] = IF i < n + 1 THEN lights'[i + 1] ELSE None
      BY <1>6 DEF SlotsMatchLights
    <2>1. slots'[i] = IF i = n THEN u ELSE slots[i]
      BY <1>0, <1>5 DEF TypeOK
    <2>2. slots[i] = IF i < n THEN lights[i + 1] ELSE None
      BY <1>0 DEF SlotsMatchLights, n
    <2>3. i \in Int /\ i >= 0
      BY DEF SlotIndex
    <2>4. QED
      BY <1>1, <1>6, <2>1, <2>2, <2>3
  <1>10. \A i \in 1 .. n : lights[i] < u /\ lights[i] \in Nat
    <2>1. \A i \in 1 .. n : lights[i] \in Udns
      BY <1>1, LenProperties DEF n
    <2>2. QED
      BY <1>0, <1>1, <1>2, <2>1, UdnAssumption DEF Ordered
  <1>11. Ordered'
    <2>1. \A i, j \in DOMAIN lights' : i < j => lights'[i] < lights'[j]
      BY <1>0, <1>1, <1>6, <1>7, <1>10 DEF Ordered
    <2>2. \A w \in remaining' : w \in remaining /\ w \in Nat /\ u < w
      BY <1>0, <1>2, <1>5, UdnAssumption DEF TypeOK
    <2>3. \A i \in DOMAIN lights' : \A w \in remaining' : lights'[i] < w
      BY <1>0, <1>1, <1>6, <1>7, <2>2 DEF Ordered
    <2>4. QED
      BY <2>1, <2>3 DEF Ordered
  <1>12. Numbered'
    <2>1. u \in Nat
      BY <1>2, UdnAssumption
    <2>2. ASSUME NEW i \in 1 .. n PROVE endpointOf'[lights'[i]] = FirstId + i - 1
      <3>1. lights'[i] = lights[i] /\ lights[i] # u
        BY <1>6, <1>10, <2>1
      <3>2. endpointOf'[lights[i]] = endpointOf[lights[i]]
        BY <1>5, <3>1
      <3>3. QED
        BY <1>0, <1>1, <3>1, <3>2 DEF Numbered
    <2>3. endpointOf'[lights'[n + 1]] = FirstId + (n + 1) - 1
      BY <1>0, <1>1, <1>2, <1>4, <1>5, <1>6, CapacityAssumption DEF TypeOK
    <2>4. \A i \in DOMAIN lights' : endpointOf'[lights'[i]] = FirstId + i - 1
      BY <1>1, <1>7, <2>2, <2>3
    <2>5. Len(lights') <= Capacity /\ currentId' = FirstId + Len(lights') - 1
      BY <1>1, <1>3, <1>4, <1>5, <1>6, CapacityAssumption
    <2>6. QED
      BY <2>4, <2>5 DEF Numbered
  <1>13. QED
    BY <1>8, <1>9, <1>11, <1>12

\* What a step that leaves the published lights alone keeps.
LEMMA LightsKept ==
    ASSUME SlotsMatchLights, Ordered, Numbered, UNCHANGED <<lights, slots, endpointOf, currentId>>
    PROVE  /\ SlotsMatchLights' /\ Numbered'
           /\ lights = << >> \/ remaining' \subseteq remaining => Ordered'
  BY DEF SlotsMatchLights, Ordered, Numbered

LEMMA NextTypeOK == IInv /\ [Next]_vars => TypeOK'
  <1> SUFFICES ASSUME IInv, [Next]_vars PROVE TypeOK'
    OBVIOUS
  <1>0. TypeOK /\ Numbered
    BY DEF IInv
  <1> USE DEF TypeOK, memory, world
  <1>1. CASE Start
    BY <1>0, <1>1 DEF Start
  <1>2. ASSUME NEW found \in SUBSET Udns, Discover(found) PROVE TypeOK'
    BY <1>0, <1>2 DEF Discover
  <1>3. CASE DiscoverFails
    BY <1>0, <1>3 DEF DiscoverFails
  <1>4. CASE SkipDevice \/ AddFails
    BY <1>0, <1>4 DEF SkipDevice, AddFails
  <1>5. CASE SkipUsedId
    <2>1. currentId' \in EndpointIds
      BY <1>0, <1>5, IdAfterLemma DEF SkipUsedId
    <2>2. QED
      BY <1>0, <1>5, <2>1 DEF SkipUsedId
  <1>6. CASE AddDeviceEndpoint
    BY <1>6, AddLemma
  <1>7. ASSUME NEW up \in BOOLEAN, RegisterStateCallback(up) PROVE TypeOK'
    BY <1>0, <1>7 DEF RegisterStateCallback, EngineReady
  <1>8. ASSUME NEW up \in BOOLEAN, Refresh(up) PROVE TypeOK'
    BY <1>0, <1>8 DEF Refresh, EngineReady, Reprobed
  <1>9. ASSUME NEW u \in Udns, HandleWemoEvent(u) PROVE TypeOK'
    BY <1>0, <1>9 DEF HandleWemoEvent
  <1>10. CASE Stop
    <2>1. FirstId \in EndpointIds
      BY CapacityAssumption, EndpointRoom DEF EndpointIds
    <2>2. /\ slots' \in [SlotIndex -> Udns \cup {None}]
          /\ endpointOf' \in [Udns -> EndpointIds \cup {None}]
          /\ shown' \in [Udns -> BOOLEAN]
          /\ inbox' \in [Udns -> BOOLEAN \cup {None}]
          /\ lights' \in Seq(Udns)
      BY <1>10 DEF Stop
    <2>3. QED
      BY <1>0, <1>10, <2>1, <2>2 DEF Stop
  <1>11. ASSUME NEW u \in Udns, DeviceChanges(u) PROVE TypeOK'
    BY <1>0, <1>11 DEF DeviceChanges
  <1>12. ASSUME NEW u \in Udns, ReportState(u) PROVE TypeOK'
    BY <1>0, <1>12 DEF ReportState
  <1>13. CASE UNCHANGED vars
    BY <1>0, <1>13 DEF vars
  <1>14. QED
    BY <1>1, <1>2, <1>3, <1>4, <1>5, <1>6, <1>7, <1>8, <1>9, <1>10, <1>11, <1>12, <1>13
    DEF Next, ApplicationInit

LEMMA NextLights ==
    IInv /\ [Next]_vars => SlotsMatchLights' /\ Ordered' /\ Numbered'
  <1> SUFFICES ASSUME IInv, [Next]_vars PROVE SlotsMatchLights' /\ Ordered' /\ Numbered'
    OBVIOUS
  <1>0. TypeOK /\ SlotsMatchLights /\ Ordered /\ Numbered /\ Discovered
    BY DEF IInv
  <1>1. CASE /\ UNCHANGED <<lights, slots, endpointOf, currentId>>
             /\ lights = << >> \/ remaining' \subseteq remaining
    BY <1>0, <1>1, LightsKept
  <1>2. ASSUME NEW found \in SUBSET Udns, Discover(found)
        PROVE  SlotsMatchLights' /\ Ordered' /\ Numbered'
    BY <1>0, <1>1, <1>2 DEF Discover, Discovered
  <1>3. CASE SkipUsedId
    <2>1. currentId' = FirstId + Len(lights)
      BY <1>0, <1>3, IdAfterLemma DEF SkipUsedId
    <2>2. QED
      BY <1>0, <1>3, <2>1 DEF SkipUsedId, SlotsMatchLights, Ordered, Numbered
  <1>4. CASE AddDeviceEndpoint
    BY <1>4, AddLemma
  <1>5. CASE Stop
    <2>1. Len(lights') = 0 /\ DOMAIN lights' = {}
      BY <1>5 DEF Stop
    <2>2. SlotsMatchLights'
      BY <1>5, <2>1 DEF Stop, SlotsMatchLights, SlotIndex
    <2>3. Ordered' /\ Numbered'
      BY <1>5, <2>1, CapacityAssumption DEF Stop, Ordered, Numbered
    <2>4. QED
      BY <2>2, <2>3
  <1>6. CASE Start \/ DiscoverFails \/ SkipDevice \/ AddFails
    BY <1>1, <1>6 DEF Start, DiscoverFails, SkipDevice, AddFails, memory
  <1>7. ASSUME NEW up \in BOOLEAN, RegisterStateCallback(up) \/ Refresh(up)
        PROVE  SlotsMatchLights' /\ Ordered' /\ Numbered'
    BY <1>1, <1>7 DEF RegisterStateCallback, Refresh
  <1>8. ASSUME NEW u \in Udns, HandleWemoEvent(u) \/ DeviceChanges(u) \/ ReportState(u)
        PROVE  SlotsMatchLights' /\ Ordered' /\ Numbered'
    BY <1>1, <1>8 DEF HandleWemoEvent, DeviceChanges, ReportState, memory
  <1>9. CASE UNCHANGED vars
    BY <1>1, <1>9 DEF vars
  <1>10. QED
    BY <1>2, <1>3, <1>4, <1>5, <1>6, <1>7, <1>8, <1>9 DEF Next, ApplicationInit

LEMMA NextDiscovered ==
    IInv /\ [Next]_vars => Discovered' /\ LightsHaveEvents'
  <1> SUFFICES ASSUME Discovered, LightsHaveEvents, [Next]_vars
               PROVE  Discovered' /\ LightsHaveEvents'
    BY DEF IInv
  <1> USE DEF Discovered, LightsHaveEvents, memory
  <1>1. CASE Start \/ DiscoverFails \/ SkipDevice \/ SkipUsedId \/ AddFails \/ Stop
    BY <1>1 DEF Start, DiscoverFails, SkipDevice, SkipUsedId, AddFails, Stop, Publishing
  <1>2. ASSUME NEW found \in SUBSET Udns, Discover(found)
        PROVE  Discovered' /\ LightsHaveEvents'
    BY <1>2 DEF Discover
  <1>3. CASE AddDeviceEndpoint
    BY <1>3 DEF AddDeviceEndpoint, Publishing
  <1>4. ASSUME NEW up \in BOOLEAN, RegisterStateCallback(up) \/ Refresh(up)
        PROVE  Discovered' /\ LightsHaveEvents'
    BY <1>4 DEF RegisterStateCallback, Refresh, EngineReady
  <1>5. ASSUME NEW u \in Udns, HandleWemoEvent(u) \/ DeviceChanges(u) \/ ReportState(u)
        PROVE  Discovered' /\ LightsHaveEvents'
    BY <1>5 DEF HandleWemoEvent, DeviceChanges, ReportState
  <1>6. CASE UNCHANGED vars
    BY <1>6 DEF vars
  <1>7. QED
    BY <1>1, <1>2, <1>3, <1>4, <1>5, <1>6 DEF Next, ApplicationInit

LEMMA NextNothingMissed == IInv /\ [Next]_vars => NothingMissed'
  <1> SUFFICES ASSUME TypeOK, Discovered, LightsHaveEvents, NothingMissed, [Next]_vars,
                      step' = "running", NEW u \in Published'
               PROVE  \/ unreported'[u]
                      \/ inbox'[u] = wemo'[u]
                      \/ inbox'[u] = None /\ shown'[u] = wemo'[u]
    BY DEF IInv, NothingMissed
  <1> DEFINE fine == \/ unreported[u]
                     \/ inbox[u] = wemo[u]
                     \/ inbox[u] = None /\ shown[u] = wemo[u]
  <1>1. ASSUME NEW up \in BOOLEAN, Refresh(up) PROVE unreported'[u]
    <2>1. u \in Published /\ initialized
      BY <1>1 DEF Refresh, Published, Discovered
    <2>2. u \in Udns
      BY <2>1, LenProperties DEF Published, TypeOK
    <2>3. QED
      BY <1>1, <2>1, <2>2 DEF Refresh, Reprobed, EngineReady
  <1>2. ASSUME step = "running", UNCHANGED lights
        PROVE  /\ u \in Published /\ u \in Udns /\ callback /\ fine
    <2>1. u \in Published /\ lights # << >>
      BY <1>2 DEF Published
    <2>2. u \in Udns
      BY <2>1, LenProperties DEF Published, TypeOK
    <2>3. QED
      BY <1>2, <2>1, <2>2 DEF LightsHaveEvents, NothingMissed
  <1>3. ASSUME NEW w \in Udns, HandleWemoEvent(w)
        PROVE  \/ unreported'[u]
               \/ inbox'[u] = wemo'[u]
               \/ inbox'[u] = None /\ shown'[u] = wemo'[u]
    <2>1. u \in Published /\ u \in Udns /\ fine
      BY <1>2, <1>3 DEF HandleWemoEvent
    <2>2. QED
      BY <1>3, <2>1 DEF HandleWemoEvent, TypeOK, world
  <1>4. ASSUME NEW w \in Udns, DeviceChanges(w)
        PROVE  \/ unreported'[u]
               \/ inbox'[u] = wemo'[u]
               \/ inbox'[u] = None /\ shown'[u] = wemo'[u]
    <2>1. u \in Udns /\ fine
      BY <1>2, <1>4 DEF DeviceChanges, memory
    <2>2. QED
      BY <1>4, <2>1 DEF DeviceChanges, TypeOK, memory
  <1>5. ASSUME NEW w \in Udns, ReportState(w)
        PROVE  \/ unreported'[u]
               \/ inbox'[u] = wemo'[u]
               \/ inbox'[u] = None /\ shown'[u] = wemo'[u]
    <2>1. u \in Udns /\ fine /\ callback
      BY <1>2, <1>5 DEF ReportState
    <2>2. QED
      BY <1>5, <2>1 DEF ReportState, TypeOK
  <1>6. CASE UNCHANGED vars
    BY <1>2, <1>6 DEF vars
  <1>7. QED
    <2>1. ~(Start \/ DiscoverFails \/ SkipDevice \/ SkipUsedId \/ AddDeviceEndpoint \/ AddFails \/ Stop)
      BY DEF Start, DiscoverFails, SkipDevice, SkipUsedId, AddDeviceEndpoint, AddFails, Stop,
             Publishing
    <2>2. QED
      BY <1>1, <1>3, <1>4, <1>5, <1>6, <2>1
      DEF Next, ApplicationInit, Discover, RegisterStateCallback

LEMMA IInvHolds == Spec => []IInv
  <1>1. IInv /\ [Next]_vars => IInv'
    BY NextTypeOK, NextLights, NextDiscovered, NextNothingMissed DEF IInv
  <1>2. QED
    BY InitIInv, <1>1, PTL DEF Spec

-----------------------------------------------------------------------------
(* What follows from it. *)

\* The slots, ids and lists of ApplicationInit keep their types on every boot;
\* no endpoint id leaves the dynamic range or the width of an EndpointId.
THEOREM TypeCorrect == Spec => []TypeOK
  <1>1. IInv => TypeOK
    BY DEF IInv
  <1>2. QED
    BY <1>1, IInvHolds, PTL

\* For any set of devices and any number of slots, an attribute access finds
\* the light that was published in its slot, whatever additions failed before.
THEOREM SlotsHoldTheirLights == Spec => []SlotsMatchLights
  <1>1. IInv => SlotsMatchLights
    BY DEF IInv
  <1>2. QED
    BY <1>1, IInvHolds, PTL

\* Whenever lights are published, the callback that brings their events is
\* registered.
THEOREM PublishedLightsHaveEvents == Spec => []LightsHaveEvents
  <1>1. IInv => LightsHaveEvents
    BY DEF IInv
  <1>2. QED
    BY <1>1, IInvHolds, PTL

\* The refresh after the registration makes up for every change since
\* discovery.
THEOREM NoChangeMissed == Spec => []NothingMissed
  <1>1. IInv => NothingMissed
    BY DEF IInv
  <1>2. QED
    BY <1>1, IInvHolds, PTL

\* In an increasing list the i-th entry has i - 1 smaller ones.
LEMMA RankInOrder ==
    ASSUME TypeOK, Ordered, NEW i \in DOMAIN lights
    PROVE  Cardinality({w \in Published : w < lights[i]}) = i - 1
  <1> DEFINE smaller == {w \in Published : w < lights[i]}
             f == [j \in 1 .. i - 1 |-> lights[j]]
  <1>1. DOMAIN lights = 1 .. Len(lights) /\ Len(lights) \in Nat /\ i \in Nat /\ i >= 1
    BY LenProperties DEF TypeOK
  <1>2. \A j \in DOMAIN lights : lights[j] \in Nat
    BY LenProperties, UdnAssumption DEF TypeOK
  <1>3. 1 .. i - 1 \subseteq DOMAIN lights
    BY <1>1
  <1>4. \A j, k \in DOMAIN lights : lights[j] < lights[k] => j < k
    <2>1. ASSUME NEW j \in DOMAIN lights, NEW k \in DOMAIN lights, lights[j] < lights[k], ~(j < k)
          PROVE  FALSE
      <3>1. j = k \/ k < j
        BY <1>1, <2>1
      <3>2. lights[j] \in Nat /\ lights[k] \in Nat
        BY <1>2
      <3>3. QED
        BY <2>1, <3>1, <3>2 DEF Ordered
    <2>2. QED
      BY <2>1
  <1>5. f \in [1 .. i - 1 -> smaller]
    BY <1>1, <1>3 DEF Ordered, Published
  <1>6. \A j, k \in 1 .. i - 1 : f[j] = f[k] => j = k
    <2>1. ASSUME NEW j \in 1 .. i - 1, NEW k \in 1 .. i - 1, f[j] = f[k] PROVE j = k
      <3>1. lights[j] = lights[k] /\ lights[j] \in Nat
        BY <1>2, <1>3, <2>1
      <3>2. ~(lights[j] < lights[k]) /\ ~(lights[k] < lights[j])
        BY <3>1
      <3>3. ~(j < k) /\ ~(k < j)
        BY <1>3, <3>2 DEF Ordered
      <3>4. QED
        BY <1>1, <3>3
    <2>2. QED
      BY <2>1
  <1>7. \A w \in smaller : \E j \in 1 .. i - 1 : f[j] = w
    <2>1. ASSUME NEW w \in smaller PROVE \E j \in 1 .. i - 1 : f[j] = w
      <3>1. PICK j \in DOMAIN lights : lights[j] = w
        BY DEF Published
      <3>2. j < i
        BY <1>4, <3>1
      <3>3. j \in 1 .. i - 1
        BY <1>1, <3>2
      <3>4. QED
        BY <3>1, <3>3
    <2>2. QED
      BY <2>1
  <1>8. f \in Bijection(1 .. i - 1, smaller)
    <2>1. \A j, k \in DOMAIN f : f[j] = f[k] => j = k
      BY <1>6
    <2>2. f \in Injection(1 .. i - 1, smaller)
      BY <1>5, <2>1 DEF Injection, IsInjective
    <2>3. f \in Surjection(1 .. i - 1, smaller)
      BY <1>5, <1>7 DEF Surjection
    <2>4. QED
      BY <2>2, <2>3 DEF Bijection
  <1>9. ExistsBijection(1 .. i - 1, smaller)
    BY <1>8 DEF ExistsBijection
  <1>10. i - 1 \in Nat
    BY <1>1
  <1>11. QED
    <2> HIDE DEF f, smaller
    <2>1. Cardinality(smaller) = i - 1
      BY <1>9, <1>10, FS_CountingElements
    <2>2. QED
      BY <2>1 DEF smaller

\* The endpoint id of a light depends on the published set alone: it is the
\* light's rank in it, however many devices were skipped or refused and ids
\* tried.
THEOREM EndpointsByRank == Spec => []EndpointIsRank
  <1>1. ASSUME IInv PROVE EndpointIsRank
    <2> SUFFICES ASSUME NEW u \in Published
                 PROVE  endpointOf[u] = FirstId + Cardinality({w \in Published : w < u})
      BY DEF EndpointIsRank
    <2>1. PICK i \in DOMAIN lights : lights[i] = u
      BY DEF Published
    <2>2. endpointOf[u] = FirstId + i - 1
      BY <1>1, <2>1 DEF IInv, Numbered
    <2>3. Cardinality({w \in Published : w < u}) = i - 1
      BY <1>1, <2>1, RankInOrder DEF IInv
    <2>4. i \in Int
      BY <1>1, LenProperties DEF IInv, TypeOK
    <2>5. QED
      BY <2>2, <2>3, <2>4, CapacityAssumption
  <1>2. QED
    BY <1>1, IInvHolds, PTL

-----------------------------------------------------------------------------
(***************************************************************************)
(* The safety half of StartupEnds, for any number of devices and slots.    *)
(***************************************************************************)

\* The id after one that is in use is free.
LEMMA SearchIsShort ==
    ASSUME IInv, Len(lights) < Capacity, IdInUse(currentId)
    PROVE  ~IdInUse(IdAfter(currentId))
  <1>1. TypeOK /\ Numbered /\ Len(lights) \in Nat /\ DOMAIN lights = 1 .. Len(lights)
    BY LenProperties DEF IInv, TypeOK
  <1>2. IdAfter(currentId) = FirstId + Len(lights)
    BY <1>1, IdAfterLemma
  <1>3. \A i \in DOMAIN lights : endpointOf[lights[i]] = FirstId + i - 1
    BY <1>1 DEF Numbered
  <1>4. \A i \in DOMAIN lights : endpointOf[lights[i]] # FirstId + Len(lights)
    BY <1>1, <1>3, CapacityAssumption
  <1>5. QED
    BY <1>2, <1>4 DEF IdInUse, Published

\* The search for a free endpoint id, which AddDeviceEndpoint repeats until the
\* stack accepts one, takes one retry at most, and a slot is free for as long
\* as the count of lights is below the limit.
THEOREM NextDeviceHasRoom == Spec => []RoomForNext
  <1>1. ASSUME IInv, Len(lights) < Capacity PROVE FreeSlots # {}
    <2>1. TypeOK /\ SlotsMatchLights
      BY <1>1 DEF IInv
    <2>2. Len(lights) \in FreeSlots
      <3>1. Len(lights) \in Nat /\ ~(Len(lights) < Len(lights))
        BY <2>1, LenProperties DEF TypeOK
      <3>2. QED
        BY <1>1, <2>1, <3>1, FirstFreeSlotFollows DEF FreeSlots, SlotsMatchLights
    <2>3. QED
      BY <2>2
  <1>2. IInv => RoomForNext
    BY <1>1, SearchIsShort DEF RoomForNext
  <1>3. QED
    BY <1>2, IInvHolds, PTL

\* What a step of ApplicationInit gets done: a phase is over, a device has been
\* looked at, or a used endpoint id has been left behind for a free one.
Progress ==
    \/ <<step, step'>> \in {<<"discover", "publish">>, <<"publish", "refresh">>,
                            <<"refresh", "running">>}
    \/ step' = step /\ remaining' \subseteq remaining /\ remaining' # remaining
    \/ step' = step /\ remaining' = remaining /\ IdInUse(currentId) /\ ~IdInUse(currentId)'

\* ApplicationInit never turns in a circle, and what devices and the engine do
\* meanwhile undoes none of it: every step that is not a start, a stop or one
\* beside startup brings it nearer its end.
THEOREM StartupAdvances ==
    Spec => [][\/ Progress
               \/ Start \/ Stop
               \/ UNCHANGED <<step, remaining, lights, slots, endpointOf, currentId>>]_vars
  <1> DEFINE beside == UNCHANGED <<step, remaining, lights, slots, endpointOf, currentId>>
  <1>1. ASSUME IInv, Next PROVE Progress \/ Start \/ Stop \/ beside
    <2>0. TypeOK /\ Numbered
      BY <1>1 DEF IInv
    <2>1. CASE SkipDevice \/ AddDeviceEndpoint \/ AddFails
      <3>1. NextUdn \in remaining
        BY <2>0, <2>1, NextUdnIsLeast
        DEF SkipDevice, AddDeviceEndpoint, AddFails, Publishing
      <3>2. step' = step /\ remaining' = remaining \ {NextUdn}
        BY <2>1 DEF SkipDevice, AddDeviceEndpoint, AddFails
      <3>3. remaining' \subseteq remaining /\ remaining' # remaining
        BY <3>1, <3>2
      <3>4. QED
        BY <3>2, <3>3 DEF Progress
    <2>2. CASE SkipUsedId
      <3>1. /\ Len(lights) < Capacity /\ IdInUse(currentId)
            /\ currentId' = IdAfter(currentId)
            /\ UNCHANGED <<step, remaining, lights, endpointOf>>
        BY <2>2 DEF SkipUsedId
      <3>2. ~IdInUse(IdAfter(currentId))
        BY <1>1, <3>1, SearchIsShort
      <3>3. ~IdInUse(currentId)'
        BY <3>1, <3>2 DEF IdInUse, Published
      <3>4. QED
        BY <3>1, <3>3 DEF Progress
    <2>3. (\E found \in SUBSET Udns : Discover(found)) \/ DiscoverFails => Progress
      BY DEF Discover, DiscoverFails, Progress
    <2>4. (\E up \in BOOLEAN : RegisterStateCallback(up) \/ Refresh(up)) => Progress
      BY DEF RegisterStateCallback, Refresh, Progress
    <2>5. ASSUME NEW u \in Udns, HandleWemoEvent(u) \/ DeviceChanges(u) \/ ReportState(u)
          PROVE  beside
      BY <2>5 DEF HandleWemoEvent, DeviceChanges, ReportState, memory
    <2>6. QED
      BY <1>1, <2>1, <2>2, <2>3, <2>4, <2>5 DEF Next, ApplicationInit
  <1>2. IInv /\ [Next]_vars => [Progress \/ Start \/ Stop \/ beside]_vars
    BY <1>1
  <1>3. QED
    BY <1>2, IInvHolds, PTL DEF Spec

-----------------------------------------------------------------------------
(* The ids of one boot, as the map of the registry. *)

\* The devices with an endpoint id are those on the list of lights.
Mapped == \A u \in Udns : endpointOf[u] # None <=> u \in Published

\* The lights on the list are all different.
LEMMA LightsCounted == ASSUME TypeOK, Ordered PROVE Cardinality(Published) = Len(lights)
  <1> DEFINE n == Len(lights)
             f == [i \in 1 .. n |-> lights[i]]
  <1>1. n \in Nat /\ DOMAIN lights = 1 .. n
    BY LenProperties DEF TypeOK
  <1>2. \A i \in 1 .. n : lights[i] \in Nat
    <2>1. lights \in Seq(Udns)
      BY DEF TypeOK
    <2>2. \A i \in 1 .. n : lights[i] \in Udns
      BY <2>1, ElementOfSeq
    <2>3. QED
      BY <2>2, UdnAssumption
  <1>3. ASSUME NEW i \in 1 .. n, NEW k \in 1 .. n, f[i] = f[k] PROVE i = k
    <2>1. ~(lights[i] < lights[k]) /\ ~(lights[k] < lights[i])
      BY <1>2, <1>3
    <2>2. ~(i < k) /\ ~(k < i)
      BY <1>1, <2>1 DEF Ordered
    <2>3. QED
      BY <2>2
  <1>4. f \in Injection(1 .. n, Published)
    <2>1. f \in [1 .. n -> Published]
      BY <1>1 DEF Published
    <2>2. \A i, k \in DOMAIN f : f[i] = f[k] => i = k
      BY <1>3
    <2>3. QED
      BY <2>1, <2>2 DEF Injection, IsInjective
  <1>5. f \in Surjection(1 .. n, Published)
    <2>1. \A u \in Published : \E i \in 1 .. n : f[i] = u
      BY <1>1 DEF Published
    <2>2. QED
      BY <1>4, <2>1 DEF Surjection, Injection
  <1>6. ExistsBijection(1 .. n, Published)
    BY <1>4, <1>5 DEF ExistsBijection, Bijection
  <1>7. QED
    <2> HIDE DEF n, f
    <2>1. Cardinality(Published) = n
      BY <1>1, <1>6, FS_CountingElements
    <2>2. QED
      BY <2>1 DEF n

\* AddDeviceEndpoint gives a device that has none the next free id.
LEMMA AddAssigns ==
    ASSUME IInv, Mapped, AddDeviceEndpoint
    PROVE  Mapped' /\ Map!Assign(NextUdn) /\ NextUdn \in Udns
  <1> DEFINE u == NextUdn
  <1>0. TypeOK /\ Ordered /\ Numbered /\ lights \in Seq(Udns)
    BY DEF IInv, TypeOK
  <1>1. u \in remaining /\ u \in Udns
    BY <1>0, NextUdnIsLeast DEF AddDeviceEndpoint, Publishing, TypeOK
  <1>2. /\ lights' = Append(lights, u)
        /\ endpointOf' = [endpointOf EXCEPT ![u] = currentId]
        /\ currentId = FirstId + Len(lights)
    BY <1>0, CurrentIdLemma DEF AddDeviceEndpoint
  <1> HIDE DEF u
  <1>3. u \notin Published
    <2>1. \A i \in DOMAIN lights : lights[i] \in Nat /\ lights[i] < u
      BY <1>0, <1>1, LenProperties, UdnAssumption DEF Ordered
    <2>2. QED
      BY <2>1 DEF Published
  <1>4. Published' = Published \cup {u}
    <2> DEFINE n == Len(lights)
    <2>1. /\ n \in Nat /\ DOMAIN lights = 1 .. n
          /\ lights' \in Seq(Udns) /\ Len(lights') = n + 1
          /\ \A i \in 1 .. n : lights'[i] = lights[i]
          /\ lights'[n + 1] = u
      BY <1>0, <1>1, <1>2, LenProperties, AppendProperties
    <2>2. DOMAIN lights' = 1 .. n + 1
      BY <2>1, LenProperties
    <2> HIDE DEF n
    <2>3. DOMAIN lights' = DOMAIN lights \cup {n + 1}
      BY <2>1, <2>2
    <2>4. QED
      BY <2>1, <2>3 DEF Published
  <1>5. currentId # None
    BY <1>0, CapacityAssumption, EndpointRoom DEF TypeOK, EndpointIds
  <1>6. Mapped'
    BY <1>0, <1>1, <1>2, <1>4, <1>5 DEF Mapped, TypeOK
  <1>7. endpointOf[u] = None
    BY <1>1, <1>3 DEF Mapped
  <1>8. Map!Assigned = Published
    <2>1. Published \subseteq Udns
      BY <1>0, LenProperties DEF Published
    <2>2. QED
      BY <2>1 DEF Map!Assigned, Mapped
  <1>9. Map!Assign(u)
    <2>1. Map!Cardinality(Map!Assigned) = Cardinality(Map!Assigned)
      BY DEF Map!Cardinality, Cardinality
    <2>2. QED
      BY <1>0, <1>2, <1>7, <1>8, <2>1, LightsCounted DEF Map!Assign
  <1>10. QED
    BY <1>1, <1>6, <1>9 DEF u

LEMMA NextMaps ==
    IInv /\ Mapped /\ [Next]_vars =>
        Mapped' /\ [Map!Next \/ Map!Init']_endpointOf
  <1> SUFFICES ASSUME IInv, Mapped, [Next]_vars
               PROVE  Mapped' /\ (Map!Next \/ Map!Init' \/ UNCHANGED endpointOf)
    OBVIOUS
  <1>1. CASE AddDeviceEndpoint
    BY <1>1, AddAssigns DEF Map!Next
  <1>2. CASE Stop
    <2>1. Map!Init' /\ DOMAIN lights' = {}
      BY <1>2 DEF Stop, Map!Init
    <2>2. Mapped'
      BY <2>1 DEF Mapped, Map!Init, Published
    <2>3. QED
      BY <2>1, <2>2
  <1>3. CASE UNCHANGED <<lights, endpointOf>>
    BY <1>3 DEF Mapped, Published
  <1>4. AddDeviceEndpoint \/ Stop \/ UNCHANGED <<lights, endpointOf>>
    BY DEF Next, ApplicationInit, Start, Discover, DiscoverFails, SkipDevice, SkipUsedId, AddFails,
           RegisterStateCallback, Refresh, HandleWemoEvent, DeviceChanges, ReportState, memory, vars
  <1>5. QED
    BY <1>1, <1>2, <1>3, <1>4

\* Each boot assigns endpoint ids as the registry's map would, to any number of
\* devices, with any of them skipped or refused in between; what a restart
\* begins anew is the map, and nothing else ever takes an id away.
THEOREM StartupRefinesMap == Spec => BootsAsMap
  <1>1. Init => Mapped /\ Map!Init
    BY DEF Init, Mapped, Published, Map!Init
  <1>2. QED
    BY <1>1, NextMaps, IInvHolds, PTL DEF Spec, BootsAsMap
=============================================================================
