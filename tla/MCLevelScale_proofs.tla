------------------------ MODULE MCLevelScale_proofs ------------------------
(* What the walk through the bytes checks, from the facts about the conversions. *)
EXTENDS MCLevelScale, LevelScale_proofs

\* The walk stays within a byte.
LEMMA WalkInByte == Spec => [](matterLevel \in Byte)
  <1>1. Init => matterLevel \in Byte
    BY DEF Init, Byte
  <1>2. matterLevel \in Byte /\ [Next]_matterLevel => (matterLevel \in Byte)'
    BY DEF Next, Byte
  <1>3. QED
    BY <1>1, <1>2, PTL DEF Spec

\* HandleWriteLevelControlAttribute sends every level as its share of 254, and
\* no level that is not zero as 0%.
THEOREM EveryPercentIsShare == Spec => []PercentIsShare
  <1>1. matterLevel \in Byte => PercentIsShare
    BY PercentIsShareAlways DEF PercentIsShare
  <1>2. QED
    BY <1>1, WalkInByte, PTL

\* The event that answers a level write never shows the light brighter than
\* written, and at most three steps darker.
THEOREM EveryEchoIsClose == Spec => []EchoClose
  <1>1. EchoClose
    BY EchoCloseToCommand DEF EchoClose
  <1>2. QED
    BY <1>1, PTL

\* The event handler shows the percentages of devices in their order.
THEOREM EveryLevelInOrder == Spec => []ShownOrder
  <1>1. ShownOrder
    BY ShownLevelsOrdered DEF ShownOrder
  <1>2. QED
    BY <1>1, PTL

\* A captured level that is written back dims the device by 1%, but at 0, 1, 50
\* and 100%: the event handler and the write handler truncate in turn.
THEOREM EveryRecallIsClose == Spec => []RecallClose
  <1>1. RecallClose
    BY RecallCloseToShown DEF RecallClose
  <1>2. QED
    BY <1>1, PTL
=============================================================================
