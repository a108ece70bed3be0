---------------------------- MODULE MCLevelScale ----------------------------
(* Walks through every value of a uint8_t and checks the conversions on it. *)
EXTENDS LevelScale

VARIABLE matterLevel

Init == matterLevel = 0
Next == matterLevel' = (matterLevel + 1) % 256
Spec == Init /\ [][Next]_matterLevel

\* Every level is converted to the percentage that is its share of 254.
PercentIsShare == PercentIsShareOf(matterLevel)

\* A level the write handler accepts (above the minimum) comes back from the
\* device no brighter and at most three steps darker.
EchoClose == matterLevel \in 2 .. 254 => EchoIsClose(matterLevel)

\* The levels shown for a device's 0..100 percent are in the device's order.
ShownOrder == matterLevel \in Percent => ShownInOrder(matterLevel)

\* Capturing a shown level and writing it back dims the device by exactly 1%,
\* or not at all at 0, 1, 50 and 100%.
RecallClose == matterLevel \in Percent => RecallIsClose(matterLevel)
=============================================================================
