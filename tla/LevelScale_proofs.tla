-------------------------- MODULE LevelScale_proofs --------------------------
(* Facts about the two conversions, for every value of a byte. *)
EXTENDS LevelScale, TLAPS

\* The percentage sent for a Matter level stays in 0..100 (no wrap of the
\* uint8_t in HandleWriteLevelControlAttribute).
LEMMA PercentInRange ==
    ASSUME NEW m \in Byte
    PROVE  MatterToWemoPercent(m) \in Percent
  BY DEF Byte, Percent, MatterToWemoPercent

\* So it fits the uint8_t a command carries.
LEMMA PercentIsByte ==
    ASSUME NEW m \in Byte
    PROVE  MatterToWemoPercent(m) \in Byte
  <1>1. Percent \subseteq Byte
    BY DEF Byte, Percent
  <1>2. QED
    BY <1>1, PercentInRange

\* A level that is not zero is sent as at least one percent.
LEMMA PercentNotZero ==
    ASSUME NEW m \in Byte, m > 0
    PROVE  MatterToWemoPercent(m) > 0
  BY DEF Byte, MatterToWemoPercent

\* The level shown for a device is a byte, whatever percentage it reports.
LEMMA LevelInRange ==
    ASSUME NEW p \in Int
    PROVE  WemoToMatterLevel(p) \in Byte
  BY DEF Byte, WemoToMatterLevel

\* The percentage sent for a level is its share of 254, at least 1% for a level
\* that is not zero, for every byte HandleWriteLevelControlAttribute may get.
THEOREM PercentIsShareAlways ==
    ASSUME NEW m \in Byte
    PROVE  PercentIsShareOf(m)
  BY DEF Byte, MatterToWemoPercent, PercentIsShareOf

\* A level the write handler accepts comes back from the device no brighter
\* and at most three steps darker, whatever the level.
THEOREM EchoCloseToCommand ==
    ASSUME NEW m \in 2 .. 254
    PROVE  EchoIsClose(m)
  BY DEF MatterToWemoPercent, WemoToMatterLevel, EchoOf, EchoIsClose

\* The level shown for a device's percentage neither wraps nor loses the order
\* of two devices' brightness.
THEOREM ShownLevelsOrdered ==
    ASSUME NEW p \in Percent
    PROVE  ShownInOrder(p)
  BY DEF Percent, WemoToMatterLevel, ShownInOrder

\* Writing a captured level back dims the device by one percent, whatever its
\* brightness, unless that is 0, 1, 50 or 100%.
THEOREM RecallCloseToShown ==
    ASSUME NEW p \in Percent
    PROVE  RecallIsClose(p)
  BY DEF Percent, WemoToMatterLevel, MatterToWemoPercent, RecallIsClose
=============================================================================
