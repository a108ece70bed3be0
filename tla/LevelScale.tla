----------------------------- MODULE LevelScale -----------------------------
(***************************************************************************)
(* The two brightness scales of the bridge and the integer conversions     *)
(* between them: Matter CurrentLevel (0..254, held in a uint8_t) and WeMo  *)
(* percent (0..100).  Both conversions truncate, so they are not inverses. *)
(***************************************************************************)
EXTENDS Integers

Byte == 0 .. 255
Percent == 0 .. 100

-----------------------------------------------------------------------------
(* Faulty variants of definitions below, which the properties must catch. *)
MatterToWemoPercent_Truncated(m) == ((m * 100) \div 254) % 256
WemoToMatterLevel_RoundedUp(p) == ((p * 254 + 99) \div 100) % 256
WemoToMatterLevel_CastBeforeDivision(p) == ((p * 254) % 256) \div 100
ClampPercent_Missing(p) == p

-----------------------------------------------------------------------------
\* Matter level -> WeMo percent, as HandleWriteLevelControlAttribute converts
\* it before it starts the command: a level that is not zero never becomes 0%.
MatterToWemoPercent(m) ==
    LET truncated == ((m * 100) \div 254) % 256
    IN  IF m > 0 /\ truncated = 0 THEN 1 ELSE truncated

\* WeMo percent -> Matter level, as the event handler and ApplicationInit
\* convert it: product and quotient are unsigned ints, which no percentage
\* overflows, and the result is cut to a uint8_t.
WemoToMatterLevel(p) == ((p * 254) \div 100) % 256

\* What a controller reads back when a level it wrote returns as an event.
EchoOf(m) == WemoToMatterLevel(MatterToWemoPercent(m))

\* std::clamp(percent, 0, 100) in SetLevelPercent, on a uint8_t argument.
ClampPercent(p) == IF p > 100 THEN 100 ELSE p

-----------------------------------------------------------------------------
\* The percentage sent for a level is the level's share of 254 rounded down,
\* except that a light that shall not be off is at 1% at least
\* (HandleWriteLevelControlAttribute).
PercentIsShareOf(m) ==
    LET p == MatterToWemoPercent(m)
    IN  \/ p * 254 <= m * 100 /\ m * 100 < (p + 1) * 254 /\ (m > 0 => p > 0)
        \/ p = 1 /\ 0 < m /\ m * 100 < 254

\* The event that answers a level command never makes the light brighter than
\* commanded, nor more than three steps darker.
EchoIsClose(m) == EchoOf(m) <= m /\ m <= EchoOf(m) + 3

\* The levels shown for 0..100 percent span 0..254 and keep the order of the
\* devices' brightness (the event handler's cast to uint8_t cuts nothing off).
ShownInOrder(p) ==
    /\ WemoToMatterLevel(p) \in 0 .. 254
    /\ p = 0 <=> WemoToMatterLevel(p) = 0
    /\ p = 100 <=> WemoToMatterLevel(p) = 254
    /\ p < 100 => WemoToMatterLevel(p) < WemoToMatterLevel(p + 1)

\* A controller that captures the level shown for a device and writes it back
\* (a scene) gets exactly the same brightness at 0, 1, 50 and 100% only; from
\* any other it dims the device by one percent, so doing it over and over ends
\* at 50% or at 1%, and never turns the device off.
RecallIsClose(p) ==
    MatterToWemoPercent(WemoToMatterLevel(p)) = IF p \in {0, 1, 50, 100} THEN p ELSE p - 1
=============================================================================
