\* A dimmer and a switch without a UDN, two command threads.
SPECIFICATION MCSpec
CONSTANTS
    d1 = d1
    d2 = d2
    n1 = n1
    t1 = t1
    t2 = t2
    Devices = {d1, d2}
    Dimmers = {d1}
    Nameless = {d2}
    MatterLevels = {1, 128}
    Percents = {50}
    Labels = {n1}
    SettleTicks = 0
    Threads = {t1, t2}
    Idle = Idle
    None = None
    MaxWork = 1
    MaxMoves = 2
INVARIANT NamedLightsHit
PROPERTIES ImplementsLights CommandsEnd
CHECK_DEADLOCK FALSE
