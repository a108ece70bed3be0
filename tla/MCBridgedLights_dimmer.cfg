\* One dimmer, two threads: late and overtaking commands, stale events.
SPECIFICATION MCSpec
CONSTANTS
    d1 = d1
    n1 = n1
    t1 = t1
    t2 = t2
    Devices = {d1}
    Dimmers = {d1}
    MatterLevels = {0, 1, 2, 128}
    Percents = {1, 50}
    Labels = {n1}
    SettleTicks = 1
    Threads = {t1, t2}
    Idle = Idle
    MaxWork = 2
    MaxWrites = 2
    MaxChanges = 1
INVARIANTS TypeOK SettleHolds LevelCommandsKeepLightOn ViewCurrent QuiescentAgreement LastEventCurrent
PROPERTY ImplementsSettledValue
