\* One dimmer under fairness, two threads that may overtake each other.
SPECIFICATION MCFairSpec
CONSTANTS
    d1 = d1
    n1 = n1
    n2 = n2
    t1 = t1
    t2 = t2
    Devices = {d1}
    Dimmers = {d1}
    MatterLevels = {128}
    Percents = {50}
    Labels = {n1, n2}
    SettleTicks = 0
    Threads = {t1, t2}
    Idle = Idle
    MaxWork = 2
    MaxWrites = 2
    MaxChanges = 1
PROPERTIES Resynchronises ViewConverges
