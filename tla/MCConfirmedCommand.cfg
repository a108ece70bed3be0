\* One switch that is also pressed by hand.
SPECIFICATION ConfirmSpec
CONSTANTS
    d1 = d1
    n1 = n1
    t1 = t1
    Devices = {d1}
    Dimmers = {}
    MatterLevels = {}
    Percents = {}
    Labels = {n1}
    SettleTicks = 1
    Threads = {t1}
    Idle = Idle
    MaxWork = 2
    MaxChanges = 1
INVARIANT SuppressedUntilConfirmed
