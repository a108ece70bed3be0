\* One dimmer that is toggled from two controllers and by hand.
SPECIFICATION ToggleSpec
CONSTANTS
    d1 = d1
    n1 = n1
    t1 = t1
    t2 = t2
    Devices = {d1}
    Dimmers = {d1}
    MatterLevels = {1, 64, 254}
    Percents = {1, 50}
    Labels = {n1}
    SettleTicks = 1
    Threads = {t1, t2}
    Idle = Idle
    MaxWork = 2
    MaxWrites = 5
    MaxChanges = 2
INVARIANT TogglesKeepBrightness
