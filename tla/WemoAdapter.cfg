\* Two command threads, three devices that may appear late, one of them without
\* a UDN; a list holds two devices.
SPECIFICATION FairSpec
CONSTANTS
    t1 = t1
    t2 = t2
    u1 = u1
    u2 = u2
    u3 = u3
    Threads = {t1, t2}
    Udns = {u1, u2, u3}
    Nameless = {u3}
    MaxItems = 2
    Percents = {0, 101}
    None = None
INVARIANTS TypeOK InitializedOnce CommandsReachTheirDevice WaitsAreShort
PROPERTIES OneActionAtATime CacheOnlyGrows ImplementsCommandDelivery ThreadsEnd
CHECK_DEADLOCK FALSE
