\* Two processes ask for three devices; any of them may die, and any
\* COMMIT may fail.
SPECIFICATION FairSpec
CONSTANTS
    p1 = p1
    p2 = p2
    u1 = u1
    u2 = u2
    u3 = u3
    Procs = {p1, p2}
    Udns = {u1, u2, u3}
    DiskFails = TRUE
    FirstId = 2
    IdModulus = 8
    NoId = NoId
    Nobody = Nobody
INVARIANTS TypeOK UniqueEndpoints CounterMatchesRows OneTransaction AnswersKept
PROPERTIES ImplementsEndpointMap CallsReturn
