\* A COMMIT refused because another process reads the file,
\* on a disk that never fails.
SPECIFICATION Spec
CONSTANTS
    p1 = p1
    p2 = p2
    u1 = u1
    u2 = u2
    Procs = {p1, p2}
    Udns = {u1, u2}
    DiskFails = FALSE
    FirstId = 2
    IdModulus = 8
    NoId = NoId
    Nobody = Nobody
INVARIANT EndpointsStable
