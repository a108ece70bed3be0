\* Two devices, one of them missing from a discovery.
SPECIFICATION Spec
CONSTANTS
    None = None
    Udns = {1, 2}
    FirstId = 3
    IdModulus = 5
    Capacity = 2
INVARIANT EndpointsPersist
