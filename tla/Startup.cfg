\* Three devices compete for two endpoints, over any number of boots.
SPECIFICATION Spec
CONSTANTS
    None = None
    Udns = {1, 2, 3}
    FirstId = 3
    IdModulus = 5
    Capacity = 2
INVARIANTS TypeOK SlotsMatchLights EndpointIsRank LightsHaveEvents NothingMissed RoomForNext
PROPERTY BootsAsMap
