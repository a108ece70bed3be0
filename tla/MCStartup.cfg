\* Three devices for three endpoints, under fairness.
SPECIFICATION QuietFairSpec
CONSTANTS
    None = None
    Udns = {1, 2, 3}
    FirstId = 3
    IdModulus = 7
    Capacity = 3
PROPERTY StartupEnds
