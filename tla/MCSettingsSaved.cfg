SPECIFICATION FairSpec
CONSTANTS
    Targets <- TwoTargets
    QueueCapacity = 3
    FlashPresent = TRUE
    MaxRelaunches = 1
INVARIANTS
    TypeOK
    CoresAgree
PROPERTIES
    ImplementsStore
    EventuallySaved
