SPECIFICATION HSpec
CONSTANTS
    Slots = 1
    UnbailTicks = 2
    TankTicks = 0
    LowTicks = 0
    Stage2Ticks = 0
    MaxDelay = 2
    InCapacity = 2
    OutCapacity = 1
    MaxLaunches = 2
    Packets <- IdleReadings
    Commands <- ForceCommands
INVARIANTS
    TypeOK
    TimeoutSilences
    BailIsForgotten
    HeatsOnlyOutOfBail
PROPERTY
    ImplementsInterlock
