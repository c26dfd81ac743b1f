SPECIFICATION Spec
CONSTANTS
    Slots = 1
    UnbailTicks = 0
    TankTicks = 0
    LowTicks = 0
    Stage2Ticks = 0
    MaxDelay = 1
    InCapacity = 1
    OutCapacity = 1
    MaxLaunches = 2
    Packets <- ColdAndHotReadings
    Commands <- MixedCommands
PROPERTY
    HardBailHolds
