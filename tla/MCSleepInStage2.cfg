SPECIFICATION Spec
CONSTANTS
    Slots = 1
    UnbailTicks = 1
    TankTicks = 0
    LowTicks = 0
    Stage2Ticks = 1
    MaxDelay = 1
    InCapacity = 1
    OutCapacity = 1
    MaxLaunches = 1
    Packets <- HeatupReadings
    Commands <- SleepCommands
INVARIANT
    NoEmptyTimerRead
