SPECIFICATION HSpec
CONSTANTS
    Slots = 2
    UnbailTicks = 0
    TankTicks = 0
    LowTicks = 0
    Stage2Ticks = 0
    MaxDelay = 1
    InCapacity = 1
    OutCapacity = 1
    MaxLaunches = 1
    Packets <- ColdAndHotReadings
    Commands <- SlotCommands
INVARIANTS
    ServiceSlotsExpire
