SPECIFICATION HSpec
CONSTANTS
    Slots = 1
    UnbailTicks = 1
    TankTicks = 2
    LowTicks = 1
    Stage2Ticks = 0
    MaxDelay = 2
    InCapacity = 1
    OutCapacity = 1
    MaxLaunches = 1
    Packets <- WaterReadings
    Commands <- FlowCommands
INVARIANTS
    SelfChecksNeverFire
    InletClosedWhileBrewing
    FillingStops
PROPERTIES
    NeverStartsDry
    RequestsHonoured
