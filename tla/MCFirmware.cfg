SPECIFICATION FairSpec
CONSTANTS
    Versions = {"old", "new"}
    Sectors = 2
    SleepTicks = 2
    WatchdogTicks = 4
    FirstReboot = 4
    NextReboot = 10
    StatusCapacity = 3
    CommandCapacity = 3
    CommandsPerTick = 2
INVARIANT
    TypeOK
PROPERTIES
    WatchdogHasCause
    NoUsbAfterWatchdog
    TurnsGoOn
    Begins
    Core1Revived
    UpdateRecovers
