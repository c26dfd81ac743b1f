SPECIFICATION FairSpec
CONSTANTS
    BrewTime = 1
    StepTime = 1
    AutoSleepChoices = {0, 1}
    Messages <- AllMessages
    StatusCapacity = 1
    CommandCapacity = 1
    MaxRelaunches = 1
INVARIANTS
    TypeOK
    RoutineOnlyWhileBrewing
    FlowFollowsStep
PROPERTIES
    AutoSleepIsEarned
    RoutineEnds
    RoutineCompletes
    AutoSleepHappens
