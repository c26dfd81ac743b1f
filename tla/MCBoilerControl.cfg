SPECIFICATION BSpec
CONSTANTS
    Slots = 4
    Window = 2
    BrewTarget = 210
    ServiceTarget = 240
    BrewReadings = {40, 210, 290}
    ServiceReadings = {40, 250}
INVARIANTS
    NoBoilerOverdriven
    CompetitionIsUsed
    HotBoilersRest
    ColdBoilersHeat
