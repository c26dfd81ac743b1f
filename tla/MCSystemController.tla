------------------------- MODULE MCSystemController -------------------------
(***************************************************************************)
(* Small instances of SystemController for TLC: the readings of the board  *)
(* and the commands of core 1 that each question needs.                    *)
(***************************************************************************)
EXTENDS SystemController

Reading(brew, empty, low, temperature) ==
    [brew_switch |-> brew, water_tank_empty |-> empty, service_boiler_low |-> low,
     brew_boiler_temperature |-> temperature]

IdleReadings == {Reading(FALSE, FALSE, FALSE, "warm")}
WaterReadings == {Reading(b, e, l, "warm") : b \in BOOLEAN, e \in BOOLEAN, l \in BOOLEAN}
ColdAndHotReadings == {Reading(FALSE, FALSE, FALSE, t) : t \in {"cold", "hot"}}
HeatupReadings == {Reading(FALSE, FALSE, FALSE, t) : t \in Temperatures}

NoCommands == {}
ForceCommands == {[type |-> "FORCE_HARD_BAIL"]}
SleepCommands == {[type |-> "SET_SLEEP_MODE", bool1 |-> b] : b \in BOOLEAN}
FlowCommands  == {[type |-> "SET_FLOW_MODE", int1 |-> "PUMP_OFF_SOLENOID_OPEN"]}
\* Both ways of switching the service boiler off.
SlotCommands ==
    {[type |-> "SET_ECO_MODE", bool1 |-> TRUE], [type |-> "SET_SLEEP_MODE", bool1 |-> TRUE]}
\* What starts the heat-up over and leaves its settings alone.
UnbailCommands == {[type |-> "UNBAIL"]}
\* A hard bail, sleep mode, and commands that change nothing.
MixedCommands ==
    {[type |-> "FORCE_HARD_BAIL"], [type |-> "SET_SLEEP_MODE", bool1 |-> TRUE],
     [type |-> "TRIGGER_FIRST_RUN"], [type |-> "SET_ECO_MODE", bool1 |-> FALSE],
     [type |-> "SET_FLOW_MODE", int1 |-> "PUMP_ON_SOLENOID_OPEN"],
     [type |-> "SET_SERVICE_SET_POINT", float1 |-> DefaultSettings.serviceTemperatureTarget]}

=============================================================================
