---------------------------- MODULE BoilerControl ----------------------------
(***************************************************************************)
(* How the readings of the two boilers become relay slots: the moving      *)
(* averages, the hysteresis controller of the service boiler and the       *)
(* hybrid controller of the brew boiler (PID near the set point,           *)
(* hysteresis elsewhere and during the heat-up), and the periods of        *)
(* SsrPeriods.  Temperatures are in half degrees Celsius.                  *)
(*                                                                         *)
(* The PID controller returns anything from 0 to Slots: its gains are the  *)
(* user's, and its first derivative is over a time stamp nobody has set.   *)
(* A run state that is still UNDETERMINED counts as NORMAL.                *)
(***************************************************************************)
EXTENDS SsrPeriods, Functions

CONSTANTS
    Window,                                \* of the moving averages; 5 readings
    BrewTarget, ServiceTarget,             \* of the settings
    BrewReadings, ServiceReadings          \* that TLC tries

ASSUME BoilerControlAssumption ==
    /\ Window \in Nat \ {0}
    /\ {BrewTarget, ServiceTarget} \cup BrewReadings \cup ServiceReadings \subseteq Int

\* The deltas of the constructors, SystemController.cpp:23.
HybridDelta == 40
BrewDelta == 4
ServiceDelta == 1

VARIABLES
    runState, sleepMode, ecoMode,
    brewTempAverage, serviceTempAverage,    \* the readings they are taken of
    brewHysteresis, serviceHysteresis,      \* HysteresisController::state
    brewHeld, serviceHeld                   \* cycles without a change of the last reading
                                            \* or of the settings

modeVars == <<runState, sleepMode, ecoMode>>
sensorVars == <<brewTempAverage, serviceTempAverage, brewHysteresis, serviceHysteresis>>
bvars == <<pvars, modeVars, sensorVars, brewHeld, serviceHeld>>

-----------------------------------------------------------------------------
(* MovingAverage.                                                          *)

AddValue(window, value) ==
    IF Len(window) < Window THEN Append(window, value) ELSE Append(Tail(window), value)

Sum(window) == FoldFunction(LAMBDA a, b : a + b, 0, window)

\* average() against a bound; the doubles are exact enough.
Below(window, bound) == Sum(window) < bound * Len(window)
Above(window, bound) == Sum(window) > bound * Len(window)

-----------------------------------------------------------------------------
(* The controllers.                                                        *)

\* Slip: a controller that has once turned off stays off.
HysteresisOnce(state, window, setPoint, delta) ==
    IF state = "ASCENDING" /\ Below(window, setPoint + delta) THEN "ASCENDING" ELSE "DESCENDING"

\* The state of HysteresisController after getControlSignal, and its signal.
Hysteresis(state, window, setPoint, delta) ==
    CASE state = "ASCENDING"  -> IF Below(window, setPoint + delta) THEN state ELSE "DESCENDING"
      [] state = "DESCENDING" -> IF Above(window, setPoint - delta) THEN state ELSE "ASCENDING"

HysteresisSignal(state) == IF state = "ASCENDING" THEN Slots ELSE 0

\* What updateControllerSettings hands to the controllers.
HeatingUp == runState \in {"HEATUP_STAGE_1", "HEATUP_STAGE_2"}
BrewSetPoint ==
    CASE sleepMode -> 140
      [] ~sleepMode /\ HeatingUp -> 260
      [] OTHER -> BrewTarget
ServiceSetPoint == IF sleepMode \/ runState = "HEATUP_STAGE_1" THEN 0 ELSE ServiceTarget

\* Slip: nothing bounds the PID from above.
NearAbove(window) == ~HeatingUp /\ Above(window, BrewSetPoint - HybridDelta)

\* The PID is in charge; the heat-up forces hysteresis.
NearSetPoint(window) ==
    /\ ~HeatingUp
    /\ Above(window, BrewSetPoint - HybridDelta)
    /\ Below(window, BrewSetPoint + HybridDelta)

HybridSignals(window, state) ==
    IF NearSetPoint(window) THEN 0..Slots ELSE {HysteresisSignal(state)}

-----------------------------------------------------------------------------
BInit ==
    /\ PInit
    /\ runState = "NORMAL" /\ sleepMode = FALSE /\ ecoMode = FALSE
    /\ brewTempAverage = <<>> /\ serviceTempAverage = <<>>
    /\ brewHysteresis = "ASCENDING" /\ serviceHysteresis = "ASCENDING"
    /\ brewHeld = 0 /\ serviceHeld = 0

HeldCap == Window + 2 * Slots
Holds(held, same) == IF ~same THEN 1 ELSE IF held < HeldCap THEN held + 1 ELSE held
Last(window) == window[Len(window)]

\* handleControlBoardPacket: the averages take their readings in every cycle, the
\* controllers are asked for a signal when a period begins.
Cycle(brewReading, serviceReading, brew) ==
    /\ brewTempAverage' = AddValue(brewTempAverage, brewReading)
    /\ serviceTempAverage' = AddValue(serviceTempAverage, serviceReading)
    /\ brewHeld' = Holds(brewHeld, brewTempAverage # <<>> /\ brewReading = Last(brewTempAverage))
    /\ serviceHeld' =
          Holds(serviceHeld, serviceTempAverage # <<>> /\ serviceReading = Last(serviceTempAverage))
    /\ UNCHANGED modeVars
    /\ IF ssrStateQueue = <<>>
         THEN /\ brewHysteresis' =
                    Hysteresis(brewHysteresis, brewTempAverage', BrewSetPoint, BrewDelta)
              /\ serviceHysteresis' =
                    Hysteresis(serviceHysteresis, serviceTempAverage', ServiceSetPoint, ServiceDelta)
              /\ \E bb \in HybridSignals(brewTempAverage', brewHysteresis') :
                    ControlCycle(bb, IF ecoMode THEN 0 ELSE HysteresisSignal(serviceHysteresis'), brew)
         ELSE UNCHANGED <<brewHysteresis, serviceHysteresis>> /\ ControlCycle(0, 0, brew)

\* A command, or the heat-up automation, between two cycles.
ChangeMode(r, s, e) ==
    /\ runState' = r /\ sleepMode' = s /\ ecoMode' = e
    /\ modeVars' # modeVars
    /\ brewHeld' = 0 /\ serviceHeld' = 0
    /\ UNCHANGED <<pvars, sensorVars>>

BNext ==
    \/ \E r \in BrewReadings, s \in ServiceReadings, brew \in BOOLEAN : Cycle(r, s, brew)
    \/ \E r \in {"HEATUP_STAGE_1", "HEATUP_STAGE_2", "NORMAL"},
          s \in BOOLEAN, e \in BOOLEAN : ChangeMode(r, s, e)

BSpec == BInit /\ [][BNext]_bvars

-----------------------------------------------------------------------------
(* Properties.                                                             *)

\* Types; the averages keep their window (MovingAverage).
TypeOK ==
    /\ Len(ssrStateQueue) =< Slots /\ bbSignal \in 0..Slots /\ sbSignal \in {0, Slots}
    /\ brewTempAverage \in Seq(BrewReadings) /\ Len(brewTempAverage) =< Window
    /\ serviceTempAverage \in Seq(ServiceReadings) /\ Len(serviceTempAverage) =< Window
    /\ {brewHysteresis, serviceHysteresis} \subseteq {"ASCENDING", "DESCENDING"}
    /\ brewHeld \in 0..HeldCap /\ serviceHeld \in 0..HeldCap

\* Outside of this band around the set point the brew boiler is fully on or off.
BrewBand == IF HeatingUp THEN BrewDelta ELSE HybridDelta

\* The averages and the signal of the period in course are those of a reading that
\* has lasted.
Lasted(held) == held >= Window + Slots - 1

\* A boiler that has been above its band for a window and a period is not heated,
\* whatever the set points, the heat-up, sleep and eco mode were before, whatever
\* the PID and the feed-forward want and whatever state hysteresis was left in.
HotBoilersRest ==
    /\ Lasted(brewHeld) /\ Last(brewTempAverage) >= BrewSetPoint + BrewBand
         => BrewSlots = 0
    /\ Lasted(serviceHeld) /\ Last(serviceTempAverage) >= ServiceSetPoint + ServiceDelta
         => ServiceSlots = 0

\* One that has been below it that long gets its share of a period: three quarters
\* for the brew boiler, the rest for the service boiler unless a brew takes it all.
ColdBoilersHeat ==
    ssrStateQueue = <<>> =>
        /\ Lasted(brewHeld) /\ Last(brewTempAverage) =< BrewSetPoint - BrewBand
             => BrewSlots >= ThreeQuarters(Slots)
        /\ Lasted(serviceHeld) /\ Last(serviceTempAverage) =< ServiceSetPoint - ServiceDelta
             /\ ~ecoMode /\ ~brewing
             => ServiceSlots >= Slots - ThreeQuarters(Slots)

=============================================================================
