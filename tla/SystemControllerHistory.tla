----------------------- MODULE SystemControllerHistory -----------------------
(***************************************************************************)
(* SystemController with history variables, and the properties that relate *)
(* a decision of core 0 to what the board has been reporting, and for how  *)
(* long.  The history variables record; they never constrain a step.       *)
(***************************************************************************)
EXTENDS SystemController, FiniteSets

VARIABLES
    quietFor,    \* ticks of soft bail since it began and since the last timeout
    tankReport,  \* [value, for]: the water_tank_empty of the packets acted on
    levelReport, \* [value, for]: the service_boiler_low of the packets acted on
    offFor,      \* running cycles in which the service boiler was to be off
    resumed,     \* a command has put core 0 into RUNNING since the last read
    leftover     \* what of an earlier bail a COMMAND_BEGIN has left in place

hvars == <<vars, quietFor, tankReport, levelReport, offFor, resumed, leftover>>

HistoryInit ==
    /\ quietFor = 0
    /\ tankReport = [value |-> FALSE, for |-> 0]
    /\ levelReport = [value |-> FALSE, for |-> 0]
    /\ offFor = 0
    /\ resumed = FALSE
    /\ leftover = {}

HInit == Init /\ HistoryInit

\* The cycles in which handleControlBoardPacket runs.
Controls == pc = "control" /\ pc' = "sleep" /\ ~Bailed(internalState)

\* A report restarts its clock when the value changes.
Reported(report, value) == IF value = report.value THEN report ELSE [value |-> value, for |-> 0]
ReportAged(report, d, cap) == [report EXCEPT !.for = Aged(report.for, d, cap + 1)]

\* Eco mode, sleep mode and the first stage of the heat-up keep the service
\* boiler off.
ServiceUnwanted == settings.ecoMode \/ settings.sleepMode \/ runState = "HEATUP_STAGE_1"

\* The commands that put core 0 into RUNNING from any state.  BEGIN comes with
\* every launch of core 1; it touches neither bail_reason nor unbailTimer.
Orders == {"BEGIN", "UNBAIL"}

Handles(types) ==
    /\ HandlingCommands /\ incomingQueue # <<>>
    /\ incomingQueue' = Tail(incomingQueue) /\ Head(incomingQueue).type \in types

LeftByBegin ==
    IF Handles({"BEGIN"}) /\ Bailed(internalState) THEN {"reason", "timer"} ELSE {}

Observe ==
    /\ quietFor' = IF internalState' # "SOFT_BAIL" \/ internalState # "SOFT_BAIL"
                        \/ (pc = "read" /\ pc' # "read" /\ rx' = "timeout")
                     THEN 0 ELSE quietFor
    /\ IF Controls
         THEN /\ tankReport' = Reported(tankReport, parsed.water_tank_empty)
              /\ levelReport' = Reported(levelReport, parsed.service_boiler_low)
              /\ offFor' = IF ~ServiceUnwanted THEN 0
                           ELSE IF offFor < Slots THEN offFor + 1 ELSE offFor
         ELSE UNCHANGED <<tankReport, levelReport, offFor>>
    /\ resumed' = IF Handles(Orders) THEN TRUE
                  ELSE IF pc = "read" /\ pc' # "read" THEN FALSE ELSE resumed
    /\ leftover' = {item \in leftover \cup LeftByBegin :
                       IF item = "reason" THEN bail_reason' # "NONE" ELSE unbailTimer' # NotSet}

Age(d) ==
    /\ quietFor' = IF internalState = "SOFT_BAIL" THEN Aged(quietFor, d, UnbailTicks + 1) ELSE 0
    /\ tankReport' = ReportAged(tankReport, d, TankTicks)
    /\ levelReport' = ReportAged(levelReport, d, LowTicks)
    /\ UNCHANGED <<offFor, resumed, leftover>>

Forget ==
    /\ quietFor' = 0
    /\ tankReport' = [value |-> FALSE, for |-> 0]
    /\ levelReport' = [value |-> FALSE, for |-> 0]
    /\ offFor' = 0
    /\ resumed' = FALSE
    /\ leftover' = {}

HNext ==
    \/ (Awake \/ Core1) /\ Observe
    \/ \E d \in 1..MaxDelay : Sleep(d) /\ Age(d)
    \/ WatchdogReset /\ Forget

HSpec == HInit /\ [][HNext]_hvars

-----------------------------------------------------------------------------
(* Properties.                                                             *)

\* No brew starts, and no filling goes on, once the tank has been reported
\* empty for more than the latch's threshold, whatever bails lay in between.
NeverStartsDry ==
    [][ Controls /\ tankReport'.value /\ tankReport'.for > TankTicks
          => ~(~brewStartedAt /\ brewStartedAt') /\ ~lcc'.service_boiler_solenoid_open ]_hvars

\* The service boiler is not filled on after its probe has reported water for
\* more than the latch's threshold: it cannot be overfilled by a stale latch.
FillingStops ==
    pc = "sleep" /\ lcc.service_boiler_solenoid_open
      => levelReport.value \/ levelReport.for =< LowTicks

\* With water reported for longer than the threshold a brew is never refused,
\* and a service boiler low for longer than its own threshold is filled unless
\* there is a brew.
RequestsHonoured ==
    [][ Controls /\ ~tankReport'.value /\ tankReport'.for > TankTicks
          => /\ parsed.brew_switch => brewStartedAt'
             /\ levelReport'.value /\ levelReport'.for > LowTicks
                  /\ ~brewStartedAt /\ ~parsed.brew_switch
                => lcc'.service_boiler_solenoid_open ]_hvars

\* Slots queued before eco mode, sleep or the first heat-up stage are used up
\* within one period: after it the service relay stays open.
ServiceSlotsExpire == pc = "sleep" /\ offFor >= Slots => ~lcc.service_boiler_ssr_on

\* An exchange with the board that was not answered is followed by a safe frame,
\* unless a command of core 1 has put core 0 into RUNNING in between: a relaunch
\* of core 1 does (SystemController.cpp:345), and so would COMMAND_UNBAIL.
TimeoutSilences ==
    pc = "read" /\ rx = "timeout" /\ ~resumed => wire = create_safe_packet

\* A bail that ends by itself, or by COMMAND_UNBAIL, leaves neither its reason nor
\* its timer behind, so that the next one starts with its own reason and a full
\* quarantine: what is there while not bailed is what a COMMAND_BEGIN has left.
BailIsForgotten ==
    /\ Bailed(internalState) => bail_reason # "NONE"
    /\ ~Bailed(internalState) /\ bail_reason # "NONE" => "reason" \in leftover
    /\ ~Bailed(internalState) /\ unbailTimer # NotSet => "timer" \in leftover

\* Core 0 heats although the last packet was too hot.
HeatsHot ==
    /\ pc = "read" /\ rx = "overheat"
    /\ \/ ServiceBoilerRelay \in wire.shiftRegister2
       \/ BrewBoilerRelay \in wire.shiftRegister1

\* After a packet above the limit a relay is closed only out of a bail: one that
\* has just ended by itself, which leaves the run state undetermined until the
\* next valid packet, or one that a command has ended since.
HeatsOnlyOutOfBail ==
    HeatsHot => internalState = "RUNNING" /\ (runState = "UNDETERMINED" \/ resumed)

\* The controller implements the interlock.
ClosedRelays(raw) ==
    (IF BrewBoilerRelay \in raw.shiftRegister1 THEN {"brew"} ELSE {})
      \cup (IF ServiceBoilerRelay \in raw.shiftRegister2 THEN {"service"} ELSE {})

OrdersIn(queue) == {i \in 1..Len(queue) : queue[i].type \in Orders}
Pending == Cardinality(OrdersIn(incomingQueue))
TimerStale == "timer" \in leftover

Interlock == INSTANCE SafetyInterlock WITH
    Quarantine <- UnbailTicks, mode <- internalState, relays <- ClosedRelays(wire),
    quiet <- quietFor, orders <- Pending, stale <- TimerStale

ImplementsInterlock == Interlock!ISpec

=============================================================================
