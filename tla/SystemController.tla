-------------------------- MODULE SystemController --------------------------
(***************************************************************************)
(* Core 0 of the firmware: Controller/Core0/SystemController.{h,cpp}.      *)
(*                                                                         *)
(* One turn of loop() is the sequence of steps                             *)
(*     loop -> read -> commands -> control -> sleep -> loop                *)
(* (before COMMAND_BEGIN: loop -> earlyCommands -> loop), so that what     *)
(* core 1 and the control board do can fall between any two of them.       *)
(* Core 1 is the environment: it adds commands to incomingQueue and drains *)
(* outgoingQueue.  The control board is the outcome of every read.         *)
(*                                                                         *)
(* Time is measured in ticks of one 100 ms cycle and passes only in Sleep; *)
(* an optional time stamp is represented by its saturated age.             *)
(*                                                                         *)
(* The control signals of the two boilers are arbitrary members of the     *)
(* range the controllers can return: their arithmetic is not modelled      *)
(* here.                                                                   *)
(***************************************************************************)
EXTENDS LccProtocol, TimedLatch, SsrScheduler

CONSTANTS
    UnbailTicks,     \* 2 s of answers end a soft bail
    TankTicks,       \* threshold of waterTankEmptyLatch, 1000 ms
    LowTicks,        \* threshold of serviceBoilerLowLatch, 500 ms
    Stage2Ticks,     \* 4 minutes in the second stage of the heat-up
    MaxDelay,        \* ticks a cycle may last: 2 when the UART had to be cleared
    InCapacity,      \* capacity of incomingQueue; 100 in main()
    OutCapacity,     \* capacity of outgoingQueue; 100 in main()
    Packets,         \* the valid readings the control board may send
    Commands,        \* the commands core 1 may send, COMMAND_BEGIN apart
    MaxLaunches      \* bound on the launches of core 1, each sends COMMAND_BEGIN

-----------------------------------------------------------------------------
(* Data types.                                                             *)

InternalStates == {"NOT_STARTED_YET", "RUNNING", "SOFT_BAIL", "HARD_BAIL"}

RunStates == {"UNDETERMINED", "HEATUP_STAGE_1", "HEATUP_STAGE_2", "NORMAL"}

BailReasons == {"NONE", "CB_UNRESPONSIVE", "CB_PACKET_INVALID",
                "LCC_PACKET_INVALID", "SSR_QUEUE_EMPTY", "FORCED"}

FlowModes == {"PUMP_ON_SOLENOID_OPEN", "PUMP_ON_SOLENOID_CLOSED",
              "PUMP_OFF_SOLENOID_OPEN", "PUMP_OFF_SOLENOID_CLOSED"}

\* Brew boiler temperature as the heat-up automation tells it apart:
\* cold is below 65 C, hot is above 128 C.
Temperatures == {"cold", "warm", "hot"}

ControlBoardParsedPackets ==
    [brew_switch: BOOLEAN, water_tank_empty: BOOLEAN, service_boiler_low: BOOLEAN,
     brew_boiler_temperature: Temperatures]

\* The outcome of the last uart_read_blocking_timeout and validate_raw_packet.
\* "overheat": a well-formed packet whose only fault is a temperature above
\* the limit (140 C brew, 150 C service); "corrupt": any other rejected packet.
Outcomes == {"none", "timeout", "corrupt", "overheat", "valid"}

Settings ==
    [brewTemperatureTarget: Int, brewTemperatureOffset: Int,
     serviceTemperatureTarget: Int, sleepMode: BOOLEAN, ecoMode: BOOLEAN]

DefaultSettings ==
    [brewTemperatureTarget |-> 105, brewTemperatureOffset |-> -10,
     serviceTemperatureTarget |-> 120, sleepMode |-> FALSE, ecoMode |-> FALSE]

FloatCommandTypes == {"SET_BREW_SET_POINT", "SET_OFFSET_BREW_SET_POINT",
                      "SET_BREW_OFFSET", "SET_SERVICE_SET_POINT"}
BoolCommandTypes  == {"SET_ECO_MODE", "SET_SLEEP_MODE"}
\* Handled without an effect on anything modelled here.
InertCommandTypes == {"SET_BREW_PID_PARAMETERS", "SET_SERVICE_PID_PARAMETERS",
                      "SET_AUTO_SLEEP_MINUTES", "TRIGGER_FIRST_RUN"}

\* What SettingsManager sends; core 1 sends the rest from main1 only.
SettingTypes == FloatCommandTypes \cup BoolCommandTypes \cup InertCommandTypes

Begin == [type |-> "BEGIN"]

CoreOneCommands ==
    [type: FloatCommandTypes, float1: Int]
      \cup [type: BoolCommandTypes, bool1: BOOLEAN]
      \cup [type: {"SET_FLOW_MODE"}, int1: FlowModes]
      \cup [type: InertCommandTypes \cup {"UNBAIL", "FORCE_HARD_BAIL"}]

SystemControllerCommands == CoreOneCommands \cup {Begin}

\* What core 1 acts upon in a status message.
StatusMessages ==
    [currentlyBrewing: BOOLEAN, waterTankLow: BOOLEAN,
     currentlyFillingServiceBoiler: BOOLEAN, internalState: InternalStates]

ASSUME SystemControllerAssumption ==
    /\ UnbailTicks \in Nat /\ TankTicks \in Nat /\ LowTicks \in Nat /\ Stage2Ticks \in Nat
    /\ MaxDelay \in Nat \ {0}
    /\ InCapacity \in Nat \ {0} /\ OutCapacity \in Nat \ {0}
    /\ MaxLaunches \in Nat
    /\ Packets \subseteq ControlBoardParsedPackets
    /\ Commands \subseteq CoreOneCommands

-----------------------------------------------------------------------------
VARIABLES
    pc,                     \* where loop() is
    internalState, runState, bail_reason,
    unbailTimer, heatupStage2Timer,
    brewStartedAt,          \* has_value() of the optional
    parsed,                 \* currentControlBoardParsedPacket
    rx,                     \* outcome of the last read
    lcc,                    \* currentLccParsedPacket
    wire,                   \* the last frame written to the control board
    ssrStateQueue,
    waterTankEmptyLatch, serviceBoilerLowLatch,
    flowMode, settings,
    setPoints,              \* of the two boiler controllers
    incomingQueue, outgoingQueue,
    launches                \* launches of core 1 so far

bailVars    == <<internalState, runState, bail_reason, unbailTimer, heatupStage2Timer>>
controlVars == <<brewStartedAt, lcc, ssrStateQueue, waterTankEmptyLatch, serviceBoilerLowLatch>>
configVars  == <<flowMode, settings, setPoints>>
queueVars   == <<incomingQueue, outgoingQueue, launches>>

vars == <<pc, bailVars, parsed, rx, wire, controlVars, configVars, queueVars>>

-----------------------------------------------------------------------------
(* The inline predicates of the class.  A definition that is introduced as  *)
(* a slip is a plausible bug in the one that follows it: nothing uses it    *)
(* but the experiments that show a property would notice.                   *)

\* Slip: a soft bail is no bail.
BailedHardOnly(state)      == state = "HARD_BAIL"
Bailed(state)              == state \in {"SOFT_BAIL", "HARD_BAIL"}
OnlySendSafePackages(state) == Bailed(state) \/ state = "NOT_STARTED_YET"
ForceHysteresis            == runState \in {"HEATUP_STAGE_1", "HEATUP_STAGE_2"}

\* updateControllerSettings: the set points for given settings and run state.
SetPointsFor(s, run) ==
    CASE s.sleepMode -> [brew |-> 70, service |-> 0]
      [] ~s.sleepMode /\ run = "HEATUP_STAGE_1" -> [brew |-> 130, service |-> 0]
      [] ~s.sleepMode /\ run = "HEATUP_STAGE_2" ->
            [brew |-> 130, service |-> s.serviceTemperatureTarget]
      [] OTHER -> [brew |-> s.brewTemperatureTarget, service |-> s.serviceTemperatureTarget]

\* softBail keeps a hard bail and the first reason.  Slip: it does not.
AlwaysSoftBailed(state) == "SOFT_BAIL"
SoftBailed(state) == IF state = "HARD_BAIL" THEN "HARD_BAIL" ELSE "SOFT_BAIL"
FirstReason(reason) == IF bail_reason = "NONE" THEN reason ELSE bail_reason

-----------------------------------------------------------------------------
(* The state after power-on.  currentControlBoardParsedPacket has no       *)
(* initialiser: its first value is whatever the heap held.                 *)

Init ==
    /\ pc = "loop"
    /\ internalState = "NOT_STARTED_YET" /\ runState = "UNDETERMINED" /\ bail_reason = "NONE"
    /\ unbailTimer = NotSet /\ heatupStage2Timer = NotSet
    /\ brewStartedAt = FALSE
    /\ parsed \in ControlBoardParsedPackets
    /\ rx = "none"
    /\ lcc = LccParsedPacket
    /\ wire = create_safe_packet
    /\ ssrStateQueue = <<>>
    /\ waterTankEmptyLatch = NewLatch /\ serviceBoilerLowLatch = NewLatch
    /\ flowMode = "PUMP_ON_SOLENOID_OPEN"
    /\ settings = DefaultSettings
    /\ setPoints = [brew |-> 20, service |-> 20]
    /\ incomingQueue = <<>> /\ outgoingQueue = <<>>
    /\ launches = 0

-----------------------------------------------------------------------------
(* Writing to the control board.                                           *)

\* loop() before COMMAND_BEGIN: the safe frame, once a second.  No timer is
\* set in this state, so the second needs no tick.
SendSafePacketNoWait ==
    /\ pc = "loop"
    /\ internalState = "NOT_STARTED_YET"
    /\ wire' = create_safe_packet
    /\ pc' = "earlyCommands"
    /\ UNCHANGED <<bailVars, parsed, rx, controlVars, configVars, queueVars>>

\* sendLccPacket: validates its own frame before it goes out.
SendLccPacket ==
    /\ pc = "loop"
    /\ internalState # "NOT_STARTED_YET"
    /\ LET raw   == convert_lcc_parsed_to_raw(lcc)
           valid == validate_lcc_raw_packet(raw) = {}
       IN  /\ internalState' = IF valid THEN internalState ELSE "HARD_BAIL"
           /\ bail_reason' = IF valid THEN bail_reason ELSE "LCC_PACKET_INVALID"
           /\ wire' = IF OnlySendSafePackages(internalState') THEN create_safe_packet ELSE raw
    /\ pc' = "read"
    /\ UNCHANGED <<runState, unbailTimer, heatupStage2Timer, parsed, rx, controlVars,
                   configVars, queueVars>>

-----------------------------------------------------------------------------
(* Reading the answer of the control board.                                *)

\* More than two seconds of answers.  Slip: exactly two are enough.
QuarantineNearlyOver == unbailTimer >= UnbailTicks
QuarantineOver       == unbailTimer > UnbailTicks

\* unbail().  Slips: the reason is kept, the state is kept, the run state is kept.
LeaveBailWithReason ==
    /\ internalState' = "RUNNING" /\ runState' = "UNDETERMINED"
    /\ unbailTimer' = NotSet /\ UNCHANGED bail_reason
LeaveBailInState ==
    /\ runState' = "UNDETERMINED" /\ bail_reason' = "NONE" /\ unbailTimer' = NotSet
    /\ UNCHANGED internalState
LeaveBailInRunState ==
    /\ internalState' = "RUNNING" /\ bail_reason' = "NONE" /\ unbailTimer' = NotSet
    /\ UNCHANGED runState
LeaveBail ==
    /\ internalState' = "RUNNING" /\ runState' = "UNDETERMINED"
    /\ bail_reason' = "NONE" /\ unbailTimer' = NotSet

\* The soft-bail branch of loop() when something was received: two seconds
\* of answers, valid or not, end the soft bail.
Answered(reason) ==
    IF unbailTimer = NotSet
      THEN /\ unbailTimer' = 0
           /\ internalState' = "SOFT_BAIL" /\ bail_reason' = reason
           /\ UNCHANGED runState
    ELSE IF QuarantineOver THEN LeaveBail
      ELSE /\ internalState' = "SOFT_BAIL" /\ bail_reason' = reason
           /\ UNCHANGED <<runState, unbailTimer>>

\* No complete packet within 100 ms.
ReadTimeout ==
    /\ pc = "read"
    /\ rx' = "timeout"
    /\ internalState' = SoftBailed(internalState)
    /\ bail_reason' = FirstReason("CB_UNRESPONSIVE")
    /\ unbailTimer' = IF internalState' = "SOFT_BAIL" THEN NotSet ELSE unbailTimer
    /\ pc' = "commands"
    /\ UNCHANGED <<runState, heatupStage2Timer, parsed, wire, controlVars, configVars, queueVars>>

\* A complete packet that validate_raw_packet rejects: the soft bail starts or
\* goes on, and the packet still counts as an answer.
ReadInvalid(outcome) ==
    /\ pc = "read"
    /\ outcome \in {"corrupt", "overheat"}
    /\ rx' = outcome
    /\ IF internalState = "HARD_BAIL"
         THEN /\ bail_reason' = FirstReason("CB_PACKET_INVALID")
              /\ UNCHANGED <<internalState, runState, unbailTimer>>
         ELSE Answered(FirstReason("CB_PACKET_INVALID"))
    /\ pc' = "commands"
    /\ UNCHANGED <<heatupStage2Timer, parsed, wire, controlVars, configVars, queueVars>>

\* A valid packet while bailed is not parsed.
ReadBailed ==
    /\ pc = "read"
    /\ Bailed(internalState)
    /\ rx' = "valid"
    /\ IF internalState = "SOFT_BAIL"
         THEN Answered(bail_reason)
         ELSE UNCHANGED <<internalState, runState, bail_reason, unbailTimer>>
    /\ pc' = "commands"
    /\ UNCHANGED <<heatupStage2Timer, parsed, wire, controlVars, configVars, queueVars>>

-----------------------------------------------------------------------------
(* handleRunningStateAutomations: the heat-up, on every valid packet while *)
(* running.                                                                *)

EnterRunState(run) == runState' = run /\ setPoints' = SetPointsFor(settings, run)

\* RUN_STATE_UNDETEMINED: heat up from cold, otherwise run normally.  The
\* latter leaves the set points to the end of handleCommands.
DetermineRunState(p) ==
    /\ runState = "UNDETERMINED"
    /\ IF settings.brewTemperatureTarget > 80 /\ p.brew_boiler_temperature = "cold"
         THEN EnterRunState("HEATUP_STAGE_1")
         ELSE runState' = "NORMAL" /\ UNCHANGED setPoints
    /\ pc' = "commands"
    /\ UNCHANGED heatupStage2Timer

TransitionToHeatupStage2(p) ==
    /\ runState = "HEATUP_STAGE_1"
    /\ p.brew_boiler_temperature = "hot"
    /\ EnterRunState("HEATUP_STAGE_2")
    /\ heatupStage2Timer' = 0
    /\ pc' = "commands"

\* heatupStage2Timer.value() throws when the optional is empty; nothing
\* catches it and core 0 stops.
ReadEmptyStage2Timer ==
    /\ runState = "HEATUP_STAGE_2"
    /\ heatupStage2Timer = NotSet
    /\ pc' = "panicked"
    /\ UNCHANGED <<runState, heatupStage2Timer, setPoints>>

\* Slip: the heat-up begins again.
FinishHeatupInStage1 ==
    /\ runState = "HEATUP_STAGE_2"
    /\ heatupStage2Timer # NotSet /\ heatupStage2Timer > Stage2Ticks
    /\ EnterRunState("HEATUP_STAGE_1")
    /\ heatupStage2Timer' = NotSet
    /\ pc' = "commands"

FinishHeatup ==
    /\ runState = "HEATUP_STAGE_2"
    /\ heatupStage2Timer # NotSet /\ heatupStage2Timer > Stage2Ticks
    /\ EnterRunState("NORMAL")
    /\ heatupStage2Timer' = NotSet
    /\ pc' = "commands"

KeepRunState(p) ==
    /\ \/ runState = "NORMAL"
       \/ runState = "HEATUP_STAGE_1" /\ p.brew_boiler_temperature # "hot"
       \/ runState = "HEATUP_STAGE_2" /\ heatupStage2Timer # NotSet
            /\ heatupStage2Timer =< Stage2Ticks
    /\ pc' = "commands"
    /\ UNCHANGED <<runState, heatupStage2Timer, setPoints>>

ReadRunning(p) ==
    /\ pc = "read"
    /\ internalState = "RUNNING"
    /\ rx' = "valid"
    /\ parsed' = p
    /\ \/ DetermineRunState(p)
       \/ TransitionToHeatupStage2(p)
       \/ ReadEmptyStage2Timer
       \/ FinishHeatup
       \/ KeepRunState(p)
    /\ UNCHANGED <<internalState, bail_reason, unbailTimer, wire, controlVars, flowMode,
                   settings, queueVars>>

-----------------------------------------------------------------------------
(* handleCommands: one step per command, the queue being read again before *)
(* each.                                                                   *)

HandlingCommands == pc \in {"commands", "earlyCommands"}

RemoveCommand(types) ==
    /\ HandlingCommands
    /\ incomingQueue # <<>>
    /\ Head(incomingQueue).type \in types
    /\ incomingQueue' = Tail(incomingQueue)
    /\ UNCHANGED <<pc, parsed, rx, wire, controlVars, outgoingQueue, launches>>

WithFloat(s, c) ==
    CASE c.type = "SET_BREW_SET_POINT" -> [s EXCEPT !.brewTemperatureTarget = c.float1]
      [] c.type = "SET_OFFSET_BREW_SET_POINT" ->
            [s EXCEPT !.brewTemperatureTarget = c.float1 - s.brewTemperatureOffset]
      [] c.type = "SET_BREW_OFFSET" -> [s EXCEPT !.brewTemperatureOffset = c.float1]
      [] c.type = "SET_SERVICE_SET_POINT" -> [s EXCEPT !.serviceTemperatureTarget = c.float1]

SetTemperature ==
    /\ RemoveCommand(FloatCommandTypes)
    /\ settings' = WithFloat(settings, Head(incomingQueue))
    /\ UNCHANGED <<bailVars, flowMode, setPoints>>

SetEcoMode ==
    /\ RemoveCommand({"SET_ECO_MODE"})
    /\ settings' = [settings EXCEPT !.ecoMode = Head(incomingQueue).bool1]
    /\ UNCHANGED <<bailVars, flowMode, setPoints>>

\* setSleepMode, with onSleepModeEntered.
SetSleepMode ==
    /\ RemoveCommand({"SET_SLEEP_MODE"})
    /\ LET sleep == Head(incomingQueue).bool1
       IN  /\ heatupStage2Timer' = IF sleep /\ runState = "HEATUP_STAGE_2"
                                     THEN NotSet ELSE heatupStage2Timer
           /\ settings' = [settings EXCEPT !.sleepMode = sleep]
    /\ setPoints' = SetPointsFor(settings', runState)
    /\ UNCHANGED <<internalState, runState, bail_reason, unbailTimer, flowMode>>

SetFlowMode ==
    /\ RemoveCommand({"SET_FLOW_MODE"})
    /\ flowMode' = Head(incomingQueue).int1
    /\ UNCHANGED <<bailVars, settings, setPoints>>

Unbail ==
    /\ RemoveCommand({"UNBAIL"})
    /\ LeaveBail
    /\ UNCHANGED <<heatupStage2Timer, configVars>>

\* COMMAND_BEGIN: running, whatever the state was; nothing else is reset.
BeginRunning ==
    /\ RemoveCommand({"BEGIN"})
    /\ internalState' = "RUNNING"
    /\ UNCHANGED <<runState, bail_reason, unbailTimer, heatupStage2Timer, configVars>>

ForceHardBail ==
    /\ RemoveCommand({"FORCE_HARD_BAIL"})
    /\ internalState' = "HARD_BAIL" /\ bail_reason' = "FORCED"
    /\ UNCHANGED <<runState, unbailTimer, heatupStage2Timer, configVars>>

IgnoreCommand ==
    /\ RemoveCommand(InertCommandTypes)
    /\ UNCHANGED <<bailVars, configVars>>

\* The queue is empty: the trailing updateControllerSettings().
FinishCommands ==
    /\ HandlingCommands
    /\ incomingQueue = <<>>
    /\ setPoints' = SetPointsFor(settings, runState)
    /\ pc' = IF pc = "commands" THEN "control" ELSE "loop"
    /\ UNCHANGED <<bailVars, parsed, rx, wire, controlVars, flowMode, settings, queueVars>>

HandleCommands ==
    \/ SetTemperature \/ SetEcoMode \/ SetSleepMode \/ SetFlowMode
    \/ Unbail \/ BeginRunning \/ ForceHardBail \/ IgnoreCommand
    \/ FinishCommands

-----------------------------------------------------------------------------
(* handleControlBoardPacket.                                               *)

\* The range of the two control signals.  Hysteresis returns all or nothing;
\* the service boiler is never asked to reach 0 C.
BrewSignals    == IF ForceHysteresis THEN {0, Slots} ELSE 0..Slots
ServiceSignals == IF setPoints.service = 0 THEN {0} ELSE {0, Slots}

\* updateForFlowMode
ForFlowMode(packet) ==
    [packet EXCEPT
        !.pump_on = flowMode \in {"PUMP_ON_SOLENOID_OPEN", "PUMP_ON_SOLENOID_CLOSED"},
        !.water_line_solenoid_open =
            flowMode \in {"PUMP_ON_SOLENOID_OPEN", "PUMP_OFF_SOLENOID_OPEN"}]

\* Slip: the pump follows the flow mode of the last brew.
FillInFlowMode(packet) == [ForFlowMode(packet) EXCEPT !.service_boiler_solenoid_open = TRUE]

FillServiceBoiler(packet) ==
    [packet EXCEPT !.pump_on = TRUE, !.water_line_solenoid_open = TRUE,
                   !.service_boiler_solenoid_open = TRUE]

\* The brew switch is followed unless a brew would have to start dry.
Brewing(p, tankEmpty) == p.brew_switch /\ (brewStartedAt \/ ~tankEmpty)

\* Filling the service boiler yields to a brew, also to one that just ends.
\* Slip: a filling that has begun goes on.
FillingGoesOn(p, tankEmpty, low) ==
    ~brewStartedAt /\ ~tankEmpty /\ ~p.brew_switch /\ (low \/ lcc.service_boiler_solenoid_open)
Filling(p, tankEmpty, low) == ~brewStartedAt /\ ~tankEmpty /\ ~p.brew_switch /\ low

\* Slip: an "else if" that became an "if".
WithWaterForBoth(p, tankEmpty, low) ==
    LET water == IF Brewing(p, tankEmpty) THEN ForFlowMode(LccParsedPacket) ELSE LccParsedPacket
    IN  IF ~tankEmpty /\ low THEN FillServiceBoiler(water) ELSE water

WithWater(p, tankEmpty, low) ==
    IF Brewing(p, tankEmpty) THEN ForFlowMode(LccParsedPacket)
    ELSE IF Filling(p, tankEmpty, low) THEN FillServiceBoiler(LccParsedPacket)
    ELSE LccParsedPacket

WithSsr(packet, state) ==
    [packet EXCEPT !.brew_boiler_ssr_on = (state = "BREW_BOILER_SSR_ON"),
                   !.service_boiler_ssr_on = (state = "SERVICE_BOILER_SSR_ON")]

HandleControlBoardPacket(bbSignal, sbSignal) ==
    LET tank    == LatchSet(waterTankEmptyLatch, parsed.water_tank_empty, TankTicks)
        low     == LatchSet(serviceBoilerLowLatch, parsed.service_boiler_low, LowTicks)
        brewing == Brewing(parsed, tank.currentState)
        water   == WithWater(parsed, tank.currentState, low.currentState)
        queue   == Refilled(ssrStateQueue, bbSignal,
                            IF settings.ecoMode THEN 0 ELSE sbSignal, brewing)
    IN  /\ waterTankEmptyLatch' = tank
        /\ serviceBoilerLowLatch' = low
        /\ brewStartedAt' = brewing
        /\ IF queue = <<>>
             THEN /\ lcc' = water
                  /\ internalState' = "HARD_BAIL" /\ bail_reason' = "SSR_QUEUE_EMPTY"
                  /\ UNCHANGED ssrStateQueue
             ELSE /\ lcc' = WithSsr(water, Head(queue))
                  /\ ssrStateQueue' = Tail(queue)
                  /\ UNCHANGED <<internalState, bail_reason>>

StatusMessage(packet, state) ==
    [currentlyBrewing |-> ~Bailed(state) /\ parsed.brew_switch,
     waterTankLow     |-> ~Bailed(state) /\ parsed.water_tank_empty,
     currentlyFillingServiceBoiler |-> packet.pump_on /\ packet.service_boiler_solenoid_open,
     internalState    |-> state]

\* The end of loop(): the status is dropped when the queue is full.  Slip: it is not.
SendStatusAnyway(packet, state) ==
    outgoingQueue' = Append(outgoingQueue, StatusMessage(packet, state))
SendStatus(packet, state) ==
    outgoingQueue' =
        IF Len(outgoingQueue) >= OutCapacity THEN outgoingQueue
        ELSE Append(outgoingQueue, StatusMessage(packet, state))

ControlRunning(bbSignal, sbSignal) ==
    /\ pc = "control"
    /\ ~Bailed(internalState)
    /\ HandleControlBoardPacket(bbSignal, sbSignal)
    /\ SendStatus(lcc', internalState')
    /\ pc' = "sleep"
    /\ UNCHANGED <<runState, unbailTimer, heatupStage2Timer, parsed, rx, wire, configVars,
                   incomingQueue, launches>>

ControlBailed ==
    /\ pc = "control"
    /\ Bailed(internalState)
    /\ lcc' = convert_lcc_raw_to_parsed(create_safe_packet)
    /\ SendStatus(lcc', internalState)
    /\ pc' = "sleep"
    /\ UNCHANGED <<bailVars, parsed, rx, wire, brewStartedAt, ssrStateQueue,
                   waterTankEmptyLatch, serviceBoilerLowLatch, configVars,
                   incomingQueue, launches>>

\* sleep_until(timeout): d ticks since the last cycle.
Sleep(d) ==
    /\ pc = "sleep"
    /\ pc' = "loop"
    /\ unbailTimer' = Aged(unbailTimer, d, UnbailTicks + 1)
    /\ heatupStage2Timer' = Aged(heatupStage2Timer, d, Stage2Ticks + 1)
    /\ waterTankEmptyLatch' = LatchAged(waterTankEmptyLatch, d, TankTicks)
    /\ serviceBoilerLowLatch' = LatchAged(serviceBoilerLowLatch, d, LowTicks)
    /\ UNCHANGED <<internalState, runState, bail_reason, parsed, rx, wire, brewStartedAt,
                   lcc, ssrStateQueue, configVars, queueVars>>

-----------------------------------------------------------------------------
(* A stopped core 0 no longer feeds the watchdog, and the chip restarts.   *)

WatchdogReset ==
    /\ pc = "panicked"
    /\ pc' = "loop"
    /\ internalState' = "NOT_STARTED_YET" /\ runState' = "UNDETERMINED" /\ bail_reason' = "NONE"
    /\ unbailTimer' = NotSet /\ heatupStage2Timer' = NotSet
    /\ brewStartedAt' = FALSE
    /\ parsed' \in ControlBoardParsedPackets
    /\ rx' = "none"
    /\ lcc' = LccParsedPacket
    /\ ssrStateQueue' = <<>>
    /\ waterTankEmptyLatch' = NewLatch /\ serviceBoilerLowLatch' = NewLatch
    /\ flowMode' = "PUMP_ON_SOLENOID_OPEN"
    /\ settings' = DefaultSettings
    /\ setPoints' = [brew |-> 20, service |-> 20]
    /\ incomingQueue' = <<>> /\ outgoingQueue' = <<>>
    /\ launches' = 0
    /\ UNCHANGED wire

-----------------------------------------------------------------------------
(* Core 1, as core 0 sees it.                                              *)

AddCommand(c) ==
    /\ Len(incomingQueue) < InCapacity
    /\ incomingQueue' = Append(incomingQueue, c)
    /\ UNCHANGED <<pc, bailVars, parsed, rx, wire, controlVars, configVars, outgoingQueue>>

\* main1 starts, or starts again: COMMAND_BEGIN, lost when the queue is full.
LaunchCore1 ==
    /\ launches < MaxLaunches
    /\ launches' = launches + 1
    /\ incomingQueue' = IF Len(incomingQueue) < InCapacity
                          THEN Append(incomingQueue, Begin) ELSE incomingQueue
    /\ UNCHANGED <<pc, bailVars, parsed, rx, wire, controlVars, configVars, outgoingQueue>>

\* Settings also come from SettingsManager::initialize, before core 1 runs;
\* everything else comes from main1, after its COMMAND_BEGIN.
SendCommand(c) ==
    /\ launches > 0 \/ c.type \in SettingTypes
    /\ AddCommand(c)
    /\ UNCHANGED launches

\* main1 empties the status queue before it does anything else.
DrainStatus ==
    /\ outgoingQueue # <<>>
    /\ outgoingQueue' = <<>>
    /\ UNCHANGED <<pc, bailVars, parsed, rx, wire, controlVars, configVars, incomingQueue, launches>>

-----------------------------------------------------------------------------
Awake ==
    \/ SendSafePacketNoWait \/ SendLccPacket
    \/ ReadTimeout \/ ReadBailed
    \/ \E outcome \in {"corrupt", "overheat"} : ReadInvalid(outcome)
    \/ \E p \in Packets : ReadRunning(p)
    \/ HandleCommands
    \/ \E bb \in BrewSignals, sb \in ServiceSignals : ControlRunning(bb, sb)
    \/ ControlBailed

Core0 == Awake \/ \E d \in 1..MaxDelay : Sleep(d)

Core1 == LaunchCore1 \/ DrainStatus \/ \E c \in Commands : SendCommand(c)

Next == Core0 \/ WatchdogReset \/ Core1

Spec == Init /\ [][Next]_vars

\* Core 0 runs nothing but this loop and the watchdog is always armed.
FairSpec == Spec /\ WF_vars(Core0) /\ WF_vars(WatchdogReset)

-----------------------------------------------------------------------------
(* Properties.                                                             *)

\* The types of the fields, of the optional time stamps and of both queues.
TypeOK ==
    /\ pc \in {"loop", "earlyCommands", "read", "commands", "control", "sleep", "panicked"}
    /\ internalState \in InternalStates
    /\ runState \in RunStates
    /\ bail_reason \in BailReasons
    /\ unbailTimer \in Timestamps(UnbailTicks + 1)
    /\ heatupStage2Timer \in Timestamps(Stage2Ticks + 1)
    /\ brewStartedAt \in BOOLEAN
    /\ parsed \in ControlBoardParsedPackets
    /\ rx \in Outcomes
    /\ lcc \in LccParsedPackets
    /\ wire \in LccRawPackets
    /\ ssrStateQueue \in Seq(SsrState) /\ Len(ssrStateQueue) =< Slots
    /\ waterTankEmptyLatch \in Latches(TankTicks)
    /\ serviceBoilerLowLatch \in Latches(LowTicks)
    /\ flowMode \in FlowModes
    /\ settings \in Settings
    /\ setPoints \in [brew: Int, service: Int]
    /\ incomingQueue \in Seq(SystemControllerCommands) /\ Len(incomingQueue) =< InCapacity
    /\ outgoingQueue \in Seq(StatusMessages) /\ Len(outgoingQueue) =< OutCapacity
    /\ launches \in 0..MaxLaunches

\* While a brew is on, no frame lets water into the service boiler, whatever the
\* flow mode is and whenever it changes.
InletClosedWhileBrewing ==
    pc = "read" /\ brewStartedAt => FA7Solenoid \notin wire.shiftRegister1

\* The two internal checks of core 0 (its own frame is invalid, the slot queue
\* is empty when a slot is due) never fire: a hard bail is always a command.
SelfChecksNeverFire == bail_reason \notin {"LCC_PACKET_INVALID", "SSR_QUEUE_EMPTY"}

\* Nothing the control board sends or fails to send ends a hard bail: it takes
\* a command of core 1.
HardBailHolds ==
    [][ internalState = "HARD_BAIL" /\ internalState' # "HARD_BAIL"
          => /\ HandlingCommands /\ incomingQueue # <<>>
             /\ Head(incomingQueue).type \in {"UNBAIL", "BEGIN"} ]_vars

\* optional::value() is never called on an empty heatupStage2Timer: its contract
\* in lib/optional-bare/optional.hpp is "assert( has_value() );".  The build takes
\* std::optional instead (C++17), whose value() throws.
NoEmptyTimerRead == pc # "panicked"

\* README.md: core 0 ensures "that temperatures in the boilers never exceed safe
\* limits": while the last packet reported one above the limit, no relay is closed.
OverheatNeverHeats ==
    pc = "read" /\ rx = "overheat" =>
        /\ ServiceBoilerRelay \notin wire.shiftRegister2
        /\ BrewBoilerRelay \notin wire.shiftRegister1

\* Liveness: once the board gives nothing but valid answers and no command is
\* left, a soft bail ends and does not come back.
SoftBailEnds ==
    <>[](rx = "valid" /\ incomingQueue = <<>>) => <>[](internalState # "SOFT_BAIL")

\* Liveness: with a hot brew boiler, valid answers and no more commands, the
\* heat-up reaches its end from any of its stages.
HeatupEnds ==
    <>[](/\ rx = "valid" /\ parsed.brew_boiler_temperature = "hot"
         /\ incomingQueue = <<>>)
      => <>[](internalState = "RUNNING" => runState = "NORMAL")

-----------------------------------------------------------------------------
(* Inductive strengthenings, for SystemControllerProofs.                   *)

\* The packet kept for the next frame passes the checks of its own protocol,
\* so neither self-check can fire.
LccSound ==
    /\ ~(lcc.brew_boiler_ssr_on /\ lcc.service_boiler_ssr_on)
    /\ lcc.service_boiler_solenoid_open => lcc.pump_on

SelfCheckInv == TypeOK /\ LccSound /\ SelfChecksNeverFire

\* The controllers run with the set points of the current settings and run state.
SetPointsCurrent == pc = "control" => setPoints = SetPointsFor(settings, runState)

=============================================================================
