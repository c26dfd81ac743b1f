----------------------- MODULE SystemControllerProofs -----------------------
(***************************************************************************)
(* Theorems about SystemController for every value of its constants:       *)
(* type correctness, the self-checks that never fire, hard bails, the      *)
(* inlet of the service boiler, and what the empty timer depends on.       *)
(***************************************************************************)
EXTENDS SystemController, LccProtocolProofs

USE SlotsAssumption, SystemControllerAssumption

-----------------------------------------------------------------------------
(* Lemmas about the helpers.                                               *)

\* A time stamp stays within its range while it ages.
LEMMA AgedType ==
    ASSUME NEW cap \in Nat, NEW since \in Timestamps(cap), NEW d \in Nat
    PROVE  Aged(since, d, cap) \in Timestamps(cap)
BY DEF Aged, Timestamps, NotSet

\* A fresh latch is a latch.
LEMMA NewLatchType ==
    ASSUME NEW threshold \in Nat
    PROVE  NewLatch \in Latches(threshold)
BY DEF NewLatch, Latches, Timestamps, NotSet

\* Setting and ageing a latch give a latch.
LEMMA LatchType ==
    ASSUME NEW threshold \in Nat, NEW latch \in Latches(threshold),
           NEW value \in BOOLEAN, NEW d \in Nat
    PROVE  /\ LatchSet(latch, value, threshold) \in Latches(threshold)
           /\ LatchAged(latch, d, threshold) \in Latches(threshold)
<1>1. latch.changingSince \in Timestamps(threshold + 1) /\ latch.currentState \in BOOLEAN
  BY DEF Latches
<1>2. LatchSet(latch, value, threshold) \in Latches(threshold)
  BY <1>1 DEF LatchSet, Latches, Timestamps, NotSet
<1>3. Aged(latch.changingSince, d, threshold + 1) \in Timestamps(threshold + 1)
  BY <1>1, AgedType
<1>4. LatchAged(latch, d, threshold) \in Latches(threshold)
  BY <1>3 DEF LatchAged, Latches
<1> QED
  BY <1>2, <1>4

\* A period is a sequence of exactly Slots slots, so never an empty one.
LEMMA FilledQueueType ==
    ASSUME NEW share
    PROVE  /\ FilledQueue(share) \in Seq(SsrState)
           /\ Len(FilledQueue(share)) = Slots
           /\ FilledQueue(share) # <<>>
<1>1. \A i \in 1..Slots : FilledQueue(share)[i] \in SsrState
  BY DEF FilledQueue, SsrState
<1>2. FilledQueue(share) = [i \in 1..Slots |-> FilledQueue(share)[i]]
  BY DEF FilledQueue
<1>3. FilledQueue(share) \in [1..Slots -> SsrState]
  BY <1>1, <1>2
<1>4. FilledQueue(share) \in Seq(SsrState) /\ Len(FilledQueue(share)) = Slots
  BY <1>3
<1> QED
  BY <1>4

\* There is always a slot to take.
LEMMA RefilledType ==
    ASSUME NEW queue \in Seq(SsrState), Len(queue) =< Slots, NEW bb, NEW sb, NEW brewing
    PROVE  /\ Refilled(queue, bb, sb, brewing) \in Seq(SsrState)
           /\ Len(Refilled(queue, bb, sb, brewing)) =< Slots
           /\ Refilled(queue, bb, sb, brewing) # <<>>
BY FilledQueueType DEF Refilled

\* Set points are numbers.
LEMMA SetPointsType ==
    ASSUME NEW s \in Settings, NEW run
    PROVE  SetPointsFor(s, run) \in [brew: Int, service: Int]
BY DEF Settings, SetPointsFor

\* The packet of one control cycle: it keeps the boilers apart, and it runs the
\* pump whenever it opens the service boiler's inlet.
LEMMA ControlPacket ==
    ASSUME NEW p, NEW tankEmpty, NEW low, NEW state
    PROVE  LET packet == WithSsr(WithWater(p, tankEmpty, low), state)
           IN  /\ packet \in LccParsedPackets
               /\ ~(packet.brew_boiler_ssr_on /\ packet.service_boiler_ssr_on)
               /\ packet.service_boiler_solenoid_open => packet.pump_on
<1> DEFINE water == WithWater(p, tankEmpty, low)
<1>1. /\ water \in LccParsedPackets
      /\ water.service_boiler_solenoid_open => water.pump_on
  <2>1. /\ LccParsedPacket \in LccParsedPackets
        /\ LccParsedPacket.service_boiler_solenoid_open = FALSE
    BY DEF LccParsedPacket, LccParsedPackets
  <2>2. /\ ForFlowMode(LccParsedPacket) \in LccParsedPackets
        /\ ForFlowMode(LccParsedPacket).service_boiler_solenoid_open = FALSE
    <3> DEFINE on   == flowMode \in {"PUMP_ON_SOLENOID_OPEN", "PUMP_ON_SOLENOID_CLOSED"}
               open == flowMode \in {"PUMP_ON_SOLENOID_OPEN", "PUMP_OFF_SOLENOID_OPEN"}
    <3>1. on \in BOOLEAN /\ open \in BOOLEAN
      OBVIOUS
    <3>2. ForFlowMode(LccParsedPacket) =
            [LccParsedPacket EXCEPT !.pump_on = on, !.water_line_solenoid_open = open]
      BY Zenon DEF ForFlowMode
    <3> HIDE DEF on, open
    <3> QED
      BY <2>1, <3>1, <3>2 DEF LccParsedPackets
  <2>3. /\ FillServiceBoiler(LccParsedPacket) \in LccParsedPackets
        /\ FillServiceBoiler(LccParsedPacket).pump_on = TRUE
    BY <2>1 DEF FillServiceBoiler, LccParsedPackets
  <2> QED
    BY <2>1, <2>2, <2>3 DEF WithWater
<1> HIDE DEF water
<1>2. WithSsr(water, state) \in LccParsedPackets
  BY <1>1 DEF WithSsr, LccParsedPackets
<1>3. /\ ~(WithSsr(water, state).brew_boiler_ssr_on /\ WithSsr(water, state).service_boiler_ssr_on)
      /\ WithSsr(water, state).service_boiler_solenoid_open => WithSsr(water, state).pump_on
  BY <1>1 DEF WithSsr, LccParsedPackets
<1> QED
  BY <1>2, <1>3 DEF water

-----------------------------------------------------------------------------
(* Type correctness: one lemma per part of the loop.                       *)

LEMMA SetPointsNow ==
    TypeOK => \A run : SetPointsFor(settings, run) \in [brew: Int, service: Int]
<1>1. TypeOK => settings \in Settings
  BY DEF TypeOK
<1> QED
  BY <1>1, SetPointsType

LEMMA InitType == Init => TypeOK
<1> SUFFICES ASSUME Init PROVE TypeOK
  OBVIOUS
<1>1. LccParsedPacket \in LccParsedPackets
  BY DEF LccParsedPacket, LccParsedPackets
<1>2. create_safe_packet \in LccRawPackets
  BY SafePacket
<1>3. NewLatch \in Latches(TankTicks) /\ NewLatch \in Latches(LowTicks)
  BY NewLatchType
<1>4. DefaultSettings \in Settings
  BY DEF DefaultSettings, Settings
<1>5. /\ ssrStateQueue \in Seq(SsrState) /\ Len(ssrStateQueue) =< Slots
      /\ incomingQueue \in Seq(SystemControllerCommands) /\ Len(incomingQueue) =< InCapacity
      /\ outgoingQueue \in Seq(StatusMessages) /\ Len(outgoingQueue) =< OutCapacity
  BY DEF Init
<1>6. setPoints \in [brew: Int, service: Int] /\ launches \in 0..MaxLaunches
  BY DEF Init
<1> QED
  BY <1>1, <1>2, <1>3, <1>4, <1>5, <1>6
  DEF Init, TypeOK, InternalStates, RunStates, BailReasons, FlowModes, Outcomes,
      Timestamps, NotSet

LEMMA SendType == TypeOK /\ (SendSafePacketNoWait \/ SendLccPacket) => TypeOK'
<1> SUFFICES ASSUME TypeOK, SendSafePacketNoWait \/ SendLccPacket PROVE TypeOK'
  OBVIOUS
<1>1. create_safe_packet \in LccRawPackets
  BY SafePacket
<1>2. convert_lcc_parsed_to_raw(lcc) \in LccRawPackets
  BY ConvertType DEF TypeOK
<1>3. CASE SendSafePacketNoWait
  BY <1>1, <1>3 DEF SendSafePacketNoWait, TypeOK, bailVars, controlVars, configVars, queueVars
<1>4. CASE SendLccPacket
  BY <1>1, <1>2, <1>4
  DEF SendLccPacket, TypeOK, controlVars, configVars, queueVars, InternalStates, BailReasons
<1> QED
  BY <1>3, <1>4

LEMMA ReadType ==
    TypeOK /\ (\/ ReadTimeout \/ ReadBailed
               \/ \E outcome \in {"corrupt", "overheat"} : ReadInvalid(outcome)
               \/ \E p \in Packets : ReadRunning(p))
      => TypeOK'
<1> USE DEF TypeOK, controlVars, configVars, queueVars, InternalStates, RunStates,
        BailReasons, Outcomes, Timestamps, NotSet
<1>1. TypeOK /\ ReadTimeout => TypeOK'
  BY DEF ReadTimeout, SoftBailed, FirstReason
<1>2. TypeOK /\ ReadBailed => TypeOK'
  BY DEF ReadBailed, Answered, QuarantineOver, LeaveBail
<1>3. ASSUME NEW outcome \in {"corrupt", "overheat"}
      PROVE  TypeOK /\ ReadInvalid(outcome) => TypeOK'
  BY DEF ReadInvalid, Answered, QuarantineOver, LeaveBail, FirstReason
<1>4. ASSUME NEW p \in Packets, TypeOK, ReadRunning(p)
      PROVE  TypeOK'
  <2>1. \A run : SetPointsFor(settings, run) \in [brew: Int, service: Int]
    BY <1>4, SetPointsNow
  <2>2. p \in ControlBoardParsedPackets
    OBVIOUS
  <2>3. CASE DetermineRunState(p)
    BY <1>4, <2>1, <2>2, <2>3 DEF ReadRunning, DetermineRunState, EnterRunState
  <2>4. CASE TransitionToHeatupStage2(p)
    BY <1>4, <2>1, <2>2, <2>4 DEF ReadRunning, TransitionToHeatupStage2, EnterRunState
  <2>5. CASE ReadEmptyStage2Timer
    BY <1>4, <2>2, <2>5 DEF ReadRunning, ReadEmptyStage2Timer
  <2>6. CASE FinishHeatup
    BY <1>4, <2>1, <2>2, <2>6 DEF ReadRunning, FinishHeatup, EnterRunState
  <2>7. CASE KeepRunState(p)
    BY <1>4, <2>2, <2>7 DEF ReadRunning, KeepRunState
  <2> QED
    BY <1>4, <2>3, <2>4, <2>5, <2>6, <2>7 DEF ReadRunning
<1> QED
  BY <1>1, <1>2, <1>3, <1>4

\* The command at the head of the queue, with the fields of its type.
LEMMA HeadCommand ==
    ASSUME TypeOK, incomingQueue # <<>>
    PROVE  /\ Head(incomingQueue) \in SystemControllerCommands
           /\ Head(incomingQueue).type \in FloatCommandTypes => Head(incomingQueue).float1 \in Int
           /\ Head(incomingQueue).type \in BoolCommandTypes => Head(incomingQueue).bool1 \in BOOLEAN
           /\ Head(incomingQueue).type = "SET_FLOW_MODE" => Head(incomingQueue).int1 \in FlowModes
           /\ Tail(incomingQueue) \in Seq(SystemControllerCommands)
           /\ Len(Tail(incomingQueue)) =< InCapacity
<1>1. /\ Head(incomingQueue) \in SystemControllerCommands
      /\ Tail(incomingQueue) \in Seq(SystemControllerCommands)
      /\ Len(Tail(incomingQueue)) =< InCapacity
  BY DEF TypeOK
<1>2. \A c \in SystemControllerCommands :
         /\ c.type \in FloatCommandTypes => c.float1 \in Int
         /\ c.type \in BoolCommandTypes => c.bool1 \in BOOLEAN
         /\ c.type = "SET_FLOW_MODE" => c.int1 \in FlowModes
  BY DEF SystemControllerCommands, CoreOneCommands, Begin, FloatCommandTypes,
     BoolCommandTypes, InertCommandTypes
<1> QED
  BY <1>1, <1>2

LEMMA CommandType == TypeOK /\ HandleCommands => TypeOK'
<1> USE DEF bailVars, configVars
<1>0. ASSUME NEW types, TypeOK, RemoveCommand(types)
      PROVE  /\ Head(incomingQueue).type \in types
             /\ incomingQueue # <<>>
             /\ incomingQueue' \in Seq(SystemControllerCommands)
             /\ Len(incomingQueue') =< InCapacity
             /\ UNCHANGED <<pc, parsed, rx, wire, controlVars, outgoingQueue, launches>>
  BY <1>0, HeadCommand DEF RemoveCommand
<1>1. ASSUME TypeOK, SetTemperature PROVE TypeOK'
  <2>1. settings' \in Settings
    <3>1. \A c : c.type \in FloatCommandTypes /\ c.float1 \in Int
                   => WithFloat(settings, c) \in Settings
      <4>1. settings \in Settings
        BY <1>1 DEF TypeOK
      <4> QED
        BY <4>1 DEF WithFloat, Settings, FloatCommandTypes
    <3>2. /\ Head(incomingQueue).type \in FloatCommandTypes
          /\ Head(incomingQueue).float1 \in Int
      BY <1>0, <1>1, HeadCommand DEF SetTemperature
    <3> QED
      BY <1>1, <3>1, <3>2 DEF SetTemperature
  <2> QED
    BY <1>0, <1>1, <2>1 DEF SetTemperature, TypeOK, controlVars
<1>2. ASSUME TypeOK, SetEcoMode PROVE TypeOK'
  <2>1. settings' \in Settings
    BY <1>0, <1>2, HeadCommand DEF SetEcoMode, Settings, TypeOK, BoolCommandTypes
  <2> QED
    BY <1>0, <1>2, <2>1 DEF SetEcoMode, TypeOK, controlVars
<1>3. ASSUME TypeOK, SetSleepMode PROVE TypeOK'
  <2>1. settings' \in Settings
    BY <1>0, <1>3, HeadCommand DEF SetSleepMode, Settings, TypeOK, BoolCommandTypes
  <2>2. setPoints' \in [brew: Int, service: Int]
    BY <1>3, <2>1, SetPointsType DEF SetSleepMode
  <2>3. heatupStage2Timer' \in Timestamps(Stage2Ticks + 1)
    BY <1>3 DEF SetSleepMode, TypeOK, Timestamps, NotSet
  <2> QED
    BY <1>0, <1>3, <2>1, <2>2, <2>3 DEF SetSleepMode, TypeOK, controlVars
<1>4. ASSUME TypeOK, SetFlowMode PROVE TypeOK'
  <2>1. flowMode' \in FlowModes
    BY <1>0, <1>4, HeadCommand DEF SetFlowMode
  <2> QED
    BY <1>0, <1>4, <2>1 DEF SetFlowMode, TypeOK, controlVars
<1>5. ASSUME TypeOK, Unbail PROVE TypeOK'
  BY <1>0, <1>5 DEF Unbail, LeaveBail, TypeOK, controlVars, InternalStates, RunStates, BailReasons,
     Timestamps
<1>6. ASSUME TypeOK, BeginRunning PROVE TypeOK'
  BY <1>0, <1>6 DEF BeginRunning, TypeOK, controlVars, InternalStates
<1>7. ASSUME TypeOK, ForceHardBail PROVE TypeOK'
  BY <1>0, <1>7 DEF ForceHardBail, TypeOK, controlVars, InternalStates, BailReasons
<1>8. ASSUME TypeOK, IgnoreCommand PROVE TypeOK'
  BY <1>0, <1>8 DEF IgnoreCommand, TypeOK, controlVars
<1>9. ASSUME TypeOK, FinishCommands PROVE TypeOK'
  <2>1. setPoints' \in [brew: Int, service: Int]
    BY <1>9, SetPointsNow DEF FinishCommands
  <2> QED
    BY <1>9, <2>1 DEF FinishCommands, TypeOK, controlVars, queueVars
<1> QED
  BY <1>1, <1>2, <1>3, <1>4, <1>5, <1>6, <1>7, <1>8, <1>9 DEF HandleCommands

\* The status message is well formed and fits the queue.
LEMMA StatusType ==
    ASSUME TypeOK, NEW packet \in LccParsedPackets, NEW state \in InternalStates,
           SendStatus(packet, state)
    PROVE  outgoingQueue' \in Seq(StatusMessages) /\ Len(outgoingQueue') =< OutCapacity
<1>1. StatusMessage(packet, state) \in StatusMessages
  <2>1. /\ (~Bailed(state) /\ parsed.brew_switch) \in BOOLEAN
        /\ (~Bailed(state) /\ parsed.water_tank_empty) \in BOOLEAN
        /\ (packet.pump_on /\ packet.service_boiler_solenoid_open) \in BOOLEAN
    BY Zenon
  <2> QED
    BY <2>1, Zenon DEF StatusMessages, StatusMessage
<1>2. outgoingQueue' = IF Len(outgoingQueue) >= OutCapacity THEN outgoingQueue
                       ELSE Append(outgoingQueue, StatusMessage(packet, state))
  BY Zenon DEF SendStatus
<1> QED
  BY <1>1, <1>2 DEF TypeOK

LEMMA ControlType ==
    ASSUME TypeOK,
           \/ \E bb \in BrewSignals, sb \in ServiceSignals : ControlRunning(bb, sb)
           \/ ControlBailed
    PROVE  TypeOK'
<1>1. ASSUME NEW bb \in BrewSignals, NEW sb \in ServiceSignals, ControlRunning(bb, sb)
      PROVE  TypeOK'
  <2> DEFINE tank    == LatchSet(waterTankEmptyLatch, parsed.water_tank_empty, TankTicks)
             low     == LatchSet(serviceBoilerLowLatch, parsed.service_boiler_low, LowTicks)
             brewing == Brewing(parsed, tank.currentState)
             water   == WithWater(parsed, tank.currentState, low.currentState)
             queue   == Refilled(ssrStateQueue, bb, IF settings.ecoMode THEN 0 ELSE sb, brewing)
  <2>1. /\ parsed.water_tank_empty \in BOOLEAN
        /\ parsed.service_boiler_low \in BOOLEAN
        /\ parsed.brew_switch \in BOOLEAN
    BY DEF TypeOK, ControlBoardParsedPackets
  <2>2. tank \in Latches(TankTicks) /\ low \in Latches(LowTicks)
    BY <2>1, LatchType DEF TypeOK
  <2>3. brewing \in BOOLEAN
    BY <2>1, <2>2 DEF Brewing, Latches, TypeOK
  <2>4. queue \in Seq(SsrState) /\ Len(queue) =< Slots /\ queue # <<>>
    BY RefilledType DEF TypeOK
  <2>5. WithSsr(water, Head(queue)) \in LccParsedPackets
    BY ControlPacket
  <2>6. /\ waterTankEmptyLatch' = tank /\ serviceBoilerLowLatch' = low
        /\ brewStartedAt' = brewing
        /\ lcc' = WithSsr(water, Head(queue))
        /\ ssrStateQueue' = Tail(queue)
        /\ UNCHANGED <<internalState, bail_reason>>
    BY <1>1, <2>4 DEF ControlRunning, HandleControlBoardPacket
  <2> HIDE DEF tank, low, brewing, water, queue
  <2>7. ssrStateQueue' \in Seq(SsrState) /\ Len(ssrStateQueue') =< Slots
    BY <2>4, <2>6
  <2>8. outgoingQueue' \in Seq(StatusMessages) /\ Len(outgoingQueue') =< OutCapacity
    BY <1>1, <2>5, <2>6, StatusType DEF ControlRunning, TypeOK
  <2> QED
    BY <1>1, <2>2, <2>3, <2>5, <2>6, <2>7, <2>8 DEF ControlRunning, TypeOK, configVars
<1>2. ASSUME ControlBailed PROVE TypeOK'
  <2>1. lcc' = LccParsedPacket /\ LccParsedPacket \in LccParsedPackets
    BY <1>2, SafePacket DEF ControlBailed, LccParsedPacket, LccParsedPackets
  <2>2. outgoingQueue' \in Seq(StatusMessages) /\ Len(outgoingQueue') =< OutCapacity
    BY <1>2, <2>1, StatusType DEF ControlBailed, TypeOK
  <2> QED
    BY <1>2, <2>1, <2>2 DEF ControlBailed, TypeOK, bailVars, configVars
<1> QED
  BY <1>1, <1>2

LEMMA SleepType ==
    ASSUME TypeOK, NEW d \in 1..MaxDelay, Sleep(d)
    PROVE  TypeOK'
<1>1. /\ unbailTimer' \in Timestamps(UnbailTicks + 1)
      /\ heatupStage2Timer' \in Timestamps(Stage2Ticks + 1)
  BY AgedType DEF Sleep, TypeOK
<1>2. /\ waterTankEmptyLatch' \in Latches(TankTicks)
      /\ serviceBoilerLowLatch' \in Latches(LowTicks)
  BY LatchType DEF Sleep, TypeOK
<1> QED
  BY <1>1, <1>2 DEF Sleep, TypeOK, configVars, queueVars

LEMMA ResetType ==
    ASSUME TypeOK, WatchdogReset
    PROVE  TypeOK'
<1>1. LccParsedPacket \in LccParsedPackets
  BY DEF LccParsedPacket, LccParsedPackets
<1>2. NewLatch \in Latches(TankTicks) /\ NewLatch \in Latches(LowTicks)
  BY NewLatchType
<1>3. DefaultSettings \in Settings
  BY DEF DefaultSettings, Settings
<1>4. /\ ssrStateQueue' \in Seq(SsrState) /\ Len(ssrStateQueue') =< Slots
      /\ incomingQueue' \in Seq(SystemControllerCommands) /\ Len(incomingQueue') =< InCapacity
      /\ outgoingQueue' \in Seq(StatusMessages) /\ Len(outgoingQueue') =< OutCapacity
      /\ setPoints' \in [brew: Int, service: Int] /\ launches' \in 0..MaxLaunches
  BY DEF WatchdogReset
<1> QED
  BY <1>1, <1>2, <1>3, <1>4
  DEF WatchdogReset, TypeOK, InternalStates, RunStates, BailReasons, FlowModes, Outcomes,
      Timestamps, NotSet

LEMMA CoreOneType == TypeOK /\ Core1 => TypeOK'
<1> USE DEF bailVars, controlVars, configVars
<1>1. Commands \subseteq SystemControllerCommands /\ Begin \in SystemControllerCommands
  BY DEF SystemControllerCommands
<1>2. ASSUME TypeOK, LaunchCore1 PROVE TypeOK'
  BY <1>1, <1>2 DEF LaunchCore1, TypeOK
<1>3. ASSUME TypeOK, DrainStatus PROVE TypeOK'
  BY <1>3 DEF DrainStatus, TypeOK
<1>4. ASSUME TypeOK, NEW c \in Commands, SendCommand(c) PROVE TypeOK'
  BY <1>1, <1>4 DEF SendCommand, AddCommand, TypeOK
<1> QED
  BY <1>2, <1>3, <1>4 DEF Core1

LEMMA NextType == TypeOK /\ [Next]_vars => TypeOK'
<1>1. TypeOK /\ UNCHANGED vars => TypeOK'
  BY DEF TypeOK, vars, bailVars, controlVars, configVars, queueVars
<1>2. TypeOK /\ Awake => TypeOK'
  BY SendType, ReadType, CommandType, ControlType DEF Awake
<1> QED
  BY <1>1, <1>2, SleepType, ResetType, CoreOneType DEF Next, Core0

\* Every variable keeps its type: in particular both queues and the period of
\* relay slots never exceed their capacity, whatever core 1 and the board do.
THEOREM TypeCorrect == Spec => []TypeOK
<1> QED
  BY InitType, NextType, PTL DEF Spec

-----------------------------------------------------------------------------
(* The self-checks of core 0 never fire.                                   *)

\* What a control cycle leaves behind while running.
LEMMA ControlResult ==
    ASSUME TypeOK, NEW bb, NEW sb, ControlRunning(bb, sb)
    PROVE  /\ lcc' \in LccParsedPackets
           /\ ~(lcc'.brew_boiler_ssr_on /\ lcc'.service_boiler_ssr_on)
           /\ lcc'.service_boiler_solenoid_open => lcc'.pump_on
           /\ UNCHANGED <<internalState, bail_reason>>
<1> DEFINE tank    == LatchSet(waterTankEmptyLatch, parsed.water_tank_empty, TankTicks)
           low     == LatchSet(serviceBoilerLowLatch, parsed.service_boiler_low, LowTicks)
           brewing == Brewing(parsed, tank.currentState)
           water   == WithWater(parsed, tank.currentState, low.currentState)
           queue   == Refilled(ssrStateQueue, bb, IF settings.ecoMode THEN 0 ELSE sb, brewing)
<1>1. queue # <<>>
  BY RefilledType DEF TypeOK
<1>2. lcc' = WithSsr(water, Head(queue)) /\ UNCHANGED <<internalState, bail_reason>>
  BY <1>1 DEF ControlRunning, HandleControlBoardPacket
<1> QED
  BY <1>2, ControlPacket

LEMMA SelfCheckStep == SelfCheckInv /\ [Next]_vars => SelfCheckInv'
<1> SUFFICES ASSUME SelfCheckInv, [Next]_vars PROVE LccSound' /\ SelfChecksNeverFire'
  BY NextType DEF SelfCheckInv
<1> USE DEF SelfCheckInv, LccSound, SelfChecksNeverFire
<1>1. CASE SendSafePacketNoWait
  BY <1>1 DEF SendSafePacketNoWait, bailVars, controlVars
<1>2. CASE SendLccPacket
  <2>1. validate_lcc_raw_packet(convert_lcc_parsed_to_raw(lcc)) = {}
    BY ValidFrames DEF TypeOK
  <2> QED
    BY <1>2, <2>1 DEF SendLccPacket, controlVars
<1>3. CASE ReadTimeout
  BY <1>3 DEF ReadTimeout, FirstReason, controlVars
<1>4. CASE ReadBailed
  BY <1>4 DEF ReadBailed, Answered, QuarantineOver, LeaveBail, controlVars
<1>5. ASSUME NEW outcome, ReadInvalid(outcome) PROVE LccSound' /\ SelfChecksNeverFire'
  BY <1>5 DEF ReadInvalid, Answered, QuarantineOver, LeaveBail, FirstReason, controlVars
<1>6. ASSUME NEW p, ReadRunning(p) PROVE LccSound' /\ SelfChecksNeverFire'
  BY <1>6 DEF ReadRunning, controlVars
<1>7. CASE HandleCommands
  <2>1. UNCHANGED controlVars
    BY <1>7 DEF HandleCommands, SetTemperature, SetEcoMode, SetSleepMode, SetFlowMode, Unbail, LeaveBail,
       BeginRunning, ForceHardBail, IgnoreCommand, FinishCommands, RemoveCommand
  <2>2. bail_reason' \in {bail_reason, "NONE", "FORCED"}
    BY <1>7 DEF HandleCommands, SetTemperature, SetEcoMode, SetSleepMode, SetFlowMode, Unbail, LeaveBail,
       BeginRunning, ForceHardBail, IgnoreCommand, FinishCommands, bailVars
  <2> QED
    BY <2>1, <2>2 DEF controlVars
<1>8. ASSUME NEW bb, NEW sb, ControlRunning(bb, sb) PROVE LccSound' /\ SelfChecksNeverFire'
  BY <1>8, ControlResult
<1>9. CASE ControlBailed
  BY <1>9, SafePacket DEF ControlBailed, LccParsedPacket, bailVars
<1>10. ASSUME NEW d, Sleep(d) PROVE LccSound' /\ SelfChecksNeverFire'
  BY <1>10 DEF Sleep
<1>11. CASE WatchdogReset
  BY <1>11 DEF WatchdogReset, LccParsedPacket
<1>12. CASE Core1
  BY <1>12 DEF Core1, LaunchCore1, DrainStatus, SendCommand, AddCommand, bailVars, controlVars
<1>13. CASE UNCHANGED vars
  BY <1>13 DEF vars, bailVars, controlVars
<1> QED
  BY <1>1, <1>2, <1>3, <1>4, <1>5, <1>6, <1>7, <1>8, <1>9, <1>10, <1>11, <1>12, <1>13
  DEF Next, Core0, Awake

\* Whatever the board reports and core 1 commands, core 0 never finds its own
\* frame invalid and never runs out of relay slots.
THEOREM SelfChecksSilent == Spec => []SelfChecksNeverFire
<1>1. Init => SelfCheckInv
  BY InitType DEF Init, SelfCheckInv, LccSound, SelfChecksNeverFire, LccParsedPacket
<1>2. SelfCheckInv => SelfChecksNeverFire
  BY DEF SelfCheckInv
<1> QED
  BY <1>1, <1>2, SelfCheckStep, PTL DEF Spec

-----------------------------------------------------------------------------
(* Hard bails, set points and the inlet of the service boiler.             *)

\* Only a command of core 1 ends a hard bail: no answer of the board does, and
\* neither does its silence.
THEOREM HardBailHeld == Spec => HardBailHolds
<1> DEFINE Inv == pc = "panicked" => internalState = "RUNNING"
           Kept == internalState = "HARD_BAIL" /\ internalState' # "HARD_BAIL"
                     => /\ HandlingCommands /\ incomingQueue # <<>>
                        /\ Head(incomingQueue).type \in {"UNBAIL", "BEGIN"}
<1>1. Init => Inv
  BY DEF Init
<1>2. Inv /\ [Next]_vars => Inv' /\ Kept
  <2> SUFFICES ASSUME Inv, [Next]_vars PROVE Inv' /\ Kept
    OBVIOUS
  <2> USE DEF HandlingCommands
  <2>1. CASE SendSafePacketNoWait
    BY <2>1 DEF SendSafePacketNoWait, bailVars
  <2>2. CASE SendLccPacket
    BY <2>2 DEF SendLccPacket
  <2>3. CASE ReadTimeout
    BY <2>3 DEF ReadTimeout, SoftBailed
  <2>4. CASE ReadBailed
    BY <2>4 DEF ReadBailed
  <2>5. ASSUME NEW outcome, ReadInvalid(outcome) PROVE Inv' /\ Kept
    BY <2>5 DEF ReadInvalid
  <2>6. ASSUME NEW p, ReadRunning(p) PROVE Inv' /\ Kept
    BY <2>6 DEF ReadRunning
  <2>7. CASE HandleCommands
    BY <2>7 DEF HandleCommands, SetTemperature, SetEcoMode, SetSleepMode, SetFlowMode, Unbail,
       BeginRunning, ForceHardBail, IgnoreCommand, FinishCommands, RemoveCommand, bailVars
  <2>8. ASSUME NEW bb, NEW sb, ControlRunning(bb, sb) PROVE Inv' /\ Kept
    BY <2>8 DEF ControlRunning, Bailed
  <2>9. CASE ControlBailed
    BY <2>9 DEF ControlBailed, bailVars
  <2>10. ASSUME NEW d, Sleep(d) PROVE Inv' /\ Kept
    BY <2>10 DEF Sleep
  <2>11. CASE WatchdogReset
    BY <2>11 DEF WatchdogReset
  <2>12. CASE Core1
    BY <2>12 DEF Core1, LaunchCore1, DrainStatus, SendCommand, AddCommand, bailVars
  <2>13. CASE UNCHANGED vars
    BY <2>13 DEF vars, bailVars
  <2> QED
    BY <2>1, <2>2, <2>3, <2>4, <2>5, <2>6, <2>7, <2>8, <2>9, <2>10, <2>11, <2>12, <2>13
    DEF Next, Core0, Awake
<1>3. Kept => [ internalState = "HARD_BAIL" /\ internalState' # "HARD_BAIL"
                  => /\ HandlingCommands /\ incomingQueue # <<>>
                     /\ Head(incomingQueue).type \in {"UNBAIL", "BEGIN"} ]_vars
  OBVIOUS
<1> QED
  BY <1>1, <1>2, <1>3, PTL DEF Spec, HardBailHolds

\* Nothing comes between the end of handleCommands and the control step.
LEMMA SetPointsKept == SetPointsCurrent /\ [Next]_vars => SetPointsCurrent'
<1> SUFFICES ASSUME SetPointsCurrent, [Next]_vars, pc' = "control"
             PROVE  setPoints' = SetPointsFor(settings', runState')
  BY DEF SetPointsCurrent
<1>1. CASE FinishCommands
  <2>1. setPoints' = SetPointsFor(settings, runState) /\ UNCHANGED <<settings, runState>>
    BY <1>1 DEF FinishCommands, bailVars
  <2> QED
    BY <2>1
<1>2. CASE Core1 \/ UNCHANGED vars
  <2>1. UNCHANGED <<pc, setPoints, settings, runState>>
    BY <1>2 DEF Core1, LaunchCore1, DrainStatus, SendCommand, AddCommand, vars, bailVars,
       configVars
  <2> QED
    BY <2>1 DEF SetPointsCurrent
<1>3. SendSafePacketNoWait \/ SendLccPacket \/ ReadTimeout \/ ReadBailed => pc' # "control"
  BY DEF SendSafePacketNoWait, SendLccPacket, ReadTimeout, ReadBailed
<1>4. \A x : ReadInvalid(x) \/ ReadRunning(x) \/ Sleep(x) => pc' # "control"
  BY DEF ReadInvalid, ReadRunning, DetermineRunState, TransitionToHeatupStage2,
     ReadEmptyStage2Timer, FinishHeatup, KeepRunState, Sleep
<1>5. SetTemperature \/ SetEcoMode \/ SetSleepMode \/ SetFlowMode \/ Unbail \/ BeginRunning
        \/ ForceHardBail \/ IgnoreCommand => pc' # "control"
  BY DEF SetTemperature, SetEcoMode, SetSleepMode, SetFlowMode, Unbail, BeginRunning,
     ForceHardBail, IgnoreCommand, RemoveCommand, HandlingCommands
<1>6. \A bb, sb : ControlRunning(bb, sb) => pc' # "control"
  BY DEF ControlRunning
<1>7. ControlBailed \/ WatchdogReset => pc' # "control"
  BY DEF ControlBailed, WatchdogReset
<1> QED
  BY <1>1, <1>2, <1>3, <1>4, <1>5, <1>6, <1>7 DEF Next, Core0, Awake, HandleCommands

-----------------------------------------------------------------------------
(* The inlet of the service boiler stays shut during a brew.               *)

\* A frame opens FA7 exactly when the packet it was made of asks for it.
LEMMA InletBit ==
    ASSUME NEW p \in LccParsedPackets
    PROVE  /\ FA7Solenoid \in convert_lcc_parsed_to_raw(p).shiftRegister1
                <=> p.service_boiler_solenoid_open
           /\ FA7Solenoid \notin create_safe_packet.shiftRegister1
BY DEF LccParsedPackets, convert_lcc_parsed_to_raw, Flag, FA7Solenoid, FA8Solenoid,
   BrewBoilerRelay, create_safe_packet

\* While a brew is on, no frame lets water into the service boiler, in any flow
\* mode and through bails, commands and timeouts.
THEOREM InletClosed == Spec => []InletClosedWhileBrewing
<1> DEFINE Inv ==
        /\ pc \in {"sleep", "loop", "earlyCommands"} /\ brewStartedAt
              => ~lcc.service_boiler_solenoid_open
        /\ InletClosedWhileBrewing
<1>1. Init => Inv
  BY DEF Init, InletClosedWhileBrewing
<1>2. TypeOK /\ Inv /\ [Next]_vars => Inv'
  <2> SUFFICES ASSUME TypeOK, Inv, [Next]_vars PROVE Inv'
    OBVIOUS
  <2> USE DEF InletClosedWhileBrewing
  <2>1. CASE SendSafePacketNoWait
    BY <2>1 DEF SendSafePacketNoWait, bailVars, controlVars
  <2>2. CASE SendLccPacket
    <3>1. lcc \in LccParsedPackets
      BY DEF TypeOK
    <3>2. /\ brewStartedAt => ~lcc.service_boiler_solenoid_open
          /\ wire' \in {create_safe_packet, convert_lcc_parsed_to_raw(lcc)}
          /\ pc' = "read" /\ UNCHANGED <<brewStartedAt, lcc>>
      BY <2>2 DEF SendLccPacket, controlVars
    <3> QED
      BY <3>1, <3>2, InletBit
  <2>3. CASE ReadTimeout
    BY <2>3 DEF ReadTimeout
  <2>4. CASE ReadBailed
    BY <2>4 DEF ReadBailed
  <2>5. ASSUME NEW outcome, ReadInvalid(outcome) PROVE Inv'
    BY <2>5 DEF ReadInvalid
  <2>6. ASSUME NEW p, ReadRunning(p) PROVE Inv'
    BY <2>6 DEF ReadRunning, DetermineRunState, TransitionToHeatupStage2,
       ReadEmptyStage2Timer, FinishHeatup, KeepRunState
  <2>7. CASE HandleCommands
    BY <2>7 DEF HandleCommands, SetTemperature, SetEcoMode, SetSleepMode, SetFlowMode, Unbail,
       LeaveBail, BeginRunning, ForceHardBail, IgnoreCommand, FinishCommands, RemoveCommand,
       HandlingCommands, bailVars, controlVars
  <2>8. ASSUME NEW bb, NEW sb, ControlRunning(bb, sb) PROVE Inv'
    <3>1. brewStartedAt' => ~lcc'.service_boiler_solenoid_open
      <4> DEFINE tank    == LatchSet(waterTankEmptyLatch, parsed.water_tank_empty, TankTicks)
                 low     == LatchSet(serviceBoilerLowLatch, parsed.service_boiler_low, LowTicks)
                 brewing == Brewing(parsed, tank.currentState)
                 queue   == Refilled(ssrStateQueue, bb, IF settings.ecoMode THEN 0 ELSE sb,
                                     brewing)
      <4>1. queue # <<>>
        BY RefilledType DEF TypeOK
      <4>2. /\ lcc' = WithSsr(WithWater(parsed, tank.currentState, low.currentState), Head(queue))
            /\ brewStartedAt' = brewing
        BY <2>8, <4>1 DEF ControlRunning, HandleControlBoardPacket
      <4>3. brewing => WithWater(parsed, tank.currentState, low.currentState)
                         = ForFlowMode(LccParsedPacket)
        BY DEF WithWater
      <4> HIDE DEF tank, low, brewing, queue
      <4> QED
        BY <4>2, <4>3 DEF WithSsr, ForFlowMode, LccParsedPacket
    <3> QED
      BY <2>8, <3>1 DEF ControlRunning
  <2>9. CASE ControlBailed
    <3>1. lcc' = LccParsedPacket /\ pc' = "sleep" /\ ~lcc'.service_boiler_solenoid_open
      BY <2>9, SafePacket DEF ControlBailed, LccParsedPacket
    <3> QED
      BY <3>1
  <2>10. ASSUME NEW d, Sleep(d) PROVE Inv'
    BY <2>10 DEF Sleep
  <2>11. CASE WatchdogReset
    BY <2>11 DEF WatchdogReset
  <2>12. CASE Core1
    BY <2>12 DEF Core1, LaunchCore1, DrainStatus, SendCommand, AddCommand, bailVars, controlVars
  <2>13. CASE UNCHANGED vars
    BY <2>13 DEF vars, bailVars, controlVars
  <2> QED
    BY <2>1, <2>2, <2>3, <2>4, <2>5, <2>6, <2>7, <2>8, <2>9, <2>10, <2>11, <2>12, <2>13
    DEF Next, Core0, Awake
<1>3. Inv => InletClosedWhileBrewing
  OBVIOUS
<1>4. TypeOK /\ [Next]_vars => TypeOK'
  BY NextType
<1> QED
  BY <1>1, <1>2, <1>3, <1>4, InitType, PTL DEF Spec

-----------------------------------------------------------------------------
(* What lies behind the finding about the heat-up's timer.                 *)

\* A command to go to sleep.
Sleeps(c) == c.type = "SET_SLEEP_MODE" /\ c.bool1

TimerInv ==
    /\ runState = "HEATUP_STAGE_2" => heatupStage2Timer # NotSet
    /\ \A i \in 1..Len(incomingQueue) : ~Sleeps(incomingQueue[i])
    /\ NoEmptyTimerRead

LEMMA TimerHeld ==
    ASSUME TypeOK, TimerInv, \A c \in Commands : ~Sleeps(c), [Next]_vars
    PROVE  TimerInv'
<1>0. \A i \in 1..Len(incomingQueue) : ~Sleeps(incomingQueue[i])
  BY DEF TimerInv
<1> DEFINE QueueSame == incomingQueue' = incomingQueue
<1>1. CASE SendSafePacketNoWait \/ SendLccPacket \/ ReadTimeout \/ ReadBailed
            \/ (\E outcome \in {"corrupt", "overheat"} : ReadInvalid(outcome))
            \/ (\E bb \in BrewSignals, sb \in ServiceSignals : ControlRunning(bb, sb))
            \/ ControlBailed \/ UNCHANGED vars
  <2>1. /\ QueueSame /\ heatupStage2Timer' = heatupStage2Timer
        /\ runState' = runState \/ runState' = "UNDETERMINED"
    BY <1>1 DEF SendSafePacketNoWait, SendLccPacket, ReadTimeout, ReadBailed, ReadInvalid,
         Answered, LeaveBail, ControlRunning, HandleControlBoardPacket, ControlBailed, vars,
         bailVars, queueVars
  <2>2. pc' # "panicked"
    BY <1>1 DEF TimerInv, NoEmptyTimerRead, SendSafePacketNoWait, SendLccPacket,
         ReadTimeout, ReadBailed, ReadInvalid, ControlRunning, ControlBailed, vars
  <2>3. QED
    BY <2>1, <2>2 DEF TimerInv, NoEmptyTimerRead
<1>2. ASSUME NEW p \in Packets, ReadRunning(p)
      PROVE  TimerInv'
  BY <1>2 DEF ReadRunning, DetermineRunState, TransitionToHeatupStage2,
       ReadEmptyStage2Timer, FinishHeatup, KeepRunState, EnterRunState, queueVars, TimerInv,
       NoEmptyTimerRead, NotSet
<1>3. CASE HandleCommands
  <2>1. pc' # "panicked"
    BY <1>3 DEF HandleCommands, SetTemperature, SetEcoMode, SetSleepMode, SetFlowMode,
         Unbail, BeginRunning, ForceHardBail, IgnoreCommand, FinishCommands, RemoveCommand,
         HandlingCommands
  <2>2. \A i \in 1..Len(incomingQueue') : ~Sleeps(incomingQueue'[i])
    <3>1. CASE FinishCommands
      BY <1>0, <3>1 DEF FinishCommands, queueVars
    <3>2. CASE incomingQueue # <<>> /\ incomingQueue' = Tail(incomingQueue)
      BY <1>0, <3>2 DEF TypeOK
    <3>3. QED
      BY <1>3, <3>1, <3>2 DEF HandleCommands, SetTemperature, SetEcoMode, SetSleepMode,
           SetFlowMode, Unbail, BeginRunning, ForceHardBail, IgnoreCommand, RemoveCommand
  <2>3. /\ heatupStage2Timer' = heatupStage2Timer
        /\ runState' = runState \/ runState' = "UNDETERMINED"
    <3>1. CASE SetSleepMode
      <4>1. /\ incomingQueue # <<>> /\ Head(incomingQueue) = incomingQueue[1]
            /\ 1 \in 1..Len(incomingQueue)
        BY <3>1 DEF SetSleepMode, RemoveCommand, TypeOK
      <4>2. ~Head(incomingQueue).bool1
        BY <1>0, <3>1, <4>1 DEF SetSleepMode, RemoveCommand, Sleeps
      <4>3. QED
        BY <3>1, <4>2 DEF SetSleepMode
    <3>2. QED
      BY <1>3, <3>1 DEF HandleCommands, SetTemperature, SetEcoMode, SetFlowMode, Unbail,
           LeaveBail, BeginRunning, ForceHardBail, IgnoreCommand, FinishCommands, bailVars
  <2>4. QED
    BY <2>1, <2>2, <2>3 DEF TimerInv, NoEmptyTimerRead
<1>4. ASSUME NEW d \in 1..MaxDelay, Sleep(d)
      PROVE  TimerInv'
  BY <1>4 DEF Sleep, Aged, NotSet, Timestamps, TypeOK, queueVars, TimerInv, NoEmptyTimerRead
<1>5. CASE WatchdogReset
  BY <1>5 DEF WatchdogReset, TimerInv, NoEmptyTimerRead
<1>6. CASE Core1
  <2>1. UNCHANGED <<pc, runState, heatupStage2Timer>>
    BY <1>6 DEF Core1, LaunchCore1, DrainStatus, SendCommand, AddCommand, bailVars
  <2>2. QueueSame \/ \E c \in Commands \cup {Begin} : incomingQueue' = Append(incomingQueue, c)
    BY <1>6 DEF Core1, LaunchCore1, DrainStatus, SendCommand, AddCommand
  <2>3. \A c \in Commands \cup {Begin} : ~Sleeps(c)
    BY DEF Sleeps, Begin
  <2>4. \A i \in 1..Len(incomingQueue') : ~Sleeps(incomingQueue'[i])
    <3>1. CASE QueueSame
      BY <1>0, <3>1
    <3>2. ASSUME NEW c \in Commands \cup {Begin}, incomingQueue' = Append(incomingQueue, c),
                 NEW i \in 1..Len(incomingQueue')
          PROVE  ~Sleeps(incomingQueue'[i])
      <4>1. incomingQueue \in Seq(SystemControllerCommands)
        BY DEF TypeOK
      <4>2. \/ incomingQueue'[i] = c
            \/ i \in 1..Len(incomingQueue) /\ incomingQueue'[i] = incomingQueue[i]
        BY <3>2, <4>1
      <4>3. QED
        BY <1>0, <2>3, <3>2, <4>2
    <3>3. QED
      BY <2>2, <3>1, <3>2
  <2>5. QED
    BY <2>1, <2>4 DEF TimerInv, NoEmptyTimerRead
<1>7. QED
  BY <1>1, <1>2, <1>3, <1>4, <1>5, <1>6 DEF Next, Core0, Awake

\* NoEmptyTimerRead: core 0 never reads the empty timer of the heat-up, for any times,
\* packets and launches of core 1, as long as no command sends it to sleep:
\* bails, commands and restarts in the middle of a heat-up do no harm.
THEOREM OnlySleepPanics ==
    ASSUME \A c \in Commands : ~Sleeps(c)
    PROVE  Spec => []NoEmptyTimerRead
<1>1. Init => TimerInv
  BY DEF Init, TimerInv, NoEmptyTimerRead
<1>2. TypeOK /\ TimerInv /\ [Next]_vars => TimerInv'
  BY TimerHeld
<1>3. QED
  BY <1>1, <1>2, TypeCorrect, PTL DEF Spec, TimerInv

=============================================================================
