-------------------- MODULE SystemControllerHistoryProofs --------------------
(***************************************************************************)
(* Theorems about SystemControllerHistory for every value of the           *)
(* constants: what the latches make of the reports of the board, how long  *)
(* queued service slots live, and that core 0 implements the interlock.    *)
(***************************************************************************)
EXTENDS SystemControllerHistory, SystemControllerProofs, FiniteSetTheorems

USE SlotsAssumption, SystemControllerAssumption

-----------------------------------------------------------------------------
(* A latch and the report it follows.                                      *)

Reports(threshold) == [value: BOOLEAN, for: 0..(threshold + 1)]

\* They agree, or the latch has timed the disagreement for as long as the report
\* has lasted.
Follows(latch, report) ==
    latch.changingSince = IF report.value = latch.currentState THEN NotSet ELSE report.for

\* A latch that is set follows on, and agrees with a report older than its
\* threshold.
LEMMA SetFollows ==
    ASSUME NEW threshold \in Nat, NEW latch \in Latches(threshold),
           NEW report \in Reports(threshold), NEW value \in BOOLEAN, Follows(latch, report)
    PROVE  LET new == LatchSet(latch, value, threshold)
           IN  /\ Follows(new, Reported(report, value))
               /\ Reported(report, value) \in Reports(threshold)
               /\ Reported(report, value).value = value
               /\ Reported(report, value).for > threshold => new.currentState = value
<1> DEFINE new == LatchSet(latch, value, threshold)
           then == Reported(report, value)
<1>1. /\ latch.currentState \in BOOLEAN /\ latch.changingSince \in Timestamps(threshold + 1)
      /\ latch = [currentState |-> latch.currentState, changingSince |-> latch.changingSince]
  BY DEF Latches
<1>2. report.value \in BOOLEAN /\ report.for \in 0..(threshold + 1)
  BY DEF Reports
<1>3. then \in Reports(threshold) /\ then.value = value
  BY DEF Reported, Reports
<1>4. CASE value = latch.currentState
  <2>1. new.currentState = value /\ new.changingSince = NotSet
    BY <1>1, <1>4 DEF LatchSet
  <2> QED
    BY <1>3, <2>1 DEF Follows
<1>5. CASE value # latch.currentState /\ value # report.value
  <2>1. report.value = latch.currentState
    BY <1>1, <1>2, <1>5
  <2>2. latch.changingSince = NotSet
    BY <2>1 DEF Follows
  <2>3. new.currentState = latch.currentState /\ new.changingSince = 0
    BY <1>1, <1>5, <2>2 DEF LatchSet
  <2>4. then.for = 0
    BY <1>5 DEF Reported
  <2> QED
    BY <1>3, <1>5, <2>3, <2>4 DEF Follows
<1>6. CASE value # latch.currentState /\ value = report.value
  <2>1. latch.changingSince = report.for /\ report.for # NotSet /\ then = report
    BY <1>2, <1>6 DEF Follows, Reported, NotSet
  <2>2. CASE report.for > threshold
    <3>1. new.currentState = value /\ new.changingSince = NotSet
      BY <1>6, <2>1, <2>2 DEF LatchSet
    <3> QED
      BY <1>3, <3>1 DEF Follows
  <2>3. CASE ~(report.for > threshold)
    <3>1. new = latch
      BY <1>6, <2>1, <2>3 DEF LatchSet
    <3> QED
      BY <1>3, <2>1, <2>3, <3>1 DEF Follows
  <2> QED
    BY <2>2, <2>3
<1> QED
  BY <1>4, <1>5, <1>6

\* Both age alike.
LEMMA AgeFollows ==
    ASSUME NEW threshold \in Nat, NEW latch \in Latches(threshold),
           NEW report \in Reports(threshold), NEW d \in Nat, Follows(latch, report)
    PROVE  /\ Follows(LatchAged(latch, d, threshold), ReportAged(report, d, threshold))
           /\ ReportAged(report, d, threshold) \in Reports(threshold)
<1>1. /\ LatchAged(latch, d, threshold).currentState = latch.currentState
      /\ LatchAged(latch, d, threshold).changingSince
           = Aged(latch.changingSince, d, threshold + 1)
  BY DEF LatchAged, Latches
<1>2. /\ ReportAged(report, d, threshold).value = report.value
      /\ ReportAged(report, d, threshold).for = Aged(report.for, d, threshold + 1)
      /\ ReportAged(report, d, threshold)
           = [value |-> report.value, for |-> Aged(report.for, d, threshold + 1)]
  BY DEF ReportAged, Reports
<1>3. report.for \in 0..(threshold + 1) /\ report.value \in BOOLEAN
  BY DEF Reports
<1>4. Aged(report.for, d, threshold + 1) \in 0..(threshold + 1)
  BY <1>3 DEF Aged, NotSet
<1>5. Aged(NotSet, d, threshold + 1) = NotSet
  BY DEF Aged
<1> QED
  BY <1>1, <1>2, <1>3, <1>4, <1>5 DEF Follows, Reports

-----------------------------------------------------------------------------
(* The invariant.                                                          *)

\* What is queued for the service boiler is used up before the period is over in
\* which it has become unwanted.
SlotsInv ==
    /\ offFor \in 0..Slots
    /\ \A i \in 1..Len(ssrStateQueue) :
          ssrStateQueue[i] = "SERVICE_BOILER_SSR_ON" => i + offFor < Slots

LatchInv ==
    /\ tankReport \in Reports(TankTicks) /\ levelReport \in Reports(LowTicks)
    /\ Follows(waterTankEmptyLatch, tankReport)
    /\ Follows(serviceBoilerLowLatch, levelReport)

HistoryInv ==
    /\ TypeOK /\ SetPointsCurrent
    /\ SlotsInv /\ LatchInv /\ FillingStops /\ ServiceSlotsExpire

LEMMA FirstReports ==
    /\ \A threshold \in Nat : [value |-> FALSE, for |-> 0] \in Reports(threshold)
    /\ Follows(NewLatch, [value |-> FALSE, for |-> 0])
BY DEF Reports, Follows, NewLatch

LEMMA HistoryInitially == HInit => HistoryInv
<1> SUFFICES ASSUME HInit PROVE HistoryInv
  OBVIOUS
<1>1. TypeOK
  BY InitType DEF HInit
<1>2. SlotsInv
  BY DEF HInit, Init, HistoryInit, SlotsInv
<1>3. LatchInv
  BY FirstReports DEF HInit, Init, HistoryInit, LatchInv
<1>4. FillingStops /\ ServiceSlotsExpire /\ SetPointsCurrent
  BY DEF HInit, Init, FillingStops, ServiceSlotsExpire, SetPointsCurrent
<1> QED
  BY <1>1, <1>2, <1>3, <1>4 DEF HistoryInv

\* The history only watches.
LEMMA HistoryWatches == [HNext]_hvars => [Next]_vars
BY DEF HNext, Next, Core0, hvars

\* A step that is no control step leaves latches, slots and packet alone.
LEMMA OtherSteps ==
    ASSUME \/ SendSafePacketNoWait \/ SendLccPacket \/ ReadTimeout \/ ReadBailed
           \/ \E outcome \in {"corrupt", "overheat"} : ReadInvalid(outcome)
           \/ \E p \in Packets : ReadRunning(p)
           \/ HandleCommands \/ Core1
    PROVE  UNCHANGED controlVars /\ (pc' = "sleep" => pc = "sleep")
<1>1. CASE SendSafePacketNoWait \/ SendLccPacket
  BY <1>1 DEF SendSafePacketNoWait, SendLccPacket
<1>2. CASE ReadTimeout \/ ReadBailed \/ \E outcome \in {"corrupt", "overheat"} : ReadInvalid(outcome)
  BY <1>2 DEF ReadTimeout, ReadBailed, ReadInvalid
<1>3. CASE \E p \in Packets : ReadRunning(p)
  BY <1>3 DEF ReadRunning, DetermineRunState, TransitionToHeatupStage2, ReadEmptyStage2Timer,
     FinishHeatup, KeepRunState
<1>4. CASE HandleCommands
  BY <1>4 DEF HandleCommands, SetTemperature, SetEcoMode, SetSleepMode, SetFlowMode, Unbail,
     BeginRunning, ForceHardBail, IgnoreCommand, FinishCommands, RemoveCommand
<1>5. CASE Core1
  BY <1>5 DEF Core1, LaunchCore1, DrainStatus, SendCommand, AddCommand
<1> QED
  BY <1>1, <1>2, <1>3, <1>4, <1>5

-----------------------------------------------------------------------------
(* The control step.                                                       *)

\* The inlet opens exactly to fill, and never in a brew.
LEMMA WaterPacket ==
    ASSUME NEW p, NEW tankEmpty, NEW low, NEW state
    PROVE  LET packet == WithSsr(WithWater(p, tankEmpty, low), state)
           IN  /\ packet.service_boiler_solenoid_open
                    <=> ~Brewing(p, tankEmpty) /\ Filling(p, tankEmpty, low)
               /\ packet.service_boiler_ssr_on <=> state = "SERVICE_BOILER_SSR_ON"
<1> DEFINE water == WithWater(p, tankEmpty, low)
<1>1. /\ water \in LccParsedPackets
      /\ water.service_boiler_solenoid_open
           <=> ~Brewing(p, tankEmpty) /\ Filling(p, tankEmpty, low)
  <2>1. LccParsedPacket \in LccParsedPackets /\ LccParsedPacket.service_boiler_solenoid_open = FALSE
    BY DEF LccParsedPacket, LccParsedPackets
  <2>2. /\ ForFlowMode(LccParsedPacket) \in LccParsedPackets
        /\ ForFlowMode(LccParsedPacket).service_boiler_solenoid_open = FALSE
    <3> DEFINE on   == flowMode \in {"PUMP_ON_SOLENOID_OPEN", "PUMP_ON_SOLENOID_CLOSED"}
               open == flowMode \in {"PUMP_ON_SOLENOID_OPEN", "PUMP_OFF_SOLENOID_OPEN"}
    <3>1. on \in BOOLEAN /\ open \in BOOLEAN
      OBVIOUS
    <3>2. ForFlowMode(LccParsedPacket) =
            [LccParsedPacket EXCEPT !.pump_on = on, !.water_line_solenoid_open = open]
      BY Zenon DEF ForFlowMode
    <3> HIDE DEF on, open
    <3> QED
      BY <2>1, <3>1, <3>2 DEF LccParsedPackets
  <2>3. /\ FillServiceBoiler(LccParsedPacket) \in LccParsedPackets
        /\ FillServiceBoiler(LccParsedPacket).service_boiler_solenoid_open = TRUE
    BY <2>1 DEF FillServiceBoiler, LccParsedPackets
  <2>4. CASE Brewing(p, tankEmpty)
    BY <2>2, <2>4 DEF WithWater
  <2>5. CASE ~Brewing(p, tankEmpty) /\ Filling(p, tankEmpty, low)
    BY <2>3, <2>5 DEF WithWater
  <2>6. CASE ~Brewing(p, tankEmpty) /\ ~Filling(p, tankEmpty, low)
    BY <2>1, <2>6 DEF WithWater
  <2> QED
    BY <2>4, <2>5, <2>6
<1> HIDE DEF water
<1>2. /\ WithSsr(water, state).service_boiler_solenoid_open = water.service_boiler_solenoid_open
      /\ WithSsr(water, state).service_boiler_ssr_on = (state = "SERVICE_BOILER_SSR_ON")
  BY <1>1 DEF WithSsr, LccParsedPackets
<1> QED
  BY <1>1, <1>2 DEF water

\* The control step in terms of the latches it has just set.
LEMMA ControlWater ==
    ASSUME TypeOK, NEW bb, NEW sb, ControlRunning(bb, sb)
    PROVE  LET tank == waterTankEmptyLatch'.currentState
               low  == serviceBoilerLowLatch'.currentState
           IN  /\ waterTankEmptyLatch'
                    = LatchSet(waterTankEmptyLatch, parsed.water_tank_empty, TankTicks)
               /\ serviceBoilerLowLatch'
                    = LatchSet(serviceBoilerLowLatch, parsed.service_boiler_low, LowTicks)
               /\ brewStartedAt' = Brewing(parsed, tank)
               /\ lcc'.service_boiler_solenoid_open
                    <=> ~Brewing(parsed, tank) /\ Filling(parsed, tank, low)
<1> DEFINE queue == Refilled(ssrStateQueue, bb, IF settings.ecoMode THEN 0 ELSE sb,
                             Brewing(parsed, waterTankEmptyLatch'.currentState))
           water == WithWater(parsed, waterTankEmptyLatch'.currentState,
                              serviceBoilerLowLatch'.currentState)
<1>1. /\ waterTankEmptyLatch'
           = LatchSet(waterTankEmptyLatch, parsed.water_tank_empty, TankTicks)
      /\ serviceBoilerLowLatch'
           = LatchSet(serviceBoilerLowLatch, parsed.service_boiler_low, LowTicks)
  BY DEF ControlRunning, HandleControlBoardPacket
<1>2. queue # <<>>
  BY RefilledType DEF TypeOK
<1>3. /\ brewStartedAt' = Brewing(parsed, waterTankEmptyLatch'.currentState)
      /\ lcc' = WithSsr(water, Head(queue))
  BY <1>1, <1>2 DEF ControlRunning, HandleControlBoardPacket
<1> QED
  BY <1>1, <1>3, WaterPacket

\* The slots of the control step.
LEMMA ControlSlots ==
    ASSUME TypeOK, NEW bb, NEW sb, ControlRunning(bb, sb)
    PROVE  \E brewing :
              LET queue == Refilled(ssrStateQueue, bb, IF settings.ecoMode THEN 0 ELSE sb, brewing)
              IN  /\ ssrStateQueue' = Tail(queue)
                  /\ lcc'.service_boiler_ssr_on <=> Head(queue) = "SERVICE_BOILER_SSR_ON"
<1> DEFINE tank    == LatchSet(waterTankEmptyLatch, parsed.water_tank_empty, TankTicks)
           low     == LatchSet(serviceBoilerLowLatch, parsed.service_boiler_low, LowTicks)
           brewing == Brewing(parsed, tank.currentState)
           water   == WithWater(parsed, tank.currentState, low.currentState)
           queue   == Refilled(ssrStateQueue, bb, IF settings.ecoMode THEN 0 ELSE sb, brewing)
<1>1. queue # <<>>
  BY RefilledType DEF TypeOK
<1>2. lcc' = WithSsr(water, Head(queue)) /\ ssrStateQueue' = Tail(queue)
  BY <1>1 DEF ControlRunning, HandleControlBoardPacket
<1>3. lcc'.service_boiler_ssr_on <=> Head(queue) = "SERVICE_BOILER_SSR_ON"
  BY <1>2, WaterPacket
<1> QED
  BY <1>2, <1>3

\* A period without a service signal has no service slot.
LEMMA NoServiceSlots ==
    ASSUME NEW bb \in 0..Slots, NEW brewing, NEW i \in 1..Slots
    PROVE  FilledQueue(PowerShare(bb, 0, brewing))[i] # "SERVICE_BOILER_SSR_ON"
<1>1. PowerShare(bb, 0, brewing) = [bb |-> bb, sb |-> 0]
  BY DEF PowerShare
<1> DEFINE share == PowerShare(bb, 0, brewing)
<1>2. share.bb = bb /\ share.sb = 0
  BY <1>1
<1>3. FilledQueue(share)[i] = CASE i =< share.bb -> "BREW_BOILER_SSR_ON"
          [] share.bb < i /\ i =< share.bb + share.sb -> "SERVICE_BOILER_SSR_ON"
          [] OTHER -> "BOTH_SSRS_OFF"
  BY DEF FilledQueue
<1>4. FilledQueue(share)[i] # "SERVICE_BOILER_SSR_ON"
  <2> HIDE DEF share
  <2>1. CASE i =< bb
    BY <1>2, <1>3, <2>1
  <2>2. CASE ~(i =< bb)
    BY <1>2, <1>3, <2>2
  <2> QED
    BY <2>1, <2>2
<1> QED
  BY <1>4

LEMMA ControlKeepsSlots ==
    ASSUME HistoryInv, NEW bb \in BrewSignals, NEW sb \in ServiceSignals,
           ControlRunning(bb, sb), Observe
    PROVE  SlotsInv' /\ ServiceSlotsExpire'
<1>1. /\ ssrStateQueue \in Seq(SsrState) /\ Len(ssrStateQueue) =< Slots /\ offFor \in 0..Slots
      /\ bb \in 0..Slots
  BY DEF HistoryInv, TypeOK, SlotsInv, BrewSignals, ForceHysteresis
<1>2. PICK brewing :
         LET queue == Refilled(ssrStateQueue, bb, IF settings.ecoMode THEN 0 ELSE sb, brewing)
         IN  /\ ssrStateQueue' = Tail(queue)
             /\ lcc'.service_boiler_ssr_on <=> Head(queue) = "SERVICE_BOILER_SSR_ON"
  BY ControlSlots DEF HistoryInv
<1> DEFINE queue == Refilled(ssrStateQueue, bb, IF settings.ecoMode THEN 0 ELSE sb, brewing)
<1>3. queue \in Seq(SsrState) /\ Len(queue) =< Slots /\ queue # <<>>
  BY <1>1, RefilledType
<1>4. /\ Len(queue) \in Nat /\ Len(queue) > 0
      /\ Len(ssrStateQueue') = Len(queue) - 1
      /\ Head(queue) = queue[1]
      /\ \A i \in 1..Len(ssrStateQueue') : ssrStateQueue'[i] = queue[i + 1]
  BY <1>2, <1>3
<1>5. Controls
  BY DEF Controls, ControlRunning
<1>6. offFor' = IF ~ServiceUnwanted THEN 0 ELSE IF offFor < Slots THEN offFor + 1 ELSE offFor
  BY <1>5 DEF Observe
<1>7. ServiceUnwanted => (IF settings.ecoMode THEN 0 ELSE sb) = 0
  <2>1. setPoints = SetPointsFor(settings, runState) /\ settings \in Settings
    BY DEF HistoryInv, TypeOK, SetPointsCurrent, ControlRunning
  <2>2. settings.sleepMode \/ runState = "HEATUP_STAGE_1" => setPoints.service = 0
    BY <2>1 DEF SetPointsFor, Settings
  <2> QED
    BY <2>2 DEF ServiceUnwanted, ServiceSignals
<1>8. ServiceUnwanted =>
         \A i \in 1..Len(queue) : queue[i] = "SERVICE_BOILER_SSR_ON" => i + offFor < Slots
  <2>1. CASE ssrStateQueue = <<>> /\ ServiceUnwanted
    <3>1. queue = FilledQueue(PowerShare(bb, 0, brewing))
      BY <1>7, <2>1 DEF Refilled
    <3>2. \A i \in 1..Slots : queue[i] # "SERVICE_BOILER_SSR_ON"
      BY <1>1, <3>1, NoServiceSlots
    <3> HIDE DEF queue
    <3> QED
      BY <1>3, <1>4, <3>2
  <2>2. CASE ssrStateQueue # <<>>
    <3>1. queue = ssrStateQueue
      BY <2>2 DEF Refilled
    <3> QED
      BY <3>1 DEF HistoryInv, SlotsInv
  <2> QED
    BY <2>1, <2>2
<1>9. lcc'.service_boiler_ssr_on <=> queue[1] = "SERVICE_BOILER_SSR_ON"
  BY <1>2, <1>4
<1> HIDE DEF queue
<1>10. CASE ServiceUnwanted
  <2>1. SlotsInv'
    <3>1. offFor' \in 0..Slots
      BY <1>1, <1>6
    <3>2. ASSUME NEW i \in 1..Len(ssrStateQueue'), ssrStateQueue'[i] = "SERVICE_BOILER_SSR_ON"
          PROVE  i + offFor' < Slots
      <4>1. i + 1 \in 1..Len(queue) /\ queue[i + 1] = "SERVICE_BOILER_SSR_ON"
        BY <1>4, <3>2
      <4>2. i + 1 + offFor < Slots
        BY <1>8, <1>10, <4>1
      <4> QED
        BY <1>1, <1>4, <1>6, <1>10, <4>2
    <3> QED
      BY <3>1, <3>2 DEF SlotsInv
  <2>2. lcc'.service_boiler_ssr_on => offFor' < Slots
    <3>1. lcc'.service_boiler_ssr_on => 1 + offFor < Slots
      BY <1>4, <1>8, <1>9, <1>10
    <3> QED
      BY <1>1, <1>6, <1>10, <3>1
  <2>3. ServiceSlotsExpire'
    <3>1. offFor' >= Slots => ~lcc'.service_boiler_ssr_on
      BY <1>1, <1>6, <1>10, <2>2
    <3> QED
      BY <3>1 DEF ServiceSlotsExpire
  <2> QED
    BY <2>1, <2>3
<1>11. CASE ~ServiceUnwanted
  <2>1. offFor' = 0
    BY <1>6, <1>11
  <2>2. \A i \in 1..Len(ssrStateQueue') : i + 0 < Slots
    BY <1>3, <1>4
  <2>3. SlotsInv'
    BY <2>1, <2>2 DEF SlotsInv
  <2>4. ServiceSlotsExpire'
    <3>1. ~(offFor' >= Slots)
      BY <2>1
    <3> QED
      BY <3>1 DEF ServiceSlotsExpire
  <2> QED
    BY <2>3, <2>4
<1> QED
  BY <1>10, <1>11

\* What the latches have become agrees with what has been reported long enough.
LEMMA ControlLatches ==
    ASSUME HistoryInv, NEW bb, NEW sb, ControlRunning(bb, sb), Observe
    PROVE  /\ LatchInv'
           /\ tankReport'.for > TankTicks => waterTankEmptyLatch'.currentState = tankReport'.value
           /\ levelReport'.for > LowTicks => serviceBoilerLowLatch'.currentState = levelReport'.value
<1>1. Controls
  BY DEF Controls, ControlRunning
<1>2. /\ tankReport' = Reported(tankReport, parsed.water_tank_empty)
      /\ levelReport' = Reported(levelReport, parsed.service_boiler_low)
  BY <1>1 DEF Observe
<1>3. parsed.water_tank_empty \in BOOLEAN /\ parsed.service_boiler_low \in BOOLEAN
  BY DEF HistoryInv, TypeOK, ControlBoardParsedPackets
<1>4. waterTankEmptyLatch \in Latches(TankTicks) /\ serviceBoilerLowLatch \in Latches(LowTicks)
  BY DEF HistoryInv, TypeOK
<1>5. /\ waterTankEmptyLatch'
           = LatchSet(waterTankEmptyLatch, parsed.water_tank_empty, TankTicks)
      /\ serviceBoilerLowLatch'
           = LatchSet(serviceBoilerLowLatch, parsed.service_boiler_low, LowTicks)
  BY DEF ControlRunning, HandleControlBoardPacket
<1>6. /\ Follows(waterTankEmptyLatch', tankReport') /\ tankReport' \in Reports(TankTicks)
      /\ tankReport'.for > TankTicks => waterTankEmptyLatch'.currentState = tankReport'.value
  BY <1>2, <1>3, <1>4, <1>5, SetFollows DEF HistoryInv, LatchInv
<1>7. /\ Follows(serviceBoilerLowLatch', levelReport') /\ levelReport' \in Reports(LowTicks)
      /\ levelReport'.for > LowTicks => serviceBoilerLowLatch'.currentState = levelReport'.value
  BY <1>2, <1>3, <1>4, <1>5, SetFollows DEF HistoryInv, LatchInv
<1> QED
  BY <1>6, <1>7 DEF LatchInv

LEMMA ControlFilling ==
    ASSUME HistoryInv, NEW bb, NEW sb, ControlRunning(bb, sb), Observe
    PROVE  FillingStops'
<1>1. levelReport' \in Reports(LowTicks)
  BY ControlLatches DEF LatchInv
<1>2. lcc'.service_boiler_solenoid_open => serviceBoilerLowLatch'.currentState
  BY ControlWater DEF HistoryInv, Filling
<1>3. levelReport'.for > LowTicks => serviceBoilerLowLatch'.currentState = levelReport'.value
  BY ControlLatches
<1> QED
  BY <1>1, <1>2, <1>3 DEF FillingStops, Reports

-----------------------------------------------------------------------------
(* Every step.                                                             *)

LEMMA HistoryStep == HistoryInv /\ [HNext]_hvars => HistoryInv'
<1> SUFFICES ASSUME HistoryInv, [HNext]_hvars PROVE HistoryInv'
  OBVIOUS
<1>1. TypeOK' /\ SetPointsCurrent'
  BY HistoryWatches, NextType, SetPointsKept DEF HistoryInv
<1>2. ASSUME UNCHANGED <<controlVars, tankReport, levelReport, offFor>>,
             pc' = "sleep" => pc = "sleep"
      PROVE  HistoryInv'
  BY <1>1, <1>2 DEF HistoryInv, SlotsInv, LatchInv, FillingStops, ServiceSlotsExpire, controlVars
<1>3. CASE (\/ SendSafePacketNoWait \/ SendLccPacket \/ ReadTimeout \/ ReadBailed
            \/ \E outcome \in {"corrupt", "overheat"} : ReadInvalid(outcome)
            \/ \E p \in Packets : ReadRunning(p)
            \/ HandleCommands \/ Core1) /\ Observe
  <2>1. UNCHANGED controlVars /\ (pc' = "sleep" => pc = "sleep")
    BY <1>3, OtherSteps
  <2>2. ~Controls
    BY <2>1 DEF Controls
  <2> QED
    BY <1>2, <1>3, <2>1, <2>2 DEF Observe
<1>4. ASSUME NEW bb \in BrewSignals, NEW sb \in ServiceSignals, ControlRunning(bb, sb), Observe
      PROVE  HistoryInv'
  BY <1>1, <1>4, ControlKeepsSlots, ControlLatches, ControlFilling DEF HistoryInv
<1>5. CASE ControlBailed /\ Observe
  <2>1. ~Controls
    BY <1>5 DEF ControlBailed, Controls
  <2>2. UNCHANGED <<ssrStateQueue, waterTankEmptyLatch, serviceBoilerLowLatch,
                    tankReport, levelReport, offFor>>
    BY <1>5, <2>1 DEF ControlBailed, Observe
  <2>3. ~lcc'.service_boiler_solenoid_open /\ ~lcc'.service_boiler_ssr_on
    BY <1>5, SafePacket DEF ControlBailed, LccParsedPacket
  <2> QED
    BY <1>1, <2>2, <2>3 DEF HistoryInv, SlotsInv, LatchInv, FillingStops, ServiceSlotsExpire
<1>6. ASSUME NEW d \in 1..MaxDelay, Sleep(d), Age(d)
      PROVE  HistoryInv'
  <2>1. /\ waterTankEmptyLatch' = LatchAged(waterTankEmptyLatch, d, TankTicks)
        /\ serviceBoilerLowLatch' = LatchAged(serviceBoilerLowLatch, d, LowTicks)
        /\ tankReport' = ReportAged(tankReport, d, TankTicks)
        /\ levelReport' = ReportAged(levelReport, d, LowTicks)
        /\ UNCHANGED <<ssrStateQueue, offFor>> /\ pc' = "loop" /\ d \in Nat
    BY <1>6 DEF Sleep, Age
  <2>2. LatchInv'
    BY <2>1, AgeFollows DEF HistoryInv, TypeOK, LatchInv
  <2> QED
    BY <1>1, <2>1, <2>2 DEF HistoryInv, SlotsInv, FillingStops, ServiceSlotsExpire
<1>7. CASE WatchdogReset /\ Forget
  <2>1. /\ ssrStateQueue' = <<>> /\ waterTankEmptyLatch' = NewLatch
        /\ serviceBoilerLowLatch' = NewLatch /\ pc' = "loop" /\ offFor' = 0
        /\ tankReport' = [value |-> FALSE, for |-> 0]
        /\ levelReport' = [value |-> FALSE, for |-> 0]
    BY <1>7 DEF WatchdogReset, Forget
  <2> QED
    BY <1>1, <2>1, FirstReports
       DEF HistoryInv, SlotsInv, LatchInv, FillingStops, ServiceSlotsExpire
<1>8. CASE UNCHANGED hvars
  BY <1>2, <1>8 DEF hvars, vars
<1> QED
  BY <1>3, <1>4, <1>5, <1>6, <1>7, <1>8 DEF HNext, Awake

\* The service boiler is never filled longer than its latch's threshold after the
\* probe has reported water, for every threshold and every length of a cycle.
THEOREM FillingNeverStale == HSpec => []FillingStops
<1>1. HistoryInv => FillingStops
  BY DEF HistoryInv
<1> QED
  BY <1>1, HistoryInitially, HistoryStep, PTL DEF HSpec

\* No slot queued for the service boiler outlives the period in which it has become
\* unwanted, for every length of a period.
THEOREM ServiceSlotsGone == HSpec => []ServiceSlotsExpire
<1>1. HistoryInv => ServiceSlotsExpire
  BY DEF HistoryInv
<1> QED
  BY <1>1, HistoryInitially, HistoryStep, PTL DEF HSpec

-----------------------------------------------------------------------------
(* What a control step decides.                                            *)

\* Only ControlRunning runs handleControlBoardPacket.
LEMMA ControlsRun ==
    ASSUME HNext, Controls
    PROVE  Observe /\ \E bb, sb : ControlRunning(bb, sb)
<1>1. ~(\E d \in 1..MaxDelay : Sleep(d)) /\ ~WatchdogReset
  BY DEF Controls, Sleep, WatchdogReset
<1>2. Observe /\ (Awake \/ Core1)
  BY <1>1 DEF HNext
<1>3. ~(\/ SendSafePacketNoWait \/ SendLccPacket \/ ReadTimeout \/ ReadBailed
        \/ \E outcome \in {"corrupt", "overheat"} : ReadInvalid(outcome)
        \/ \E p \in Packets : ReadRunning(p)
        \/ HandleCommands \/ Core1)
  BY OtherSteps DEF Controls
<1>4. ~ControlBailed
  BY DEF Controls, ControlBailed
<1> QED
  BY <1>2, <1>3, <1>4 DEF Awake

\* For every threshold: no brew starts and no filling goes on once the tank has been
\* reported empty for longer than the threshold.
THEOREM NeverDry == HSpec => NeverStartsDry
<1>1. HistoryInv /\ [HNext]_hvars =>
        [ Controls /\ tankReport'.value /\ tankReport'.for > TankTicks
            => ~(~brewStartedAt /\ brewStartedAt') /\ ~lcc'.service_boiler_solenoid_open ]_hvars
  <2> SUFFICES ASSUME HistoryInv, HNext, Controls, tankReport'.value,
                      tankReport'.for > TankTicks
               PROVE  ~(~brewStartedAt /\ brewStartedAt') /\ ~lcc'.service_boiler_solenoid_open
    OBVIOUS
  <2>1. PICK bb, sb : ControlRunning(bb, sb)
    BY ControlsRun
  <2>2. waterTankEmptyLatch'.currentState
    BY <2>1, ControlsRun, ControlLatches
  <2> QED
    BY <2>1, <2>2, ControlWater DEF HistoryInv, Brewing, Filling
<1> QED
  BY <1>1, HistoryInitially, HistoryStep, PTL DEF HSpec, NeverStartsDry

\* For every threshold: with water reported for longer than the threshold, a brew
\* starts when asked for and a boiler low for longer than its own is filled.
THEOREM RequestsGranted == HSpec => RequestsHonoured
<1> DEFINE Granted ==
      /\ parsed.brew_switch => brewStartedAt'
      /\ levelReport'.value /\ levelReport'.for > LowTicks
           /\ ~brewStartedAt /\ ~parsed.brew_switch
         => lcc'.service_boiler_solenoid_open
<1>1. HistoryInv /\ [HNext]_hvars =>
        [ Controls /\ ~tankReport'.value /\ tankReport'.for > TankTicks => Granted ]_hvars
  <2> SUFFICES ASSUME HistoryInv, HNext, Controls, ~tankReport'.value,
                      tankReport'.for > TankTicks
               PROVE  Granted
    OBVIOUS
  <2>1. PICK bb, sb : ControlRunning(bb, sb)
    BY ControlsRun
  <2>2. ~waterTankEmptyLatch'.currentState
    BY <2>1, ControlsRun, ControlLatches
  <2>3. levelReport'.for > LowTicks /\ levelReport'.value => serviceBoilerLowLatch'.currentState
    BY <2>1, ControlsRun, ControlLatches
  <2> QED
    BY <2>1, <2>2, <2>3, ControlWater DEF HistoryInv, Brewing, Filling
<1> QED
  BY <1>1, HistoryInitially, HistoryStep, PTL DEF HSpec, RequestsHonoured

-----------------------------------------------------------------------------
(* Orders of core 1 and what they leave behind.                            *)

\* A queue without its head is neither the queue nor a longer one.
LEMMA TailDiffers ==
    ASSUME NEW S, NEW q \in Seq(S), q # <<>>, NEW t, t = Tail(q)
    PROVE  t # q /\ \A c \in S : t # Append(q, c)
<1>1. Len(q) \in Nat /\ Len(t) = Len(q) - 1
  OBVIOUS
<1>2. ASSUME NEW c \in S, NEW longer, longer = Append(q, c)
      PROVE  t # longer
  <2>1. Len(longer) = Len(q) + 1
    BY <1>2
  <2> SUFFICES ASSUME t = longer PROVE FALSE
    OBVIOUS
  <2> QED
    BY <1>1, <2>1
<1>3. t # q
  <2> SUFFICES ASSUME t = q PROVE FALSE
    OBVIOUS
  <2> QED
    BY <1>1
<1> QED
  BY <1>2, <1>3

\* The queue is left alone or grows: nothing is handled.
LEMMA NothingHandled ==
    ASSUME TypeOK, NEW types,
           \/ UNCHANGED incomingQueue
           \/ \E c \in SystemControllerCommands : incomingQueue' = Append(incomingQueue, c)
    PROVE  ~Handles(types)
<1> SUFFICES ASSUME incomingQueue # <<>>, incomingQueue' = Tail(incomingQueue)
             PROVE  FALSE
  BY DEF Handles
<1>1. incomingQueue \in Seq(SystemControllerCommands)
  BY DEF TypeOK
<1> QED
  BY <1>1, TailDiffers

\* The history of a step that handles neither BEGIN nor UNBAIL, ...
Unordered ==
    /\ resumed' = IF pc = "read" /\ pc' # "read" THEN FALSE ELSE resumed
    /\ "reason" \in leftover' <=> "reason" \in leftover /\ bail_reason' # "NONE"
    /\ "timer" \in leftover' <=> "timer" \in leftover /\ unbailTimer' # NotSet

LEMMA HistoryUnordered ==
    ASSUME Observe, ~Handles(Orders)
    PROVE  Unordered
<1>1. ~Handles({"BEGIN"})
  BY DEF Handles, Orders
<1> QED
  BY <1>1 DEF Observe, LeftByBegin, Unordered

\* ... and of one that does.
LEMMA HistoryOrdered ==
    ASSUME Observe, NEW order \in Orders, RemoveCommand({order})
    PROVE  /\ resumed' = TRUE
           /\ "reason" \in leftover' <=>
                 /\ bail_reason' # "NONE"
                 /\ "reason" \in leftover \/ (order = "BEGIN" /\ Bailed(internalState))
           /\ "timer" \in leftover' <=>
                 /\ unbailTimer' # NotSet
                 /\ "timer" \in leftover \/ (order = "BEGIN" /\ Bailed(internalState))
<1>1. Handles(Orders) /\ (Handles({"BEGIN"}) <=> order = "BEGIN")
  BY DEF Handles, Orders, RemoveCommand
<1> QED
  BY <1>1 DEF Observe, LeftByBegin

\* Core 1 changes nothing of core 0, and it handles nothing.
LEMMA CoreOneOnlySends ==
    ASSUME TypeOK, Core1
    PROVE  /\ UNCHANGED <<pc, internalState, runState, bail_reason, unbailTimer, rx, wire>>
           /\ ~Handles(Orders)
<1>1. UNCHANGED <<pc, internalState, runState, bail_reason, unbailTimer, rx, wire>>
  BY DEF Core1, LaunchCore1, DrainStatus, SendCommand, AddCommand, bailVars
<1>2. \/ UNCHANGED incomingQueue
      \/ \E c \in SystemControllerCommands : incomingQueue' = Append(incomingQueue, c)
  BY DEF Core1, LaunchCore1, DrainStatus, SendCommand, AddCommand, SystemControllerCommands
<1> QED
  BY <1>1, <1>2, NothingHandled

-----------------------------------------------------------------------------
(* The bail discipline.                                                    *)

\* What a read leaves behind until the frame after it is out, or until an order of
\* core 1 is obeyed.
AnswerInv ==
    /\ pc \in {"read", "commands", "control", "sleep"} => internalState # "NOT_STARTED_YET"
    /\ internalState = "NOT_STARTED_YET" \/ pc = "earlyCommands" => rx = "none"
    /\ rx = "timeout" /\ ~resumed => Bailed(internalState)
    /\ rx = "overheat" /\ ~resumed => Bailed(internalState) \/ runState = "UNDETERMINED"
    /\ pc = "read" /\ Bailed(internalState) => wire = create_safe_packet

\* A stale timer is a timer.
BailInv ==
    /\ TypeOK /\ AnswerInv /\ BailIsForgotten
    /\ TimerStale => unbailTimer # NotSet

\* A step that changes nothing of all this but where loop() is.
LEMMA BailKept ==
    ASSUME BailInv, Observe, ~Handles(Orders), pc # "read" \/ pc' = "read",
           UNCHANGED <<internalState, runState, bail_reason, unbailTimer, rx, wire>>,
           pc' \in {pc, "earlyCommands", "commands", "control", "sleep", "loop"},
           internalState = "NOT_STARTED_YET" => pc' \in {pc, "earlyCommands", "loop"},
           pc' = "earlyCommands" => pc = "earlyCommands" \/ internalState = "NOT_STARTED_YET"
    PROVE  AnswerInv' /\ BailIsForgotten' /\ (TimerStale' => unbailTimer' # NotSet)
<1>1. Unordered
  BY HistoryUnordered
<1> QED
  BY <1>1 DEF Unordered, BailInv, AnswerInv, BailIsForgotten, TimerStale, Bailed

LEMMA BailSend ==
    ASSUME BailInv, Observe, SendSafePacketNoWait \/ SendLccPacket
    PROVE  AnswerInv' /\ BailIsForgotten' /\ (TimerStale' => unbailTimer' # NotSet)
<1>1. UNCHANGED incomingQueue
  BY DEF SendSafePacketNoWait, SendLccPacket, queueVars
<1>2. Unordered
  BY <1>1, NothingHandled, HistoryUnordered DEF BailInv
<1>3. CASE SendSafePacketNoWait
  BY <1>2, <1>3 DEF SendSafePacketNoWait, bailVars, Unordered, BailInv, AnswerInv,
     BailIsForgotten, TimerStale, Bailed
<1>4. CASE SendLccPacket
  <2>1. /\ pc = "loop" /\ pc' = "read" /\ internalState # "NOT_STARTED_YET"
        /\ UNCHANGED <<runState, unbailTimer, rx>>
        /\ \/ UNCHANGED <<internalState, bail_reason>>
           \/ internalState' = "HARD_BAIL" /\ bail_reason' = "LCC_PACKET_INVALID"
        /\ Bailed(internalState') => wire' = create_safe_packet
    BY <1>4 DEF SendLccPacket, OnlySendSafePackages
  <2> QED
    BY <1>2, <2>1 DEF Unordered, BailInv, AnswerInv, BailIsForgotten, TimerStale, Bailed
<1> QED
  BY <1>3, <1>4

LEMMA BailRead ==
    ASSUME BailInv, Observe,
           \/ ReadTimeout \/ ReadBailed
           \/ \E outcome \in {"corrupt", "overheat"} : ReadInvalid(outcome)
           \/ \E p \in Packets : ReadRunning(p)
    PROVE  AnswerInv' /\ BailIsForgotten' /\ (TimerStale' => unbailTimer' # NotSet)
<1>1. UNCHANGED incomingQueue /\ pc = "read" /\ pc' \in {"commands", "panicked"}
  BY DEF ReadTimeout, ReadBailed, ReadInvalid, ReadRunning, DetermineRunState,
     TransitionToHeatupStage2, ReadEmptyStage2Timer, FinishHeatup, KeepRunState, queueVars
<1>2. Unordered /\ resumed' = FALSE
  BY <1>1, NothingHandled, HistoryUnordered DEF BailInv, Unordered
<1>3. internalState \in {"RUNNING", "SOFT_BAIL", "HARD_BAIL"}
  BY <1>1 DEF BailInv, AnswerInv, TypeOK, InternalStates
<1> USE DEF BailInv, AnswerInv, BailIsForgotten, TimerStale, Bailed, Unordered
<1>4. CASE ReadTimeout
  BY <1>1, <1>2, <1>3, <1>4 DEF ReadTimeout, SoftBailed, FirstReason
<1>5. CASE ReadBailed
  BY <1>1, <1>2, <1>3, <1>5 DEF ReadBailed, Answered, LeaveBail, NotSet
<1>6. ASSUME NEW outcome \in {"corrupt", "overheat"}, ReadInvalid(outcome)
      PROVE  AnswerInv' /\ BailIsForgotten' /\ (TimerStale' => unbailTimer' # NotSet)
  BY <1>1, <1>2, <1>3, <1>6 DEF ReadInvalid, Answered, LeaveBail, FirstReason, NotSet
<1>7. ASSUME NEW p, ReadRunning(p)
      PROVE  AnswerInv' /\ BailIsForgotten' /\ (TimerStale' => unbailTimer' # NotSet)
  BY <1>1, <1>2, <1>3, <1>7 DEF ReadRunning
<1> QED
  BY <1>4, <1>5, <1>6, <1>7

LEMMA BailCommands ==
    ASSUME BailInv, Observe, HandleCommands
    PROVE  AnswerInv' /\ BailIsForgotten' /\ (TimerStale' => unbailTimer' # NotSet)
<1>1. ASSUME NEW types, RemoveCommand(types)
      PROVE  pc \in {"commands", "earlyCommands"} /\ UNCHANGED <<pc, rx, wire>>
  BY <1>1 DEF RemoveCommand, HandlingCommands
<1>2. CASE FinishCommands
  <2>1. /\ pc \in {"commands", "earlyCommands"} /\ UNCHANGED incomingQueue
        /\ pc' = IF pc = "commands" THEN "control" ELSE "loop"
        /\ UNCHANGED <<internalState, runState, bail_reason, unbailTimer, rx, wire>>
    BY <1>2 DEF FinishCommands, HandlingCommands, bailVars, queueVars
  <2>2. pc = "commands" => internalState # "NOT_STARTED_YET"
    BY DEF BailInv, AnswerInv
  <2> QED
    BY <2>1, <2>2, NothingHandled, BailKept DEF BailInv
<1>3. CASE ForceHardBail
  <2>1. /\ internalState' = "HARD_BAIL" /\ bail_reason' = "FORCED"
        /\ UNCHANGED <<runState, unbailTimer>>
        /\ pc \in {"commands", "earlyCommands"} /\ UNCHANGED <<pc, rx, wire>>
    BY <1>1, <1>3 DEF ForceHardBail
  <2>2. Unordered
    BY <1>3, HistoryUnordered DEF ForceHardBail, RemoveCommand, Handles, Orders
  <2> QED
    BY <2>1, <2>2 DEF Unordered, BailInv, AnswerInv, BailIsForgotten, TimerStale, Bailed
<1>4. CASE SetTemperature \/ SetEcoMode \/ SetSleepMode \/ SetFlowMode \/ IgnoreCommand
  <2>1. /\ pc \in {"commands", "earlyCommands"} /\ UNCHANGED <<pc, rx, wire>>
        /\ UNCHANGED <<internalState, runState, bail_reason, unbailTimer>>
    BY <1>1, <1>4 DEF SetTemperature, SetEcoMode, SetSleepMode, SetFlowMode, IgnoreCommand,
       bailVars
  <2>2. ~Handles(Orders)
    BY <1>4 DEF SetTemperature, SetEcoMode, SetSleepMode, SetFlowMode, IgnoreCommand,
       RemoveCommand, Handles, Orders, FloatCommandTypes, InertCommandTypes
  <2> QED
    BY <2>1, <2>2, BailKept
<1>5. CASE Unbail
  <2>1. /\ internalState' = "RUNNING" /\ bail_reason' = "NONE" /\ unbailTimer' = NotSet
        /\ pc \in {"commands", "earlyCommands"} /\ UNCHANGED <<pc, rx, wire>>
    BY <1>1, <1>5 DEF Unbail, LeaveBail
  <2>2. resumed' = TRUE /\ "timer" \notin leftover'
    BY <1>5, <2>1, HistoryOrdered DEF Unbail, Orders
  <2> QED
    BY <2>1, <2>2 DEF BailInv, AnswerInv, BailIsForgotten, TimerStale, Bailed
<1>6. CASE BeginRunning
  <2>1. /\ internalState' = "RUNNING" /\ UNCHANGED <<bail_reason, unbailTimer>>
        /\ pc \in {"commands", "earlyCommands"} /\ UNCHANGED <<pc, rx, wire>>
    BY <1>1, <1>6 DEF BeginRunning
  <2>2. /\ resumed' = TRUE
        /\ "reason" \in leftover' <=>
              bail_reason' # "NONE" /\ ("reason" \in leftover \/ Bailed(internalState))
        /\ "timer" \in leftover' <=>
              unbailTimer' # NotSet /\ ("timer" \in leftover \/ Bailed(internalState))
    BY <1>6, HistoryOrdered DEF BeginRunning, Orders
  <2> QED
    BY <2>1, <2>2 DEF BailInv, AnswerInv, BailIsForgotten, TimerStale, Bailed
<1> QED
  BY <1>2, <1>3, <1>4, <1>5, <1>6 DEF HandleCommands

LEMMA BailStep == BailInv /\ [HNext]_hvars => BailInv'
<1> SUFFICES ASSUME BailInv, [HNext]_hvars
             PROVE  AnswerInv' /\ BailIsForgotten' /\ (TimerStale' => unbailTimer' # NotSet)
  BY HistoryWatches, NextType DEF BailInv
<1>1. CASE (SendSafePacketNoWait \/ SendLccPacket) /\ Observe
  BY <1>1, BailSend
<1>2. CASE (\/ ReadTimeout \/ ReadBailed
            \/ \E outcome \in {"corrupt", "overheat"} : ReadInvalid(outcome)
            \/ \E p \in Packets : ReadRunning(p)) /\ Observe
  BY <1>2, BailRead
<1>3. CASE HandleCommands /\ Observe
  BY <1>3, BailCommands
<1>4. CASE (ControlBailed \/ \E bb, sb : ControlRunning(bb, sb)) /\ Observe
  <2>1. /\ pc = "control" /\ pc' = "sleep"
        /\ UNCHANGED <<internalState, runState, bail_reason, unbailTimer, rx, wire, incomingQueue>>
    <3>1. CASE ControlBailed
      BY <3>1 DEF ControlBailed, bailVars
    <3>2. ASSUME NEW bb, NEW sb, ControlRunning(bb, sb)
          PROVE  /\ pc = "control" /\ pc' = "sleep"
                 /\ UNCHANGED <<internalState, runState, bail_reason, unbailTimer, rx, wire,
                                incomingQueue>>
      BY <3>2, ControlResult DEF ControlRunning, BailInv
    <3> QED
      BY <1>4, <3>1, <3>2
  <2>2. internalState # "NOT_STARTED_YET"
    BY <2>1 DEF BailInv, AnswerInv
  <2> QED
    BY <1>4, <2>1, <2>2, NothingHandled, BailKept DEF BailInv
<1>5. CASE Core1 /\ Observe
  BY <1>5, CoreOneOnlySends, BailKept DEF BailInv
<1>6. ASSUME NEW d \in 1..MaxDelay, Sleep(d), Age(d)
      PROVE  AnswerInv' /\ BailIsForgotten' /\ (TimerStale' => unbailTimer' # NotSet)
  <2>1. unbailTimer' # NotSet <=> unbailTimer # NotSet
    BY <1>6 DEF Sleep, Aged, BailInv, TypeOK, Timestamps, NotSet
  <2>2. /\ pc = "sleep" /\ pc' = "loop"
        /\ UNCHANGED <<internalState, runState, bail_reason, rx, wire, resumed, leftover>>
    BY <1>6 DEF Sleep, Age
  <2> QED
    BY <2>1, <2>2 DEF BailInv, AnswerInv, BailIsForgotten, TimerStale, Bailed
<1>7. CASE WatchdogReset /\ Forget
  BY <1>7 DEF WatchdogReset, Forget, AnswerInv, BailIsForgotten, TimerStale, Bailed, NotSet
<1>8. CASE UNCHANGED hvars
  BY <1>8 DEF hvars, vars, bailVars, BailInv, AnswerInv, BailIsForgotten, TimerStale, Bailed
<1> QED
  BY <1>1, <1>2, <1>3, <1>4, <1>5, <1>6, <1>7, <1>8 DEF HNext, Awake

LEMMA BailInit == HInit => BailInv
  BY InitType DEF HInit, Init, HistoryInit, BailInv, AnswerInv, BailIsForgotten, TimerStale,
     Bailed, NotSet

\* An unanswered frame is followed by a safe one, unless an order of core 1 was
\* obeyed in between, however often core 1 is launched.
THEOREM TimeoutSilenced == HSpec => []TimeoutSilences
<1>1. BailInv => TimeoutSilences
  BY DEF BailInv, AnswerInv, TimeoutSilences
<1> QED
  BY <1>1, BailInit, BailStep, PTL DEF HSpec

\* A bail leaves its reason and its timer behind only when a COMMAND_BEGIN ends it.
THEOREM BailForgotten == HSpec => []BailIsForgotten
<1>1. BailInv => BailIsForgotten
  BY DEF BailInv
<1> QED
  BY <1>1, BailInit, BailStep, PTL DEF HSpec

\* A frame heats after a packet above the limit only out of a bail: one that has
\* ended by itself and left the run state undetermined, or one that core 1 has
\* ended since.  In a normal run and in the heat-up such a packet silences the
\* relays, whatever the quarantine, the commands and the launches are.
THEOREM HeatsHotOutOfBail == HSpec => []HeatsOnlyOutOfBail
<1>1. /\ ServiceBoilerRelay \notin create_safe_packet.shiftRegister2
      /\ BrewBoilerRelay \notin create_safe_packet.shiftRegister1
  BY DEF create_safe_packet
<1>2. BailInv => HeatsOnlyOutOfBail
  BY <1>1 DEF HeatsOnlyOutOfBail, HeatsHot, BailInv, AnswerInv, TypeOK, InternalStates, Bailed
<1> QED
  BY <1>2, BailInit, BailStep, PTL DEF HSpec

-----------------------------------------------------------------------------
(* Counting orders.                                                        *)

LEMMA OrdersFinite ==
    ASSUME NEW queue \in Seq(SystemControllerCommands)
    PROVE  IsFiniteSet(OrdersIn(queue)) /\ Cardinality(OrdersIn(queue)) \in Nat
<1>1. IsFiniteSet(1..Len(queue))
  BY FS_Interval
<1>2. OrdersIn(queue) \in SUBSET (1..Len(queue))
  BY DEF OrdersIn
<1> QED
  BY <1>1, <1>2, FS_Subset, FS_CardinalityType

\* A new command adds one order or none ...
LEMMA OrdersAdded ==
    ASSUME NEW queue \in Seq(SystemControllerCommands), NEW c \in SystemControllerCommands
    PROVE  Cardinality(OrdersIn(Append(queue, c))) =
             Cardinality(OrdersIn(queue)) + IF c.type \in Orders THEN 1 ELSE 0
<1> DEFINE longer == Append(queue, c)
<1>1. /\ Len(queue) \in Nat /\ Len(longer) = Len(queue) + 1
      /\ longer[Len(queue) + 1] = c
      /\ \A i \in 1..Len(queue) : longer[i] = queue[i]
  OBVIOUS
<1> HIDE DEF longer
<1>2. Len(queue) + 1 \notin OrdersIn(queue)
  BY <1>1 DEF OrdersIn
<1>3. CASE c.type \in Orders
  <2>1. OrdersIn(longer) = OrdersIn(queue) \cup {Len(queue) + 1}
    BY <1>1, <1>3 DEF OrdersIn
  <2> QED
    BY <1>2, <1>3, <2>1, OrdersFinite, FS_AddElement DEF longer
<1>4. CASE c.type \notin Orders
  <2>1. OrdersIn(longer) = OrdersIn(queue)
    BY <1>1, <1>4 DEF OrdersIn
  <2> QED
    BY <1>4, <2>1, OrdersFinite DEF longer
<1> QED
  BY <1>3, <1>4

\* ... and one that is handled takes itself away: the others move up by one place.
LEMMA OrdersHandled ==
    ASSUME NEW queue \in Seq(SystemControllerCommands), queue # <<>>
    PROVE  Cardinality(OrdersIn(queue)) =
             Cardinality(OrdersIn(Tail(queue))) + IF Head(queue).type \in Orders THEN 1 ELSE 0
<1> DEFINE rest == Tail(queue)
           later == OrdersIn(queue) \ {1}
           shift == [i \in OrdersIn(rest) |-> i + 1]
<1>1. /\ Len(queue) \in Nat /\ Len(queue) >= 1 /\ Len(rest) = Len(queue) - 1
      /\ Head(queue) = queue[1] /\ rest \in Seq(SystemControllerCommands)
      /\ \A i \in 1..Len(rest) : rest[i] = queue[i + 1]
  OBVIOUS
<1> HIDE DEF rest
<1>2. \A i \in OrdersIn(rest) : i \in Nat /\ i + 1 \in later
  BY <1>1 DEF OrdersIn
<1>3. \A j \in later : j - 1 \in OrdersIn(rest) /\ (j - 1) + 1 = j
  BY <1>1 DEF OrdersIn
<1> HIDE DEF later
<1>4. shift \in Bijection(OrdersIn(rest), later)
  <2>1. shift \in [OrdersIn(rest) -> later]
    BY <1>2
  <2>2. \A a, b \in OrdersIn(rest) : shift[a] = shift[b] => a = b
    BY <1>2
  <2>3. \A j \in later : \E i \in OrdersIn(rest) : shift[i] = j
    BY <1>3
  <2> HIDE DEF shift
  <2> QED
    BY <2>1, <2>2, <2>3 DEF Bijection, Injection, Surjection, IsInjective
<1>5. Cardinality(later) = Cardinality(OrdersIn(rest))
  BY <1>1, <1>4, OrdersFinite, FS_Bijection DEF ExistsBijection
<1>6. Cardinality(later) = IF 1 \in OrdersIn(queue) THEN Cardinality(OrdersIn(queue)) - 1
                           ELSE Cardinality(OrdersIn(queue))
  BY OrdersFinite, FS_RemoveElement DEF later
<1>7. 1 \in OrdersIn(queue) <=> Head(queue).type \in Orders
  BY <1>1 DEF OrdersIn
<1> QED
  BY <1>1, <1>5, <1>6, <1>7, OrdersFinite DEF rest

-----------------------------------------------------------------------------
(* The interlock.                                                          *)

\* The timer of a soft bail runs no longer than the board has been answering, but
\* for one that BEGIN has left behind.
QuietInv ==
    /\ quietFor \in 0..(UnbailTicks + 1)
    /\ internalState # "SOFT_BAIL" => quietFor = 0
    /\ internalState = "SOFT_BAIL" /\ unbailTimer # NotSet /\ ~TimerStale
         => unbailTimer =< quietFor

InterlockInv == BailInv /\ SelfCheckInv /\ QuietInv

IStep == [Interlock!INext]_(Interlock!ivars)

\* A step that handles no order, adds none and leaves the timer alone.
LEMMA OrdersKept ==
    ASSUME BailInv, Observe, ~Handles(Orders), UNCHANGED <<unbailTimer, incomingQueue>>
    PROVE  Pending' = Pending /\ TimerStale' = TimerStale
<1>1. Unordered
  BY HistoryUnordered
<1>2. TimerStale' = TimerStale
  BY <1>1 DEF Unordered, BailInv, TimerStale
<1> QED
  BY <1>2 DEF Pending

\* Handling a command obeys one order or none.
LEMMA OrderTaken ==
    ASSUME TypeOK, NEW types, RemoveCommand(types)
    PROVE  /\ Pending \in Nat /\ Pending' \in Nat
           /\ Head(incomingQueue).type \in Orders => Pending > 0 /\ Pending' = Pending - 1
           /\ Head(incomingQueue).type \notin Orders => Pending' = Pending
<1>1. /\ incomingQueue \in Seq(SystemControllerCommands) /\ incomingQueue # <<>>
      /\ incomingQueue' = Tail(incomingQueue)
      /\ incomingQueue' \in Seq(SystemControllerCommands)
  BY HeadCommand DEF TypeOK, RemoveCommand
<1>2. Pending \in Nat /\ Pending' \in Nat
  BY <1>1, OrdersFinite DEF Pending
<1>3. Pending = Pending' + IF Head(incomingQueue).type \in Orders THEN 1 ELSE 0
  BY <1>1, OrdersHandled DEF Pending
<1> QED
  BY <1>2, <1>3

\* What every step but those of the clock and a restart does to the quiet time.
LEMMA QuietKept ==
    ASSUME QuietInv, Observe, internalState' = internalState, unbailTimer' = unbailTimer,
           TimerStale' = TimerStale, pc = "read" => pc' = "read" \/ rx' # "timeout"
    PROVE  quietFor' = quietFor /\ QuietInv'
<1>1. quietFor' = quietFor
  BY DEF Observe, QuietInv
<1> QED
  BY <1>1 DEF QuietInv

LEMMA QuietOver ==
    ASSUME Observe, internalState' # "SOFT_BAIL"
    PROVE  quietFor' = 0 /\ QuietInv'
<1>1. quietFor' = 0
  BY DEF Observe
<1> QED
  BY <1>1 DEF QuietInv

\* A frame closes one relay at most, and none unless running.
LEMMA FrameRelays ==
    ASSUME TypeOK, LccSound
    PROVE  /\ ClosedRelays(create_safe_packet) = {}
           /\ ClosedRelays(convert_lcc_parsed_to_raw(lcc)) \in {{}, {"brew"}, {"service"}}
<1>1. ClosedRelays(create_safe_packet) = {}
  BY DEF ClosedRelays, create_safe_packet
<1>2. lcc \in LccParsedPackets
  BY DEF TypeOK
<1>3. convert_lcc_raw_to_parsed(convert_lcc_parsed_to_raw(lcc)) = lcc
  BY <1>2, RoundTrip
<1>4. /\ BrewBoilerRelay \in convert_lcc_parsed_to_raw(lcc).shiftRegister1
            <=> lcc.brew_boiler_ssr_on
      /\ ServiceBoilerRelay \in convert_lcc_parsed_to_raw(lcc).shiftRegister2
            <=> lcc.service_boiler_ssr_on
  BY <1>2 DEF LccParsedPackets, convert_lcc_parsed_to_raw, Flag, ServiceBoilerRelay, PumpRelay,
     BrewBoilerRelay, FA7Solenoid, FA8Solenoid
<1> QED
  BY <1>1, <1>4 DEF ClosedRelays, LccSound

LEMMA SendInterlock ==
    ASSUME InterlockInv, SendSafePacketNoWait \/ SendLccPacket, Observe
    PROVE  IStep /\ QuietInv'
<1>1. CASE SendSafePacketNoWait
  <2>1. /\ internalState = "NOT_STARTED_YET" /\ UNCHANGED <<internalState, unbailTimer>>
        /\ wire' = create_safe_packet /\ pc = "loop"
    BY <1>1 DEF SendSafePacketNoWait, bailVars
  <2>2. Pending' = Pending /\ TimerStale' = TimerStale
    BY <1>1, <2>1, NothingHandled, OrdersKept DEF SendSafePacketNoWait, queueVars, InterlockInv,
       BailInv
  <2>3. UNCHANGED quietFor /\ QuietInv'
    BY <2>1, <2>2, QuietKept DEF InterlockInv
  <2>4. ClosedRelays(wire') = {}
    BY <2>1, FrameRelays DEF InterlockInv, SelfCheckInv
  <2> QED
    BY <2>1, <2>2, <2>3, <2>4 DEF IStep, Interlock!INext, Interlock!Transmit
<1>2. CASE SendLccPacket
  <2>1. validate_lcc_raw_packet(convert_lcc_parsed_to_raw(lcc)) = {}
    BY ValidFrames DEF InterlockInv, SelfCheckInv, LccSound, TypeOK
  <2>2. /\ pc = "loop" /\ UNCHANGED <<internalState, unbailTimer>>
        /\ internalState # "NOT_STARTED_YET"
        /\ wire' = IF OnlySendSafePackages(internalState') THEN create_safe_packet
                   ELSE convert_lcc_parsed_to_raw(lcc)
    BY <1>2, <2>1 DEF SendLccPacket
  <2>3. /\ Pending' = Pending /\ TimerStale' = TimerStale
        /\ UNCHANGED quietFor /\ QuietInv'
    <3>1. Pending' = Pending /\ TimerStale' = TimerStale
      BY <1>2, <2>2, NothingHandled, OrdersKept DEF SendLccPacket, queueVars, InterlockInv, BailInv
    <3> QED
      BY <2>2, <3>1, QuietKept DEF InterlockInv
  <2>4. ClosedRelays(wire') \in IF internalState = "RUNNING" THEN {{}, {"brew"}, {"service"}} ELSE {{}}
    <3>1. CASE internalState = "RUNNING"
      <4>1. wire' = convert_lcc_parsed_to_raw(lcc)
        BY <2>2, <3>1 DEF OnlySendSafePackages, Bailed
      <4> QED
        BY <3>1, <4>1, FrameRelays DEF InterlockInv, SelfCheckInv
    <3>2. CASE internalState # "RUNNING"
      <4>1. wire' = create_safe_packet
        BY <2>2, <3>2 DEF OnlySendSafePackages, Bailed, InterlockInv, SelfCheckInv, TypeOK,
           InternalStates
      <4> QED
        BY <3>2, <4>1, FrameRelays DEF InterlockInv, SelfCheckInv
    <3> QED
      BY <3>1, <3>2
  <2> QED
    BY <2>2, <2>3, <2>4 DEF IStep, Interlock!INext, Interlock!Transmit
<1> QED
  BY <1>1, <1>2

\* An answer in a soft bail, or one that begins it.
LEMMA AnswerInterlock ==
    ASSUME InterlockInv, NEW reason, Answered(reason), Observe, pc = "read", rx' # "timeout",
           internalState \in {"RUNNING", "SOFT_BAIL"}, UNCHANGED <<wire, incomingQueue>>
    PROVE  IStep /\ QuietInv'
<1>1. quietFor \in 0..(UnbailTicks + 1) /\ unbailTimer \in Timestamps(UnbailTicks + 1)
  BY DEF InterlockInv, QuietInv, BailInv, TypeOK
<1>2. /\ internalState = "RUNNING" /\ unbailTimer # NotSet => TimerStale
      /\ internalState = "SOFT_BAIL" /\ unbailTimer # NotSet /\ ~TimerStale
           => unbailTimer =< quietFor
      /\ TimerStale => unbailTimer # NotSet
      /\ internalState = "RUNNING" => quietFor = 0
  BY DEF InterlockInv, QuietInv, BailInv, BailIsForgotten, Bailed, TimerStale
<1>3. /\ ~Handles(Orders) /\ Pending' = Pending
      /\ TimerStale' <=> TimerStale /\ unbailTimer' # NotSet
  <2>1. ~Handles(Orders)
    BY NothingHandled DEF InterlockInv, BailInv
  <2> QED
    BY <2>1, HistoryUnordered DEF Unordered, TimerStale, Pending
<1>4. CASE unbailTimer = NotSet
  <2>1. unbailTimer' = 0 /\ internalState' = "SOFT_BAIL" /\ TimerStale' = TimerStale
    BY <1>2, <1>3, <1>4 DEF Answered, NotSet, TimerStale
  <2>2. quietFor' = quietFor
    BY <1>2, <2>1 DEF Observe
  <2>3. QuietInv'
    BY <1>1, <2>1, <2>2 DEF QuietInv
  <2>4. CASE internalState = "RUNNING"
    BY <1>2, <1>3, <2>1, <2>2, <2>3, <2>4 DEF IStep, Interlock!INext, Interlock!SoftBail, TimerStale
  <2>5. CASE internalState = "SOFT_BAIL"
    BY <1>3, <2>1, <2>2, <2>3, <2>5 DEF IStep, Interlock!ivars
  <2> QED
    BY <2>4, <2>5
<1>5. CASE unbailTimer # NotSet /\ QuarantineOver
  <2>1. internalState' = "RUNNING" /\ unbailTimer' = NotSet
    BY <1>5 DEF Answered, LeaveBail
  <2>2. quietFor' = 0 /\ QuietInv'
    BY <2>1, QuietOver
  <2>3. TimerStale' = FALSE
    BY <1>3, <2>1 DEF TimerStale
  <2>4. CASE TimerStale
    BY <1>3, <2>1, <2>2, <2>3, <2>4 DEF IStep, Interlock!INext, Interlock!RecoverEarly
  <2>5. CASE ~TimerStale
    <3>1. internalState = "SOFT_BAIL" /\ quietFor > UnbailTicks
      BY <1>1, <1>2, <1>5, <2>5 DEF QuarantineOver, Timestamps, NotSet
    <3> QED
      BY <1>3, <2>1, <2>2, <2>3, <3>1 DEF IStep, Interlock!INext, Interlock!Recover
  <2> QED
    BY <2>4, <2>5
<1>6. CASE unbailTimer # NotSet /\ ~QuarantineOver
  <2>1. /\ internalState' = "SOFT_BAIL" /\ UNCHANGED unbailTimer
        /\ TimerStale' = TimerStale
    BY <1>3, <1>6 DEF Answered, TimerStale
  <2>2. quietFor' = quietFor
    BY <1>2, <2>1 DEF Observe
  <2>3. QuietInv'
    BY <1>1, <1>2, <1>6, <2>1, <2>2 DEF QuietInv
  <2>4. CASE internalState = "RUNNING"
    BY <1>2, <1>3, <2>1, <2>2, <2>3, <2>4 DEF IStep, Interlock!INext, Interlock!SoftBail, TimerStale
  <2>5. CASE internalState = "SOFT_BAIL"
    BY <1>3, <2>1, <2>2, <2>3, <2>5 DEF IStep, Interlock!ivars
  <2> QED
    BY <2>4, <2>5
<1> QED
  BY <1>4, <1>5, <1>6

LEMMA ReadInterlock ==
    ASSUME InterlockInv, Observe,
           \/ ReadTimeout \/ ReadBailed
           \/ \E outcome \in {"corrupt", "overheat"} : ReadInvalid(outcome)
           \/ \E p \in Packets : ReadRunning(p)
    PROVE  IStep /\ QuietInv'
<1>1. pc = "read" /\ UNCHANGED <<wire, incomingQueue>>
  BY DEF ReadTimeout, ReadBailed, ReadInvalid, ReadRunning, queueVars
<1>2. internalState \in {"RUNNING", "SOFT_BAIL", "HARD_BAIL"}
  BY <1>1 DEF InterlockInv, BailInv, AnswerInv, TypeOK, InternalStates
<1>3. ~Handles(Orders)
  BY <1>1, NothingHandled DEF InterlockInv, BailInv
<1>4. ASSUME UNCHANGED <<internalState, unbailTimer>>,
             rx' # "timeout" \/ internalState # "SOFT_BAIL"
      PROVE  IStep /\ QuietInv'
  <2>1. Pending' = Pending /\ TimerStale' = TimerStale
    BY <1>1, <1>3, <1>4, OrdersKept DEF InterlockInv
  <2>2. UNCHANGED quietFor
    BY <1>4 DEF Observe, InterlockInv, QuietInv
  <2>3. QuietInv'
    BY <1>4, <2>1, <2>2 DEF InterlockInv, QuietInv
  <2> QED
    BY <1>1, <1>4, <2>1, <2>2, <2>3 DEF IStep, Interlock!ivars
<1>5. CASE ReadTimeout
  <2>1. CASE internalState = "HARD_BAIL"
    BY <1>4, <1>5, <2>1 DEF ReadTimeout, SoftBailed
  <2>2. CASE internalState \in {"RUNNING", "SOFT_BAIL"}
    <3>1. internalState' = "SOFT_BAIL" /\ unbailTimer' = NotSet
      BY <1>5, <2>2 DEF ReadTimeout, SoftBailed
    <3>2. quietFor' = 0
      BY <1>5 DEF ReadTimeout, Observe
    <3>3. TimerStale' = FALSE /\ Pending' = Pending
      BY <1>1, <1>3, <3>1, HistoryUnordered DEF Unordered, TimerStale, Pending
    <3> QED
      BY <1>1, <2>2, <3>1, <3>2, <3>3 DEF QuietInv, IStep, Interlock!INext, Interlock!SoftBail, TimerStale
  <2> QED
    BY <1>2, <2>1, <2>2
<1>6. CASE ReadBailed
  <2>1. rx' # "timeout"
    BY <1>6 DEF ReadBailed
  <2>2. CASE internalState = "SOFT_BAIL"
    BY <1>1, <1>6, <2>1, <2>2, AnswerInterlock DEF ReadBailed
  <2>3. CASE internalState # "SOFT_BAIL"
    BY <1>4, <1>6, <2>1, <2>3 DEF ReadBailed
  <2> QED
    BY <2>2, <2>3
<1>7. ASSUME NEW outcome \in {"corrupt", "overheat"}, ReadInvalid(outcome)
      PROVE  IStep /\ QuietInv'
  <2>1. rx' # "timeout"
    BY <1>7 DEF ReadInvalid
  <2>2. CASE internalState = "HARD_BAIL"
    BY <1>4, <1>7, <2>1, <2>2 DEF ReadInvalid
  <2>3. CASE internalState # "HARD_BAIL"
    BY <1>1, <1>2, <1>7, <2>1, <2>3, AnswerInterlock DEF ReadInvalid
  <2> QED
    BY <2>2, <2>3
<1>8. ASSUME NEW p, ReadRunning(p)
      PROVE  IStep /\ QuietInv'
  BY <1>4, <1>8 DEF ReadRunning
<1> QED
  BY <1>5, <1>6, <1>7, <1>8

\* An order obeyed.
LEMMA ObeyInterlock ==
    ASSUME InterlockInv, Observe, NEW order \in Orders, RemoveCommand({order}), UNCHANGED wire,
           internalState' = "RUNNING", order = "UNBAIL" => unbailTimer' = NotSet
    PROVE  IStep /\ QuietInv'
<1>1. Pending \in Nat /\ Pending > 0 /\ Pending' = Pending - 1
  BY OrderTaken DEF RemoveCommand, InterlockInv, BailInv
<1>2. TimerStale' => TimerStale \/ internalState \in {"SOFT_BAIL", "HARD_BAIL"}
  <2>1. "timer" \in leftover' => "timer" \in leftover \/ Bailed(internalState)
    BY HistoryOrdered
  <2> QED
    BY <2>1 DEF TimerStale, Bailed
<1>3. quietFor' = 0 /\ QuietInv'
  BY QuietOver
<1> QED
  BY <1>1, <1>2, <1>3 DEF IStep, Interlock!INext, Interlock!Obey, TimerStale

LEMMA CommandInterlock ==
    ASSUME InterlockInv, HandleCommands, Observe
    PROVE  IStep /\ QuietInv'
<1>1. UNCHANGED wire /\ pc # "read"
  BY DEF HandleCommands, SetTemperature, SetEcoMode, SetSleepMode, SetFlowMode, Unbail,
     BeginRunning, ForceHardBail, IgnoreCommand, FinishCommands, RemoveCommand, HandlingCommands
<1>2. ASSUME NEW types, RemoveCommand(types), types \cap Orders = {}, UNCHANGED unbailTimer
      PROVE  Pending' = Pending /\ TimerStale' = TimerStale
  <2>1. ~Handles(Orders) /\ Head(incomingQueue).type \notin Orders
    BY <1>2 DEF Handles, RemoveCommand
  <2>2. Unordered
    BY <2>1, HistoryUnordered
  <2>3. TimerStale' = TimerStale
    BY <1>2, <2>2 DEF Unordered, InterlockInv, BailInv, TimerStale
  <2> QED
    BY <1>2, <2>1, <2>3, OrderTaken DEF InterlockInv, BailInv
<1>3. ASSUME UNCHANGED <<internalState, unbailTimer>>, Pending' = Pending,
             TimerStale' = TimerStale
      PROVE  IStep /\ QuietInv'
  <2>1. UNCHANGED quietFor /\ QuietInv'
    BY <1>1, <1>3, QuietKept DEF InterlockInv
  <2> QED
    BY <1>1, <1>3, <2>1 DEF IStep, Interlock!ivars
<1>4. CASE SetTemperature \/ SetEcoMode \/ SetSleepMode \/ SetFlowMode \/ IgnoreCommand
  <2>1. UNCHANGED <<internalState, unbailTimer>>
    BY <1>4 DEF SetTemperature, SetEcoMode, SetSleepMode, SetFlowMode, IgnoreCommand, bailVars
  <2>2. PICK types : RemoveCommand(types) /\ types \cap Orders = {}
    BY <1>4 DEF SetTemperature, SetEcoMode, SetSleepMode, SetFlowMode, IgnoreCommand, Orders,
       FloatCommandTypes, InertCommandTypes
  <2> QED
    BY <1>2, <1>3, <2>1, <2>2
<1>5. CASE FinishCommands
  <2>1. UNCHANGED <<internalState, unbailTimer, incomingQueue>>
    BY <1>5 DEF FinishCommands, bailVars, queueVars
  <2>2. Pending' = Pending /\ TimerStale' = TimerStale
    BY <2>1, NothingHandled, OrdersKept DEF InterlockInv, BailInv
  <2> QED
    BY <1>3, <2>1, <2>2
<1>6. CASE Unbail
  BY <1>1, <1>6, ObeyInterlock DEF Unbail, LeaveBail, Orders
<1>7. CASE BeginRunning
  BY <1>1, <1>7, ObeyInterlock DEF BeginRunning, Orders
<1>8. CASE ForceHardBail
  <2>1. /\ internalState' = "HARD_BAIL" /\ UNCHANGED unbailTimer
        /\ RemoveCommand({"FORCE_HARD_BAIL"})
    BY <1>8 DEF ForceHardBail
  <2>2. quietFor' = 0 /\ QuietInv'
    BY <2>1, QuietOver
  <2>3. Pending' = Pending /\ TimerStale' = TimerStale
    BY <1>2, <2>1 DEF Orders
  <2> QED
    BY <1>1, <2>1, <2>2, <2>3 DEF IStep, Interlock!INext, Interlock!HardBail
<1> QED
  BY <1>4, <1>5, <1>6, <1>7, <1>8 DEF HandleCommands

\* Core 1 gives an order, or it does nothing the interlock sees.
LEMMA CoreOneInterlock ==
    ASSUME InterlockInv, Core1, Observe
    PROVE  IStep /\ QuietInv'
<1>1. /\ UNCHANGED <<pc, internalState, unbailTimer, wire>>
      /\ ~Handles(Orders)
  BY CoreOneOnlySends DEF InterlockInv, BailInv
<1>2. TimerStale' = TimerStale
  BY <1>1, HistoryUnordered DEF Unordered, TimerStale, InterlockInv, BailInv
<1>3. UNCHANGED quietFor /\ QuietInv'
  BY <1>1, <1>2, QuietKept DEF InterlockInv
<1>4. CASE UNCHANGED incomingQueue
  <2>1. Pending' = Pending
    BY <1>4 DEF Pending
  <2> QED
    BY <1>1, <1>2, <1>3, <2>1 DEF IStep, Interlock!ivars
<1>5. ASSUME NEW c \in SystemControllerCommands, incomingQueue' = Append(incomingQueue, c)
      PROVE  IStep /\ QuietInv'
  <2>1. incomingQueue \in Seq(SystemControllerCommands)
    BY DEF InterlockInv, BailInv, TypeOK
  <2>2. Pending' = Pending + IF c.type \in Orders THEN 1 ELSE 0
    BY <1>5, <2>1, OrdersAdded DEF Pending
  <2>3. Pending \in Nat
    BY <2>1, OrdersFinite DEF Pending
  <2> QED
    BY <1>1, <1>2, <1>3, <2>2, <2>3 DEF IStep, Interlock!INext, Interlock!Order, Interlock!ivars
<1> QED
  BY <1>4, <1>5 DEF Core1, LaunchCore1, DrainStatus, SendCommand, AddCommand,
     SystemControllerCommands

LEMMA ClockInterlock ==
    ASSUME InterlockInv, NEW d \in 1..MaxDelay, Sleep(d), Age(d)
    PROVE  IStep /\ QuietInv'
<1>1. /\ UNCHANGED <<internalState, wire>> /\ d \in Nat
      /\ unbailTimer' = Aged(unbailTimer, d, UnbailTicks + 1)
      /\ quietFor' = IF internalState = "SOFT_BAIL" THEN Aged(quietFor, d, UnbailTicks + 1) ELSE 0
      /\ Pending' = Pending /\ TimerStale' = TimerStale
  BY DEF Sleep, Age, queueVars, Pending, TimerStale
<1>2. /\ quietFor \in 0..(UnbailTicks + 1) /\ unbailTimer \in Timestamps(UnbailTicks + 1)
  BY DEF InterlockInv, QuietInv, BailInv, TypeOK
<1>3. CASE internalState # "SOFT_BAIL"
  <2>1. quietFor' = 0 /\ quietFor = 0
    BY <1>1, <1>3 DEF InterlockInv, QuietInv
  <2> QED
    BY <1>1, <1>3, <2>1 DEF QuietInv, IStep, Interlock!ivars
<1>4. CASE internalState = "SOFT_BAIL"
  <2>1. quietFor' = IF quietFor + d > UnbailTicks THEN UnbailTicks + 1 ELSE quietFor + d
    BY <1>1, <1>2, <1>4 DEF Aged, NotSet
  <2>2. quietFor' \in 0..(UnbailTicks + 1)
    BY <1>1, <1>2, <2>1
  <2>3. unbailTimer' # NotSet /\ ~TimerStale => unbailTimer' =< quietFor'
    BY <1>1, <1>2, <1>4, <2>1 DEF Aged, Timestamps, NotSet, InterlockInv, QuietInv
  <2>4. Interlock!Tick(d)
    BY <1>1, <1>4, <2>1 DEF Interlock!Tick
  <2> QED
    BY <1>1, <1>4, <2>2, <2>3, <2>4 DEF QuietInv, IStep, Interlock!INext
<1> QED
  BY <1>3, <1>4

LEMMA InterlockStep ==
    ASSUME InterlockInv, [HNext]_hvars
    PROVE  IStep /\ InterlockInv'
<1>1. BailInv' /\ SelfCheckInv'
  BY HistoryWatches, BailStep, SelfCheckStep DEF InterlockInv
<1> SUFFICES IStep /\ QuietInv'
  BY <1>1 DEF InterlockInv
<1>2. CASE (\/ ReadTimeout \/ ReadBailed
            \/ \E outcome \in {"corrupt", "overheat"} : ReadInvalid(outcome)
            \/ \E p \in Packets : ReadRunning(p)) /\ Observe
  BY <1>2, ReadInterlock
<1>3. CASE (SendSafePacketNoWait \/ SendLccPacket) /\ Observe
  BY <1>3, SendInterlock
<1>4. CASE HandleCommands /\ Observe
  BY <1>4, CommandInterlock
<1>5. CASE Core1 /\ Observe
  BY <1>5, CoreOneInterlock
<1>6. CASE (ControlBailed \/ \E bb, sb : ControlRunning(bb, sb)) /\ Observe
  <2>1. UNCHANGED <<internalState, unbailTimer, wire, incomingQueue>> /\ pc # "read"
    <3>1. CASE ControlBailed
      BY <3>1 DEF ControlBailed, bailVars
    <3>2. ASSUME NEW bb, NEW sb, ControlRunning(bb, sb)
          PROVE  UNCHANGED <<internalState, unbailTimer, wire, incomingQueue>> /\ pc # "read"
      <4>1. UNCHANGED internalState
        BY <3>2, ControlResult DEF InterlockInv, BailInv
      <4> QED
        BY <3>2, <4>1 DEF ControlRunning
    <3> QED
      BY <1>6, <3>1, <3>2
  <2>2. Pending' = Pending /\ TimerStale' = TimerStale
    BY <1>6, <2>1, NothingHandled, OrdersKept DEF InterlockInv, BailInv
  <2>3. UNCHANGED quietFor /\ QuietInv'
    BY <1>6, <2>1, <2>2, QuietKept DEF InterlockInv
  <2> QED
    BY <2>1, <2>2, <2>3 DEF IStep, Interlock!ivars
<1>7. ASSUME NEW d \in 1..MaxDelay, Sleep(d), Age(d)
      PROVE  IStep /\ QuietInv'
  BY <1>7, ClockInterlock
<1>8. CASE WatchdogReset /\ Forget
  <2>1. /\ internalState' = "NOT_STARTED_YET" /\ quietFor' = 0 /\ UNCHANGED wire
        /\ incomingQueue' = <<>> /\ leftover' = {}
    BY <1>8 DEF WatchdogReset, Forget
  <2>2. OrdersIn(incomingQueue') = {} /\ TimerStale' = FALSE
    BY <2>1 DEF OrdersIn, TimerStale
  <2>3. Pending' = 0
    BY <2>2, FS_EmptySet DEF Pending
  <2> QED
    BY <2>1, <2>2, <2>3 DEF QuietInv, IStep, Interlock!INext, Interlock!Restart
<1>9. CASE UNCHANGED hvars
  <2>1. /\ UNCHANGED <<internalState, unbailTimer, wire, quietFor>>
        /\ Pending' = Pending /\ TimerStale' = TimerStale
    BY <1>9 DEF hvars, vars, bailVars, queueVars, Pending, TimerStale
  <2> QED
    BY <2>1 DEF InterlockInv, QuietInv, IStep, Interlock!ivars
<1> QED
  BY <1>2, <1>3, <1>4, <1>5, <1>6, <1>7, <1>8, <1>9 DEF HNext, Awake

\* Core 0 implements the interlock, whatever the thresholds, packets, commands and
\* queues are and however often core 1 is launched.
THEOREM InterlockImplemented == HSpec => ImplementsInterlock
<1>1. HInit => InterlockInv /\ Interlock!IInit
  <2> SUFFICES ASSUME HInit PROVE InterlockInv /\ Interlock!IInit
    OBVIOUS
  <2>1. BailInv /\ SelfCheckInv
    BY BailInit, InitType DEF HInit, Init, SelfCheckInv, LccSound, LccParsedPacket,
       SelfChecksNeverFire
  <2>2. QuietInv
    BY DEF HInit, Init, HistoryInit, QuietInv
  <2>3. OrdersIn(incomingQueue) = {} /\ TimerStale = FALSE
    BY DEF HInit, Init, HistoryInit, OrdersIn, TimerStale
  <2>4. Pending = 0
    BY <2>3, FS_EmptySet DEF Pending
  <2>5. Interlock!IInit
    BY <2>3, <2>4 DEF HInit, Init, HistoryInit, Interlock!IInit, ClosedRelays, create_safe_packet
  <2> QED
    BY <2>1, <2>2, <2>5 DEF InterlockInv
<1>2. InterlockInv /\ [HNext]_hvars => InterlockInv' /\ IStep
  BY InterlockStep
<1> QED
  BY <1>1, <1>2, PTL DEF HSpec, ImplementsInterlock, Interlock!ISpec, IStep

=============================================================================
