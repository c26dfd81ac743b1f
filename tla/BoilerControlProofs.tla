-------------------------- MODULE BoilerControlProofs --------------------------
(***************************************************************************)
(* No boiler is overdriven and no slot is wasted, for periods of every     *)
(* length; and a boiler that has been outside of its band for a window     *)
(* rests or heats, for windows of every length.                            *)
(*                                                                         *)
(* For the first the invariant says that the queue is what is left of the  *)
(* period filled from the two signals, and that given counts what has been *)
(* taken of it.  For the second the average of a window is compared with   *)
(* its readings, by induction over the length of the window, stated for a  *)
(* set by the library's theorem that a well-founded relation has minimal   *)
(* elements: the provers can instantiate a set, but no predicate.          *)
(***************************************************************************)
EXTENDS BoilerControl, SequenceTheorems, FiniteSetTheorems, WellFoundedInduction, TLAPS

Share == PowerShare(bbSignal, sbSignal, brewing)

Signals ==
    /\ bbSignal \in 0..Slots /\ sbSignal \in {0, Slots} /\ brewing \in BOOLEAN

\* Slots of the first k of a period that go to each.
Least(a, b) == IF a < b THEN a ELSE b
BrewOf(share, k)    == Least(k, share.bb)
ServiceOf(share, k) == IF k < share.bb THEN 0 ELSE Least(k - share.bb, share.sb)

Taken(share, k) ==
    [s \in SsrState |->
        IF s = "BREW_BOILER_SSR_ON" THEN BrewOf(share, k)
        ELSE IF s = "SERVICE_BOILER_SSR_ON" THEN ServiceOf(share, k)
        ELSE k - BrewOf(share, k) - ServiceOf(share, k)]

Rest(share, k) == [i \in 1..(Slots - k) |-> FilledQueue(share)[i + k]]

\* Nothing was ever filled, or k slots of the period are gone.
Fresh     == ssrStateQueue = <<>> /\ bbSignal = 0 /\ sbSignal = 0 /\ given = NothingGiven
Gone(k)   == ssrStateQueue = Rest(Share, k) /\ given = Taken(Share, k)
PeriodInv == Signals /\ (Fresh \/ \E k \in 1..Slots : Gone(k))

-----------------------------------------------------------------------------
\* What the power sharing returns: the relays never need more than the period,
\* nobody gets more than it asked for, and when they compete the period is used up.
LEMMA ShareFits ==
    ASSUME NEW bb \in 0..Slots, NEW sb \in {0, Slots}, NEW brew \in BOOLEAN,
           NEW share, share = PowerShare(bb, sb, brew)
    PROVE  /\ share.bb \in 0..bb /\ share.sb \in 0..sb
           /\ share.bb + share.sb =< Slots
           /\ bb + sb =< Slots => share.bb = bb /\ share.sb = sb
           /\ bb + sb > Slots => share.bb + share.sb = Slots
           /\ bb + sb > Slots /\ brew => share.bb = bb
<1> USE SlotsAssumption
<1>1. ThreeQuarters(bb) \in 0..bb
  BY DEF ThreeQuarters
<1>2. CASE bb + sb =< Slots
  BY <1>2 DEF PowerShare
<1>3. CASE bb + sb > Slots /\ brew
  BY <1>3 DEF PowerShare
<1>4. CASE bb + sb > Slots /\ ~brew
  BY <1>1, <1>4 DEF PowerShare
<1>5. QED
  BY <1>2, <1>3, <1>4

\* A period has Slots slots, each for one relay or none.
LEMMA FilledQueueType ==
    ASSUME NEW share
    PROVE  FilledQueue(share) \in [1..Slots -> SsrState]
BY DEF FilledQueue, SsrState

\* The slot after k others, and what is left behind it.
LEMMA RestHeadTail ==
    ASSUME NEW share, NEW k \in 0..(Slots - 1)
    PROVE  /\ Rest(share, k) # <<>>
           /\ Head(Rest(share, k)) = FilledQueue(share)[k + 1]
           /\ Tail(Rest(share, k)) = Rest(share, k + 1)
<1> DEFINE q == Rest(share, k)
<1>1. Slots \in Nat /\ Slots - k \in Nat \ {0}
  BY SlotsAssumption
<1>2. q \in Seq(SsrState) /\ Len(q) = Slots - k
  BY <1>1, FilledQueueType DEF Rest
<1>3. Head(q) = FilledQueue(share)[k + 1] /\ q # <<>>
  BY <1>1, <1>2 DEF Rest
<1> HIDE DEF q
<1>4. Tail(q) = [i \in 1..(Slots - k - 1) |-> q[i + 1]]
  <2>1. /\ Tail(q) \in Seq(SsrState) /\ Len(Tail(q)) = Len(q) - 1
        /\ \A i \in 1..Len(Tail(q)) : Tail(q)[i] = q[i + 1]
    <3>1. q \in Seq(SsrState) /\ q # <<>>
      BY <1>2, <1>3
    <3>2. QED
      BY <3>1, HeadTailProperties, Zenon
  <2>2. Tail(q) = [i \in 1..(Slots - k - 1) |-> Tail(q)[i]]
    <3>1. Len(Tail(q)) = Slots - k - 1
      BY <1>1, <1>2, <2>1
    <3>2. Tail(q) = [i \in 1..Len(Tail(q)) |-> Tail(q)[i]]
      <4> DEFINE t == Tail(q)
      <4>1. t \in [1..Len(t) -> SsrState]
        BY <2>1, LenProperties, Zenon
      <4> HIDE DEF t
      <4>2. t = [i \in 1..Len(t) |-> t[i]]
        BY <4>1
      <4>3. QED
        BY <4>2 DEF t
    <3>3. QED
      BY <3>1, <3>2
  <2>3. QED
    BY <1>1, <1>2, <2>1, <2>2
<1>5. \A i \in 1..(Slots - k - 1) : q[i + 1] = FilledQueue(share)[i + (k + 1)]
  BY <1>1 DEF q, Rest
<1>6. Rest(share, k + 1) = [i \in 1..(Slots - k - 1) |-> FilledQueue(share)[i + (k + 1)]]
  BY <1>1 DEF Rest
<1>7. QED
  BY <1>3, <1>4, <1>5, <1>6 DEF q

\* What each gets of the first k slots.
LEMMA TakenAt ==
    ASSUME NEW share, NEW k, NEW s \in SsrState
    PROVE  Taken(share, k)[s] = IF s = "BREW_BOILER_SSR_ON" THEN BrewOf(share, k)
                                ELSE IF s = "SERVICE_BOILER_SSR_ON" THEN ServiceOf(share, k)
                                ELSE k - BrewOf(share, k) - ServiceOf(share, k)
BY Zenon DEF Taken

\* One more slot taken.
LEMMA TakenNext ==
    ASSUME NEW share, share.bb \in 0..Slots, share.sb \in 0..Slots,
           share.bb + share.sb =< Slots, NEW k \in 0..(Slots - 1)
    PROVE  [Taken(share, k) EXCEPT ![FilledQueue(share)[k + 1]] = @ + 1] = Taken(share, k + 1)
<1> DEFINE slot == FilledQueue(share)[k + 1]
           bb == share.bb
           sb == share.sb
<1>1. /\ slot = IF k + 1 =< bb THEN "BREW_BOILER_SSR_ON"
                ELSE IF k + 1 =< bb + sb THEN "SERVICE_BOILER_SSR_ON" ELSE "BOTH_SSRS_OFF"
      /\ slot \in SsrState
  BY SlotsAssumption DEF FilledQueue, SsrState
<1>2. /\ BrewOf(share, k) = IF k < bb THEN k ELSE bb
      /\ BrewOf(share, k + 1) = IF k + 1 < bb THEN k + 1 ELSE bb
      /\ ServiceOf(share, k) = IF k < bb THEN 0 ELSE IF k - bb < sb THEN k - bb ELSE sb
      /\ ServiceOf(share, k + 1) = IF k + 1 < bb THEN 0
                                   ELSE IF k + 1 - bb < sb THEN k + 1 - bb ELSE sb
  BY DEF BrewOf, ServiceOf, Least
<1>3. \A s \in SsrState :
          Taken(share, k + 1)[s] = IF s = slot THEN Taken(share, k)[s] + 1 ELSE Taken(share, k)[s]
  <2> SUFFICES ASSUME NEW s \in SsrState
               PROVE  Taken(share, k + 1)[s] =
                          IF s = slot THEN Taken(share, k)[s] + 1 ELSE Taken(share, k)[s]
    OBVIOUS
  <2> DEFINE b0 == BrewOf(share, k)
             b1 == BrewOf(share, k + 1)
             s0 == ServiceOf(share, k)
             s1 == ServiceOf(share, k + 1)
  <2>1. /\ Taken(share, k)[s] = IF s = "BREW_BOILER_SSR_ON" THEN b0
                                ELSE IF s = "SERVICE_BOILER_SSR_ON" THEN s0 ELSE k - b0 - s0
        /\ Taken(share, k + 1)[s] = IF s = "BREW_BOILER_SSR_ON" THEN b1
                                ELSE IF s = "SERVICE_BOILER_SSR_ON" THEN s1 ELSE (k + 1) - b1 - s1
    <3>1. Taken(share, k)[s] = IF s = "BREW_BOILER_SSR_ON" THEN b0
                                ELSE IF s = "SERVICE_BOILER_SSR_ON" THEN s0 ELSE k - b0 - s0
      BY TakenAt
    <3>2. Taken(share, k + 1)[s] = IF s = "BREW_BOILER_SSR_ON" THEN b1
                                ELSE IF s = "SERVICE_BOILER_SSR_ON" THEN s1 ELSE (k + 1) - b1 - s1
      BY TakenAt
    <3>3. QED
      BY <3>1, <3>2
  <2>2. s \in {"BREW_BOILER_SSR_ON", "SERVICE_BOILER_SSR_ON", "BOTH_SSRS_OFF"}
    BY DEF SsrState
  <2>3. bb \in Int /\ sb \in Int /\ bb >= 0 /\ sb >= 0 /\ k \in Int
    BY SlotsAssumption
  <2> HIDE DEF slot, bb, sb, b0, b1, s0, s1
  <2>4. /\ b0 = IF k < bb THEN k ELSE bb
        /\ b1 = IF k + 1 < bb THEN k + 1 ELSE bb
        /\ s0 = IF k < bb THEN 0 ELSE IF k - bb < sb THEN k - bb ELSE sb
        /\ s1 = IF k + 1 < bb THEN 0 ELSE IF k + 1 - bb < sb THEN k + 1 - bb ELSE sb
    BY <1>2 DEF b0, b1, s0, s1
  <2>5. CASE k + 1 =< bb
    BY <1>1, <2>1, <2>2, <2>3, <2>4, <2>5
  <2>6. CASE bb < k + 1 /\ k + 1 =< bb + sb
    BY <1>1, <2>1, <2>2, <2>3, <2>4, <2>6
  <2>7. CASE bb + sb < k + 1
    BY <1>1, <2>1, <2>2, <2>3, <2>4, <2>7
  <2>8. QED
    BY <2>3, <2>5, <2>6, <2>7
<1> HIDE DEF slot
<1>4. [Taken(share, k) EXCEPT ![slot] = @ + 1]
          = [s \in SsrState |-> IF s = slot THEN Taken(share, k)[s] + 1 ELSE Taken(share, k)[s]]
  BY <1>1 DEF Taken
<1>5. Taken(share, k + 1) = [s \in SsrState |-> Taken(share, k + 1)[s]]
  BY DEF Taken
<1>6. QED
  BY <1>3, <1>4, <1>5 DEF slot

-----------------------------------------------------------------------------
LEMMA InitPeriodInv == PInit => PeriodInv
<1> SUFFICES ASSUME PInit
             PROVE  Signals /\ Fresh
  BY DEF PeriodInv
<1>1. Signals
  <2>1. bbSignal = 0 /\ sbSignal = 0 /\ brewing = FALSE
    BY DEF PInit
  <2>2. bbSignal \in 0..Slots
    BY <2>1, SlotsAssumption
  <2>3. sbSignal \in {0, Slots} /\ brewing \in BOOLEAN
    BY <2>1, Zenon
  <2>4. QED
    BY <2>2, <2>3 DEF Signals
<1>2. Fresh
  BY DEF PInit, Fresh
<1>3. QED
  BY <1>1, <1>2

\* A cycle that begins a period, and one within it.
LEMMA CyclePeriodInv ==
    ASSUME PeriodInv, NEW bb \in 0..Slots, NEW sb \in {0, Slots}, NEW brew \in BOOLEAN,
           ControlCycle(bb, sb, brew)
    PROVE  PeriodInv'
<1> USE SlotsAssumption
<1>1. CASE ssrStateQueue = <<>>
  <2> DEFINE share == PowerShare(bb, sb, brew)
  <2>1. bbSignal' = bb /\ sbSignal' = sb /\ brewing' = brew
    BY <1>1 DEF ControlCycle
  <2>2. Refilled(ssrStateQueue, bb, sb, brew) = FilledQueue(share)
    BY <1>1 DEF Refilled
  <2>3. FilledQueue(share) = Rest(share, 0)
    <3>1. FilledQueue(share) = [i \in 1..Slots |-> FilledQueue(share)[i]]
      BY FilledQueueType
    <3>2. Slots - 0 = Slots /\ \A i \in 1..Slots : i + 0 = i
      OBVIOUS
    <3>3. Rest(share, 0) = [i \in 1..Slots |-> FilledQueue(share)[i + 0]]
      BY <3>2 DEF Rest
    <3> DEFINE f == FilledQueue(share)
    <3> HIDE DEF share, f
    <3>4. [i \in 1..Slots |-> f[i + 0]] = [i \in 1..Slots |-> f[i]]
      BY <3>2
    <3>5. QED
      BY <3>1, <3>3, <3>4 DEF f
  <2>4. /\ ssrStateQueue' = Tail(Rest(share, 0))
        /\ given' = [NothingGiven EXCEPT ![Head(Rest(share, 0))] = @ + 1]
    BY <1>1, <2>2, <2>3 DEF ControlCycle
  <2>5. ssrStateQueue' = Rest(share, 1) /\ Head(Rest(share, 0)) = FilledQueue(share)[1]
    BY <2>4, RestHeadTail
  <2>6. share.bb \in 0..Slots /\ share.sb \in 0..Slots /\ share.bb + share.sb =< Slots
    BY ShareFits
  <2>7. NothingGiven = Taken(share, 0)
    BY <2>6 DEF NothingGiven, Taken, BrewOf, ServiceOf, Least, SsrState
  <2>8. given' = Taken(share, 1)
    <3>1. 0 \in 0..(Slots - 1) /\ 0 + 1 = 1
      OBVIOUS
    <3>2. [Taken(share, 0) EXCEPT ![FilledQueue(share)[0 + 1]] = @ + 1] = Taken(share, 0 + 1)
      BY <2>6, <3>1, TakenNext
    <3>3. QED
      BY <2>4, <2>5, <2>7, <3>1, <3>2
  <2>9. Share' = share
    BY <2>1 DEF Share
  <2>10. QED
    BY <2>1, <2>5, <2>8, <2>9 DEF PeriodInv, Signals, Gone
<1>2. CASE ssrStateQueue # <<>>
  <2>1. PICK k \in 1..Slots : Gone(k)
    BY <1>2 DEF PeriodInv, Fresh
  <2>2. k < Slots
    BY <1>2, <2>1 DEF Gone, Rest
  <2>3. UNCHANGED <<bbSignal, sbSignal, brewing>>
    BY <1>2 DEF ControlCycle
  <2>4. /\ ssrStateQueue' = Tail(Rest(Share, k))
        /\ given' = [Taken(Share, k) EXCEPT ![Head(Rest(Share, k))] = @ + 1]
    BY <1>2, <2>1 DEF ControlCycle, Refilled, Gone
  <2>5. ssrStateQueue' = Rest(Share, k + 1) /\ Head(Rest(Share, k)) = FilledQueue(Share)[k + 1]
    BY <2>2, <2>4, RestHeadTail
  <2>6. Share.bb \in 0..Slots /\ Share.sb \in 0..Slots /\ Share.bb + Share.sb =< Slots
    BY ShareFits DEF PeriodInv, Signals, Share
  <2>7. given' = Taken(Share, k + 1)
    <3>1. k \in 0..(Slots - 1)
      BY <2>2
    <3>2. [Taken(Share, k) EXCEPT ![FilledQueue(Share)[k + 1]] = @ + 1] = Taken(Share, k + 1)
      BY <2>6, <3>1, TakenNext
    <3>3. QED
      BY <2>4, <2>5, <3>2
  <2>8. Share' = Share
    BY <2>3 DEF Share
  <2>9. Gone(k + 1)' /\ k + 1 \in 1..Slots
    BY <2>2, <2>5, <2>7, <2>8 DEF Gone
  <2>10. QED
    BY <2>3, <2>9 DEF PeriodInv, Signals
<1>3. QED
  BY <1>1, <1>2

LEMMA NextPeriodInv ==
    ASSUME PeriodInv, [PNext]_pvars
    PROVE  PeriodInv'
<1>1. CASE PNext
  BY <1>1, CyclePeriodInv DEF PNext
<1>2. CASE UNCHANGED pvars
  BY <1>2 DEF pvars, PeriodInv, Signals, Fresh, Gone, Share
<1>3. QED
  BY <1>1, <1>2

\* The counts of the invariant, put into the terms of the properties.
LEMMA PeriodInvBounds ==
    ASSUME PeriodInv
    PROVE  NoBoilerOverdriven /\ CompetitionIsUsed
<1> USE SlotsAssumption
<1>1. CASE Fresh
  BY <1>1 DEF Fresh, NothingGiven, SsrState, NoBoilerOverdriven, CompetitionIsUsed, BrewSlots,
              ServiceSlots, Demand
<1>2. CASE \E k \in 1..Slots : Gone(k)
  <2>1. PICK k \in 1..Slots : Gone(k)
    BY <1>2
  <2>2. Signals
    BY DEF PeriodInv
  <2>3. /\ Share.bb \in 0..bbSignal /\ Share.sb \in 0..sbSignal
        /\ Share.bb + Share.sb =< Slots
        /\ Demand =< Slots => Share.bb = bbSignal /\ Share.sb = sbSignal
        /\ Demand > Slots => Share.bb + Share.sb = Slots
        /\ Demand > Slots /\ brewing => Share.bb = bbSignal
    BY <2>2, ShareFits DEF Signals, Share, Demand
  <2>4. /\ BrewSlots = BrewOf(Share, k) /\ ServiceSlots = ServiceOf(Share, k)
        /\ given["BOTH_SSRS_OFF"] = k - BrewOf(Share, k) - ServiceOf(Share, k)
    BY <2>1 DEF Gone, Taken, SsrState, BrewSlots, ServiceSlots
  <2>5. BrewSlots =< Share.bb /\ ServiceSlots =< Share.sb
    BY <2>2, <2>3, <2>4 DEF BrewOf, ServiceOf, Least, Signals
  <2>6. ASSUME ssrStateQueue = <<>>
        PROVE  BrewSlots = Share.bb /\ ServiceSlots = Share.sb
               /\ given["BOTH_SSRS_OFF"] = Slots - Share.bb - Share.sb
    <3>1. k = Slots
      <4>1. CASE k < Slots
        <5>1. k \in 0..(Slots - 1)
          BY <4>1
        <5>2. Rest(Share, k) # <<>>
          BY <5>1, RestHeadTail
        <5>3. QED
          BY <2>1, <2>6, <5>2 DEF Gone
      <4>2. QED
        BY <4>1
    <3>2. QED
      BY <2>2, <2>3, <2>4, <3>1 DEF BrewOf, ServiceOf, Least, Signals
  <2>7. NoBoilerOverdriven
    <3>1. BrewSlots =< bbSignal /\ ServiceSlots =< sbSignal
      BY <2>2, <2>3, <2>4, <2>5 DEF Signals, BrewOf, ServiceOf, Least
    <3>2. QED
      BY <2>3, <2>6, <3>1 DEF NoBoilerOverdriven
  <2>8. CompetitionIsUsed
    BY <2>2, <2>3, <2>6 DEF CompetitionIsUsed, Signals
  <2>9. QED
    BY <2>7, <2>8
<1>3. QED
  BY <1>1, <1>2 DEF PeriodInv

\* In periods of any length no boiler gets more slots than its control signal, and
\* one without a competitor gets them all.
THEOREM NobodyOverdriven == PSpec => []NoBoilerOverdriven
<1>1. PeriodInv => NoBoilerOverdriven
  BY PeriodInvBounds
<1>2. QED
  BY <1>1, InitPeriodInv, NextPeriodInv, PTL DEF PSpec

\* When both boilers ask for more than a period, no slot of it is idle, and during
\* a brew the brew boiler gets all it asked for.
THEOREM CompetitionUsesPeriods == PSpec => []CompetitionIsUsed
<1>1. PeriodInv => CompetitionIsUsed
  BY PeriodInvBounds
<1>2. QED
  BY <1>1, InitPeriodInv, NextPeriodInv, PTL DEF PSpec

-----------------------------------------------------------------------------
(* The controllers, whatever they read, drive the schedule as it may be     *)
(* driven: BoilerControl implements SsrPeriods.                             *)

LEMMA SignalsFit ==
    ASSUME NEW window, NEW state
    PROVE  /\ HysteresisSignal(state) \in {0, Slots}
           /\ HybridSignals(window, state) \subseteq 0..Slots
<1>1. HysteresisSignal(state) \in {0, Slots}
  BY DEF HysteresisSignal
<1>2. QED
  BY <1>1, SlotsAssumption DEF HybridSignals

LEMMA CycleStep ==
    ASSUME NEW r, NEW s, NEW brew \in BOOLEAN, Cycle(r, s, brew)
    PROVE  PNext
<1>1. CASE ssrStateQueue = <<>>
  <2>1. PICK bb \in HybridSignals(brewTempAverage', brewHysteresis') :
            ControlCycle(bb, IF ecoMode THEN 0 ELSE HysteresisSignal(serviceHysteresis'), brew)
    BY <1>1 DEF Cycle
  <2>2. bb \in 0..Slots
        /\ (IF ecoMode THEN 0 ELSE HysteresisSignal(serviceHysteresis')) \in {0, Slots}
    BY SignalsFit
  <2>3. QED
    BY <2>1, <2>2 DEF PNext
<1>2. CASE ssrStateQueue # <<>>
  <2>1. ControlCycle(0, 0, brew)
    BY <1>2 DEF Cycle
  <2>2. 0 \in 0..Slots /\ 0 \in {0, Slots}
    BY SlotsAssumption
  <2>3. QED
    BY <2>1, <2>2 DEF PNext
<1>3. QED
  BY <1>1, <1>2

LEMMA ControlStep == [BNext]_bvars => [PNext]_pvars
<1>1. CASE BNext
  BY <1>1, CycleStep DEF BNext, ChangeMode
<1>2. CASE UNCHANGED bvars
  BY <1>2 DEF bvars
<1>3. QED
  BY <1>1, <1>2

\* Whatever the readings, the set points and the modes, the controllers only ever
\* drive the schedule with signals it can serve.
THEOREM BoilersImplementPeriods == BSpec => PSpec
<1>1. BInit => PInit
  BY DEF BInit
<1>2. QED
  BY <1>1, ControlStep, PTL DEF BSpec, PSpec

-----------------------------------------------------------------------------
(* Types.                                                                  *)

Sensors ==
    /\ brewTempAverage \in Seq(BrewReadings) /\ Len(brewTempAverage) =< Window
    /\ serviceTempAverage \in Seq(ServiceReadings) /\ Len(serviceTempAverage) =< Window
    /\ brewHysteresis \in {"ASCENDING", "DESCENDING"}
    /\ serviceHysteresis \in {"ASCENDING", "DESCENDING"}
    /\ brewHeld \in 0..HeldCap /\ serviceHeld \in 0..HeldCap

\* MovingAverage::addValue keeps the window.
LEMMA WindowKept ==
    ASSUME NEW S, NEW window \in Seq(S), Len(window) =< Window, NEW value \in S
    PROVE  AddValue(window, value) \in Seq(S) /\ Len(AddValue(window, value)) =< Window
<1> USE BoilerControlAssumption
<1>1. CASE Len(window) < Window
  <2>1. Append(window, value) \in Seq(S) /\ Len(Append(window, value)) = Len(window) + 1
    BY AppendProperties, Zenon
  <2>2. QED
    BY <1>1, <2>1, LenProperties DEF AddValue
<1>2. CASE Len(window) = Window
  <2>1. window # <<>>
    BY <1>2
  <2>2. Tail(window) \in Seq(S) /\ Len(Tail(window)) = Len(window) - 1
    BY <2>1, HeadTailProperties, Zenon
  <2>3. /\ Append(Tail(window), value) \in Seq(S)
        /\ Len(Append(Tail(window), value)) = Len(Tail(window)) + 1
    BY <2>2, AppendProperties, Zenon
  <2>4. QED
    BY <1>2, <2>2, <2>3 DEF AddValue
<1>3. Len(window) \in Nat
  BY LenProperties
<1>4. QED
  BY <1>1, <1>2, <1>3

LEMMA HeldKept ==
    ASSUME NEW held \in 0..HeldCap, NEW same
    PROVE  Holds(held, same) \in 0..HeldCap
BY SlotsAssumption, BoilerControlAssumption DEF Holds, HeldCap

LEMMA HysteresisType ==
    ASSUME NEW state \in {"ASCENDING", "DESCENDING"}, NEW window, NEW setPoint, NEW delta
    PROVE  Hysteresis(state, window, setPoint, delta) \in {"ASCENDING", "DESCENDING"}
BY Zenon DEF Hysteresis

LEMMA SensorsStep ==
    ASSUME Sensors, [BNext]_bvars
    PROVE  Sensors'
<1>1. ASSUME NEW r \in BrewReadings, NEW s \in ServiceReadings, NEW brew \in BOOLEAN,
             Cycle(r, s, brew)
      PROVE  Sensors'
  <2>1. /\ brewTempAverage' \in Seq(BrewReadings) /\ Len(brewTempAverage') =< Window
        /\ serviceTempAverage' \in Seq(ServiceReadings) /\ Len(serviceTempAverage') =< Window
    BY <1>1, WindowKept DEF Cycle, Sensors
  <2>2. brewHeld' \in 0..HeldCap /\ serviceHeld' \in 0..HeldCap
    BY <1>1, HeldKept DEF Cycle, Sensors
  <2>3. /\ brewHysteresis' \in {"ASCENDING", "DESCENDING"}
        /\ serviceHysteresis' \in {"ASCENDING", "DESCENDING"}
    BY <1>1, HysteresisType DEF Cycle, Sensors
  <2>4. QED
    BY <2>1, <2>2, <2>3 DEF Sensors, HeldCap
<1>2. ASSUME NEW r, NEW s, NEW e, ChangeMode(r, s, e)
      PROVE  Sensors'
  BY <1>2, SlotsAssumption, BoilerControlAssumption DEF ChangeMode, sensorVars, Sensors, HeldCap
<1>3. CASE UNCHANGED bvars
  BY <1>3 DEF bvars, sensorVars, Sensors, HeldCap
<1>4. QED
  BY <1>1, <1>2, <1>3 DEF BNext

LEMMA SensorsInit == BInit => Sensors
BY SlotsAssumption, BoilerControlAssumption DEF BInit, Sensors, HeldCap

LEMMA SensorsAndPeriodsType == Sensors /\ PeriodInv => TypeOK
<1> SUFFICES ASSUME Sensors, PeriodInv
             PROVE  TypeOK
  OBVIOUS
<1>1. Len(ssrStateQueue) =< Slots
  <2>1. CASE Fresh
    BY <2>1, SlotsAssumption DEF Fresh
  <2>2. ASSUME NEW k \in 1..Slots, Gone(k)
        PROVE  Len(ssrStateQueue) =< Slots
    BY <2>2, SlotsAssumption DEF Gone, Rest
  <2>3. QED
    BY <2>1, <2>2 DEF PeriodInv
<1>2. QED
  BY <1>1 DEF Sensors, PeriodInv, Signals, TypeOK

\* The boiler control keeps its types for windows and periods of every length: the
\* averages keep their window, and the queue never outgrows a period.
THEOREM BoilerTypes == BSpec => []TypeOK
<1>1. BSpec => []PeriodInv
  <2>1. PSpec => []PeriodInv
    BY InitPeriodInv, NextPeriodInv, PTL DEF PSpec
  <2>2. QED
    BY <2>1, BoilersImplementPeriods, PTL
<1>2. BSpec => []Sensors
  BY SensorsInit, SensorsStep, PTL DEF BSpec
<1>3. QED
  BY <1>1, <1>2, SensorsAndPeriodsType, PTL

\* Driven by the boiler controllers, no boiler gets more slots than its control
\* signal, and one without a competitor gets them all.
THEOREM BoilersNeverOverdriven == BSpec => []NoBoilerOverdriven
BY NobodyOverdriven, BoilersImplementPeriods, PTL

-----------------------------------------------------------------------------
(* Induction.                                                              *)

\* Induction over the natural numbers, with a set in place of a predicate.
LEMMA NaturalsFrom ==
    ASSUME NEW T, 0 \in T, \A n \in Nat : n \in T => n + 1 \in T
    PROVE  Nat \subseteq T
<1> DEFINE Rel == OpToRel(<, Nat)
<1>1. SUFFICES ASSUME Nat \ T # {} PROVE FALSE
  OBVIOUS
<1>2. IsWellFoundedOn(Rel, Nat)
  BY NatLessThanWellFounded
<1>3. \A i, j \in Nat : i < j => <<i, j>> \in Rel
  BY DEF OpToRel
<1> HIDE DEF Rel
<1>4. PICK m \in Nat \ T : \A n \in Nat \ T : ~(<<n, m>> \in Rel)
  BY <1>1, <1>2, WFMin
<1>5. m - 1 \in Nat /\ m - 1 < m /\ m = (m - 1) + 1
  BY <1>4
<1>6. m - 1 \in T
  BY <1>3, <1>4, <1>5
<1>7. QED
  BY <1>4, <1>5, <1>6

-----------------------------------------------------------------------------
(* Sums.                                                                   *)

Member(s) == CHOOSE x \in s : TRUE

\* iter is the fold behind Sum for the parts in U.
Folds(iter, window, U) ==
    iter = [s \in U |-> IF s = {} THEN 0 ELSE window[Member(s)] + iter[s \ {Member(s)}]]

Parts(window, k) == {s \in SUBSET DOMAIN window : Cardinality(s) =< k}

LEMMA SumIter ==
    ASSUME NEW window
    PROVE  Sum(window)
             = (CHOOSE iter : Folds(iter, window, SUBSET DOMAIN window))[DOMAIN window]
BY DEF Sum, FoldFunction, FoldFunctionOnSet, MapThenFoldSet, Folds, Member

\* A part without one of its members.
LEMMA PartShrinks ==
    ASSUME NEW S, IsFiniteSet(S), NEW s \in SUBSET S, s # {}
    PROVE  /\ Member(s) \in s /\ s \ {Member(s)} \in SUBSET S
           /\ Cardinality(s) \in Nat \ {0}
           /\ Cardinality(s \ {Member(s)}) = Cardinality(s) - 1
<1>1. Member(s) \in s
  BY DEF Member
<1>2. IsFiniteSet(s) 
  BY FS_Subset
<1>3. Cardinality(s) \in Nat /\ Cardinality(s) # 0
  BY <1>2, FS_CardinalityType, FS_EmptySet
<1>4. Cardinality(s \ {Member(s)}) = Cardinality(s) - 1
  BY <1>1, <1>2, FS_RemoveElement
<1> QED
  BY <1>1, <1>3, <1>4

\* The fold exists.
LEMMA FoldExists ==
    ASSUME NEW window, IsFiniteSet(DOMAIN window)
    PROVE  \E iter : Folds(iter, window, SUBSET DOMAIN window)
<1> DEFINE T == {k \in Nat : \E iter : Folds(iter, window, Parts(window, k))}
           D == DOMAIN window
<1>1. 0 \in T
  <2> DEFINE zero == [s \in Parts(window, 0) |-> 0]
  <2>1. \A s \in Parts(window, 0) : s = {}
    BY FS_Subset, FS_CardinalityType, FS_EmptySet DEF Parts
  <2>2. Folds(zero, window, Parts(window, 0))
    BY <2>1 DEF Folds
  <2>3. QED
    BY <2>2
<1>2. ASSUME NEW k \in Nat, k \in T PROVE k + 1 \in T
  <2>1. PICK g : Folds(g, window, Parts(window, k))
    BY <1>2
  <2> DEFINE F(f, s) == IF s = {} THEN 0 ELSE window[Member(s)] + f[s \ {Member(s)}]
             h == [s \in Parts(window, k + 1) |-> F(g, s)]
  <2>2. \A s \in Parts(window, k) : s \in Parts(window, k + 1) /\ h[s] = g[s]
    <3> SUFFICES ASSUME NEW s \in Parts(window, k)
                 PROVE  s \in Parts(window, k + 1) /\ h[s] = g[s]
      OBVIOUS
    <3>1. s \in Parts(window, k + 1)
      BY FS_Subset, FS_CardinalityType DEF Parts
    <3>2. g[s] = F(g, s)
      BY <2>1 DEF Folds
    <3> HIDE DEF F
    <3> QED
      BY <3>1, <3>2
  <2>3. \A s \in Parts(window, k + 1) : s # {} => s \ {Member(s)} \in Parts(window, k)
    <3> SUFFICES ASSUME NEW s \in Parts(window, k + 1), s # {}
                 PROVE  s \ {Member(s)} \in Parts(window, k)
      OBVIOUS
    <3>1. s \in SUBSET D /\ Cardinality(s) =< k + 1
      BY DEF Parts
    <3>2. /\ s \ {Member(s)} \in SUBSET D /\ Cardinality(s) \in Nat
          /\ Cardinality(s \ {Member(s)}) = Cardinality(s) - 1
      BY <3>1, PartShrinks
    <3> QED
      BY <3>1, <3>2 DEF Parts
  <2>4. \A s \in Parts(window, k + 1) : F(g, s) = F(h, s)
    BY <2>2, <2>3
  <2>5. h = [s \in Parts(window, k + 1) |-> F(h, s)]
    <3> HIDE DEF F
    <3> QED BY <2>4
  <2>6. Folds(h, window, Parts(window, k + 1))
    BY <2>5 DEF Folds
  <2>7. QED
    BY <2>6
<1>3. Cardinality(D) \in T
  <2>1. Cardinality(D) \in Nat
    BY FS_CardinalityType
  <2> HIDE DEF T
  <2>2. QED
    BY <1>1, <1>2, <2>1, NaturalsFrom
<1>4. Parts(window, Cardinality(D)) = SUBSET D
  BY FS_Subset, FS_CardinalityType DEF Parts
<1>5. QED
  BY <1>3, <1>4

\* Its equation, for every part of the window.
LEMMA SumEquation ==
    ASSUME NEW window, IsFiniteSet(DOMAIN window)
    PROVE  \E iter :
             /\ Sum(window) = iter[DOMAIN window]
             /\ iter[{}] = 0
             /\ \A s \in SUBSET DOMAIN window :
                   s # {} => iter[s] = window[Member(s)] + iter[s \ {Member(s)}]
<1> DEFINE f == CHOOSE iter : Folds(iter, window, SUBSET DOMAIN window)
<1>1. Folds(f, window, SUBSET DOMAIN window)
  BY FoldExists
<1>2. Sum(window) = f[DOMAIN window]
  BY SumIter
<1> HIDE DEF f
<1>3. \A s \in SUBSET DOMAIN window :
         f[s] = IF s = {} THEN 0 ELSE window[Member(s)] + f[s \ {Member(s)}]
  BY <1>1 DEF Folds
<1>4. QED
  BY <1>2, <1>3

LEMMA OneMore ==
    ASSUME NEW a \in Int, NEW n \in Nat \ {0}
    PROVE  a * n = a * (n - 1) + a /\ a * 0 = 0
OBVIOUS

LEMMA Scaled ==
    ASSUME NEW a \in Int, NEW b \in Int, NEW n \in Nat \ {0}
    PROVE  a * n < b * n <=> a < b
<1>1. a * n - b * n = (a - b) * n /\ (a - b) * n \in Int
  OBVIOUS
<1>2. a < b => (a - b) * n =< (-1) * n
  OBVIOUS
<1>3. ~(a < b) => (a - b) * n >= 0
  OBVIOUS
<1>4. a * n \in Int /\ b * n \in Int
  OBVIOUS
<1>5. QED
  BY <1>1, <1>2, <1>3, <1>4

\* The average of a window lies between its smallest and its largest reading.
LEMMA SumBounds ==
    ASSUME NEW window, IsFiniteSet(DOMAIN window), NEW lo \in Int, NEW hi \in Int,
           \A i \in DOMAIN window : window[i] \in Int /\ lo =< window[i] /\ window[i] =< hi
    PROVE  /\ Sum(window) \in Int
           /\ lo * Cardinality(DOMAIN window) =< Sum(window)
           /\ Sum(window) =< hi * Cardinality(DOMAIN window)
<1>1. PICK iter :
         /\ Sum(window) = iter[DOMAIN window]
         /\ iter[{}] = 0
         /\ \A s \in SUBSET DOMAIN window :
               s # {} => iter[s] = window[Member(s)] + iter[s \ {Member(s)}]
  BY SumEquation
<1> DEFINE Good(s) == /\ iter[s] \in Int
                      /\ lo * Cardinality(s) =< iter[s] /\ iter[s] =< hi * Cardinality(s)
           T == {k \in Nat : \A s \in Parts(window, k) : Good(s)}
<1>2. Good({})
  BY <1>1, FS_EmptySet
<1>3. 0 \in T
  <2>1. \A s \in Parts(window, 0) : s = {}
    BY FS_Subset, FS_CardinalityType, FS_EmptySet DEF Parts
  <2>2. QED
    BY <1>2, <2>1
<1>4. ASSUME NEW k \in Nat, k \in T PROVE k + 1 \in T
  <2>0. SUFFICES ASSUME NEW s \in Parts(window, k + 1), s # {} PROVE Good(s)
    <3> HIDE DEF Good
    <3> QED BY <1>2
  <2> DEFINE t == s \ {Member(s)}
             n == Cardinality(s)
  <2>1. s \in SUBSET DOMAIN window /\ n =< k + 1
    BY DEF Parts
  <2>2. /\ Member(s) \in s /\ t \in SUBSET DOMAIN window
        /\ n \in Nat \ {0} /\ Cardinality(t) = n - 1
    BY <2>0, <2>1, PartShrinks
  <2>3. Good(t)
    BY <1>4, <2>1, <2>2 DEF Parts
  <2>4. iter[s] = window[Member(s)] + iter[t]
    BY <1>1, <2>0, <2>1
  <2>5. lo * n = lo * (n - 1) + lo /\ hi * n = hi * (n - 1) + hi
    BY <2>2, OneMore
  <2>6. Member(s) \in DOMAIN window
    BY <2>1, <2>2
  <2>7. /\ window[Member(s)] \in Int
        /\ lo =< window[Member(s)] /\ window[Member(s)] =< hi
    BY <2>6
  <2>8. lo * (n - 1) =< iter[t] /\ iter[t] =< hi * (n - 1) /\ iter[t] \in Int
    BY <2>2, <2>3
  <2>9. lo * (n - 1) \in Int /\ hi * (n - 1) \in Int
    BY <2>2
  <2> HIDE DEF t, n
  <2>10. lo * n =< iter[s] /\ iter[s] =< hi * n /\ iter[s] \in Int
    BY <2>4, <2>5, <2>7, <2>8, <2>9
  <2>11. QED
    BY <2>10 DEF n
<1>5. Cardinality(DOMAIN window) \in T
  <2>1. Cardinality(DOMAIN window) \in Nat
    BY FS_CardinalityType
  <2> HIDE DEF T
  <2>2. QED
    BY <1>3, <1>4, <2>1, NaturalsFrom
<1>6. DOMAIN window \in Parts(window, Cardinality(DOMAIN window))
  BY FS_CardinalityType DEF Parts
<1>7. QED
  BY <1>1, <1>5, <1>6

-----------------------------------------------------------------------------
(* Readings that last.                                                     *)

\* An average of equal readings is that reading.
LEMMA SteadyAverage ==
    ASSUME NEW r \in Int, NEW n \in Nat \ {0}, NEW window, DOMAIN window = 1..n, Len(window) = n,
           \A i \in 1..n : window[i] = r, NEW bound \in Int
    PROVE  /\ Below(window, bound) <=> r < bound
           /\ Above(window, bound) <=> r > bound
<1>1. IsFiniteSet(1..n) /\ Cardinality(1..n) = n
  BY FS_Interval
<1>2. Sum(window) \in Int /\ r * n =< Sum(window) /\ Sum(window) =< r * n
  <2>1. \A i \in DOMAIN window : window[i] \in Int /\ r =< window[i] /\ window[i] =< r
    OBVIOUS
  <2>2. IsFiniteSet(DOMAIN window) /\ Cardinality(DOMAIN window) = n
    BY <1>1
  <2>3. /\ Sum(window) \in Int
        /\ r * Cardinality(DOMAIN window) =< Sum(window)
        /\ Sum(window) =< r * Cardinality(DOMAIN window)
    BY <2>1, <2>2, SumBounds
  <2>4. QED
    BY <2>2, <2>3
<1>3. Sum(window) = r * n
  BY <1>2
<1>4. (r * n < bound * n <=> r < bound) /\ (bound * n < r * n <=> bound < r)
  BY Scaled
<1>5. QED
  BY <1>3, <1>4 DEF Below, Above

-----------------------------------------------------------------------------
(* Windows of readings.                                                    *)

\* How many readings make room for the next.
Dropped(window) == IF Len(window) < Window THEN 0 ELSE 1

\* A reading joins the window; only the oldest may leave it.
LEMMA AddedAt ==
    ASSUME NEW S, NEW window \in Seq(S), Len(window) =< Window, NEW value \in S
    PROVE  LET new == AddValue(window, value)
           IN  /\ new \in Seq(S) /\ Len(new) = Len(window) + 1 - Dropped(window)
               /\ new[Len(new)] = value
               /\ \A i \in 1..(Len(new) - 1) : new[i] = window[i + Dropped(window)]
<1> USE BoilerControlAssumption DEF Dropped
<1>1. CASE Len(window) < Window
  <2>1. /\ Append(window, value) \in Seq(S) /\ Len(Append(window, value)) = Len(window) + 1
        /\ \A i \in 1..Len(window) : Append(window, value)[i] = window[i]
        /\ Append(window, value)[Len(window) + 1] = value
    BY AppendProperties
  <2>2. AddValue(window, value) = Append(window, value)
    BY <1>1 DEF AddValue
  <2>3. Len(window) \in Nat
    BY LenProperties
  <2>4. QED
    BY <1>1, <2>1, <2>2, <2>3
<1>2. CASE Len(window) = Window
  <2>1. window # <<>> /\ Len(window) \in Nat \ {0}
    BY <1>2
  <2> DEFINE t == Tail(window)
  <2>2. /\ t \in Seq(S) /\ Len(t) = Len(window) - 1
        /\ \A i \in 1..Len(t) : t[i] = window[i + 1]
    BY <2>1, HeadTailProperties, Zenon
  <2>3. AddValue(window, value) = Append(t, value)
    BY <1>2, BoilerControlAssumption DEF AddValue
  <2> HIDE DEF t
  <2>4. /\ Append(t, value) \in Seq(S) /\ Len(Append(t, value)) = Len(t) + 1
        /\ \A i \in 1..Len(t) : Append(t, value)[i] = t[i]
        /\ Append(t, value)[Len(t) + 1] = value
    BY <2>2, AppendProperties
  <2>5. QED
    BY <1>2, <2>1, <2>2, <2>3, <2>4
<1>3. Len(window) \in Nat
  BY LenProperties
<1>4. QED
  BY <1>1, <1>2, <1>3

\* The last readings of the window, as many as held says, are the same.
Lasts(window, held) ==
    /\ held > 0 => window # <<>>
    /\ held =< Len(window) \/ Len(window) = Window
    /\ \A i \in 1..Len(window) : i > Len(window) - held => window[i] = Last(window)

LEMMA LastsStep ==
    ASSUME NEW S, NEW window \in Seq(S), Len(window) =< Window, NEW value \in S,
           NEW held \in 0..HeldCap, Lasts(window, held)
    PROVE  Lasts(AddValue(window, value), Holds(held, window # <<>> /\ value = Last(window)))
<1> DEFINE new == AddValue(window, value)
           gone == Dropped(window)
           same == window # <<>> /\ value = Last(window)
           now == Holds(held, same)
<1>1. /\ new \in Seq(S) /\ Len(new) = Len(window) + 1 - gone
      /\ new[Len(new)] = value
      /\ \A i \in 1..(Len(new) - 1) : new[i] = window[i + gone]
  BY AddedAt, Zenon
<1> USE BoilerControlAssumption, SlotsAssumption
<1>2. Len(window) \in Nat /\ gone \in {0, 1} /\ (gone = 1 <=> Len(window) = Window)
  BY LenProperties DEF Dropped
<1>3. Len(new) \in Nat \ {0} /\ new # <<>>
  <2>1. Len(new) \in Nat \ {0}
    BY <1>1, <1>2
  <2> QED
    BY <1>1, <2>1, EmptySeq
<1>4. Last(new) = value
  BY <1>1 DEF Last
<1>5. CASE ~same
  <2>1. now = 1
    BY <1>5 DEF Holds
  <2> HIDE DEF new, gone, same, now
  <2>2. QED
    BY <1>1, <1>2, <1>3, <1>4, <2>1 DEF Lasts, new, now, same
<1>6. CASE same
  <2>1. now \in Nat /\ now =< held + 1 /\ (now = held + 1 \/ (now = held /\ held = HeldCap))
    BY <1>6 DEF Holds, HeldCap
  <2>2. HeldCap > Window /\ HeldCap \in Nat
    BY DEF HeldCap
  <2>3. value = Last(window) /\ window # <<>>
    BY <1>6
  <2> HIDE DEF new, gone, same, now
  <2>4. now =< Len(new) \/ Len(new) = Window
    BY <1>1, <1>2, <2>1, <2>2 DEF Lasts
  <2>5. ASSUME NEW i \in 1..Len(new), i > Len(new) - now
        PROVE  new[i] = value
    <3>1. CASE i = Len(new)
      BY <1>1, <3>1
    <3>2. CASE i # Len(new)
      <4>1. i \in 1..(Len(new) - 1) /\ i + gone \in 1..Len(window)
        BY <1>1, <1>2, <1>3, <3>2
      <4>2. i + gone > Len(window) - held
        BY <1>1, <1>2, <1>3, <2>1, <2>2, <2>5, <4>1
      <4>3. window[i + gone] = Last(window)
        BY <4>1, <4>2 DEF Lasts
      <4>4. QED
        BY <1>1, <2>3, <4>1, <4>3
    <3>3. QED
      BY <3>1, <3>2
  <2>6. QED
    BY <1>3, <1>4, <2>4, <2>5 DEF Lasts, new, now, same
<1>7. QED
  BY <1>5, <1>6

\* A reading that has lasted for a window is the average.
LEMMA LastedAverage ==
    ASSUME NEW S \in SUBSET Int, NEW window \in Seq(S), Len(window) =< Window,
           NEW held \in Nat, Lasts(window, held), held >= Window, NEW bound \in Int
    PROVE  /\ Last(window) \in Int
           /\ Below(window, bound) <=> Last(window) < bound
           /\ Above(window, bound) <=> Last(window) > bound
<1> USE BoilerControlAssumption
<1> DEFINE n == Len(window)
<1>1. n \in Nat \ {0} /\ DOMAIN window = 1..n
  BY LenProperties DEF Lasts
<1>2. Last(window) \in Int
  <2>1. window[n] \in S
    BY <1>1
  <2>2. QED
    BY <2>1 DEF Last
<1>3. ASSUME NEW i \in 1..n PROVE window[i] = Last(window)
  <2>1. i > Len(window) - held
    BY <1>1
  <2>2. QED
    BY <2>1 DEF Lasts
<1>4. QED
  BY <1>1, <1>2, <1>3, SteadyAverage

-----------------------------------------------------------------------------
(* Settled boilers.                                                        *)

\* Cycles since the period in course began.
Age == Slots - 1 - Len(ssrStateQueue)

\* A boiler whose reading had lasted for a window when the period began is all off
\* or all on, if the reading is outside of the band.
Settled ==
    /\ brewHeld - Age >= Window =>
         /\ Last(brewTempAverage) >= BrewSetPoint + BrewBand => bbSignal = 0
         /\ Last(brewTempAverage) =< BrewSetPoint - BrewBand => bbSignal = Slots
    /\ serviceHeld - Age >= Window =>
         /\ Last(serviceTempAverage) >= ServiceSetPoint + ServiceDelta => sbSignal = 0
         /\ Last(serviceTempAverage) =< ServiceSetPoint - ServiceDelta /\ ~ecoMode
              => sbSignal = Slots

SettledInv ==
    /\ Sensors /\ PeriodInv
    /\ Lasts(brewTempAverage, brewHeld) /\ Lasts(serviceTempAverage, serviceHeld)
    /\ Settled

\* Whatever its state was, hysteresis follows an average beyond its delta.
LEMMA HysteresisSettles ==
    ASSUME NEW S \in SUBSET Int, NEW window \in Seq(S), Len(window) =< Window,
           NEW held \in Nat, Lasts(window, held), held >= Window,
           NEW state \in {"ASCENDING", "DESCENDING"}, NEW setPoint \in Int, NEW delta \in Nat \ {0}
    PROVE  /\ Last(window) >= setPoint + delta
                => HysteresisSignal(Hysteresis(state, window, setPoint, delta)) = 0
           /\ Last(window) =< setPoint - delta
                => HysteresisSignal(Hysteresis(state, window, setPoint, delta)) = Slots
<1>1. /\ Last(window) \in Int
      /\ Below(window, setPoint + delta) <=> Last(window) < setPoint + delta
      /\ Above(window, setPoint - delta) <=> Last(window) > setPoint - delta
  <2>1. setPoint + delta \in Int /\ setPoint - delta \in Int
    OBVIOUS
  <2>2. QED
    BY <2>1, LastedAverage
<1>2. Last(window) >= setPoint + delta => ~Below(window, setPoint + delta)
                                          /\ Above(window, setPoint - delta)
  BY <1>1
<1>3. Last(window) =< setPoint - delta => Below(window, setPoint + delta)
                                          /\ ~Above(window, setPoint - delta)
  BY <1>1
<1>4. QED
  BY <1>2, <1>3 DEF HysteresisSignal, Hysteresis

LEMMA SetPointsInt ==
    /\ BrewSetPoint \in Int /\ ServiceSetPoint \in Int
    /\ BrewBand \in {BrewDelta, HybridDelta}
    /\ HeatingUp <=> BrewBand = BrewDelta
<1>1. BrewTarget \in Int /\ ServiceTarget \in Int
  BY BoilerControlAssumption
<1>2. BrewSetPoint \in Int
  <2>1. BrewSetPoint \in {140, 260, BrewTarget}
    <3>1. CASE sleepMode
      BY <3>1 DEF BrewSetPoint
    <3>2. CASE ~sleepMode /\ HeatingUp
      BY <3>2 DEF BrewSetPoint
    <3>3. CASE ~sleepMode /\ ~HeatingUp
      BY <3>3 DEF BrewSetPoint
    <3>4. QED
      BY <3>1, <3>2, <3>3
  <2>2. QED
    BY <1>1, <2>1
<1>3. ServiceSetPoint \in Int
  BY <1>1 DEF ServiceSetPoint
<1>4. BrewBand = IF HeatingUp THEN BrewDelta ELSE HybridDelta
  BY DEF BrewBand
<1>5. BrewDelta # HybridDelta
  BY DEF BrewDelta, HybridDelta
<1>6. QED
  BY <1>2, <1>3, <1>4, <1>5, Zenon

\* The hybrid controller is all on or off outside of its band.
LEMMA HybridSettles ==
    ASSUME NEW S \in SUBSET Int, NEW window \in Seq(S), Len(window) =< Window,
           NEW held \in Nat, Lasts(window, held), held >= Window,
           NEW state \in {"ASCENDING", "DESCENDING"},
           NEW signal \in HybridSignals(window, Hysteresis(state, window, BrewSetPoint, BrewDelta))
    PROVE  /\ Last(window) >= BrewSetPoint + BrewBand => signal = 0
           /\ Last(window) =< BrewSetPoint - BrewBand => signal = Slots
<1> DEFINE next == Hysteresis(state, window, BrewSetPoint, BrewDelta)
<1>1. BrewSetPoint \in Int /\ Last(window) \in Int
  BY SetPointsInt, LastedAverage
<1>2. /\ Last(window) >= BrewSetPoint + BrewDelta => HysteresisSignal(next) = 0
      /\ Last(window) =< BrewSetPoint - BrewDelta => HysteresisSignal(next) = Slots
  BY <1>1, HysteresisSettles DEF BrewDelta
<1>3. /\ Below(window, BrewSetPoint + HybridDelta) <=> Last(window) < BrewSetPoint + HybridDelta
      /\ Above(window, BrewSetPoint - HybridDelta) <=> Last(window) > BrewSetPoint - HybridDelta
  <2>1. BrewSetPoint + HybridDelta \in Int /\ BrewSetPoint - HybridDelta \in Int
    BY <1>1 DEF HybridDelta
  <2>2. QED
    BY <2>1, LastedAverage
<1>4. ~NearSetPoint(window) => signal = HysteresisSignal(next)
  BY DEF HybridSignals
<1> HIDE DEF next
<1>5. CASE HeatingUp
  BY <1>1, <1>2, <1>4, <1>5 DEF NearSetPoint, BrewBand
<1>6. CASE ~HeatingUp
  <2>1. BrewBand = HybridDelta
    BY <1>6 DEF BrewBand
  <2>2. Last(window) >= BrewSetPoint + BrewBand \/ Last(window) =< BrewSetPoint - BrewBand
          => ~NearSetPoint(window)
    BY <1>1, <1>3, <2>1 DEF NearSetPoint, HybridDelta
  <2>3. QED
    BY <1>1, <1>2, <1>4, <2>1, <2>2 DEF HybridDelta, BrewDelta
<1>7. QED
  BY <1>5, <1>6

LEMMA Older ==
    ASSUME NEW held \in Nat, NEW heldNow \in Nat, NEW age \in Nat, NEW ageNow, NEW w \in Int,
           heldNow =< held + 1, ageNow = age + 1, heldNow - ageNow >= w
    PROVE  held - age >= w
OBVIOUS

\* How far the period in course is.
LEMMA AgeBound ==
    ASSUME PeriodInv
    PROVE  Len(ssrStateQueue) \in 0..(Slots - 1)
<1>1. CASE Fresh
  BY <1>1, SlotsAssumption DEF Fresh
<1>2. ASSUME NEW k \in 1..Slots, Gone(k)
      PROVE  Len(ssrStateQueue) \in 0..(Slots - 1)
  BY <1>2, SlotsAssumption DEF Gone, Rest
<1>3. QED
  BY <1>1, <1>2 DEF PeriodInv

LEMMA AgeStep ==
    ASSUME PeriodInv, NEW bb, NEW sb, NEW brew, ControlCycle(bb, sb, brew)
    PROVE  /\ ssrStateQueue = <<>> => Len(ssrStateQueue') = Slots - 1 /\ bbSignal' = bb /\ sbSignal' = sb
           /\ ssrStateQueue # <<>> => /\ Len(ssrStateQueue') = Len(ssrStateQueue) - 1
                                      /\ UNCHANGED <<bbSignal, sbSignal>>
<1> USE SlotsAssumption
<1>1. CASE ssrStateQueue = <<>>
  <2> DEFINE q == FilledQueue(PowerShare(bb, sb, brew))
  <2>1. q \in Seq(SsrState) /\ Len(q) = Slots /\ q # <<>>
    <3>1. q \in [1..Slots -> SsrState]
      BY FilledQueueType
    <3> HIDE DEF q
    <3>2. QED
      BY <3>1
  <2>2. ssrStateQueue' = Tail(q) /\ bbSignal' = bb /\ sbSignal' = sb
    BY <1>1 DEF ControlCycle, Refilled
  <2> HIDE DEF q
  <2>3. Len(Tail(q)) = Slots - 1
    BY <2>1
  <2>4. QED
    BY <1>1, <2>2, <2>3
<1>2. CASE ssrStateQueue # <<>>
  <2>1. ssrStateQueue \in Seq(SsrState)
    <3>1. PICK k \in 1..Slots : Gone(k)
      BY <1>2 DEF PeriodInv, Fresh
    <3>2. Slots - k \in Nat
      OBVIOUS
    <3> DEFINE f == FilledQueue(Share)
               n == Slots - k
    <3>3. \A i \in 1..n : f[i + k] \in SsrState
      BY FilledQueueType
    <3>4. ssrStateQueue = [i \in 1..n |-> f[i + k]]
      BY <3>1 DEF Gone, Rest
    <3> HIDE DEF f, n
    <3>5. ssrStateQueue \in [1..n -> SsrState]
      BY <3>3, <3>4
    <3>6. QED
      BY <3>2, <3>5 DEF n
  <2>2. ssrStateQueue' = Tail(ssrStateQueue) /\ UNCHANGED <<bbSignal, sbSignal>>
    BY <1>2 DEF ControlCycle, Refilled
  <2>3. QED
    BY <1>2, <2>1, <2>2
<1>3. QED
  BY <1>1, <1>2

LEMMA HeldGrows ==
    ASSUME NEW held \in 0..HeldCap, NEW same
    PROVE  LET now == Holds(held, same)
           IN  /\ now \in 0..HeldCap /\ now =< held + 1
               /\ now > 1 => same
               /\ now = held \/ now = held + 1 \/ now = 1
BY SlotsAssumption, BoilerControlAssumption DEF Holds, HeldCap

LEMMA CycleSettled ==
    ASSUME SettledInv, NEW r \in BrewReadings, NEW s \in ServiceReadings, NEW brew \in BOOLEAN,
           Cycle(r, s, brew), Sensors', PeriodInv'
    PROVE  SettledInv'
<1> USE SlotsAssumption, BoilerControlAssumption DEF SettledInv
<1>1. /\ brewTempAverage' = AddValue(brewTempAverage, r)
      /\ serviceTempAverage' = AddValue(serviceTempAverage, s)
      /\ brewHeld' = Holds(brewHeld, brewTempAverage # <<>> /\ r = Last(brewTempAverage))
      /\ serviceHeld' = Holds(serviceHeld, serviceTempAverage # <<>> /\ s = Last(serviceTempAverage))
      /\ UNCHANGED modeVars
  BY DEF Cycle
<1>2. Lasts(brewTempAverage', brewHeld') /\ Lasts(serviceTempAverage', serviceHeld')
  BY <1>1, LastsStep DEF Sensors
<1>3. BrewSetPoint' = BrewSetPoint /\ BrewBand' = BrewBand /\ ServiceSetPoint' = ServiceSetPoint
      /\ ecoMode' = ecoMode
  BY <1>1 DEF modeVars, BrewSetPoint, ServiceSetPoint, BrewBand, HeatingUp
<1>4. BrewReadings \in SUBSET Int /\ ServiceReadings \in SUBSET Int
  OBVIOUS
<1>5. brewHeld' \in Nat /\ serviceHeld' \in Nat
  BY DEF Sensors, HeldCap
<1>6. CASE ssrStateQueue = <<>>
  <2>1. PICK bb \in HybridSignals(brewTempAverage', brewHysteresis') :
            ControlCycle(bb, IF ecoMode THEN 0 ELSE HysteresisSignal(serviceHysteresis'), brew)
    BY <1>6 DEF Cycle
  <2>2. /\ brewHysteresis' = Hysteresis(brewHysteresis, brewTempAverage', BrewSetPoint, BrewDelta)
        /\ serviceHysteresis' =
             Hysteresis(serviceHysteresis, serviceTempAverage', ServiceSetPoint, ServiceDelta)
    BY <1>6 DEF Cycle
  <2>3. /\ bbSignal' = bb
        /\ sbSignal' = IF ecoMode THEN 0 ELSE HysteresisSignal(serviceHysteresis')
        /\ Len(ssrStateQueue') = Slots - 1
    BY <1>6, <2>1, AgeStep
  <2>4. Age' = 0
    BY <2>3 DEF Age
  <2>5. ASSUME brewHeld' >= Window
        PROVE  /\ Last(brewTempAverage') >= BrewSetPoint + BrewBand => bbSignal' = 0
               /\ Last(brewTempAverage') =< BrewSetPoint - BrewBand => bbSignal' = Slots
    BY <1>2, <1>4, <1>5, <2>1, <2>2, <2>3, <2>5, HybridSettles DEF Sensors
  <2>6. ASSUME serviceHeld' >= Window
        PROVE  /\ Last(serviceTempAverage') >= ServiceSetPoint + ServiceDelta => sbSignal' = 0
               /\ Last(serviceTempAverage') =< ServiceSetPoint - ServiceDelta /\ ~ecoMode
                    => sbSignal' = Slots
    <3>1. ServiceSetPoint \in Int /\ ServiceDelta \in Nat \ {0}
      BY SetPointsInt DEF ServiceDelta
    <3>2. /\ Last(serviceTempAverage') >= ServiceSetPoint + ServiceDelta
               => HysteresisSignal(serviceHysteresis') = 0
          /\ Last(serviceTempAverage') =< ServiceSetPoint - ServiceDelta
               => HysteresisSignal(serviceHysteresis') = Slots
      BY <1>2, <1>4, <1>5, <2>2, <2>6, <3>1, HysteresisSettles DEF Sensors
    <3>3. QED
      BY <2>3, <3>2
  <2>7. Settled'
    <3>1. brewHeld' - Age' = brewHeld' /\ serviceHeld' - Age' = serviceHeld'
      <4>1. \A held \in Nat : held - 0 = held
        OBVIOUS
      <4>2. QED
        BY <1>5, <2>4, <4>1, Zenon
    <3>2. QED
      BY <1>3, <2>5, <2>6, <3>1, Zenon DEF Settled, Last
  <2>8. QED
    BY <1>2, <2>7
<1>7. CASE ssrStateQueue # <<>>
  <2>1. ControlCycle(0, 0, brew)
    BY <1>7 DEF Cycle
  <2>2. /\ Len(ssrStateQueue') = Len(ssrStateQueue) - 1
        /\ bbSignal' = bbSignal /\ sbSignal' = sbSignal
    BY <1>7, <2>1, AgeStep
  <2>3. Age' = Age + 1 /\ Age \in Nat
    <3>1. Len(ssrStateQueue) \in 0..(Slots - 1)
      BY AgeBound
    <3>2. QED
      BY <2>2, <3>1 DEF Age
  <2>4. brewHeld \in 0..HeldCap /\ serviceHeld \in 0..HeldCap /\ HeldCap \in Nat
    BY DEF Sensors, HeldCap
  <2>5. ASSUME brewHeld' - Age' >= Window
        PROVE  brewHeld - Age >= Window /\ Last(brewTempAverage') = Last(brewTempAverage)
    <3>1. brewHeld' > 1 /\ brewHeld' =< brewHeld + 1
      BY <1>1, <1>5, <2>3, <2>4, <2>5, HeldGrows
    <3>2. r = Last(brewTempAverage)
      BY <1>1, <2>4, <3>1, HeldGrows
    <3>3. Last(brewTempAverage') = r
      BY <1>1, AddedAt DEF Sensors, Last
    <3>4. brewHeld - Age >= Window
      <4>1. brewHeld \in Nat /\ Window \in Int
        BY <2>4
      <4>2. QED
        BY <1>5, <2>3, <2>5, <3>1, <4>1, Older
    <3>5. QED
      BY <3>2, <3>3, <3>4
  <2>6. ASSUME serviceHeld' - Age' >= Window
        PROVE  serviceHeld - Age >= Window /\ Last(serviceTempAverage') = Last(serviceTempAverage)
    <3>1. serviceHeld' > 1 /\ serviceHeld' =< serviceHeld + 1
      BY <1>1, <1>5, <2>3, <2>4, <2>6, HeldGrows
    <3>2. s = Last(serviceTempAverage)
      BY <1>1, <2>4, <3>1, HeldGrows
    <3>3. Last(serviceTempAverage') = s
      BY <1>1, AddedAt DEF Sensors, Last
    <3>4. serviceHeld - Age >= Window
      <4>1. serviceHeld \in Nat /\ Window \in Int
        BY <2>4
      <4>2. QED
        BY <1>5, <2>3, <2>6, <3>1, <4>1, Older
    <3>5. QED
      BY <3>2, <3>3, <3>4
  <2>7. Settled'
    BY <1>3, <2>2, <2>5, <2>6 DEF Settled, Last
  <2>8. QED
    BY <1>2, <2>7
<1>8. QED
  BY <1>6, <1>7

LEMMA InitSettled == BInit => SettledInv
<1> SUFFICES ASSUME BInit PROVE SettledInv
  OBVIOUS
<1>1. Sensors /\ PeriodInv
  BY SensorsInit, InitPeriodInv DEF BInit
<1>2. /\ brewTempAverage = <<>> /\ serviceTempAverage = <<>> /\ brewHeld = 0 /\ serviceHeld = 0
      /\ Len(ssrStateQueue) = 0
  BY DEF BInit, PInit
<1>3. QED
  BY <1>1, <1>2, SlotsAssumption, BoilerControlAssumption DEF SettledInv, Settled, Lasts, Age

LEMMA NextSettled ==
    ASSUME SettledInv, [BNext]_bvars
    PROVE  SettledInv'
<1>1. Sensors' /\ PeriodInv'
  BY SensorsStep, ControlStep, NextPeriodInv DEF SettledInv
<1>2. ASSUME NEW r \in BrewReadings, NEW s \in ServiceReadings, NEW brew \in BOOLEAN,
             Cycle(r, s, brew)
      PROVE  SettledInv'
  BY <1>1, <1>2, CycleSettled
<1>3. ASSUME NEW r, NEW s, NEW e, ChangeMode(r, s, e)
      PROVE  SettledInv'
  <2>1. brewHeld' = 0 /\ serviceHeld' = 0 /\ UNCHANGED <<pvars, sensorVars>>
    BY <1>3 DEF ChangeMode
  <2>2. Age \in Nat /\ Age' = Age
    <3>1. Len(ssrStateQueue) \in 0..(Slots - 1)
      BY AgeBound DEF SettledInv
    <3>2. QED
      BY <2>1, <3>1, SlotsAssumption DEF Age, pvars
  <2>3. Settled'
    BY <2>1, <2>2, BoilerControlAssumption DEF Settled
  <2>4. Lasts(brewTempAverage', brewHeld') /\ Lasts(serviceTempAverage', serviceHeld')
    BY <2>1, BoilerControlAssumption DEF SettledInv, Sensors, sensorVars, Lasts
  <2>5. QED
    BY <1>1, <2>3, <2>4 DEF SettledInv
<1>4. CASE UNCHANGED bvars
  BY <1>1, <1>4 DEF bvars, pvars, modeVars, sensorVars, SettledInv, Lasts, Settled, Age, Last,
     BrewSetPoint, ServiceSetPoint, BrewBand, HeatingUp
<1>5. QED
  BY <1>2, <1>3, <1>4 DEF BNext

\* What a settled boiler has by now: nothing when hot, its share when cold.
LEMMA SettledSlots ==
    ASSUME SettledInv
    PROVE  HotBoilersRest /\ ColdBoilersHeat
<1> USE SlotsAssumption, BoilerControlAssumption DEF SettledInv
<1>1. Len(ssrStateQueue) \in 0..(Slots - 1)
  BY AgeBound
<1>2. /\ Lasted(brewHeld) => brewHeld - Age >= Window
      /\ Lasted(serviceHeld) => serviceHeld - Age >= Window
  BY <1>1 DEF Age, Lasted, Sensors, HeldCap
<1>3. /\ bbSignal \in 0..Slots /\ sbSignal \in {0, Slots} /\ brewing \in BOOLEAN
  BY DEF PeriodInv, Signals
<1>4. BrewSlots \in Nat /\ ServiceSlots \in Nat
  <2>1. CASE Fresh
    BY <2>1 DEF Fresh, NothingGiven, SsrState, BrewSlots, ServiceSlots
  <2>2. ASSUME NEW k \in 1..Slots, Gone(k)
        PROVE  BrewSlots \in Nat /\ ServiceSlots \in Nat
    <3>1. Share.bb \in Nat /\ Share.sb \in Nat
      BY <1>3, ShareFits DEF Share
    <3>2. BrewSlots = BrewOf(Share, k) /\ ServiceSlots = ServiceOf(Share, k)
      BY <2>2, TakenAt DEF Gone, BrewSlots, ServiceSlots, SsrState
    <3>3. QED
      BY <3>1, <3>2 DEF BrewOf, ServiceOf, Least
  <2>3. QED
    BY <2>1, <2>2 DEF PeriodInv
<1>5. NoBoilerOverdriven
  BY PeriodInvBounds
<1>6. HotBoilersRest
  BY <1>2, <1>3, <1>4, <1>5 DEF HotBoilersRest, Settled, NoBoilerOverdriven
<1>7. ASSUME ssrStateQueue = <<>>
      PROVE  /\ bbSignal = Slots => BrewSlots >= ThreeQuarters(Slots)
             /\ sbSignal = Slots /\ ~brewing => ServiceSlots >= Slots - ThreeQuarters(Slots)
  <2>1. ThreeQuarters(Slots) \in 0..Slots /\ ThreeQuarters(bbSignal) =< ThreeQuarters(Slots)
    BY <1>3 DEF ThreeQuarters
  <2>2. ASSUME bbSignal = Slots \/ sbSignal = Slots
        PROVE  BrewSlots = Share.bb /\ ServiceSlots = Share.sb
    <3>1. PICK k \in 1..Slots : Gone(k)
      BY <2>2 DEF PeriodInv, Fresh
    <3>2. k = Slots
      BY <1>7, <3>1, RestHeadTail DEF Gone
    <3>3. BrewSlots = BrewOf(Share, Slots) /\ ServiceSlots = ServiceOf(Share, Slots)
      BY <3>1, <3>2, TakenAt DEF Gone, BrewSlots, ServiceSlots, SsrState
    <3>4. Share.bb \in 0..Slots /\ Share.sb \in 0..Slots /\ Share.bb + Share.sb =< Slots
      BY <1>3, ShareFits DEF Share
    <3>5. QED
      BY <3>3, <3>4 DEF BrewOf, ServiceOf, Least
  <2>3. CASE bbSignal + sbSignal =< Slots
    <3>1. Share.bb = bbSignal /\ Share.sb = sbSignal
      BY <2>3 DEF Share, PowerShare
    <3>2. QED
      BY <1>3, <2>1, <2>2, <3>1
  <2>4. CASE ~(bbSignal + sbSignal =< Slots)
    <3>1. /\ Share.bb = IF brewing THEN bbSignal ELSE ThreeQuarters(bbSignal)
          /\ Share.sb = Slots - Share.bb
      BY <2>4 DEF Share, PowerShare
    <3>2. /\ bbSignal = Slots => Share.bb >= ThreeQuarters(Slots)
          /\ ~brewing => Share.sb >= Slots - ThreeQuarters(Slots)
      BY <1>3, <2>1, <3>1 DEF ThreeQuarters
    <3>3. QED
      BY <2>2, <3>2
  <2>5. QED
    BY <2>3, <2>4
<1>8. ColdBoilersHeat
  BY <1>2, <1>7 DEF ColdBoilersHeat, Settled
<1>9. QED
  BY <1>6, <1>8

\* For windows, periods, readings and targets of every size: a boiler that has been
\* above its band for a window and a period is not heated.
THEOREM HotRest == BSpec => []HotBoilersRest
<1>1. SettledInv => HotBoilersRest
  BY SettledSlots
<1>2. QED
  BY <1>1, InitSettled, NextSettled, PTL DEF BSpec

\* And one that has been below it that long gets its share of a period.
THEOREM ColdHeat == BSpec => []ColdBoilersHeat
<1>1. SettledInv => ColdBoilersHeat
  BY SettledSlots
<1>2. QED
  BY <1>1, InitSettled, NextSettled, PTL DEF BSpec

=============================================================================
