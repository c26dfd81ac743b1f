---------------------------- MODULE FirmwareProofs ----------------------------
(***************************************************************************)
(* The watchdog of the application, for every value of the constants: what *)
(* it fires for, and where its reset leads.                                *)
(***************************************************************************)
EXTENDS Firmware, SequenceTheorems, TLAPS

USE BootloaderAssumption, FirmwareAssumption

-----------------------------------------------------------------------------
(* The token of the double tap.                                            *)

\* The application runs only after the token was taken back.
RunningDisarmed == stage = "running" => ~armed

LEMMA DisarmedStep == RunningDisarmed /\ [Next]_vars => RunningDisarmed'
<1> SUFFICES ASSUME RunningDisarmed, [Next]_vars PROVE RunningDisarmed'
  OBVIOUS
<1> USE DEF RunningDisarmed
<1>1. CASE UNCHANGED loader
  BY <1>1 DEF loader
<1>2. CASE Core0
  BY <1>1, <1>2 DEF Core0, Setup, TurnBegins, WaitOver, HandleCommand, CommandsHandled,
     SendStatus, LookAtStatusQueue
<1>3. CASE Core1 \/ GetStuck
  BY <1>1, <1>3 DEF Core1, GetStuck, LockCommands, LockStatuses, Lock, SendBegin, Initialized,
     TakeStatus, Work, SendCommand, RoomAgain
<1>4. CASE Tick
  BY <1>1, <1>4 DEF Tick
<1>5. CASE WatchdogReset
  BY <1>5 DEF WatchdogReset
<1>6. CASE Load
  <2>1. CASE Host
    BY <2>1 DEF Host, Sync, Error, Erase, Write, Seal, Go, Jump, Reboot
  <2>2. CASE BootHeld
    BY <2>2 DEF BootHeld
  <2>3. CASE Chip
    BY <2>3 DEF Chip, Boot, Jump, Stay, EraseSector, ProgramHeader, Arm, Disarm
  <2> QED
    BY <1>6, <2>1, <2>2, <2>3 DEF Load
<1>7. CASE Interruption
  BY <1>7 DEF Interruption, LosePower, PressReset
<1>8. CASE UNCHANGED vars
  BY <1>1, <1>8 DEF vars
<1> QED
  BY <1>2, <1>3, <1>4, <1>5, <1>6, <1>7, <1>8 DEF Next

\* The reset of the watchdog never leads into USB boot mode, for any image, host and
\* history of resets.
THEOREM WatchdogIsNoTap == Spec => NoUsbAfterWatchdog
<1>1. Init => RunningDisarmed
  BY DEF Init, BInit, RunningDisarmed
<1>2. RunningDisarmed => [WatchdogReset => ~armed]_vars
  BY DEF RunningDisarmed, WatchdogReset
<1> QED
  BY <1>1, <1>2, DisarmedStep, PTL DEF Spec, NoUsbAfterWatchdog

-----------------------------------------------------------------------------
(* The watchdog.                                                           *)

\* Core 1 holds at most the lock it works under, and no lost one.
LocksInv ==
    /\ locked \cap orphaned = {}
    /\ pc1 \in {"begin", "send"} => locked \subseteq {"commandQueue"}
    /\ pc1 = "drain" => locked \subseteq {"statusQueue"}
    /\ pc1 \notin {"begin", "send", "drain"} => locked = {}

\* As long as no lock is lost and core 0 has not thrown, every wait of it ends
\* before the watchdog fires.
FedInv ==
    /\ watchdog \in 0..WatchdogTicks /\ sleep \in 0..SleepTicks
    /\ pc0 = "off" => watchdog = WatchdogTicks /\ orphaned = {} /\ locked = {}
    /\ pc0 \notin {"off", "panicked"} /\ orphaned = {}
         => IF pc0 \in {"read", "sleep"} THEN sleep < watchdog ELSE watchdog > 0

LEMMA Ticks ==
    /\ WatchdogTicks \in Nat /\ SleepTicks \in Nat \ {0} /\ SleepTicks < WatchdogTicks
BY DEF FirmwareAssumption

LEMMA Core0Fed ==
    ASSUME LocksInv, FedInv, Core0
    PROVE  LocksInv' /\ FedInv'
<1>1. CASE Setup
  BY <1>1, Ticks DEF Setup, LocksInv, FedInv
<1>2. CASE TurnBegins
  <2>1. CASE core1RebootTimer = 0
    <3>1. locked' = {} /\ pc1' = "begin"
      BY <1>2, <2>1 DEF TurnBegins, ResetCore1
    <3>2. FedInv'
      BY <1>2, Ticks DEF TurnBegins, FedInv
    <3> QED
      BY <3>1, <3>2 DEF LocksInv
  <2>2. CASE core1RebootTimer # 0
    <3>1. UNCHANGED <<pc1, locked, orphaned>>
      BY <1>2, <2>2 DEF TurnBegins, core1Vars
    <3>2. FedInv'
      BY <1>2, Ticks DEF TurnBegins, FedInv
    <3> QED
      BY <3>1, <3>2 DEF LocksInv
  <2> QED
    BY <2>1, <2>2
<1>3. CASE WaitOver
  BY <1>3, Ticks DEF WaitOver, LocksInv, FedInv, core1Vars
<1>4. CASE HandleCommand \/ CommandsHandled \/ SendStatus \/ LookAtStatusQueue
  BY <1>4, Ticks DEF HandleCommand, CommandsHandled, SendStatus, LookAtStatusQueue, LocksInv,
     FedInv, core1Vars
<1> QED
  BY <1>1, <1>2, <1>3, <1>4 DEF Core0

LEMMA Core1Fed ==
    ASSUME LocksInv, FedInv, Core1 \/ GetStuck, pc0 # "off"
    PROVE  LocksInv' /\ FedInv'
<1>1. UNCHANGED <<core0Vars, orphaned>>
  BY DEF Core1, GetStuck, LockCommands, LockStatuses, Lock, SendBegin, Initialized, TakeStatus,
     Work, SendCommand, RoomAgain
<1>2. FedInv'
  BY <1>1 DEF FedInv, core0Vars
<1> SUFFICES LocksInv'
  BY <1>2
<1>3. CASE LockCommands \/ LockStatuses
  BY <1>1, <1>3 DEF LockCommands, LockStatuses, Lock, Free, LocksInv
<1>4. CASE locked' = {}
  BY <1>4 DEF LocksInv
<1>5. CASE Initialized \/ Work \/ RoomAgain \/ GetStuck
  BY <1>4, <1>5 DEF Initialized, Work, RoomAgain, GetStuck, LocksInv
<1>6. CASE SendBegin \/ TakeStatus \/ SendCommand
  BY <1>4, <1>6 DEF SendBegin, TakeStatus, SendCommand
<1> QED
  BY <1>3, <1>5, <1>6 DEF Core1

\* Time passes while core 0 sleeps, or waits for a lock that core 1 does not hold.
LEMMA TickFed ==
    ASSUME LocksInv, FedInv, Tick
    PROVE  LocksInv' /\ FedInv'
<1>1. /\ pc0 # "off" /\ watchdog > 0 /\ watchdog' = watchdog - 1
      /\ sleep' = IF sleep > 0 THEN sleep - 1 ELSE 0
      /\ UNCHANGED <<pc0, pc1, locked, orphaned>>
  BY DEF Tick
<1>2. locked = {}
  BY DEF Tick, Core1Waits, LocksInv
<1>3. orphaned = {} => pc0 = "panicked" \/ (pc0 \in {"read", "sleep"} /\ sleep > 0)
  BY <1>2 DEF Tick, Core0Waits, Free
<1>4. FedInv'
  BY <1>1, <1>3, Ticks DEF FedInv
<1> QED
  BY <1>1, <1>4 DEF LocksInv

LEMMA FedStep ==
    ASSUME LocksInv, FedInv, pc0 = "off" <=> pc1 = "off", [Next]_vars
    PROVE  LocksInv' /\ FedInv'
<1>1. CASE AppStops
  BY <1>1, Ticks DEF AppStops, LocksInv, FedInv
<1>2. CASE UNCHANGED app
  BY <1>2 DEF app, core0Vars, core1Vars, LocksInv, FedInv
<1>3. CASE Core1 \/ GetStuck
  <2>1. pc1 # "off"
    BY <1>3 DEF Core1, GetStuck, LockCommands, LockStatuses, SendBegin, Initialized, TakeStatus,
       Work, SendCommand, RoomAgain
  <2> QED
    BY <1>3, <2>1, Core1Fed
<1> QED
  BY <1>1, <1>2, <1>3, Core0Fed, TickFed DEF Next, WatchdogReset, Load, Interruption, vars

\* Both cores run or none.
LEMMA BothOff ==
    ASSUME pc0 = "off" <=> pc1 = "off", [Next]_vars
    PROVE  (pc0 = "off" <=> pc1 = "off")'
<1>1. CASE AppStops
  BY <1>1 DEF AppStops
<1>2. CASE UNCHANGED <<pc0, pc1>>
  BY <1>2
<1>3. CASE Core0
  BY <1>3 DEF Core0, Setup, TurnBegins, ResetCore1, WaitOver, HandleCommand, CommandsHandled,
     SendStatus, LookAtStatusQueue, core1Vars
<1>4. CASE Core1 \/ GetStuck
  BY <1>4 DEF Core1, GetStuck, LockCommands, LockStatuses, Lock, SendBegin, Initialized,
     TakeStatus, Work, SendCommand, RoomAgain, core0Vars
<1>5. CASE Tick \/ UNCHANGED app
  BY <1>2, <1>5 DEF Tick, app, core0Vars, core1Vars
<1> QED
  BY <1>1, <1>3, <1>4, <1>5 DEF Next, WatchdogReset, Load, Interruption, vars

\* The watchdog fires only when a reset of core 1 has left a lock behind or core 0
\* has thrown, for all times and queue sizes, with a core 1 that hangs or fills the
\* queue at any point.
THEOREM WatchdogExplained == Spec => WatchdogHasCause
<1> DEFINE Inv == LocksInv /\ FedInv /\ (pc0 = "off" <=> pc1 = "off")
<1>1. Init => Inv
  BY Ticks DEF Init, AppOff, LocksInv, FedInv
<1>2. Inv /\ [Next]_vars => Inv'
  BY FedStep, BothOff
<1>3. Inv => [WatchdogReset => orphaned # {} \/ pc0 = "panicked"]_vars
  <2> SUFFICES ASSUME Inv, WatchdogReset PROVE orphaned # {} \/ pc0 = "panicked"
    OBVIOUS
  <2>1. pc0 # "off" /\ watchdog = 0
    BY DEF WatchdogReset
  <2> QED
    BY <2>1 DEF FedInv
<1> QED
  BY <1>1, <1>2, <1>3, PTL DEF Spec, WatchdogHasCause

-----------------------------------------------------------------------------
(* Types, with the bounds of both queues.                                  *)

AppTypeOK ==
    /\ pc0 \in {"off", "top", "read", "sleep", "commands", "firstCommands", "status", "isFull",
               "panicked"}
    /\ pc1 \in {"off", "begin", "init", "drain", "work", "send", "wait", "stuck"}
    /\ begun \in BOOLEAN /\ timerLost \in BOOLEAN
    /\ statusQueue \in 0..StatusCapacity
    /\ commandQueue \in Seq({"BEGIN", "OTHER"}) /\ Len(commandQueue) =< CommandCapacity
    /\ core1RebootTimer \in 0..NotSet /\ watchdog \in 0..WatchdogTicks /\ sleep \in 0..SleepTicks
    /\ locked \subseteq Queues /\ orphaned \subseteq Queues
    /\ sent \in 0..CommandsPerTick

LEMMA Sizes ==
    /\ FirstReboot \in Nat \ {0} /\ NextReboot \in Nat \ {0} /\ NotSet = NextReboot + FirstReboot
    /\ StatusCapacity \in Nat \ {0} /\ CommandCapacity \in Nat \ {0} /\ CommandsPerTick \in Nat
    /\ "statusQueue" \in Queues /\ "commandQueue" \in Queues
BY DEF FirmwareAssumption, NotSet, Queues

LEMMA LoaderTyped ==
    ASSUME BTypeOK, [Next]_vars
    PROVE  BTypeOK'
<1> USE DEF BTypeOK
<1>1. CASE UNCHANGED loader
  BY <1>1 DEF loader
<1>2. CASE Core0 \/ Core1 \/ GetStuck \/ Tick
  BY <1>1, <1>2 DEF Core0, Setup, TurnBegins, WaitOver, HandleCommand, CommandsHandled,
     SendStatus, LookAtStatusQueue, Core1, GetStuck, LockCommands, LockStatuses, Lock, SendBegin,
     Initialized, TakeStatus, Work, SendCommand, RoomAgain, Tick
<1>3. CASE WatchdogReset
  BY <1>3 DEF WatchdogReset
<1>4. CASE Host
  <2>1. CASE Sync \/ Error \/ Go \/ \E b \in BOOLEAN : Reboot(b)
    BY <2>1 DEF Sync, Error, Go, Jump, Reboot
  <2>2. ASSUME NEW first \in 0..Sectors, NEW last \in 0..Sectors, Erase(first, last)
        PROVE  BTypeOK'
    BY <2>2 DEF Erase
  <2>3. ASSUME NEW i \in 1..Sectors, NEW data \in Versions \cup {"junk"}, Write(i, data)
        PROVE  BTypeOK'
    BY <2>3 DEF Write, Programmed, Contents
  <2>4. ASSUME NEW v \in Versions, Seal(v)
        PROVE  BTypeOK'
    BY <2>4 DEF Seal, Contents
  <2> QED
    BY <1>4, <2>1, <2>2, <2>3, <2>4 DEF Host
<1>5. CASE BootHeld
  BY <1>5 DEF BootHeld
<1>6. CASE Chip
  BY <1>6 DEF Chip, Boot, Jump, Stay, EraseSector, ProgramHeader, Programmed, Arm, Disarm, Contents
<1>7. CASE Interruption
  BY <1>7 DEF Interruption, LosePower, PressReset, Interrupted, Contents
<1>8. CASE UNCHANGED vars
  BY <1>1, <1>8 DEF vars
<1> QED
  BY <1>2, <1>3, <1>4, <1>5, <1>6, <1>7, <1>8 DEF Next, Load

LEMMA Core0Typed ==
    ASSUME AppTypeOK, Core0
    PROVE  AppTypeOK'
<1> USE Ticks, Sizes DEF AppTypeOK
<1>1. CASE Setup
  <2>1. <<"OTHER">> \in Seq({"BEGIN", "OTHER"}) /\ Len(<<"OTHER">>) = 1
    OBVIOUS
  <2> QED
    BY <1>1, <2>1 DEF Setup, controller
<1>2. CASE TurnBegins
  <2>1. CASE core1RebootTimer = 0
    BY <1>2, <2>1 DEF TurnBegins, ResetCore1, controller
  <2>2. CASE core1RebootTimer # 0
    BY <1>2, <2>2 DEF TurnBegins, core1Vars, controller
  <2> QED
    BY <2>1, <2>2
<1>3. CASE WaitOver
  BY <1>3 DEF WaitOver, core1Vars, controller
<1>4. CASE HandleCommand
  <2>1. commandQueue' \in Seq({"BEGIN", "OTHER"}) /\ Len(commandQueue') =< CommandCapacity
    BY <1>4 DEF HandleCommand
  <2>2. begun' \in BOOLEAN /\ timerLost' \in BOOLEAN
    BY <1>4 DEF HandleCommand
  <2> QED
    BY <1>4, <2>1, <2>2 DEF HandleCommand, core1Vars, controller
<1>5. CASE CommandsHandled
  BY <1>5 DEF CommandsHandled, core1Vars, controller
<1>6. CASE SendStatus
  BY <1>6 DEF SendStatus, core1Vars, controller
<1>7. CASE LookAtStatusQueue
  BY <1>7 DEF LookAtStatusQueue, core1Vars, controller
<1> QED
  BY <1>1, <1>2, <1>3, <1>4, <1>5, <1>6, <1>7 DEF Core0

LEMMA Core1Typed ==
    ASSUME AppTypeOK, Core1 \/ GetStuck
    PROVE  AppTypeOK'
<1> USE Ticks, Sizes DEF AppTypeOK
<1>1. ASSUME NEW command \in {"BEGIN", "OTHER"}, Add(command)
      PROVE  commandQueue' \in Seq({"BEGIN", "OTHER"}) /\ Len(commandQueue') =< CommandCapacity
  BY <1>1 DEF Add, NoRoom
<1>2. CASE LockCommands \/ LockStatuses
  BY <1>2 DEF LockCommands, LockStatuses, Lock, core0Vars, controller
<1>3. CASE SendBegin
  BY <1>1, <1>3 DEF SendBegin, core0Vars, controller
<1>4. CASE Initialized \/ Work \/ RoomAgain \/ GetStuck
  BY <1>4 DEF Initialized, Work, RoomAgain, GetStuck, core0Vars, controller
<1>5. CASE TakeStatus
  BY <1>5 DEF TakeStatus, core0Vars, controller
<1>6. CASE SendCommand
  BY <1>1, <1>6 DEF SendCommand, core0Vars, controller
<1> QED
  BY <1>2, <1>3, <1>4, <1>5, <1>6 DEF Core1

LEMMA AppTyped ==
    ASSUME AppTypeOK, [Next]_vars
    PROVE  AppTypeOK'
<1>1. CASE Tick
  BY <1>1, Ticks, Sizes DEF Tick, Elapsed, controller, AppTypeOK
<1>2. CASE AppStops
  <2>1. commandQueue' \in Seq({"BEGIN", "OTHER"}) /\ Len(commandQueue') =< CommandCapacity
    BY <1>2, Sizes DEF AppStops
  <2>2. locked' \subseteq Queues /\ orphaned' \subseteq Queues
    BY <1>2 DEF AppStops
  <2>3. /\ statusQueue' \in 0..StatusCapacity /\ core1RebootTimer' \in 0..NotSet
        /\ watchdog' \in 0..WatchdogTicks /\ sleep' \in 0..SleepTicks
        /\ sent' \in 0..CommandsPerTick
    BY <1>2, Ticks, Sizes DEF AppStops
  <2>4. pc0' = "off" /\ pc1' = "off" /\ begun' \in BOOLEAN /\ timerLost' \in BOOLEAN
    BY <1>2 DEF AppStops
  <2> QED
    BY <2>1, <2>2, <2>3, <2>4 DEF AppTypeOK
<1>3. CASE UNCHANGED app
  BY <1>3 DEF app, core0Vars, controller, core1Vars, AppTypeOK
<1> QED
  BY <1>1, <1>2, <1>3, Core0Typed, Core1Typed DEF Next, WatchdogReset, Load, Interruption, vars

\* The types of the loader and of both cores; neither queue exceeds its capacity,
\* whatever the capacities and times are.
THEOREM FirmwareTypes == Spec => []TypeOK
<1>1. Init => BTypeOK /\ AppTypeOK
  <2> SUFFICES ASSUME Init PROVE BTypeOK /\ AppTypeOK
    OBVIOUS
  <2>1. BTypeOK
    BY DEF Init, BInit, BTypeOK, Contents
  <2>2. commandQueue \in Seq({"BEGIN", "OTHER"}) /\ Len(commandQueue) =< CommandCapacity
    BY Sizes DEF Init, AppOff
  <2>3. AppTypeOK
    <3>1. locked \subseteq Queues /\ orphaned \subseteq Queues /\ begun \in BOOLEAN
          /\ timerLost \in BOOLEAN /\ pc0 = "off" /\ pc1 = "off"
      BY DEF Init, AppOff
    <3>2. /\ statusQueue \in 0..StatusCapacity /\ core1RebootTimer \in 0..NotSet
          /\ watchdog \in 0..WatchdogTicks /\ sleep \in 0..SleepTicks
          /\ sent \in 0..CommandsPerTick
      BY Ticks, Sizes DEF Init, AppOff
    <3> QED
      BY <2>2, <3>1, <3>2 DEF AppTypeOK
  <2> QED
    BY <2>1, <2>3
<1>2. BTypeOK /\ AppTypeOK => TypeOK
  BY DEF AppTypeOK, TypeOK
<1> QED
  BY <1>1, <1>2, LoaderTyped, AppTyped, PTL DEF Spec

=============================================================================
