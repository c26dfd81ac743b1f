------------------------------- MODULE Firmware -------------------------------
(***************************************************************************)
(* The chip: Bootloader, and the application on its two cores (main, main0, *)
(* main1) as far as they can stop each other.  They share two queues, each *)
(* behind a spin lock.  Core 0 resets a core 1 that lets the status queue  *)
(* fill up, wherever it is; a lock it held then is never released.  Only   *)
(* the watchdog gets core 0 out of a wait for such a lock, and out of the  *)
(* exception it stops with when it reads an empty heatupStage2Timer.       *)
(*                                                                         *)
(* A tick is the time core 0 waits for the answer of the control board.    *)
(* Time passes only while both cores wait; what they compute between takes *)
(* none.  What core 1 does besides the queues may take any time or never   *)
(* end (the thermocouples' I2C has no timeout).                            *)
(***************************************************************************)
EXTENDS Bootloader, Sequences

CONSTANTS
    SleepTicks,      \* core 0 sleeps before COMMAND_BEGIN; 1 s
    WatchdogTicks,   \* 2 s
    FirstReboot,     \* from a full status queue to the reset of core 1; 2 s
    NextReboot,      \* from one reset of core 1 to the next; 5 s
    StatusCapacity, CommandCapacity,   \* of the queues; 100 in main()
    CommandsPerTick  \* bound on what core 1 adds; one command takes the link 6 ms

ASSUME FirmwareAssumption ==
    /\ {SleepTicks, FirstReboot, NextReboot, StatusCapacity, CommandCapacity} \subseteq Nat \ {0}
    /\ WatchdogTicks \in Nat /\ SleepTicks < WatchdogTicks
    /\ CommandsPerTick \in Nat

Queues == {"statusQueue", "commandQueue"}
NotSet == NextReboot + FirstReboot

VARIABLES
    pc0, pc1,
    begun,            \* internalState # NOT_STARTED_YET
    timerLost,        \* a stage 2 of the heat-up has lost heatupStage2Timer
    statusQueue,      \* number of statuses
    commandQueue,
    core1RebootTimer, \* remaining ticks
    watchdog,         \* remaining ticks
    sleep,            \* remaining ticks of core 0's sleep
    locked,           \* the queues whose lock core 1 holds
    orphaned,         \* those whose lock nobody will release
    sent              \* commands core 1 has added in this tick

controller == <<begun, timerLost>>
core0Vars == <<pc0, controller, core1RebootTimer, watchdog, sleep>>
core1Vars == <<pc1, locked, sent>>
app  == <<core0Vars, core1Vars, statusQueue, commandQueue, orphaned>>
vars == <<loader, app>>

\* Not running.
AppOff ==
    /\ pc0 = "off" /\ pc1 = "off" /\ begun = FALSE /\ timerLost = FALSE
    /\ statusQueue = 0 /\ commandQueue = <<>>
    /\ core1RebootTimer = NotSet /\ watchdog = WatchdogTicks /\ sleep = 0
    /\ locked = {} /\ orphaned = {} /\ sent = 0

Init == BInit /\ AppOff

AppStops ==
    /\ pc0' = "off" /\ pc1' = "off" /\ begun' = FALSE /\ timerLost' = FALSE
    /\ statusQueue' = 0 /\ commandQueue' = <<>>
    /\ core1RebootTimer' = NotSet /\ watchdog' = WatchdogTicks /\ sleep' = 0
    /\ locked' = {} /\ orphaned' = {} /\ sent' = 0

-----------------------------------------------------------------------------
(* Core 0.                                                                 *)

Free(q) == q \notin locked \cup orphaned

\* main: the settings are read, and sent to core 0; core 1 is launched; main0
\* enables the watchdog.
Setup ==
    /\ stage = "running" /\ pc0 = "off"
    /\ commandQueue' = <<"OTHER">>
    /\ pc1' = "begin"
    /\ pc0' = "top"
    /\ UNCHANGED <<loader, controller, statusQueue, core1RebootTimer, watchdog, sleep, locked,
                   orphaned, sent>>

\* A core 1 that is reset keeps nothing but the locks.
ResetCore1 ==
    /\ orphaned' = orphaned \cup locked
    /\ locked' = {}
    /\ pc1' = "begin"
    /\ core1RebootTimer' = NextReboot
    /\ UNCHANGED sent

\* Slip: a turn without an answer of the board does not update the watchdog.
TurnBeginsUnfed ==
    /\ pc0 = "top"
    /\ watchdog' \in {WatchdogTicks, watchdog}
    /\ IF core1RebootTimer = 0 THEN ResetCore1
       ELSE UNCHANGED <<core1Vars, orphaned, core1RebootTimer>>
    /\ IF begun THEN pc0' = "read" /\ sleep' = 1
       ELSE pc0' = "sleep" /\ sleep' = SleepTicks
    /\ UNCHANGED <<loader, controller, statusQueue, commandQueue>>

TurnBegins ==
    /\ pc0 = "top"
    /\ watchdog' = WatchdogTicks
    /\ IF core1RebootTimer = 0 THEN ResetCore1
       ELSE UNCHANGED <<core1Vars, orphaned, core1RebootTimer>>
    /\ IF begun THEN pc0' = "read" /\ sleep' = 1
       ELSE pc0' = "sleep" /\ sleep' = SleepTicks
    /\ UNCHANGED <<loader, controller, statusQueue, commandQueue>>

\* The answer of the board, or its timeout; before BEGIN, the end of the sleep.
\* In stage 2 a packet looks at heatupStage2Timer (handleRunningStateAutomations), and
\* value() of an empty one throws; core 0 does not look when bailed, and the end of a
\* bail ends the stage as well.
WaitOver ==
    /\ pc0 \in {"read", "sleep"} /\ sleep = 0
    /\ \/ /\ pc0' = IF pc0 = "read" THEN "commands" ELSE "firstCommands"
          /\ timerLost' \in {timerLost, FALSE}
       \/ /\ pc0 = "read" /\ timerLost
          /\ pc0' = "panicked" /\ UNCHANGED timerLost
    /\ UNCHANGED <<loader, core1Vars, begun, statusQueue, commandQueue, core1RebootTimer,
                   watchdog, sleep, orphaned>>

\* Sleep mode empties the timer in stage 2 (onSleepModeEntered), UNBAIL ends the stage.
HandleCommand ==
    /\ pc0 \in {"commands", "firstCommands"}
    /\ Free("commandQueue") /\ commandQueue # <<>>
    /\ commandQueue' = Tail(commandQueue)
    /\ begun' = (begun \/ Head(commandQueue) = "BEGIN")
    /\ timerLost' \in IF begun /\ Head(commandQueue) = "OTHER" THEN BOOLEAN ELSE {timerLost}
    /\ UNCHANGED <<loader, core1Vars, pc0, statusQueue, core1RebootTimer, watchdog, sleep,
                   orphaned>>

CommandsHandled ==
    /\ pc0 \in {"commands", "firstCommands"}
    /\ Free("commandQueue") /\ commandQueue = <<>>
    /\ pc0' = IF pc0 = "commands" THEN "status" ELSE "isFull"
    /\ UNCHANGED <<loader, core1Vars, controller, statusQueue, commandQueue, core1RebootTimer,
                   watchdog, sleep, orphaned>>

SendStatus ==
    /\ pc0 = "status" /\ Free("statusQueue")
    /\ statusQueue' = IF statusQueue < StatusCapacity THEN statusQueue + 1 ELSE statusQueue
    /\ pc0' = "isFull"
    /\ UNCHANGED <<loader, core1Vars, controller, commandQueue, core1RebootTimer, watchdog, sleep,
                   orphaned>>

\* Slip: off by one.
StatusQueueOverfull == statusQueue > StatusCapacity

StatusQueueFull == statusQueue = StatusCapacity

LookAtStatusQueue ==
    /\ pc0 = "isFull" /\ Free("statusQueue")
    /\ core1RebootTimer' = IF StatusQueueFull /\ core1RebootTimer = NotSet THEN FirstReboot
                           ELSE core1RebootTimer
    /\ pc0' = "top"
    /\ UNCHANGED <<loader, core1Vars, controller, statusQueue, commandQueue, watchdog, sleep,
                   orphaned>>

Core0 ==
    \/ Setup \/ TurnBegins \/ WaitOver \/ HandleCommand \/ CommandsHandled \/ SendStatus
    \/ LookAtStatusQueue

-----------------------------------------------------------------------------
(* Core 1.  An operation on a queue takes the lock in one step and does    *)
(* its work and releases the lock in the next.                             *)

Lock(q) ==
    /\ Free(q) /\ locked' = {q}
    /\ UNCHANGED <<loader, core0Vars, pc1, statusQueue, commandQueue, orphaned, sent>>

LockCommands == pc1 \in {"begin", "send"} /\ locked = {} /\ Lock("commandQueue")
LockStatuses == pc1 = "drain" /\ locked = {} /\ Lock("statusQueue")

\* Slip: off by one.
NoRoomLeft == Len(commandQueue) > CommandCapacity

NoRoom == Len(commandQueue) = CommandCapacity
Add(command) == ~NoRoom /\ commandQueue' = Append(commandQueue, command)

\* Slip: the thermocouples first, which may never answer.
SendBeginLate ==
    /\ pc1 = "begin" /\ locked = {"commandQueue"}
    /\ \/ Add("BEGIN") /\ pc1' = "init"
       \/ UNCHANGED commandQueue /\ pc1' = "stuck"
    /\ locked' = {}
    /\ UNCHANGED <<loader, core0Vars, statusQueue, orphaned, sent>>

\* tryAdd of COMMAND_BEGIN.
SendBegin ==
    /\ pc1 = "begin" /\ locked = {"commandQueue"}
    /\ Add("BEGIN") \/ (NoRoom /\ UNCHANGED commandQueue)
    /\ locked' = {} /\ pc1' = "init"
    /\ UNCHANGED <<loader, core0Vars, statusQueue, orphaned, sent>>

\* The thermocouples, the SD card.
Initialized ==
    /\ pc1 = "init"
    /\ pc1' = "drain"
    /\ UNCHANGED <<loader, core0Vars, locked, sent, statusQueue, commandQueue, orphaned>>

TakeStatus ==
    /\ pc1 = "drain" /\ locked = {"statusQueue"}
    /\ IF statusQueue = 0 THEN pc1' = "work" /\ UNCHANGED statusQueue
       ELSE statusQueue' = statusQueue - 1 /\ UNCHANGED pc1
    /\ locked' = {}
    /\ UNCHANGED <<loader, core0Vars, commandQueue, orphaned, sent>>

\* The ESP32, the automations, the settings: a command is sent or not.
Work ==
    /\ pc1 = "work"
    /\ \/ pc1' = "drain" /\ UNCHANGED sent
       \/ pc1' = "send" /\ sent < CommandsPerTick /\ sent' = sent + 1
    /\ UNCHANGED <<loader, core0Vars, locked, statusQueue, commandQueue, orphaned>>

\* With no room, tryAdd drops the command and addBlocking releases the lock and
\* tries again when something was removed.
SendCommand ==
    /\ pc1 = "send" /\ locked = {"commandQueue"}
    /\ \/ Add("OTHER") /\ pc1' = "drain"
       \/ NoRoom /\ UNCHANGED commandQueue /\ pc1' \in {"drain", "wait"}
    /\ locked' = {}
    /\ UNCHANGED <<loader, core0Vars, statusQueue, orphaned, sent>>

RoomAgain ==
    /\ pc1 = "wait" /\ ~NoRoom
    /\ pc1' = "send"
    /\ UNCHANGED <<loader, core0Vars, locked, statusQueue, commandQueue, orphaned, sent>>

Core1 ==
    \/ LockCommands \/ LockStatuses \/ SendBegin \/ Initialized
    \/ TakeStatus \/ Work \/ SendCommand \/ RoomAgain

\* An I2C transfer that does not end, or a panic.
GetStuck ==
    /\ pc1 \in {"init", "work"}
    /\ pc1' = "stuck"
    /\ UNCHANGED <<loader, core0Vars, locked, sent, statusQueue, commandQueue, orphaned>>

-----------------------------------------------------------------------------
(* Time and resets.                                                        *)

Elapsed(timer) == IF timer \in {0, NotSet} THEN timer ELSE timer - 1

\* What is no wait takes no time: for a queue, core 0 waits for the lock only.
Core0Waits ==
    \/ pc0 \in {"read", "sleep"} /\ sleep > 0
    \/ pc0 = "panicked"
    \/ pc0 \in {"commands", "firstCommands"} /\ ~Free("commandQueue")
    \/ pc0 \in {"status", "isFull"} /\ ~Free("statusQueue")

Core1Waits ==
    \/ pc1 \in {"init", "work", "stuck"} \/ (pc1 = "wait" /\ NoRoom)
    \/ pc1 \in {"begin", "send"} /\ "commandQueue" \in orphaned
    \/ pc1 = "drain" /\ "statusQueue" \in orphaned

Tick ==
    /\ stage = "running" /\ pc0 # "off"
    /\ Core0Waits /\ Core1Waits
    /\ watchdog > 0
    /\ watchdog' = watchdog - 1
    /\ core1RebootTimer' = Elapsed(core1RebootTimer)
    /\ sleep' = IF sleep > 0 THEN sleep - 1 ELSE 0
    /\ sent' = 0
    /\ UNCHANGED <<loader, pc0, pc1, controller, statusQueue, commandQueue, locked,
                   orphaned>>

\* Slip: the watchdog is not enabled.
NoWatchdogReset == FALSE /\ UNCHANGED vars

WatchdogReset ==
    /\ stage = "running" /\ pc0 # "off" /\ watchdog = 0
    /\ stage' = "reset"
    /\ UNCHANGED <<flash, toErase, sealing, scratch, armed>>
    /\ AppStops

Load == (Host \/ BootHeld \/ Chip) /\ UNCHANGED app
Interruption == (LosePower \/ PressReset) /\ AppStops

Next == Core0 \/ Core1 \/ GetStuck \/ Tick \/ WatchdogReset \/ Load \/ Interruption

Spec == Init /\ [][Next]_vars

\* Both cores go on; one that spins for a lock gets it sooner or later, since the
\* other holds it for some instructions only.  Time passes, and the chip does by
\* itself what it does.
FairSpec ==
    /\ Spec
    /\ SF_vars(Core0) /\ WF_vars(Core1) /\ SF_vars(Tick) /\ WF_vars(WatchdogReset)
    /\ WF_vars(Chip /\ UNCHANGED app)

-----------------------------------------------------------------------------
(* Properties.                                                             *)

\* Types; the queues keep their size (PicoQueue).
TypeOK ==
    /\ BTypeOK
    /\ pc0 \in {"off", "top", "read", "sleep", "commands", "firstCommands", "status", "isFull",
               "panicked"}
    /\ pc1 \in {"off", "begin", "init", "drain", "work", "send", "wait", "stuck"}
    /\ begun \in BOOLEAN /\ timerLost \in BOOLEAN
    /\ statusQueue \in 0..StatusCapacity
    /\ commandQueue \in Seq({"BEGIN", "OTHER"}) /\ Len(commandQueue) =< CommandCapacity
    /\ core1RebootTimer \in 0..NotSet /\ watchdog \in 0..WatchdogTicks /\ sleep \in 0..SleepTicks
    /\ locked \subseteq Queues /\ orphaned \subseteq Queues
    /\ sent \in 0..CommandsPerTick

\* However core 1 behaves, hangs or fills the command queue as fast as it can be
\* fed, and whatever the board does not answer, core 0 updates the watchdog in time.
\* It fires only because a reset of core 1 left a lock behind (main0), or because
\* core 0 has thrown: sleep mode had emptied the timer of the heat-up.
WatchdogHasCause == [][WatchdogReset => orphaned # {} \/ pc0 = "panicked"]_vars

\* A reset of the watchdog, which nobody attends, never ends in USB boot mode:
\* boot_double_tap_check takes it for no tap of the button.
NoUsbAfterWatchdog == [][WatchdogReset => ~armed]_vars

\* Liveness: core 0 never stands still for ever while the application runs, not
\* even when it waits for a lock nobody will release or has thrown (main0, the
\* watchdog).
TurnsGoOn == []<>(pc0 \in {"off", "top"})

\* Liveness: core 0 leaves NOT_STARTED_YET even when the set-up of core 1 never ends
\* (main1 sends COMMAND_BEGIN first); before that no status fills the queue and
\* nothing would revive core 1.
Begins == [](pc0 = "top" => <>(begun \/ pc0 = "off"))

\* Liveness: a core 1 that hangs, at whatever point, is reset (main0).
Core1Revived == [](pc1 = "stuck" => <>(pc1 # "stuck"))

\* What a host does that knows the state of the flash and wants version v.
UpdateStep(v) ==
    \/ Sync
    \/ (\E i \in 1..Sectors : flash[i] \notin {"blank", v}) /\ Erase(0, Sectors)
    \/ \E i \in 1..Sectors : flash[i] = "blank" /\ Write(i, v)
    \/ flash[0] # v /\ Intact(v) /\ Seal(v)
    \/ flash[0] = v /\ Intact(v) /\ Reboot(FALSE)

\* Liveness: no erasing, writing and sealing of sectors in any order, garbled data,
\* resets and power failures at any point of an update leave the chip where an
\* update cannot bring it back to an application, without a hand on the boot pin.
\* The host that sends GOGO to an image that is not whole is the exception; so are,
\* outside of this model, addresses and lengths beyond the image.
UpdateRecovers ==
    \A v \in Versions :
        /\ <>[][~Interruption /\ ~BootHeld /\ (Host => UpdateStep(v))]_vars
        /\ WF_vars(UpdateStep(v) /\ UNCHANGED app)
        => []<>(stage \in {"running", "usb", "adrift"})

=============================================================================
