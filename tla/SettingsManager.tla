--------------------------- MODULE SettingsManager ---------------------------
(***************************************************************************)
(* Core 1's copy of the settings, the flash page that keeps them and the   *)
(* commands that bring them to core 0 (SettingsManager.cpp and             *)
(* SettingsFlash.cpp of Core1).                                            *)
(*                                                                         *)
(* A setting is the brew temperature target or the sleep mode: every other *)
(* setter assigns and sends in the same way as the target's.  Erasing,     *)
(* programming and reading back are steps of their own, because the chip   *)
(* or core 1 alone may be restarted between them; the first step of an     *)
(* erasure or of a programming already makes the page unreadable.          *)
(***************************************************************************)
EXTENDS Integers, Sequences

CONSTANTS
    Targets,         \* the brew temperature targets a user may choose
    QueueCapacity,   \* capacity of commandQueue; 100 in main()
    FlashPresent,    \* is_present(): the flash chip answers
    MaxRelaunches    \* bound on the resets of core 1 alone

ASSUME SettingsManagerAssumption ==
    /\ Targets \subseteq Int \ {33}
    /\ QueueCapacity \in Nat
    /\ FlashPresent \in BOOLEAN
    /\ MaxRelaunches \in Nat

-----------------------------------------------------------------------------
Settings == [brewTemperatureTarget: Targets \cup {105}, sleepMode: BOOLEAN]

defaultSettings == [brewTemperatureTarget |-> 105, sleepMode |-> FALSE]

\* The initial lastReadSettings.  A user who chose a target of 33 before
\* anything was saved would not have it saved; Targets leaves it out.
NeverRead == [brewTemperatureTarget |-> 33, sleepMode |-> FALSE]

SetTarget(t) == [type |-> "SET_BREW_SET_POINT", float1 |-> t]
SetSleep(b)  == [type |-> "SET_SLEEP_MODE", bool1 |-> b]

Commands == [type: {"SET_BREW_SET_POINT"}, float1: Targets \cup {105}]
              \cup [type: {"SET_SLEEP_MODE"}, bool1: BOOLEAN]

\* Why the chip was restarted, as initialize() tells it: by the watchdog, by
\* power-on, or by anything else at least 20 s before initialize().
Causes == {"watchdog", "power", "late"}

VARIABLES
    pc,                \* "boot", "idle", or where core 1 is in writeToFlash
    cause,             \* of the last restart
    page,              \* <<s>> when the page holds s with its CRC, else <<>>
    currentSettings, lastReadSettings,
    commandQueue,
    applied,           \* the settings of core 0
    relaunches,
    lost, interrupted  \* history since the chip restarted: a command was dropped,
                       \* core 1 was reset while it worked

managerVars == <<currentSettings, lastReadSettings>>
coreVars    == <<commandQueue, applied>>
history     == <<lost, interrupted>>
vars        == <<pc, cause, page, managerVars, coreVars, relaunches, history>>

Init ==
    /\ pc = "boot" /\ cause \in Causes
    /\ page \in {<<>>} \cup {<<s>> : s \in Settings}
    /\ currentSettings = defaultSettings /\ lastReadSettings = NeverRead
    /\ commandQueue = <<>> /\ applied = defaultSettings
    /\ relaunches = 0 /\ lost = FALSE /\ interrupted = FALSE

-----------------------------------------------------------------------------
(* Commands to core 0.                                                     *)

\* Slip: the capacity is not looked at.
FittingAll(cs) == cs

\* sendMessage for each command in turn: what does not fit is dropped.
Fitting(cs) == IF Len(cs) =< QueueCapacity - Len(commandQueue)
                 THEN cs ELSE SubSeq(cs, 1, QueueCapacity - Len(commandQueue))

SendMessages(cs) ==
    /\ commandQueue' = commandQueue \o Fitting(cs)
    /\ lost' = (lost \/ Fitting(cs) # cs)
    /\ UNCHANGED <<applied, interrupted>>

\* Core 0 takes one command (handleCommands).
HandleCommand ==
    /\ commandQueue # <<>>
    /\ LET c == Head(commandQueue)
       IN  applied' = IF c.type = "SET_SLEEP_MODE" THEN [applied EXCEPT !.sleepMode = c.bool1]
                      ELSE [applied EXCEPT !.brewTemperatureTarget = c.float1]
    /\ commandQueue' = Tail(commandQueue)
    /\ UNCHANGED <<pc, cause, page, managerVars, relaunches, history>>

-----------------------------------------------------------------------------
(* Setters.  Core 1 calls them from one loop, never during a write.        *)

SetTargetBrewTemp(t) ==
    /\ pc = "idle"
    /\ currentSettings' = [currentSettings EXCEPT !.brewTemperatureTarget = t]
    /\ SendMessages(<<SetTarget(t)>>)
    /\ UNCHANGED <<pc, cause, page, lastReadSettings, relaunches>>

SetSleepMode(b) ==
    /\ pc = "idle"
    /\ currentSettings' = [currentSettings EXCEPT !.sleepMode = b]
    /\ SendMessages(<<SetSleep(b)>>)
    /\ UNCHANGED <<pc, cause, page, lastReadSettings, relaunches>>

\* Automations::onBrewStarted leaves sleep mode.
LeaveSleepForBrew ==
    /\ currentSettings.sleepMode
    /\ SetSleepMode(FALSE)

-----------------------------------------------------------------------------
(* readSettings and initialize.                                            *)

Readable == FlashPresent /\ page # <<>>
ReadSettings == IF Readable THEN page[1] ELSE defaultSettings
LastRead     == IF Readable THEN page[1] ELSE lastReadSettings

Awakened(s) == [s EXCEPT !.sleepMode = FALSE]

\* Sleep mode survives a restart unless the machine was just switched on.
Restored == IF cause = "power" THEN Awakened(ReadSettings) ELSE ReadSettings

\* sendAllSettings
AllSettings(s) == <<SetTarget(s.brewTemperatureTarget), SetSleep(s.sleepMode)>>

\* Slip: the commands are sent before sleep mode is reset.
InitializeSendingFirst ==
    /\ pc = "boot"
    /\ currentSettings' = Restored
    /\ lastReadSettings' = LastRead
    /\ SendMessages(AllSettings(ReadSettings))
    /\ pc' = "idle"
    /\ UNCHANGED <<cause, page, relaunches>>

\* initialize: read, decide about sleep mode, send all settings.
Initialize ==
    /\ pc = "boot"
    /\ currentSettings' = Restored
    /\ lastReadSettings' = LastRead
    /\ SendMessages(AllSettings(Restored))
    /\ pc' = "idle"
    /\ UNCHANGED <<cause, page, relaunches>>

-----------------------------------------------------------------------------
(* writeSettingsIfChanged: erase, program, read back.                      *)

\* Slips: the page is written whether it changed or not; never after a boot
\* that found no readable page.
EraseAlways ==
    /\ pc = "idle"
    /\ page' = IF FlashPresent THEN <<>> ELSE page
    /\ pc' = "erased"
    /\ UNCHANGED <<cause, managerVars, coreVars, relaunches, history>>
EraseIfRead ==
    /\ pc = "idle"
    /\ currentSettings # lastReadSettings /\ lastReadSettings # NeverRead
    /\ page' = IF FlashPresent THEN <<>> ELSE page
    /\ pc' = "erased"
    /\ UNCHANGED <<cause, managerVars, coreVars, relaunches, history>>

SectorErase ==
    /\ pc = "idle"
    /\ currentSettings # lastReadSettings
    /\ page' = IF FlashPresent THEN <<>> ELSE page
    /\ pc' = "erased"
    /\ UNCHANGED <<cause, managerVars, coreVars, relaunches, history>>

PageProgram ==
    /\ pc = "erased"
    /\ page' = IF FlashPresent THEN <<currentSettings>> ELSE page
    /\ pc' = "programmed"
    /\ UNCHANGED <<cause, managerVars, coreVars, relaunches, history>>

\* The first assignment of readSettings.
ResetSettings ==
    /\ pc = "programmed"
    /\ currentSettings' = defaultSettings
    /\ pc' = "reading"
    /\ UNCHANGED <<cause, page, lastReadSettings, coreVars, relaunches, history>>

ReadBack ==
    /\ pc = "reading"
    /\ currentSettings' = ReadSettings
    /\ lastReadSettings' = LastRead
    /\ pc' = "idle"
    /\ UNCHANGED <<cause, page, coreVars, relaunches, history>>

WriteSettingsIfChanged == SectorErase \/ PageProgram \/ ResetSettings \/ ReadBack

-----------------------------------------------------------------------------
(* Restarts.                                                               *)

\* main0 resets core 1; the settings manager of main() lives on.
RelaunchCore1 ==
    /\ pc # "boot"
    /\ relaunches < MaxRelaunches
    /\ relaunches' = relaunches + 1
    /\ interrupted' = (interrupted \/ pc # "idle")
    /\ pc' = "idle"
    /\ UNCHANGED <<cause, page, managerVars, coreVars, lost>>

\* The same between the two statements of a setter.
RelaunchInSetter(t) ==
    /\ pc = "idle"
    /\ relaunches < MaxRelaunches
    /\ relaunches' = relaunches + 1
    /\ currentSettings' = [currentSettings EXCEPT !.brewTemperatureTarget = t]
    /\ interrupted' = TRUE
    /\ UNCHANGED <<pc, cause, page, lastReadSettings, coreVars, lost>>

\* The whole chip; only the page survives.
Restart(c) ==
    /\ pc # "boot"
    /\ pc' = "boot" /\ cause' = c
    /\ currentSettings' = defaultSettings /\ lastReadSettings' = NeverRead
    /\ commandQueue' = <<>> /\ applied' = defaultSettings
    /\ relaunches' = 0 /\ lost' = FALSE /\ interrupted' = FALSE
    /\ UNCHANGED page

-----------------------------------------------------------------------------
Setter ==
    \/ \E t \in Targets : SetTargetBrewTemp(t)
    \/ \E b \in BOOLEAN : SetSleepMode(b)
    \/ LeaveSleepForBrew

Core1 == Initialize \/ WriteSettingsIfChanged

Next ==
    \/ Core1
    \/ Setter
    \/ HandleCommand
    \/ RelaunchCore1
    \/ \E t \in Targets : RelaunchInSetter(t)
    \/ \E c \in Causes : Restart(c)

Spec == Init /\ [][Next]_vars

\* main1 calls writeSettingsIfChanged every 250 ms, core 0 empties its queue
\* in every cycle.
FairSpec == Spec /\ WF_vars(Core1) /\ WF_vars(HandleCommand)

-----------------------------------------------------------------------------
(* Properties.                                                             *)

\* The types of both copies, the page and the queue.
TypeOK ==
    /\ pc \in {"boot", "idle", "erased", "programmed", "reading"}
    /\ cause \in Causes
    /\ page = <<>> \/ (Len(page) = 1 /\ page[1] \in Settings)
    /\ currentSettings \in Settings /\ applied \in Settings
    /\ lastReadSettings \in Settings \cup {NeverRead}
    /\ commandQueue \in Seq(Commands) /\ Len(commandQueue) =< QueueCapacity
    /\ relaunches \in 0..MaxRelaunches
    /\ lost \in BOOLEAN /\ interrupted \in BOOLEAN

\* Once core 0 has handled its commands both cores have the same settings,
\* after any sequence of setters, writes and restarts in which no command was
\* lost and core 1 was not reset at work.
CoresAgree ==
    pc = "idle" /\ commandQueue = <<>> /\ ~lost /\ ~interrupted
        => applied = currentSettings

\* Writes and restarts are those of the abstract store: a saved choice is never at
\* risk until core 1 alone is reset while it works.  (Then it may be: between
\* programming and reading back the reset leaves an old lastReadSettings, and the
\* good page is erased again.)  Reading back does not change the choice.
Store == INSTANCE SettingsStore WITH
    Choices <- Settings, Default <- defaultSettings,
    up <- pc # "boot",
    chosen <- IF pc = "reading" THEN ReadSettings ELSE currentSettings,
    kept <- ReadSettings,
    sure <- ~interrupted

ImplementsStore == Store!SSpec

\* Liveness: when nobody changes settings or restarts anything any more, the
\* current settings come to be what a restart would bring back, unless core 1 was
\* reset while it worked.
EventuallySaved ==
    <>[][Core1 \/ HandleCommand]_vars /\ <>[]~interrupted
        => <>[](pc = "idle" /\ ReadSettings = currentSettings)

=============================================================================
