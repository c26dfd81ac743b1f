----------------------------- MODULE Automations -----------------------------
(***************************************************************************)
(* The loop of core 1 (main1): take the statuses core 0 has queued, handle *)
(* at most one message of the ESP32, run the automations (auto sleep and   *)
(* the brew routine).  Core 0 is there with what the automations see and   *)
(* cause: it reads the brew switch, handles commands and reports.          *)
(*                                                                         *)
(* Core 1 acts on the last status only.  Its commands take effect when     *)
(* core 0 gets to them.  A tick passes at any time; the timers are ages or *)
(* remaining times in ticks, as far as a comparison tells them apart.      *)
(***************************************************************************)
EXTENDS Integers, Sequences

CONSTANTS
    BrewTime,          \* BREW_TIME_ABSOLUTE that ends step 2; 4 s
    StepTime,          \* STEP_TIME that ends step 3; 10 s
    AutoSleepChoices,  \* what auto sleep may be set to, in ticks; 0 is off
    Messages,          \* what the ESP32 may send
    StatusCapacity, CommandCapacity,   \* of the two queues; 100 in main()
    MaxRelaunches      \* bound on the resets of core 1

-----------------------------------------------------------------------------
FlowModes == {"PUMP_ON_SOLENOID_OPEN", "PUMP_ON_SOLENOID_CLOSED",
              "PUMP_OFF_SOLENOID_OPEN", "PUMP_OFF_SOLENOID_CLOSED"}

\* The system commands of the ESP32 that concern the automations.
EspCommands ==
    [type: {"SET_SLEEP_MODE"}, bool1: BOOLEAN]
      \cup [type: {"SET_AUTO_SLEEP_MINUTES"}, float1: AutoSleepChoices]
      \cup [type: {"SET_FLOW_MODE"}, int1: FlowModes]
      \cup [type: {"ENQUEUE_ROUTINE", "CLEAR_ROUTINE"}]

ASSUME AutomationsAssumption ==
    /\ BrewTime \in Nat \ {0} /\ StepTime \in Nat \ {0}
    /\ 0 \in AutoSleepChoices /\ AutoSleepChoices \subseteq Nat
    /\ Messages \subseteq EspCommands
    /\ StatusCapacity \in Nat \ {0} /\ CommandCapacity \in Nat \ {0}
    /\ MaxRelaunches \in Nat

Statuses == [currentlyBrewing: BOOLEAN, sleepMode: BOOLEAN]
NoStatus == [currentlyBrewing |-> FALSE, sleepMode |-> FALSE]

Flow(mode) == [type |-> "SET_FLOW_MODE", int1 |-> mode]
Sleep(b)   == [type |-> "SET_SLEEP_MODE", bool1 |-> b]

Commands == [type: {"SET_FLOW_MODE"}, int1: FlowModes]
              \cup [type: {"SET_SLEEP_MODE"}, bool1: BOOLEAN]

NotSet == -1

VARIABLES
    pc0, pc1,             \* where the two loops are
    brewSwitch,           \* currentlyBrewing of core 0
    sleeping, flowMode,   \* sleep mode and flow mode of core 0
    core1RebootTimer,     \* the status queue has been full: core 1 may be reset
    relaunches,
    statusQueue, commandQueue,
    sleepMode, autoSleepMin,            \* of the settings manager
    sm,                                 \* the last status core 1 took
    plannedAutoSleepAt,                 \* remaining ticks
    brewStartedAt, currentStepStartedAt,  \* ages
    currentAutomationStep,
    previouslyBrewing, previouslyAsleep, previousAutosleepMinutes,
    overridden,                         \* a flow mode was set by hand since the last entry command
    quiet                               \* ticks since core 1 saw a brew start, a waking by the
                                        \* user or a new auto sleep time

core0Vars   == <<pc0, brewSwitch, sleeping, flowMode, core1RebootTimer>>
managerVars == <<sleepMode, autoSleepMin>>
routineVars == <<currentAutomationStep, currentStepStartedAt, overridden>>
previous    == <<previouslyBrewing, previouslyAsleep, previousAutosleepMinutes>>
vars == <<core0Vars, pc1, relaunches, statusQueue, commandQueue, managerVars, sm,
          plannedAutoSleepAt, brewStartedAt, routineVars, previous, quiet>>

\* The constructor of Automations runs when main1 starts.
Init ==
    /\ pc0 = "read" /\ pc1 = "drain"
    /\ brewSwitch = FALSE /\ sleeping \in BOOLEAN /\ flowMode = "PUMP_ON_SOLENOID_OPEN"
    /\ core1RebootTimer = FALSE /\ relaunches = 0
    /\ statusQueue = <<>> /\ commandQueue = <<>>
    /\ sleepMode = sleeping /\ autoSleepMin \in AutoSleepChoices
    /\ sm = NoStatus
    /\ plannedAutoSleepAt = NotSet /\ brewStartedAt = NotSet
    /\ currentAutomationStep = 0 /\ currentStepStartedAt = NotSet /\ overridden = FALSE
    /\ quiet = 0
    /\ previouslyBrewing = FALSE /\ previouslyAsleep = sleepMode
    /\ previousAutosleepMinutes = autoSleepMin

-----------------------------------------------------------------------------
(* Core 0.                                                                 *)

\* The brew switch of the last packet; FALSE as well while bailed.
Read(b) ==
    /\ pc0 = "read"
    /\ brewSwitch' = b
    /\ pc0' = "commands"
    /\ UNCHANGED <<sleeping, flowMode, core1RebootTimer, pc1, relaunches, statusQueue,
                   commandQueue, managerVars, sm, plannedAutoSleepAt, brewStartedAt,
                   routineVars, previous, quiet>>

HandleCommand ==
    /\ pc0 = "commands"
    /\ commandQueue # <<>>
    /\ LET c == Head(commandQueue)
       IN  \/ c.type = "SET_FLOW_MODE" /\ flowMode' = c.int1 /\ UNCHANGED sleeping
           \/ c.type = "SET_SLEEP_MODE" /\ sleeping' = c.bool1 /\ UNCHANGED flowMode
    /\ commandQueue' = Tail(commandQueue)
    /\ UNCHANGED <<pc0, brewSwitch, core1RebootTimer, pc1, relaunches, statusQueue,
                   managerVars, sm, plannedAutoSleepAt, brewStartedAt, routineVars,
                   previous, quiet>>

\* With no command left, the status; it is dropped when the queue is full.
\* main0 then looks whether the queue is full.
SendStatus ==
    /\ pc0 = "commands"
    /\ commandQueue = <<>>
    /\ statusQueue' = IF Len(statusQueue) = StatusCapacity THEN statusQueue
                      ELSE Append(statusQueue, [currentlyBrewing |-> brewSwitch,
                                                sleepMode |-> sleeping])
    /\ core1RebootTimer' = (core1RebootTimer \/ Len(statusQueue') = StatusCapacity)
    /\ pc0' = "read"
    /\ UNCHANGED <<brewSwitch, sleeping, flowMode, pc1, relaunches, commandQueue, managerVars,
                   sm, plannedAutoSleepAt, brewStartedAt, routineVars, previous, quiet>>

-----------------------------------------------------------------------------
(* Sending commands: addBlocking waits for room, tryAdd drops.             *)

\* Slip: the room is not looked at.
AddAnyway(cs) == commandQueue' = commandQueue \o cs

AddBlocking(cs) ==
    /\ Len(commandQueue) + Len(cs) =< CommandCapacity
    /\ commandQueue' = commandQueue \o cs

TryAdd(cs) ==
    commandQueue' = commandQueue \o
        SubSeq(cs, 1, IF CommandCapacity - Len(commandQueue) < Len(cs)
                        THEN CommandCapacity - Len(commandQueue) ELSE Len(cs))

-----------------------------------------------------------------------------
(* The routine: five steps, set up by the constructor.                     *)

EntryCommands(step) ==
    CASE step \in {2, 4} -> <<Flow("PUMP_ON_SOLENOID_OPEN")>>
      [] step = 3 -> <<Flow("PUMP_OFF_SOLENOID_OPEN")>>
      [] step \in {0, 1} -> <<>>

CurrentBrewTime == IF brewStartedAt = NotSet THEN 0 ELSE brewStartedAt
CurrentStepTime == IF currentStepStartedAt = NotSet THEN 0 ELSE currentStepStartedAt

ExitCondition ==
    \/ currentAutomationStep = 1 /\ sm.currentlyBrewing
    \/ currentAutomationStep = 2 /\ CurrentBrewTime >= BrewTime
    \/ currentAutomationStep = 3 /\ CurrentStepTime >= StepTime

\* Slips: the command is dropped when there is no room; the step timer is not
\* started.
MoveToDropping(step) ==
    /\ TryAdd(EntryCommands(step))
    /\ currentAutomationStep' = step
    /\ currentStepStartedAt' = IF step = 0 THEN NotSet ELSE 0
    /\ overridden' = (overridden /\ EntryCommands(step) = <<>>)
MoveToUntimed(step) ==
    /\ AddBlocking(EntryCommands(step))
    /\ currentAutomationStep' = step
    /\ currentStepStartedAt' = NotSet
    /\ overridden' = (overridden /\ EntryCommands(step) = <<>>)

MoveToAutomationStep(step) ==
    /\ AddBlocking(EntryCommands(step))
    /\ currentAutomationStep' = step
    /\ currentStepStartedAt' = IF step = 0 THEN NotSet ELSE 0
    /\ overridden' = (overridden /\ EntryCommands(step) = <<>>)

-----------------------------------------------------------------------------
(* One turn of the loop of core 1.                                         *)

TakeStatuses ==
    /\ pc1 = "drain"
    /\ sm' = IF statusQueue = <<>> THEN sm ELSE statusQueue[Len(statusQueue)]
    /\ statusQueue' = <<>>
    /\ pc1' = "esp"
    /\ UNCHANGED <<core0Vars, relaunches, commandQueue, managerVars, plannedAutoSleepAt,
                   brewStartedAt, routineVars, previous, quiet>>

\* resetPlannedSleep.  Zero minutes: no auto sleep.
PlannedSleep(minutes) == IF minutes > 0 THEN minutes ELSE NotSet

\* Slip: waking the machine does not plan its sleep anew.
SleepFromEspUnplanned(b) ==
    /\ [type |-> "SET_SLEEP_MODE", bool1 |-> b] \in Messages
    /\ sleepMode' = b
    /\ TryAdd(<<Sleep(b)>>)
    /\ quiet' = IF b THEN quiet ELSE 0
    /\ UNCHANGED <<autoSleepMin, plannedAutoSleepAt, routineVars>>

SleepFromEsp(b) ==
    /\ [type |-> "SET_SLEEP_MODE", bool1 |-> b] \in Messages
    /\ sleepMode' = b
    /\ TryAdd(<<Sleep(b)>>)
    /\ plannedAutoSleepAt' = IF b THEN plannedAutoSleepAt ELSE PlannedSleep(autoSleepMin)
    /\ quiet' = IF b THEN quiet ELSE 0
    /\ UNCHANGED <<autoSleepMin, routineVars>>

\* The command this sends is left out: core 0 does nothing with it, and the room it
\* takes in the queue other commands take as well.
AutoSleepFromEsp(minutes) ==
    /\ [type |-> "SET_AUTO_SLEEP_MINUTES", float1 |-> minutes] \in Messages
    /\ autoSleepMin' = minutes
    /\ UNCHANGED <<commandQueue, sleepMode, plannedAutoSleepAt, routineVars, quiet>>

FlowFromEsp(mode) ==
    /\ [type |-> "SET_FLOW_MODE", int1 |-> mode] \in Messages
    /\ AddBlocking(<<Flow(mode)>>)
    /\ overridden' = TRUE
    /\ UNCHANGED <<managerVars, plannedAutoSleepAt, currentAutomationStep, currentStepStartedAt,
                   quiet>>

EnqueueRoutine ==
    /\ [type |-> "ENQUEUE_ROUTINE"] \in Messages
    /\ MoveToAutomationStep(1)
    /\ UNCHANGED <<managerVars, plannedAutoSleepAt, quiet>>

CancelRoutine ==
    /\ [type |-> "CLEAR_ROUTINE"] \in Messages
    /\ MoveToAutomationStep(0)
    /\ UNCHANGED <<managerVars, plannedAutoSleepAt, quiet>>

NoMessage == UNCHANGED <<commandQueue, managerVars, plannedAutoSleepAt, routineVars, quiet>>

EspLoop(message) ==
    /\ pc1 = "esp"
    /\ pc1' = "edges"
    /\ message
    /\ UNCHANGED <<core0Vars, relaunches, statusQueue, sm, brewStartedAt, previous>>

HandleMessage ==
    \/ \E b \in BOOLEAN : EspLoop(SleepFromEsp(b))
    \/ \E minutes \in AutoSleepChoices : EspLoop(AutoSleepFromEsp(minutes))
    \/ \E mode \in FlowModes : EspLoop(FlowFromEsp(mode))
    \/ EspLoop(EnqueueRoutine)
    \/ EspLoop(CancelRoutine)

-----------------------------------------------------------------------------
(* Automations::loop up to handleCurrentAutomationStep.                    *)

AutoSleepDue == plannedAutoSleepAt = 0 /\ ~sleepMode
BrewStarted  == sm.currentlyBrewing /\ ~previouslyBrewing
BrewEnded    == previouslyBrewing /\ ~sm.currentlyBrewing

\* What onBrewStarted leaves.
WakeForBrew == BrewStarted /\ (sleepMode \/ AutoSleepDue)

SleepCommands ==
    (IF AutoSleepDue THEN <<Sleep(TRUE)>> ELSE <<>>)
      \o (IF WakeForBrew THEN <<Sleep(FALSE)>> ELSE <<>>)

\* Slip: the first plan is not made.
ReplanAfterStart ==
    \/ BrewStarted
    \/ ~sm.sleepMode /\ previouslyAsleep
    \/ previousAutosleepMinutes # autoSleepMin
Replan ==
    \/ plannedAutoSleepAt = NotSet
    \/ BrewStarted
    \/ ~sm.sleepMode /\ previouslyAsleep
    \/ previousAutosleepMinutes # autoSleepMin

\* Slip: onBrewEnded leaves the routine alone.
BrewEdgesOnly ==
    /\ brewStartedAt' = (CASE BrewStarted -> 0 [] BrewEnded -> NotSet [] OTHER -> brewStartedAt)
    /\ UNCHANGED routineVars

\* onBrewStarted and onBrewEnded; step 0 has no entry commands.
BrewEdges ==
    /\ brewStartedAt' = (CASE BrewStarted -> 0 [] BrewEnded -> NotSet [] OTHER -> brewStartedAt)
    /\ IF BrewEnded /\ currentAutomationStep > 0
         THEN /\ currentAutomationStep' = 0
              /\ currentStepStartedAt' = NotSet
              /\ UNCHANGED overridden
         ELSE UNCHANGED routineVars

Edges ==
    /\ pc1 = "edges"
    /\ TryAdd(SleepCommands)
    /\ sleepMode' = IF WakeForBrew THEN FALSE ELSE (sleepMode \/ AutoSleepDue)
    /\ plannedAutoSleepAt' = IF Replan THEN PlannedSleep(autoSleepMin) ELSE plannedAutoSleepAt
    /\ BrewEdges
    /\ previouslyBrewing' = sm.currentlyBrewing
    /\ previouslyAsleep' = sm.sleepMode
    /\ previousAutosleepMinutes' = autoSleepMin
    /\ quiet' = IF BrewStarted \/ previousAutosleepMinutes # autoSleepMin THEN 0 ELSE quiet
    /\ pc1' = "steps"
    /\ UNCHANGED <<core0Vars, relaunches, statusQueue, autoSleepMin, sm>>

\* handleCurrentAutomationStep: the condition of a step leads to the one after it.
HandleCurrentAutomationStep ==
    /\ pc1 = "steps"
    /\ IF ExitCondition THEN MoveToAutomationStep(currentAutomationStep + 1)
       ELSE UNCHANGED <<commandQueue, routineVars>>
    /\ pc1' = "drain"
    /\ UNCHANGED <<core0Vars, relaunches, statusQueue, managerVars, sm,
                   plannedAutoSleepAt, brewStartedAt, previous, quiet>>

-----------------------------------------------------------------------------
(* main0 resets core 1, wherever it is: main1 makes new automations.  The  *)
(* settings and both queues stay.                                          *)

RelaunchCore1 ==
    /\ core1RebootTimer
    /\ relaunches < MaxRelaunches
    /\ relaunches' = relaunches + 1
    /\ pc1' = "drain"
    /\ sm' = NoStatus
    /\ plannedAutoSleepAt' = NotSet /\ brewStartedAt' = NotSet
    /\ currentAutomationStep' = 0 /\ currentStepStartedAt' = NotSet
    /\ previouslyBrewing' = FALSE /\ previouslyAsleep' = sleepMode
    /\ previousAutosleepMinutes' = autoSleepMin
    /\ UNCHANGED <<core0Vars, statusQueue, commandQueue, managerVars, overridden, quiet>>

Older(age, limit) == IF age = NotSet \/ age >= limit THEN age ELSE age + 1

Tick ==
    /\ plannedAutoSleepAt' = IF plannedAutoSleepAt > 0 THEN plannedAutoSleepAt - 1
                             ELSE plannedAutoSleepAt
    /\ brewStartedAt' = Older(brewStartedAt, BrewTime)
    /\ currentStepStartedAt' = Older(currentStepStartedAt, StepTime)
    /\ \E longest \in AutoSleepChoices :
          /\ \A minutes \in AutoSleepChoices : minutes =< longest
          /\ quiet' = Older(quiet, longest)
    /\ UNCHANGED <<core0Vars, pc1, relaunches, statusQueue, commandQueue, managerVars,
                   sm, currentAutomationStep, overridden, previous>>

Core0 == (\E b \in BOOLEAN : Read(b)) \/ HandleCommand \/ SendStatus
Core1 == TakeStatuses \/ HandleMessage \/ EspLoop(NoMessage) \/ Edges \/ HandleCurrentAutomationStep

Next == Core0 \/ Core1 \/ RelaunchCore1 \/ Tick

Spec == Init /\ [][Next]_vars

\* Both loops go on and time passes.
FairSpec == Spec /\ WF_vars(Core0) /\ WF_vars(Core1) /\ WF_vars(Tick)

-----------------------------------------------------------------------------
(* Properties.                                                             *)

\* Types; both queues keep their capacity.
TypeOK ==
    /\ pc0 \in {"read", "commands"} /\ pc1 \in {"drain", "esp", "edges", "steps"}
    /\ {brewSwitch, sleeping, sleepMode, core1RebootTimer, overridden} \subseteq BOOLEAN
    /\ flowMode \in FlowModes
    /\ relaunches \in 0..MaxRelaunches
    /\ statusQueue \in Seq(Statuses) /\ Len(statusQueue) =< StatusCapacity
    /\ commandQueue \in Seq(Commands) /\ Len(commandQueue) =< CommandCapacity
    /\ {autoSleepMin, previousAutosleepMinutes} \subseteq AutoSleepChoices
    /\ sm \in Statuses
    /\ plannedAutoSleepAt \in AutoSleepChoices \cup Nat \cup {NotSet}
    /\ brewStartedAt \in 0..BrewTime \cup {NotSet}
    /\ currentStepStartedAt \in 0..StepTime \cup {NotSet}
    /\ currentAutomationStep \in 0..4
    /\ previouslyBrewing \in BOOLEAN /\ previouslyAsleep \in BOOLEAN
    /\ quiet \in Nat

\* A routine is past its waiting step only during a brew that core 1 has seen
\* start, whose clock runs: otherwise step 2 would wait for ever.
RoutineOnlyWhileBrewing ==
    currentAutomationStep \in 2..4 => previouslyBrewing /\ brewStartedAt # NotSet

\* Once core 0 has handled the flow commands, the flow mode of a brew is the one
\* of the routine's step, unless the user has set another since.
FlowFollowsStep ==
    /\ currentAutomationStep \in 2..4 /\ ~overridden
    /\ \A i \in DOMAIN commandQueue : commandQueue[i].type # "SET_FLOW_MODE"
    => flowMode = EntryCommands(currentAutomationStep)[1].int1

\* The machine goes to sleep by itself only when the auto sleep time in force
\* has passed since a brew started, a user woke the machine or set the time.
AutoSleepIsEarned ==
    [][ pc1 = "edges" /\ ~sleepMode /\ sleepMode' => quiet >= previousAutosleepMinutes ]_vars

\* From some time on no message arrives, the brew switch is left alone and core 1
\* is not reset.  (With messages for ever core 0 might never find its queue empty.)
LeftAlone ==
    \/ Read(brewSwitch) \/ HandleCommand \/ SendStatus
    \/ TakeStatuses \/ EspLoop(NoMessage) \/ Edges \/ HandleCurrentAutomationStep
    \/ Tick
\* Liveness: when brewing stops for good, the routine ends or waits for a brew.
RoutineEnds ==
    <>[][LeftAlone]_vars /\ <>[](~brewSwitch) => <>[](currentAutomationStep \in {0, 1})

\* Liveness: a routine that is not stopped reaches its last step.
RoutineCompletes == <>[](currentAutomationStep \in 2..4) => <>[](currentAutomationStep = 4)

\* Liveness: left alone, a machine with auto sleep set goes to sleep (as core 1
\* knows it: the command may have been dropped).
AutoSleepHappens == <>[][LeftAlone]_vars /\ <>[](autoSleepMin > 0) => <>[]sleepMode

=============================================================================
