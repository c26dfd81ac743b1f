-------------------------- MODULE AutomationsProofs --------------------------
(***************************************************************************)
(* For every choice of the constants: a routine runs during a brew only    *)
(* and sets the flow mode of its step, no automatic sleep comes early, and *)
(* the queues keep their capacities.                                       *)
(***************************************************************************)
EXTENDS Automations, SequenceTheorems, TLAPS

\* Routines and brews: the clock of a brew that core 1 has seen runs, and when the
\* routine is looked at, the last status has just been taken over.

BrewClock ==
    /\ brewStartedAt \in Nat \cup {NotSet}
    /\ previouslyBrewing => brewStartedAt # NotSet

StatusTakenOver == pc1 = "steps" => (previouslyBrewing <=> sm.currentlyBrewing)

RoutineInv == BrewClock /\ StatusTakenOver /\ RoutineOnlyWhileBrewing

LEMMA InitRoutineInv == Init => RoutineInv
BY DEF Init, RoutineInv, BrewClock, StatusTakenOver, RoutineOnlyWhileBrewing, NotSet

\* The clock only advances, and stays within the naturals.
LEMMA OlderAge ==
    ASSUME NEW age \in Nat \cup {NotSet}, NEW limit \in Nat
    PROVE  /\ Older(age, limit) \in Nat \cup {NotSet}
           /\ age # NotSet => Older(age, limit) # NotSet
BY DEF Older, NotSet

\* Core 0 touches nothing of the routine.
LEMMA Core0RoutineInv ==
    ASSUME RoutineInv, Core0
    PROVE  RoutineInv'
BY DEF Core0, Read, HandleCommand, SendStatus, routineVars, previous, RoutineInv,
       BrewClock, StatusTakenOver, RoutineOnlyWhileBrewing

\* A message of the ESP32 puts a routine to step 0 or 1, or leaves it.
LEMMA EspRoutineInv ==
    ASSUME RoutineInv, HandleMessage \/ EspLoop(NoMessage)
    PROVE  RoutineInv'
<1> SUFFICES /\ pc1' # "steps"
             /\ UNCHANGED <<brewStartedAt, previouslyBrewing>>
             /\ currentAutomationStep' \in {0, 1, currentAutomationStep}
  BY DEF RoutineInv, BrewClock, StatusTakenOver, RoutineOnlyWhileBrewing
<1>1. pc1' # "steps" /\ UNCHANGED <<brewStartedAt, previouslyBrewing>>
  BY DEF HandleMessage, EspLoop, previous
<1>2. currentAutomationStep' \in {0, 1, currentAutomationStep}
  BY DEF HandleMessage, EspLoop, NoMessage, SleepFromEsp, AutoSleepFromEsp, FlowFromEsp,
         EnqueueRoutine, CancelRoutine, MoveToAutomationStep, routineVars
<1>3. QED
  BY <1>1, <1>2

\* The edges start the clock with the brew, and end the routine with it.
LEMMA EdgesRoutineInv ==
    ASSUME RoutineInv, Edges
    PROVE  RoutineInv'
<1>1. BrewClock'
  BY DEF Edges, BrewEdges, BrewStarted, BrewEnded, RoutineInv, BrewClock, NotSet
<1>2. StatusTakenOver'
  BY DEF Edges, StatusTakenOver
<1>3. RoutineOnlyWhileBrewing'
  <2>1. CASE BrewEnded
    BY <2>1, <1>1 DEF Edges, BrewEdges, BrewEnded, routineVars, RoutineInv,
                      RoutineOnlyWhileBrewing
  <2>2. CASE ~BrewEnded
    BY <2>2, <1>1 DEF Edges, BrewEdges, BrewEnded, routineVars, RoutineInv, BrewClock,
                      RoutineOnlyWhileBrewing
  <2>3. QED
    BY <2>1, <2>2
<1>4. QED
  BY <1>1, <1>2, <1>3 DEF RoutineInv

LEMMA StepRoutineInv ==
    ASSUME RoutineInv, HandleCurrentAutomationStep
    PROVE  RoutineInv'
<1>1. BrewClock' /\ StatusTakenOver'
  BY DEF HandleCurrentAutomationStep, previous, RoutineInv, BrewClock, StatusTakenOver
<1>2. CASE ExitCondition
  <2>1. currentAutomationStep' = currentAutomationStep + 1
    BY <1>2 DEF HandleCurrentAutomationStep, MoveToAutomationStep
  <2>2. previouslyBrewing
    BY <1>2 DEF ExitCondition, HandleCurrentAutomationStep, RoutineInv, StatusTakenOver,
                RoutineOnlyWhileBrewing
  <2>3. previouslyBrewing' /\ brewStartedAt' # NotSet
    BY <2>2, <1>1 DEF HandleCurrentAutomationStep, previous, BrewClock
  <2>4. QED
    BY <2>3, <1>1 DEF RoutineInv, RoutineOnlyWhileBrewing
<1>3. CASE ~ExitCondition
  BY <1>3, <1>1 DEF HandleCurrentAutomationStep, routineVars, previous, RoutineInv,
                    RoutineOnlyWhileBrewing
<1>4. QED
  BY <1>2, <1>3

LEMMA NextRoutineInv ==
    ASSUME RoutineInv, [Next]_vars
    PROVE  RoutineInv'
<1>1. CASE Core0
  BY <1>1, Core0RoutineInv
<1>2. CASE TakeStatuses
  BY <1>2 DEF TakeStatuses, routineVars, previous, RoutineInv, BrewClock, StatusTakenOver,
              RoutineOnlyWhileBrewing
<1>3. CASE HandleMessage \/ EspLoop(NoMessage)
  BY <1>3, EspRoutineInv
<1>4. CASE Edges
  BY <1>4, EdgesRoutineInv
<1>5. CASE HandleCurrentAutomationStep
  BY <1>5, StepRoutineInv
<1>6. CASE RelaunchCore1
  BY <1>6 DEF RelaunchCore1, RoutineInv, BrewClock, StatusTakenOver, RoutineOnlyWhileBrewing
<1>7. CASE Tick
  <2>1. BrewTime \in Nat
    BY AutomationsAssumption
  <2>2. BrewClock'
    BY <1>7, <2>1, OlderAge DEF Tick, previous, RoutineInv, BrewClock
  <2>3. StatusTakenOver'
    BY <1>7 DEF Tick, previous, RoutineInv, StatusTakenOver
  <2>4. RoutineOnlyWhileBrewing'
    BY <1>7, <2>2 DEF Tick, previous, RoutineInv, BrewClock, RoutineOnlyWhileBrewing
  <2>5. QED
    BY <2>2, <2>3, <2>4 DEF RoutineInv
<1>8. CASE UNCHANGED vars
  BY <1>8 DEF vars, routineVars, previous, RoutineInv, BrewClock,
              StatusTakenOver, RoutineOnlyWhileBrewing
<1>9. QED
  BY <1>1, <1>2, <1>3, <1>4, <1>5, <1>6, <1>7, <1>8 DEF Next, Core1

\* A routine past its waiting step belongs to a brew that core 1 has seen start
\* and whose clock runs, resets of core 1 included.
THEOREM RoutineBelongsToBrew == Spec => []RoutineOnlyWhileBrewing
<1>1. RoutineInv => RoutineOnlyWhileBrewing
  BY DEF RoutineInv
<1>2. QED
  BY <1>1, InitRoutineInv, NextRoutineInv, PTL DEF Spec
-----------------------------------------------------------------------------
(* Types, with the bounds of both queues.                                  *)

\* Both ways of sending keep the command queue within its capacity.
LEMMA Sending ==
    ASSUME commandQueue \in Seq(Commands), Len(commandQueue) =< CommandCapacity,
           NEW cs \in Seq(Commands), AddBlocking(cs) \/ TryAdd(cs)
    PROVE  commandQueue' \in Seq(Commands) /\ Len(commandQueue') =< CommandCapacity
<1>1. CASE AddBlocking(cs)
  BY <1>1, AutomationsAssumption DEF AddBlocking
<1>2. CASE TryAdd(cs)
  <2> DEFINE room == IF CommandCapacity - Len(commandQueue) < Len(cs)
                       THEN CommandCapacity - Len(commandQueue) ELSE Len(cs)
  <2>1. room \in Nat /\ room =< Len(cs) /\ room =< CommandCapacity - Len(commandQueue)
    BY AutomationsAssumption
  <2>2. SubSeq(cs, 1, room) \in Seq(Commands) /\ Len(SubSeq(cs, 1, room)) = room
    BY <2>1, SubSeqProperties
  <2>3. commandQueue' = commandQueue \o SubSeq(cs, 1, room)
    BY <1>2 DEF TryAdd
  <2>4. QED
    BY <2>1, <2>2, <2>3, AutomationsAssumption
<1>3. QED
  BY <1>1, <1>2

LEMMA MessagesTyped ==
    /\ <<>> \in Seq(Commands)
    /\ \A mode \in FlowModes : <<Flow(mode)>> \in Seq(Commands)
    /\ \A b \in BOOLEAN : <<Sleep(b)>> \in Seq(Commands)
    /\ \A step \in 0..4 : EntryCommands(step) \in Seq(Commands)
<1>1. \A mode \in FlowModes : Flow(mode) \in Commands
  BY DEF Flow, Commands
<1>2. \A b \in BOOLEAN : Sleep(b) \in Commands
  BY DEF Sleep, Commands
<1>3. \A c \in Commands : <<c>> \in Seq(Commands)
  OBVIOUS
<1>4. <<>> \in Seq(Commands)
  OBVIOUS
<1>5. \A mode \in FlowModes : <<Flow(mode)>> \in Seq(Commands)
  BY <1>1, <1>3
<1>6. ASSUME NEW step \in 0..4
      PROVE  EntryCommands(step) \in Seq(Commands)
  <2>1. "PUMP_ON_SOLENOID_OPEN" \in FlowModes /\ "PUMP_OFF_SOLENOID_OPEN" \in FlowModes
    BY DEF FlowModes
  <2>2. EntryCommands(step) \in {<<>>, <<Flow("PUMP_ON_SOLENOID_OPEN")>>,
                                <<Flow("PUMP_OFF_SOLENOID_OPEN")>>}
    BY DEF EntryCommands
  <2>3. QED
    BY <1>4, <1>5, <2>1, <2>2
<1>7. \A b \in BOOLEAN : <<Sleep(b)>> \in Seq(Commands)
  BY <1>2, <1>3
<1>8. QED
  BY <1>4, <1>5, <1>6, <1>7

LEMMA SleepCommandsTyped == SleepCommands \in Seq(Commands)
<1>1. (IF AutoSleepDue THEN <<Sleep(TRUE)>> ELSE <<>>) \in Seq(Commands)
  BY MessagesTyped
<1>2. (IF WakeForBrew THEN <<Sleep(FALSE)>> ELSE <<>>) \in Seq(Commands)
  BY MessagesTyped
<1>3. QED
  BY <1>1, <1>2, ConcatProperties DEF SleepCommands

LEMMA InitTyped == Init => TypeOK
<1> SUFFICES ASSUME Init PROVE TypeOK
  OBVIOUS
<1>1. <<>> \in Seq(Statuses) /\ <<>> \in Seq(Commands)
  OBVIOUS
<1>2. sm \in Statuses
  BY DEF Init, NoStatus, Statuses
<1>3. /\ pc0 \in {"read", "commands"} /\ pc1 \in {"drain", "esp", "edges", "steps"}
      /\ {brewSwitch, sleeping, sleepMode, core1RebootTimer, overridden} \subseteq BOOLEAN
      /\ flowMode \in FlowModes
      /\ previouslyBrewing \in BOOLEAN /\ previouslyAsleep \in BOOLEAN
      /\ {autoSleepMin, previousAutosleepMinutes} \subseteq AutoSleepChoices
  BY DEF Init, FlowModes
<1>4. /\ statusQueue \in Seq(Statuses) /\ Len(statusQueue) =< StatusCapacity
      /\ commandQueue \in Seq(Commands) /\ Len(commandQueue) =< CommandCapacity
  BY <1>1, AutomationsAssumption DEF Init
<1>5. /\ relaunches \in 0..MaxRelaunches
      /\ plannedAutoSleepAt = NotSet /\ brewStartedAt = NotSet /\ currentStepStartedAt = NotSet
      /\ currentAutomationStep \in 0..4 /\ quiet \in Nat
  BY AutomationsAssumption DEF Init
<1>6. QED
  BY <1>2, <1>3, <1>4, <1>5 DEF TypeOK

LEMMA Core0Typed ==
    ASSUME TypeOK, Core0
    PROVE  TypeOK'
<1>1. ASSUME NEW b \in BOOLEAN, Read(b)
      PROVE  TypeOK'
  BY <1>1 DEF Read, TypeOK, managerVars, routineVars, previous
<1>2. CASE HandleCommand
  <2>1. Head(commandQueue) \in Commands /\ commandQueue' \in Seq(Commands)
        /\ Len(commandQueue') =< CommandCapacity
    BY <1>2, AutomationsAssumption DEF HandleCommand, TypeOK
  <2>2. flowMode' \in FlowModes /\ sleeping' \in BOOLEAN
    BY <1>2, <2>1 DEF HandleCommand, Commands, TypeOK
  <2>3. QED
    BY <1>2, <2>1, <2>2 DEF HandleCommand, TypeOK, managerVars, routineVars, previous
<1>3. CASE SendStatus
  <2>1. [currentlyBrewing |-> brewSwitch, sleepMode |-> sleeping] \in Statuses
    BY DEF TypeOK, Statuses
  <2>2. statusQueue' \in Seq(Statuses) /\ Len(statusQueue') =< StatusCapacity
    BY <1>3, <2>1, AutomationsAssumption DEF SendStatus, TypeOK
  <2>3. core1RebootTimer' \in BOOLEAN
    BY <1>3 DEF SendStatus, TypeOK
  <2>4. QED
    BY <1>3, <2>2, <2>3 DEF SendStatus, TypeOK, managerVars, routineVars, previous
<1>4. QED
  BY <1>1, <1>2, <1>3 DEF Core0

LEMMA MoveTyped ==
    ASSUME TypeOK, NEW step \in 0..4, MoveToAutomationStep(step)
    PROVE  /\ commandQueue' \in Seq(Commands) /\ Len(commandQueue') =< CommandCapacity
           /\ currentAutomationStep' \in 0..4
           /\ currentStepStartedAt' \in 0..StepTime \cup {NotSet}
           /\ overridden' \in BOOLEAN
<1>1. EntryCommands(step) \in Seq(Commands)
  BY MessagesTyped
<1>2. commandQueue' \in Seq(Commands) /\ Len(commandQueue') =< CommandCapacity
  BY <1>1, Sending DEF MoveToAutomationStep, TypeOK
<1>3. QED
  BY <1>2, AutomationsAssumption DEF MoveToAutomationStep, TypeOK

\* What a message of the ESP32, or none, does to the variables it may change.
LEMMA MessageTyped ==
    ASSUME TypeOK, HandleMessage \/ EspLoop(NoMessage)
    PROVE  /\ commandQueue' \in Seq(Commands) /\ Len(commandQueue') =< CommandCapacity
           /\ sleepMode' \in BOOLEAN /\ autoSleepMin' \in AutoSleepChoices
           /\ plannedAutoSleepAt' \in Nat \cup {NotSet}
           /\ currentAutomationStep' \in 0..4
           /\ currentStepStartedAt' \in 0..StepTime \cup {NotSet}
           /\ overridden' \in BOOLEAN
           /\ quiet' \in Nat
<1> USE AutomationsAssumption
<1> DEFINE Handled ==
      /\ commandQueue' \in Seq(Commands) /\ Len(commandQueue') =< CommandCapacity
      /\ sleepMode' \in BOOLEAN /\ autoSleepMin' \in AutoSleepChoices
      /\ plannedAutoSleepAt' \in Nat \cup {NotSet}
      /\ currentAutomationStep' \in 0..4
      /\ currentStepStartedAt' \in 0..StepTime \cup {NotSet}
      /\ overridden' \in BOOLEAN
      /\ quiet' \in Nat
<1>1. ASSUME NEW b \in BOOLEAN, SleepFromEsp(b)
      PROVE  /\ commandQueue' \in Seq(Commands) /\ Len(commandQueue') =< CommandCapacity
             /\ sleepMode' \in BOOLEAN
             /\ plannedAutoSleepAt' \in Nat \cup {NotSet} /\ quiet' \in Nat
  <2>1. commandQueue' \in Seq(Commands) /\ Len(commandQueue') =< CommandCapacity
    BY <1>1, Sending, MessagesTyped DEF SleepFromEsp, TypeOK
  <2>2. QED
    BY <1>1, <2>1 DEF SleepFromEsp, PlannedSleep, TypeOK
<1>2. ASSUME NEW mode \in FlowModes, FlowFromEsp(mode)
      PROVE  commandQueue' \in Seq(Commands) /\ Len(commandQueue') =< CommandCapacity
  BY <1>2, Sending, MessagesTyped DEF FlowFromEsp, TypeOK
<1>3. ASSUME NEW b \in BOOLEAN, EspLoop(SleepFromEsp(b))
      PROVE  Handled
  BY <1>1, <1>3 DEF EspLoop, SleepFromEsp, routineVars, TypeOK
<1>4. ASSUME NEW minutes \in AutoSleepChoices, EspLoop(AutoSleepFromEsp(minutes))
      PROVE  Handled
  BY <1>4 DEF EspLoop, AutoSleepFromEsp, routineVars, TypeOK
<1>5. ASSUME NEW mode \in FlowModes, EspLoop(FlowFromEsp(mode))
      PROVE  Handled
  BY <1>2, <1>5 DEF EspLoop, FlowFromEsp, managerVars, TypeOK
<1>6. CASE EspLoop(EnqueueRoutine)
  BY <1>6, MoveTyped DEF EspLoop, EnqueueRoutine, managerVars, TypeOK
<1>7. CASE EspLoop(CancelRoutine)
  BY <1>7, MoveTyped DEF EspLoop, CancelRoutine, managerVars, TypeOK
<1>8. CASE EspLoop(NoMessage)
  BY <1>8 DEF EspLoop, NoMessage, managerVars, routineVars, TypeOK
<1>9. QED
  BY <1>3, <1>4, <1>5, <1>6, <1>7, <1>8 DEF HandleMessage

LEMMA EdgesTyped ==
    ASSUME TypeOK, Edges
    PROVE  TypeOK'
<1>1. commandQueue' \in Seq(Commands) /\ Len(commandQueue') =< CommandCapacity
  BY Sending, SleepCommandsTyped DEF Edges, TypeOK
<1>2. sleepMode' \in BOOLEAN /\ quiet' \in Nat
  BY DEF Edges, AutoSleepDue, TypeOK
<1>3. plannedAutoSleepAt' \in Nat \cup {NotSet}
  BY AutomationsAssumption DEF Edges, PlannedSleep, TypeOK
<1>4. /\ brewStartedAt' \in 0..BrewTime \cup {NotSet}
      /\ currentAutomationStep' \in 0..4
      /\ currentStepStartedAt' \in 0..StepTime \cup {NotSet}
      /\ overridden' \in BOOLEAN
  BY AutomationsAssumption DEF Edges, BrewEdges, routineVars, TypeOK
<1>5. previouslyBrewing' \in BOOLEAN /\ previouslyAsleep' \in BOOLEAN
  BY DEF Edges, TypeOK, Statuses
<1>6. QED
  BY <1>1, <1>2, <1>3, <1>4, <1>5 DEF Edges, core0Vars, TypeOK

LEMMA TickTyped ==
    ASSUME TypeOK, Tick
    PROVE  TypeOK'
<1>1. plannedAutoSleepAt' \in Nat \cup {NotSet}
  BY AutomationsAssumption DEF Tick, TypeOK, NotSet
<1>2. brewStartedAt' \in 0..BrewTime \cup {NotSet}
  BY AutomationsAssumption DEF Tick, Older, TypeOK, NotSet
<1>3. currentStepStartedAt' \in 0..StepTime \cup {NotSet}
  BY AutomationsAssumption DEF Tick, Older, TypeOK, NotSet
<1>4. quiet' \in Nat
  BY AutomationsAssumption DEF Tick, Older, TypeOK, NotSet
<1>5. QED
  BY <1>1, <1>2, <1>3, <1>4 DEF Tick, core0Vars, managerVars, previous, TypeOK

LEMMA NextTyped ==
    ASSUME TypeOK, [Next]_vars
    PROVE  TypeOK'
<1>1. CASE Core0
  BY <1>1, Core0Typed
<1>2. CASE TakeStatuses
  <2>1. sm' \in Statuses
    BY <1>2 DEF TakeStatuses, TypeOK
  <2>2. statusQueue' \in Seq(Statuses) /\ Len(statusQueue') =< StatusCapacity
    BY <1>2, AutomationsAssumption, EmptySeq DEF TakeStatuses
  <2>3. QED
    BY <1>2, <2>1, <2>2 DEF TakeStatuses, TypeOK, core0Vars, managerVars, routineVars, previous
<1>3. CASE HandleMessage \/ EspLoop(NoMessage)
  <2>1. /\ pc1' = "edges"
        /\ UNCHANGED <<core0Vars, relaunches, statusQueue, sm, brewStartedAt, previous>>
    BY <1>3 DEF HandleMessage, EspLoop
  <2>2. QED
    BY <1>3, <2>1, MessageTyped DEF TypeOK, core0Vars, previous
<1>4. CASE Edges
  BY <1>4, EdgesTyped
<1>5. CASE HandleCurrentAutomationStep
  <2>1. CASE ExitCondition
    <3>1. currentAutomationStep + 1 \in 0..4
      BY <2>1 DEF ExitCondition
    <3>2. MoveToAutomationStep(currentAutomationStep + 1)
      BY <1>5, <2>1 DEF HandleCurrentAutomationStep
    <3>3. QED
      BY <1>5, <3>1, <3>2, MoveTyped
         DEF HandleCurrentAutomationStep, TypeOK, core0Vars, managerVars, previous
  <2>2. CASE ~ExitCondition
    BY <1>5, <2>2 DEF HandleCurrentAutomationStep, TypeOK, core0Vars, managerVars, routineVars, previous
  <2>3. QED
    BY <2>1, <2>2
<1>6. CASE RelaunchCore1
  <2>1. sm' \in Statuses
    BY <1>6 DEF RelaunchCore1, NoStatus, Statuses
  <2>2. relaunches' \in 0..MaxRelaunches
    BY <1>6, AutomationsAssumption DEF RelaunchCore1, TypeOK
  <2>3. UNCHANGED <<core0Vars, statusQueue, commandQueue, managerVars, overridden, quiet>>
    BY <1>6 DEF RelaunchCore1
  <2>4. /\ pc1' = "drain" /\ previouslyBrewing' = FALSE /\ previouslyAsleep' = sleepMode
        /\ previousAutosleepMinutes' = autoSleepMin
    BY <1>6 DEF RelaunchCore1
  <2>5. /\ plannedAutoSleepAt' = NotSet /\ brewStartedAt' = NotSet
        /\ currentAutomationStep' = 0 /\ currentStepStartedAt' = NotSet
    BY <1>6 DEF RelaunchCore1
  <2>6. /\ pc0' \in {"read", "commands"} /\ flowMode' \in FlowModes
        /\ {brewSwitch', sleeping', sleepMode', core1RebootTimer', overridden'} \subseteq BOOLEAN
        /\ statusQueue' \in Seq(Statuses) /\ Len(statusQueue') =< StatusCapacity
        /\ commandQueue' \in Seq(Commands) /\ Len(commandQueue') =< CommandCapacity
        /\ quiet' \in Nat
    BY <2>3 DEF TypeOK, core0Vars, managerVars
  <2>7. /\ previouslyBrewing' \in BOOLEAN /\ previouslyAsleep' \in BOOLEAN
        /\ {autoSleepMin', previousAutosleepMinutes'} \subseteq AutoSleepChoices
    BY <2>3, <2>4 DEF TypeOK, managerVars
  <2>8. /\ plannedAutoSleepAt' = NotSet /\ brewStartedAt' = NotSet
        /\ currentStepStartedAt' = NotSet /\ currentAutomationStep' \in 0..4
    BY <2>5
  <2>9. QED
    BY <2>1, <2>2, <2>4, <2>6, <2>7, <2>8 DEF TypeOK
<1>7. CASE Tick
  BY <1>7, TickTyped
<1>8. CASE UNCHANGED vars
  BY <1>8 DEF vars, core0Vars, managerVars, routineVars, previous, TypeOK
<1>9. QED
  BY <1>1, <1>2, <1>3, <1>4, <1>5, <1>6, <1>7, <1>8 DEF Next, Core1

\* The types of both cores' state; neither queue exceeds its capacity, whatever the
\* capacities are (addBlocking waits, tryAdd drops).
THEOREM AutomationsTypes == Spec => []TypeOK
BY InitTyped, NextTyped, PTL DEF Spec
-----------------------------------------------------------------------------
(* The time of an automatic sleep.                                         *)

\* Between the edges of two turns the two copies of the auto sleep time agree; a
\* planned sleep has at least the rest of that time before it.
SleepInv ==
    /\ TypeOK
    /\ pc1 # "edges" => previousAutosleepMinutes = autoSleepMin
    /\ plannedAutoSleepAt # NotSet => plannedAutoSleepAt + quiet >= previousAutosleepMinutes

LEMMA InitSleepInv == Init => SleepInv
BY InitTyped DEF Init, SleepInv

LEMMA TickSleepInv ==
    ASSUME SleepInv, Tick
    PROVE  SleepInv'
<1>1. TypeOK'
  BY TickTyped DEF SleepInv
<1>2. autoSleepMin' = autoSleepMin /\ pc1' = pc1
      /\ previousAutosleepMinutes' = previousAutosleepMinutes
  BY DEF Tick, managerVars, previous
<1>3. previousAutosleepMinutes \in AutoSleepChoices /\ previousAutosleepMinutes \in Nat
      /\ quiet \in Nat /\ plannedAutoSleepAt \in Nat \cup {NotSet}
  BY AutomationsAssumption DEF SleepInv, TypeOK
<1>4. PICK longest \in AutoSleepChoices :
          /\ previousAutosleepMinutes =< longest
          /\ quiet' = Older(quiet, longest)
  BY <1>3 DEF Tick
<1>5. longest \in Nat
  BY AutomationsAssumption
<1>6. quiet' = IF quiet >= longest THEN quiet ELSE quiet + 1
  BY <1>3, <1>4 DEF Older, NotSet
<1>7. plannedAutoSleepAt' = IF plannedAutoSleepAt > 0 THEN plannedAutoSleepAt - 1
                             ELSE plannedAutoSleepAt
  BY DEF Tick
<1>8. plannedAutoSleepAt' # NotSet => plannedAutoSleepAt' + quiet' >= previousAutosleepMinutes
  BY <1>3, <1>4, <1>5, <1>6, <1>7 DEF SleepInv, NotSet
<1>9. QED
  BY <1>1, <1>2, <1>8 DEF SleepInv

LEMMA MessageSleepInv ==
    ASSUME SleepInv, HandleMessage \/ EspLoop(NoMessage)
    PROVE  /\ pc1' = "edges"
           /\ plannedAutoSleepAt' # NotSet
                => plannedAutoSleepAt' + quiet' >= previousAutosleepMinutes'
<1>1. pc1 = "esp" /\ pc1' = "edges" /\ previousAutosleepMinutes' = previousAutosleepMinutes
  BY DEF HandleMessage, EspLoop, previous
<1>2. previousAutosleepMinutes = autoSleepMin /\ autoSleepMin \in Nat /\ quiet \in Nat
      /\ plannedAutoSleepAt \in Nat \cup {NotSet}
  BY <1>1, AutomationsAssumption DEF SleepInv, TypeOK
<1>3. ASSUME NEW b \in BOOLEAN, SleepFromEsp(b)
      PROVE  plannedAutoSleepAt' # NotSet
               => plannedAutoSleepAt' + quiet' >= previousAutosleepMinutes
  BY <1>2, <1>3 DEF SleepFromEsp, PlannedSleep, SleepInv
<1>4. CASE UNCHANGED <<plannedAutoSleepAt, quiet>>
  BY <1>1, <1>4 DEF SleepInv
<1>5. (\E b \in BOOLEAN : SleepFromEsp(b)) \/ UNCHANGED <<plannedAutoSleepAt, quiet>>
  BY DEF HandleMessage, EspLoop, NoMessage, AutoSleepFromEsp, FlowFromEsp, EnqueueRoutine,
         CancelRoutine
<1>6. QED
  BY <1>1, <1>3, <1>4, <1>5

LEMMA EdgesSleepInv ==
    ASSUME SleepInv, Edges
    PROVE  SleepInv'
<1>1. TypeOK'
  BY EdgesTyped DEF SleepInv
<1>2. previousAutosleepMinutes' = autoSleepMin /\ autoSleepMin' = autoSleepMin
  BY DEF Edges
<1>3. autoSleepMin \in Nat /\ previousAutosleepMinutes \in Nat /\ quiet \in Nat /\ quiet' \in Nat
      /\ plannedAutoSleepAt \in Nat \cup {NotSet}
  BY <1>1, AutomationsAssumption DEF SleepInv, TypeOK
<1>4. CASE Replan
  BY <1>2, <1>3, <1>4, <1>1 DEF Edges, PlannedSleep, SleepInv, NotSet
<1>5. CASE ~Replan
  <2>1. previousAutosleepMinutes = autoSleepMin /\ ~BrewStarted
    BY <1>5 DEF Replan
  <2>2. plannedAutoSleepAt' = plannedAutoSleepAt /\ quiet' = quiet
    BY <1>5, <2>1 DEF Edges
  <2>3. QED
    BY <1>1, <1>2, <2>1, <2>2 DEF SleepInv
<1>6. QED
  BY <1>4, <1>5

LEMMA NextSleepInv == SleepInv /\ [Next]_vars => SleepInv'
<1> SUFFICES ASSUME SleepInv, [Next]_vars PROVE SleepInv'
  OBVIOUS
<1>1. TypeOK'
  BY NextTyped DEF SleepInv
<1>2. CASE UNCHANGED <<pc1, autoSleepMin, previousAutosleepMinutes, plannedAutoSleepAt, quiet>>
  BY <1>1, <1>2 DEF SleepInv
<1>3. CASE Core0
  BY <1>2, <1>3 DEF Core0, Read, HandleCommand, SendStatus, managerVars, previous
<1>4. CASE TakeStatuses
  BY <1>1, <1>4 DEF TakeStatuses, managerVars, previous, SleepInv
<1>5. CASE HandleMessage \/ EspLoop(NoMessage)
  BY <1>1, <1>5, MessageSleepInv DEF SleepInv
<1>6. CASE Edges
  BY <1>6, EdgesSleepInv
<1>7. CASE HandleCurrentAutomationStep
  BY <1>1, <1>7 DEF HandleCurrentAutomationStep, managerVars, previous, SleepInv
<1>8. CASE RelaunchCore1
  BY <1>1, <1>8 DEF RelaunchCore1, managerVars, SleepInv
<1>9. CASE Tick
  BY <1>9, TickSleepInv
<1>10. CASE UNCHANGED vars
  BY <1>2, <1>10 DEF vars, managerVars, previous
<1>11. QED
  BY <1>3, <1>4, <1>5, <1>6, <1>7, <1>8, <1>9, <1>10 DEF Next, Core1

\* The machine never falls asleep by itself before the auto sleep time in force has
\* passed since the last brew, waking or change of that time (onLoop of Automations).
THEOREM AutoSleepIsNeverEarly == Spec => AutoSleepIsEarned
<1>1. SleepInv /\ [Next]_vars
        => [ pc1 = "edges" /\ ~sleepMode /\ sleepMode' => quiet >= previousAutosleepMinutes ]_vars
  <2> SUFFICES ASSUME SleepInv, Next, pc1 = "edges", ~sleepMode, sleepMode'
               PROVE  quiet >= previousAutosleepMinutes
    BY DEF SleepInv
  <2>1. Edges
    BY DEF Next, Core0, Core1, Read, HandleCommand, SendStatus, TakeStatuses, HandleMessage,
           EspLoop, HandleCurrentAutomationStep, RelaunchCore1, Tick, managerVars
  <2>2. plannedAutoSleepAt = 0
    BY <2>1 DEF Edges, AutoSleepDue
  <2>3. QED
    BY <2>2, AutomationsAssumption DEF SleepInv, TypeOK, NotSet
<1>2. QED
  BY <1>1, InitSleepInv, NextSleepInv, PTL DEF Spec, AutoSleepIsEarned

-----------------------------------------------------------------------------
(* The flow mode of a routine.                                             *)

IsFlow(c) == c.type = "SET_FLOW_MODE"

\* Handling the commands of q from flow mode now leaves flow mode m: the last flow
\* command asks for it, or there is none and it is there already.
LeadsTo(q, now, m) ==
    /\ \A i \in 1..Len(q) :
          IsFlow(q[i]) /\ (\A j \in 1..Len(q) : j > i => ~IsFlow(q[j])) => q[i].int1 = m
    /\ (\A i \in 1..Len(q) : ~IsFlow(q[i])) => now = m

StepMode == EntryCommands(currentAutomationStep)[1].int1

FlowInv ==
    currentAutomationStep \in 2..4 /\ ~overridden => LeadsTo(commandQueue, flowMode, StepMode)

LEMMA SleepsAppended ==
    ASSUME NEW q \in Seq(Commands), NEW cs \in Seq(Commands), NEW now, NEW m,
           \A i \in 1..Len(cs) : ~IsFlow(cs[i]), LeadsTo(q, now, m)
    PROVE  LeadsTo(q \o cs, now, m)
<1> DEFINE r == q \o cs
<1>1. Len(r) = Len(q) + Len(cs) /\ Len(q) \in Nat /\ Len(cs) \in Nat
  OBVIOUS
<1>2. \A i \in 1..Len(q) : r[i] = q[i]
  OBVIOUS
<1>3. \A i \in 1..Len(r) : i > Len(q) => ~IsFlow(r[i])
  <2> SUFFICES ASSUME NEW i \in 1..Len(r), i > Len(q) PROVE ~IsFlow(r[i])
    OBVIOUS
  <2>1. i - Len(q) \in 1..Len(cs) /\ r[i] = cs[i - Len(q)]
    BY <1>1
  <2>2. QED
    BY <2>1
<1> HIDE DEF r
<1>4. ASSUME NEW i \in 1..Len(r), IsFlow(r[i]), \A j \in 1..Len(r) : j > i => ~IsFlow(r[j])
      PROVE  r[i].int1 = m
  <2>1. i \in 1..Len(q)
    BY <1>1, <1>3, <1>4
  <2>2. \A j \in 1..Len(q) : j > i => ~IsFlow(q[j])
    BY <1>1, <1>2, <1>4
  <2>3. QED
    BY <1>2, <1>4, <2>1, <2>2 DEF LeadsTo
<1>5. ASSUME \A i \in 1..Len(r) : ~IsFlow(r[i])
      PROVE  now = m
  <2>1. \A i \in 1..Len(q) : ~IsFlow(q[i])
    BY <1>1, <1>2, <1>5
  <2>2. QED
    BY <2>1 DEF LeadsTo
<1>6. QED
  BY <1>4, <1>5 DEF LeadsTo, r

LEMMA FlowAppended ==
    ASSUME NEW q \in Seq(Commands), NEW now, NEW m \in FlowModes
    PROVE  LeadsTo(q \o <<Flow(m)>>, now, m)
<1> DEFINE r == q \o <<Flow(m)>>
<1>1. Len(r) = Len(q) + 1 /\ Len(q) \in Nat
  OBVIOUS
<1>2. r[Len(r)] = Flow(m)
  BY <1>1
<1>3. IsFlow(r[Len(r)]) /\ r[Len(r)].int1 = m
  BY <1>2 DEF IsFlow, Flow
<1> HIDE DEF r
<1>4. ASSUME NEW i \in 1..Len(r), \A j \in 1..Len(r) : j > i => ~IsFlow(r[j])
      PROVE  i = Len(r)
  BY <1>1, <1>3, <1>4
<1>5. QED
  BY <1>1, <1>3, <1>4 DEF LeadsTo, r

\* Core 0 takes a command from the front; no matter which.
LEMMA HeadHandled ==
    ASSUME NEW q \in Seq(Commands), q # <<>>, NEW now, NEW m, LeadsTo(q, now, m)
    PROVE  LeadsTo(Tail(q), IF IsFlow(Head(q)) THEN Head(q).int1 ELSE now, m)
<1> DEFINE r == Tail(q)
<1>1. Len(r) = Len(q) - 1 /\ Len(q) \in Nat /\ Len(q) > 0
  OBVIOUS
<1>2. \A i \in 1..Len(r) : r[i] = q[i + 1]
  OBVIOUS
<1>3. Head(q) = q[1]
  OBVIOUS
<1> HIDE DEF r
<1>4. ASSUME NEW i \in 1..Len(r), IsFlow(r[i]), \A j \in 1..Len(r) : j > i => ~IsFlow(r[j])
      PROVE  r[i].int1 = m
  <2>1. i + 1 \in 1..Len(q) /\ IsFlow(q[i + 1])
    BY <1>1, <1>2, <1>4
  <2>2. ASSUME NEW j \in 1..Len(q), j > i + 1
        PROVE  ~IsFlow(q[j])
    <3>1. j - 1 \in 1..Len(r) /\ j - 1 > i /\ (j - 1) + 1 = j
      BY <1>1, <2>2
    <3>2. QED
      BY <1>2, <1>4, <3>1
  <2>3. QED
    BY <1>2, <2>1, <2>2 DEF LeadsTo
<1>5. ASSUME \A i \in 1..Len(r) : ~IsFlow(r[i])
      PROVE  (IF IsFlow(Head(q)) THEN Head(q).int1 ELSE now) = m
  <2>1. ASSUME NEW j \in 1..Len(q), j > 1
        PROVE  ~IsFlow(q[j])
    <3>1. j - 1 \in 1..Len(r) /\ (j - 1) + 1 = j
      BY <1>1, <2>1
    <3>2. QED
      BY <1>2, <1>5, <3>1
  <2>2. 1 \in 1..Len(q)
    BY <1>1
  <2>3. CASE IsFlow(q[1])
    BY <1>3, <2>1, <2>2, <2>3 DEF LeadsTo
  <2>4. CASE ~IsFlow(q[1])
    <3>1. \A j \in 1..Len(q) : ~IsFlow(q[j])
      BY <1>1, <2>1, <2>4
    <3>2. QED
      BY <1>3, <2>4, <3>1 DEF LeadsTo
  <2>5. QED
    BY <2>3, <2>4
<1>6. QED
  BY <1>4, <1>5 DEF LeadsTo, r

LEMMA StepModes ==
    ASSUME NEW step \in 2..4
    PROVE  \E m \in FlowModes : EntryCommands(step) = <<Flow(m)>> /\ EntryCommands(step)[1].int1 = m
<1>1. CASE step \in {2, 4}
  <2>1. EntryCommands(step) = <<Flow("PUMP_ON_SOLENOID_OPEN")>>
    BY <1>1 DEF EntryCommands
  <2>2. QED
    BY <2>1 DEF Flow, FlowModes
<1>2. CASE step = 3
  <2>1. EntryCommands(step) = <<Flow("PUMP_OFF_SOLENOID_OPEN")>>
    BY <1>2 DEF EntryCommands
  <2>2. QED
    BY <2>1 DEF Flow, FlowModes
<1>3. QED
  BY <1>1, <1>2

LEMMA MoveFlowInv ==
    ASSUME TypeOK, NEW step \in 0..4, MoveToAutomationStep(step), flowMode' = flowMode
    PROVE  FlowInv'
<1> SUFFICES ASSUME step \in 2..4
             PROVE  LeadsTo(commandQueue', flowMode', EntryCommands(step)[1].int1)
  BY DEF MoveToAutomationStep, FlowInv, StepMode
<1>1. PICK m \in FlowModes : EntryCommands(step) = <<Flow(m)>> /\ EntryCommands(step)[1].int1 = m
  BY StepModes
<1>2. commandQueue' = commandQueue \o <<Flow(m)>>
  BY <1>1 DEF MoveToAutomationStep, AddBlocking
<1>3. QED
  BY <1>1, <1>2, FlowAppended DEF TypeOK

\* Sleep commands, all or some of them, change nothing.
LEMMA SleepsFlowInv ==
    ASSUME TypeOK, FlowInv, NEW cs \in Seq(Commands), \A i \in 1..Len(cs) : ~IsFlow(cs[i]),
           TryAdd(cs), flowMode' = flowMode,
           UNCHANGED <<currentAutomationStep, overridden>> \/ currentAutomationStep' = 0
    PROVE  FlowInv'
<1> DEFINE room == IF CommandCapacity - Len(commandQueue) < Len(cs)
                     THEN CommandCapacity - Len(commandQueue) ELSE Len(cs)
<1>1. room \in Nat /\ room =< Len(cs)
  BY AutomationsAssumption DEF TypeOK
<1>2. SubSeq(cs, 1, room) \in Seq(Commands) /\ Len(SubSeq(cs, 1, room)) = room
      /\ \A i \in 1..room : SubSeq(cs, 1, room)[i] = cs[i]
  BY <1>1, SubSeqProperties
<1>3. \A i \in 1..Len(SubSeq(cs, 1, room)) : ~IsFlow(SubSeq(cs, 1, room)[i])
  BY <1>1, <1>2
<1>4. commandQueue' = commandQueue \o SubSeq(cs, 1, room)
  BY DEF TryAdd
<1>5. CASE currentAutomationStep' = 0
  BY <1>5 DEF FlowInv
<1>6. CASE UNCHANGED <<currentAutomationStep, overridden>>
  BY <1>2, <1>3, <1>4, <1>6, SleepsAppended DEF TypeOK, FlowInv, StepMode
<1>7. QED
  BY <1>5, <1>6

LEMMA NoFlowInSleeps ==
    /\ \A b \in BOOLEAN : \A i \in 1..Len(<<Sleep(b)>>) : ~IsFlow(<<Sleep(b)>>[i])
    /\ \A i \in 1..Len(SleepCommands) : ~IsFlow(SleepCommands[i])
<1> DEFINE Sleeps == [type: {"SET_SLEEP_MODE"}, bool1: BOOLEAN]
<1>1. \A c \in Sleeps : ~IsFlow(c)
  BY DEF IsFlow
<1>2. \A b \in BOOLEAN : Sleep(b) \in Sleeps
  BY DEF Sleep
<1> HIDE DEF Sleeps
<1>3. <<>> \in Seq(Sleeps) /\ \A b \in BOOLEAN : <<Sleep(b)>> \in Seq(Sleeps)
  <2>1. \A c \in Sleeps : <<c>> \in Seq(Sleeps)
    OBVIOUS
  <2>2. QED
    BY <1>2, <2>1
<1>4. (IF AutoSleepDue THEN <<Sleep(TRUE)>> ELSE <<>>) \in Seq(Sleeps)
  BY <1>3
<1>5. (IF WakeForBrew THEN <<Sleep(FALSE)>> ELSE <<>>) \in Seq(Sleeps)
  BY <1>3
<1>6. SleepCommands \in Seq(Sleeps)
  BY <1>4, <1>5, ConcatProperties DEF SleepCommands
<1>7. \A cs \in Seq(Sleeps) : \A i \in 1..Len(cs) : ~IsFlow(cs[i])
  BY <1>1
<1>8. \A b \in BOOLEAN : \A i \in 1..Len(<<Sleep(b)>>) : ~IsFlow(<<Sleep(b)>>[i])
  BY <1>3, <1>7
<1>9. QED
  BY <1>6, <1>7, <1>8

LEMMA MessageFlowInv ==
    ASSUME TypeOK, FlowInv, HandleMessage \/ EspLoop(NoMessage)
    PROVE  FlowInv'
<1>1. flowMode' = flowMode
  BY DEF HandleMessage, EspLoop, core0Vars
<1>2. ASSUME NEW b \in BOOLEAN, EspLoop(SleepFromEsp(b))
      PROVE  FlowInv'
  BY <1>1, <1>2, MessagesTyped, NoFlowInSleeps, SleepsFlowInv
     DEF EspLoop, SleepFromEsp, routineVars
<1>3. ASSUME NEW minutes \in AutoSleepChoices, EspLoop(AutoSleepFromEsp(minutes))
      PROVE  FlowInv'
  BY <1>1, <1>3 DEF EspLoop, AutoSleepFromEsp, routineVars, FlowInv, StepMode
<1>4. ASSUME NEW mode \in FlowModes, EspLoop(FlowFromEsp(mode))
      PROVE  FlowInv'
  BY <1>4 DEF EspLoop, FlowFromEsp, FlowInv
<1>5. CASE EspLoop(EnqueueRoutine) \/ EspLoop(CancelRoutine)
  BY <1>1, <1>5, MoveFlowInv DEF EspLoop, EnqueueRoutine, CancelRoutine
<1>6. CASE EspLoop(NoMessage)
  BY <1>1, <1>6 DEF EspLoop, NoMessage, routineVars, FlowInv, StepMode
<1>7. QED
  BY <1>2, <1>3, <1>4, <1>5, <1>6 DEF HandleMessage

LEMMA NextFlowInv == TypeOK /\ FlowInv /\ [Next]_vars => FlowInv'
<1> SUFFICES ASSUME TypeOK, FlowInv, [Next]_vars PROVE FlowInv'
  OBVIOUS
<1>1. CASE UNCHANGED <<flowMode, commandQueue, currentAutomationStep, overridden>>
  BY <1>1 DEF FlowInv, StepMode
<1>2. CASE HandleCommand
  <2>1. commandQueue \in Seq(Commands) /\ commandQueue # <<>>
        /\ commandQueue' = Tail(commandQueue)
        /\ UNCHANGED <<currentAutomationStep, overridden>>
    BY <1>2 DEF HandleCommand, TypeOK, routineVars
  <2>2. flowMode' = IF IsFlow(Head(commandQueue)) THEN Head(commandQueue).int1 ELSE flowMode
    BY <1>2 DEF HandleCommand, IsFlow
  <2>3. QED
    BY <2>1, <2>2, HeadHandled DEF FlowInv, StepMode
<1>3. CASE Edges
  <2>1. currentAutomationStep' = 0 \/ UNCHANGED <<currentAutomationStep, overridden>>
    BY <1>3 DEF Edges, BrewEdges, routineVars
  <2>2. QED
    BY <1>3, <2>1, SleepCommandsTyped, NoFlowInSleeps, SleepsFlowInv DEF Edges, core0Vars
<1>4. CASE HandleCurrentAutomationStep
  <2>1. CASE ExitCondition
    <3>1. currentAutomationStep + 1 \in 0..4
      BY <2>1 DEF ExitCondition
    <3>2. QED
      BY <1>4, <2>1, <3>1, MoveFlowInv DEF HandleCurrentAutomationStep, core0Vars
  <2>2. CASE ~ExitCondition
    BY <1>1, <1>4, <2>2 DEF HandleCurrentAutomationStep, core0Vars, routineVars
  <2>3. QED
    BY <2>1, <2>2
<1>5. CASE (\E b \in BOOLEAN : Read(b)) \/ SendStatus \/ TakeStatuses \/ Tick
  BY <1>1, <1>5 DEF Read, SendStatus, TakeStatuses, Tick, core0Vars, routineVars
<1>6. CASE HandleMessage \/ EspLoop(NoMessage)
  BY <1>6, MessageFlowInv
<1>7. CASE RelaunchCore1
  BY <1>7 DEF RelaunchCore1, FlowInv
<1>8. CASE UNCHANGED vars
  BY <1>1, <1>8 DEF vars, core0Vars, routineVars
<1>9. QED
  BY <1>2, <1>3, <1>4, <1>5, <1>6, <1>7, <1>8 DEF Next, Core0, Core1

\* With no flow command on its way, the flow mode is the one of the routine's step,
\* resets of core 1 and commands dropped by tryAdd included (setFlowMode).
THEOREM RoutineSetsFlow == Spec => []FlowFollowsStep
<1>1. Init => FlowInv
  BY DEF Init, FlowInv
<1>2. TypeOK /\ FlowInv => FlowFollowsStep
  BY DEF TypeOK, FlowInv, LeadsTo, StepMode, IsFlow, FlowFollowsStep
<1>3. QED
  BY <1>1, <1>2, InitTyped, NextTyped, NextFlowInv, PTL DEF Spec

=============================================================================
