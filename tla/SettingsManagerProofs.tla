------------------------ MODULE SettingsManagerProofs ------------------------
(***************************************************************************)
(* The settings manager implements the abstract store, whatever the flash  *)
(* chip, the targets and the queue capacity are.  The invariant relates    *)
(* core 1's memory of the page to the page: while idle it is right unless  *)
(* core 1 was reset at work, and a page just programmed holds the current  *)
(* settings.  Then types, the agreement of the two cores, and that what    *)
(* was chosen is saved in the end.                                         *)
(***************************************************************************)
EXTENDS SettingsManager, SequenceTheorems, TLAPS

MemoryTyped ==
    /\ pc \in {"boot", "idle", "erased", "programmed", "reading"}
    /\ currentSettings \in Settings
    /\ page = <<>> \/ \E s \in Settings : page = <<s>>
    /\ interrupted \in BOOLEAN

PageKnown ==
    /\ pc = "idle" /\ Readable /\ ~interrupted => lastReadSettings = page[1]
    /\ pc = "programmed" /\ FlashPresent => page = <<currentSettings>>

StoreInv == MemoryTyped /\ PageKnown

LEMMA DefaultIsChoice == defaultSettings \in Settings
BY DEF defaultSettings, Settings

\* What is read is a choice of settings.
LEMMA ReadIsChoice == ASSUME MemoryTyped PROVE ReadSettings \in Settings
BY DefaultIsChoice DEF MemoryTyped, ReadSettings, Readable

LEMMA InitStoreInv == Init => StoreInv
BY DefaultIsChoice DEF Init, StoreInv, MemoryTyped, PageKnown, Readable

\* Every step keeps the invariant.
LEMMA NextStoreInv ==
    ASSUME StoreInv, [Next]_vars
    PROVE  StoreInv'
<1> USE DEF StoreInv
<1>1. CASE Initialize
  <2>1. Restored \in Settings
    BY ReadIsChoice DEF Restored, Awakened, Settings
  <2>2. QED
    BY <1>1, <2>1 DEF Initialize, SendMessages, MemoryTyped, PageKnown, Readable, LastRead
<1>2. ASSUME NEW t \in Targets, SetTargetBrewTemp(t)
      PROVE  StoreInv'
  <2>1. currentSettings' \in Settings
    BY <1>2 DEF SetTargetBrewTemp, MemoryTyped, Settings
  <2>2. QED
    BY <1>2, <2>1 DEF SetTargetBrewTemp, SendMessages, MemoryTyped, PageKnown, Readable
<1>3. ASSUME NEW b \in BOOLEAN, SetSleepMode(b)
      PROVE  StoreInv'
  <2>1. currentSettings' \in Settings
    BY <1>3 DEF SetSleepMode, MemoryTyped, Settings
  <2>2. QED
    BY <1>3, <2>1 DEF SetSleepMode, SendMessages, MemoryTyped, PageKnown, Readable
<1>4. CASE LeaveSleepForBrew
  BY <1>3, <1>4 DEF LeaveSleepForBrew
<1>5. CASE SectorErase
  BY <1>5 DEF SectorErase, managerVars, history, MemoryTyped, PageKnown, Readable
<1>6. CASE PageProgram
  BY <1>6 DEF PageProgram, managerVars, history, MemoryTyped, PageKnown, Readable
<1>7. CASE ResetSettings
  BY <1>7, DefaultIsChoice DEF ResetSettings, history, MemoryTyped, PageKnown, Readable
<1>8. CASE ReadBack
  BY <1>8, ReadIsChoice DEF ReadBack, history, LastRead, MemoryTyped, PageKnown, Readable
<1>9. CASE HandleCommand
  BY <1>9 DEF HandleCommand, managerVars, history, MemoryTyped, PageKnown, Readable
<1>10. CASE RelaunchCore1
  BY <1>10 DEF RelaunchCore1, managerVars, MemoryTyped, PageKnown, Readable
<1>11. ASSUME NEW t \in Targets, RelaunchInSetter(t)
       PROVE  StoreInv'
  <2>1. currentSettings' \in Settings
    BY <1>11 DEF RelaunchInSetter, MemoryTyped, Settings
  <2>2. QED
    BY <1>11, <2>1 DEF RelaunchInSetter, MemoryTyped, PageKnown, Readable
<1>12. ASSUME NEW c \in Causes, Restart(c)
       PROVE  StoreInv'
  BY <1>12, DefaultIsChoice DEF Restart, MemoryTyped, PageKnown, Readable
<1>13. CASE UNCHANGED vars
  BY <1>13 DEF vars, managerVars, history, MemoryTyped, PageKnown, Readable
<1>14. QED
  BY <1>1, <1>2, <1>3, <1>4, <1>5, <1>6, <1>7, <1>8, <1>9, <1>10, <1>11, <1>12, <1>13
     DEF Next, Core1, WriteSettingsIfChanged, Setter

-----------------------------------------------------------------------------
(* Each step of the detailed specification is a step of the store.         *)

StoreNext == Store!Choose \/ Store!Spoil \/ Store!Save \/ Store!Interrupt \/ Store!Stop \/ Store!Start

LEMMA InitMaps == Init => Store!SInit
<1> SUFFICES ASSUME Init PROVE Store!SInit
  OBVIOUS
<1>1. MemoryTyped
  BY InitStoreInv DEF StoreInv
<1>2. QED
  BY <1>1, ReadIsChoice DEF Init, MemoryTyped, Store!SInit

\* Erasing endangers what is kept only when something else was chosen.
LEMMA EraseMaps ==
    ASSUME StoreInv, SectorErase
    PROVE  Store!Spoil \/ UNCHANGED Store!svars
BY DEF StoreInv, MemoryTyped, PageKnown, SectorErase, managerVars, history, ReadSettings, Readable,
       Store!Spoil, Store!svars

LEMMA WriteMaps ==
    ASSUME StoreInv, PageProgram \/ ResetSettings \/ ReadBack
    PROVE  Store!Save \/ Store!Choose \/ UNCHANGED Store!svars
<1>1. CASE PageProgram
  BY <1>1 DEF StoreInv, MemoryTyped, PageProgram, managerVars, history, ReadSettings, Readable,
              Store!Save, Store!svars
<1>2. CASE ResetSettings
  BY <1>2, DefaultIsChoice
     DEF StoreInv, MemoryTyped, PageKnown, ResetSettings, history, ReadSettings, Readable,
         Store!Choose, Store!svars
<1>3. CASE ReadBack
  BY <1>3 DEF ReadBack, history, ReadSettings, Readable, Store!svars
<1>4. QED
  BY <1>1, <1>2, <1>3

LEMMA SetterMaps ==
    ASSUME StoreInv, StoreInv', Setter
    PROVE  Store!Choose
BY DEF StoreInv, MemoryTyped, Setter, SetTargetBrewTemp, SetSleepMode, LeaveSleepForBrew,
       SendMessages, ReadSettings, Readable, Store!Choose

\* A reset of an idle core 1 is not noticed, any other is an interruption.
LEMMA RelaunchMaps ==
    ASSUME StoreInv, StoreInv', RelaunchCore1 \/ \E t \in Targets : RelaunchInSetter(t)
    PROVE  Store!Interrupt \/ UNCHANGED Store!svars
<1>1. CASE RelaunchCore1 /\ pc = "idle"
  BY <1>1 DEF StoreInv, MemoryTyped, RelaunchCore1, managerVars, ReadSettings, Readable, Store!svars
<1>2. CASE RelaunchCore1 /\ pc # "idle"
  BY <1>2 DEF StoreInv, MemoryTyped, RelaunchCore1, managerVars, ReadSettings, Readable,
              Store!Interrupt
<1>3. ASSUME NEW t \in Targets, RelaunchInSetter(t)
      PROVE  Store!Interrupt
  BY <1>3 DEF StoreInv, MemoryTyped, RelaunchInSetter, ReadSettings, Readable, Store!Interrupt
<1>4. QED
  BY <1>1, <1>2, <1>3

LEMMA StepMaps ==
    ASSUME StoreInv, StoreInv', [Next]_vars
    PROVE  [StoreNext]_Store!svars
<1>1. CASE Initialize
  <2>1. Store!Start
    BY <1>1 DEF Initialize, SendMessages, Restored, ReadSettings, Readable, Store!Start
  <2>2. QED
    BY <2>1 DEF StoreNext
<1>2. CASE Setter
  BY <1>2, SetterMaps DEF StoreNext
<1>3. CASE SectorErase
  BY <1>3, EraseMaps DEF StoreNext
<1>4. CASE PageProgram \/ ResetSettings \/ ReadBack
  BY <1>4, WriteMaps DEF StoreNext
<1>5. CASE HandleCommand
  BY <1>5 DEF HandleCommand, managerVars, history, ReadSettings, Readable, Store!svars
<1>6. CASE RelaunchCore1 \/ \E t \in Targets : RelaunchInSetter(t)
  BY <1>6, RelaunchMaps DEF StoreNext
<1>7. ASSUME NEW c \in Causes, Restart(c)
      PROVE  StoreNext
  BY <1>7, DefaultIsChoice DEF Restart, ReadSettings, Readable, StoreNext, Store!Stop
<1>8. CASE UNCHANGED vars
  BY <1>8 DEF vars, managerVars, history, ReadSettings, Readable, Store!svars
<1>9. QED
  BY <1>1, <1>2, <1>3, <1>4, <1>5, <1>6, <1>7, <1>8
     DEF Next, Core1, WriteSettingsIfChanged

\* Erasing, programming, reading back and restarts of the chip are those of the
\* abstract store: a saved choice is never at risk until core 1 is reset at work.
THEOREM StoreImplemented == Spec => ImplementsStore
<1>1. Init => Store!SInit
  BY InitMaps
<1>2. Init => StoreInv
  BY InitStoreInv
<1>3. StoreInv /\ [Next]_vars => StoreInv'
  BY NextStoreInv
<1>4. StoreInv /\ StoreInv' /\ [Next]_vars => [StoreNext]_Store!svars
  BY StepMaps
<1>5. QED
  BY <1>1, <1>2, <1>3, <1>4, PTL DEF Spec, ImplementsStore, Store!SSpec, StoreNext
-----------------------------------------------------------------------------
(* Types, with the bound of the command queue.                             *)

\* What fits is a sequence of commands and leaves the queue within its capacity.
LEMMA FittingFits ==
    ASSUME NEW cs \in Seq(Commands), commandQueue \in Seq(Commands),
           Len(commandQueue) =< QueueCapacity
    PROVE  /\ commandQueue \o Fitting(cs) \in Seq(Commands)
           /\ Len(commandQueue \o Fitting(cs)) =< QueueCapacity
<1> DEFINE room == QueueCapacity - Len(commandQueue)
<1>1. room \in Nat /\ Len(cs) \in Nat
  BY SettingsManagerAssumption
<1>2. CASE Len(cs) =< room
  <2>1. Fitting(cs) = cs
    BY <1>2 DEF Fitting
  <2>2. QED
    BY <2>1, <1>1, <1>2, SettingsManagerAssumption
<1>3. CASE ~(Len(cs) =< room)
  <2>1. Fitting(cs) = SubSeq(cs, 1, room)
    BY <1>3 DEF Fitting
  <2>2. SubSeq(cs, 1, room) \in Seq(Commands) /\ Len(SubSeq(cs, 1, room)) = room
    BY <1>1, <1>3, SubSeqProperties
  <2>3. QED
    BY <2>1, <2>2, <1>1, SettingsManagerAssumption
<1>4. QED
  BY <1>2, <1>3

LEMMA SendTyped ==
    ASSUME TypeOK, NEW cs \in Seq(Commands), SendMessages(cs)
    PROVE  /\ commandQueue' \in Seq(Commands) /\ Len(commandQueue') =< QueueCapacity
           /\ applied' \in Settings
           /\ lost' \in BOOLEAN /\ interrupted' \in BOOLEAN
BY FittingFits DEF TypeOK, SendMessages

\* The messages of the setters and of the boot.
LEMMA MessagesTyped ==
    /\ \A t \in Targets : <<SetTarget(t)>> \in Seq(Commands)
    /\ \A b \in BOOLEAN : <<SetSleep(b)>> \in Seq(Commands)
    /\ \A s \in Settings : AllSettings(s) \in Seq(Commands)
BY DEF SetTarget, SetSleep, AllSettings, Commands, Settings

\* What a restart of the chip leaves.
LEMMA FreshTyped ==
    /\ <<>> \in Seq(Commands) /\ Len(<<>>) =< QueueCapacity
    /\ 0 \in 0..MaxRelaunches
    /\ defaultSettings \in Settings
BY DefaultIsChoice, EmptySeq, SettingsManagerAssumption

LEMMA InitTyped == Init => TypeOK
<1> SUFFICES ASSUME Init PROVE TypeOK
  OBVIOUS
<1>1. page = <<>> \/ (Len(page) = 1 /\ page[1] \in Settings)
  BY DEF Init
<1>2. QED
  BY <1>1, FreshTyped DEF Init, TypeOK

LEMMA ReadTyped ==
    ASSUME TypeOK
    PROVE  /\ ReadSettings \in Settings
           /\ LastRead \in Settings \cup {NeverRead}
           /\ Restored \in Settings
<1>1. ReadSettings \in Settings /\ LastRead \in Settings \cup {NeverRead}
  BY DefaultIsChoice DEF TypeOK, ReadSettings, LastRead, Readable
<1>2. QED
  BY <1>1 DEF Restored, Awakened, Settings

LEMMA NextTyped ==
    ASSUME TypeOK, [Next]_vars
    PROVE  TypeOK'
<1>1. CASE Initialize
  <2>1. AllSettings(Restored) \in Seq(Commands)
    BY ReadTyped, MessagesTyped
  <2>2. SendMessages(AllSettings(Restored))
    BY <1>1 DEF Initialize
  <2>3. QED
    BY <1>1, <2>1, <2>2, SendTyped, ReadTyped DEF Initialize, TypeOK
<1>2. ASSUME NEW t \in Targets, SetTargetBrewTemp(t)
      PROVE  TypeOK'
  <2>1. currentSettings' \in Settings
    BY <1>2 DEF SetTargetBrewTemp, TypeOK, Settings
  <2>2. SendMessages(<<SetTarget(t)>>)
    BY <1>2 DEF SetTargetBrewTemp
  <2>3. QED
    BY <1>2, <2>1, <2>2, SendTyped, MessagesTyped DEF SetTargetBrewTemp, TypeOK
<1>3. ASSUME NEW b \in BOOLEAN, SetSleepMode(b)
      PROVE  TypeOK'
  <2>1. currentSettings' \in Settings
    BY <1>3 DEF SetSleepMode, TypeOK, Settings
  <2>2. SendMessages(<<SetSleep(b)>>)
    BY <1>3 DEF SetSleepMode
  <2>3. QED
    BY <1>3, <2>1, <2>2, SendTyped, MessagesTyped DEF SetSleepMode, TypeOK
<1>4. CASE LeaveSleepForBrew
  BY <1>3, <1>4 DEF LeaveSleepForBrew
<1>5. CASE SectorErase \/ PageProgram
  BY <1>5 DEF SectorErase, PageProgram, managerVars, coreVars, history, TypeOK
<1>6. CASE ResetSettings \/ ReadBack
  BY <1>6, DefaultIsChoice, ReadTyped DEF ResetSettings, ReadBack, coreVars, history, TypeOK
<1>7. CASE HandleCommand
  <2> DEFINE c == Head(commandQueue)
  <2>1. c \in Commands /\ commandQueue' \in Seq(Commands) /\ Len(commandQueue') =< QueueCapacity
    BY <1>7, SettingsManagerAssumption DEF HandleCommand, TypeOK
  <2>2. CASE c.type = "SET_SLEEP_MODE"
    <3>1. c.bool1 \in BOOLEAN
      BY <2>1, <2>2 DEF Commands
    <3>2. applied' \in Settings
      BY <1>7, <2>2, <3>1 DEF HandleCommand, TypeOK, Settings
    <3>3. QED
      BY <1>7, <2>1, <3>2 DEF HandleCommand, managerVars, history, TypeOK
  <2>3. CASE c.type # "SET_SLEEP_MODE"
    <3>1. c.float1 \in Targets \cup {105}
      BY <2>1, <2>3 DEF Commands
    <3>2. applied' \in Settings
      BY <1>7, <2>3, <3>1 DEF HandleCommand, TypeOK, Settings
    <3>3. QED
      BY <1>7, <2>1, <3>2 DEF HandleCommand, managerVars, history, TypeOK
  <2>4. QED
    BY <2>2, <2>3
<1>8. CASE RelaunchCore1
  BY <1>8, SettingsManagerAssumption DEF RelaunchCore1, managerVars, coreVars, TypeOK
<1>9. ASSUME NEW t \in Targets, RelaunchInSetter(t)
      PROVE  TypeOK'
  <2>1. currentSettings' \in Settings
    BY <1>9 DEF RelaunchInSetter, TypeOK, Settings
  <2>2. QED
    BY <1>9, <2>1, SettingsManagerAssumption DEF RelaunchInSetter, coreVars, TypeOK
<1>10. ASSUME NEW c \in Causes, Restart(c)
       PROVE  TypeOK'
  BY <1>10, FreshTyped DEF Restart, TypeOK
<1>11. CASE UNCHANGED vars
  BY <1>11 DEF vars, managerVars, coreVars, history, TypeOK
<1>12. QED
  BY <1>1, <1>2, <1>3, <1>4, <1>5, <1>6, <1>7, <1>8, <1>9, <1>10, <1>11
     DEF Next, Core1, WriteSettingsIfChanged, Setter

\* Both copies, the page and the queue have their types, and the queue its
\* capacity, whatever the capacity is (sendMessage drops what does not fit).
THEOREM SettingsTypes == Spec => []TypeOK
BY InitTyped, NextTyped, PTL DEF Spec

-----------------------------------------------------------------------------
(* Agreement of the cores.                                                 *)

\* Once core 0 has handled queue, its setting of this type is the one the command
\* asks for: that is the last such command, or there is none and the setting is
\* that already.
Arrives(queue, type, command, already) ==
    \/ \E i \in 1..Len(queue) :
          /\ queue[i] = command
          /\ \A j \in (i + 1)..Len(queue) : queue[j].type # type
    \/ already /\ \A j \in 1..Len(queue) : queue[j].type # type

\* A command that is sent is the last of its type, and no other type's.
LEMMA SentArrives ==
    ASSUME NEW S, NEW queue \in Seq(S), NEW c \in S, NEW already
    PROVE  Arrives(Append(queue, c), c.type, c, already)
<1>1. /\ Len(Append(queue, c)) = Len(queue) + 1 /\ Append(queue, c)[Len(queue) + 1] = c
      /\ Len(queue) \in Nat
  BY AppendProperties, LenProperties
<1>2. QED
  BY <1>1 DEF Arrives

LEMMA OtherArrives ==
    ASSUME NEW S, NEW queue \in Seq(S), NEW c \in S, NEW type, c.type # type, NEW command,
           NEW already, Arrives(queue, type, command, already)
    PROVE  Arrives(Append(queue, c), type, command, already)
<1> DEFINE new == Append(queue, c)
<1>1. /\ Len(new) = Len(queue) + 1 /\ new[Len(queue) + 1] = c /\ Len(queue) \in Nat
      /\ \A i \in 1..Len(queue) : new[i] = queue[i]
  BY AppendProperties, LenProperties
<1> HIDE DEF new
<1>2. CASE \E i \in 1..Len(queue) :
              queue[i] = command /\ \A j \in (i + 1)..Len(queue) : queue[j].type # type
  <2>1. PICK i \in 1..Len(queue) :
              queue[i] = command /\ \A j \in (i + 1)..Len(queue) : queue[j].type # type
    BY <1>2
  <2>2. new[i] = command /\ i \in 1..Len(new)
    BY <1>1, <2>1
  <2>3. \A j \in (i + 1)..Len(new) : new[j].type # type
    BY <1>1, <2>1
  <2>4. QED
    BY <2>2, <2>3 DEF Arrives, new
<1>3. CASE already /\ \A j \in 1..Len(queue) : queue[j].type # type
  <2>1. \A j \in 1..Len(new) : new[j].type # type
    BY <1>1, <1>3
  <2>2. QED
    BY <1>3, <2>1 DEF Arrives, new
<1>4. QED
  BY <1>2, <1>3 DEF Arrives

\* Core 0 takes the first command.
LEMMA HandledArrives ==
    ASSUME NEW S, NEW queue \in Seq(S), queue # <<>>, NEW type, NEW command, NEW already, NEW now,
           Arrives(queue, type, command, already),
           Head(queue) = command => now,
           Head(queue).type # type /\ already => now
    PROVE  Arrives(Tail(queue), type, command, now)
<1> DEFINE rest == Tail(queue)
<1>1. /\ Len(rest) = Len(queue) - 1 /\ Len(queue) \in Nat \ {0} /\ Head(queue) = queue[1]
      /\ \A i \in 1..Len(rest) : rest[i] = queue[i + 1]
  <2>1. Len(queue) \in Nat \ {0}
    BY EmptySeq, LenProperties
  <2>2. QED
    BY <2>1, HeadTailProperties
<1> HIDE DEF rest
<1>2. CASE \E i \in 1..Len(queue) :
              queue[i] = command /\ \A j \in (i + 1)..Len(queue) : queue[j].type # type
  <2>1. PICK i \in 1..Len(queue) :
              queue[i] = command /\ \A j \in (i + 1)..Len(queue) : queue[j].type # type
    BY <1>2
  <2>2. CASE i = 1
    <3>1. now
      BY <1>1, <2>1, <2>2
    <3>2. \A j \in 1..Len(rest) : rest[j].type # type
      BY <1>1, <2>1, <2>2
    <3>3. QED
      BY <3>1, <3>2 DEF Arrives, rest
  <2>3. CASE i # 1
    <3>1. i - 1 \in 1..Len(rest) /\ rest[i - 1] = command
      BY <1>1, <2>1, <2>3
    <3>2. \A j \in ((i - 1) + 1)..Len(rest) : rest[j].type # type
      BY <1>1, <2>1, <2>3
    <3>3. QED
      BY <3>1, <3>2 DEF Arrives, rest
  <2>4. QED
    BY <2>2, <2>3
<1>3. CASE already /\ \A j \in 1..Len(queue) : queue[j].type # type
  <2>1. now
    BY <1>1, <1>3
  <2>2. \A j \in 1..Len(rest) : rest[j].type # type
    BY <1>1, <1>3
  <2>3. QED
    BY <2>1, <2>2 DEF Arrives, rest
<1>4. QED
  BY <1>2, <1>3 DEF Arrives

\* A core 0 that has the settings now and this queue comes to have s.
Comes(queue, now, s) ==
    /\ Arrives(queue, "SET_BREW_SET_POINT", SetTarget(s.brewTemperatureTarget),
               now.brewTemperatureTarget = s.brewTemperatureTarget)
    /\ Arrives(queue, "SET_SLEEP_MODE", SetSleep(s.sleepMode), now.sleepMode = s.sleepMode)

\* The messages of a setter and of the boot change what comes as they change the
\* settings of core 1.
LEMMA TargetComes ==
    ASSUME NEW queue \in Seq(Commands), NEW now, NEW s \in Settings, NEW t \in Targets \cup {105},
           Comes(queue, now, s)
    PROVE  Comes(Append(queue, SetTarget(t)), now, [s EXCEPT !.brewTemperatureTarget = t])
<1> DEFINE c == SetTarget(t)
           new == [s EXCEPT !.brewTemperatureTarget = t]
<1>1. c \in Commands /\ c.type = "SET_BREW_SET_POINT" /\ c.type # "SET_SLEEP_MODE"
  BY DEF SetTarget, Commands
<1>2. new.brewTemperatureTarget = t /\ new.sleepMode = s.sleepMode
  BY DEF Settings
<1>3. Arrives(Append(queue, c), "SET_BREW_SET_POINT", c, now.brewTemperatureTarget = t)
  BY <1>1, SentArrives
<1>4. Arrives(Append(queue, c), "SET_SLEEP_MODE", SetSleep(s.sleepMode),
              now.sleepMode = s.sleepMode)
  BY <1>1, OtherArrives DEF Comes
<1>5. QED
  BY <1>2, <1>3, <1>4 DEF Comes

LEMMA SleepComes ==
    ASSUME NEW queue \in Seq(Commands), NEW now, NEW s \in Settings, NEW b \in BOOLEAN,
           Comes(queue, now, s)
    PROVE  Comes(Append(queue, SetSleep(b)), now, [s EXCEPT !.sleepMode = b])
<1> DEFINE c == SetSleep(b)
           new == [s EXCEPT !.sleepMode = b]
<1>1. c \in Commands /\ c.type = "SET_SLEEP_MODE" /\ c.type # "SET_BREW_SET_POINT"
  BY DEF SetSleep, Commands
<1>2. new.brewTemperatureTarget = s.brewTemperatureTarget /\ new.sleepMode = b
  BY DEF Settings
<1>3. Arrives(Append(queue, c), "SET_SLEEP_MODE", c, now.sleepMode = b)
  BY <1>1, SentArrives
<1>4. Arrives(Append(queue, c), "SET_BREW_SET_POINT", SetTarget(s.brewTemperatureTarget),
              now.brewTemperatureTarget = s.brewTemperatureTarget)
  BY <1>1, OtherArrives DEF Comes
<1>5. QED
  BY <1>2, <1>3, <1>4 DEF Comes

LEMMA AllComes ==
    ASSUME NEW queue \in Seq(Commands), NEW now, NEW s \in Settings
    PROVE  Comes(queue \o AllSettings(s), now, s)
<1> DEFINE a == SetTarget(s.brewTemperatureTarget)
           b == SetSleep(s.sleepMode)
           first == Append(queue, a)
<1>1. /\ a \in Commands /\ a.type = "SET_BREW_SET_POINT"
      /\ b \in Commands /\ b.type = "SET_SLEEP_MODE" /\ b.type # "SET_BREW_SET_POINT"
  BY DEF SetTarget, SetSleep, Commands, Settings
<1>2. Arrives(first, "SET_BREW_SET_POINT", a,
              now.brewTemperatureTarget = s.brewTemperatureTarget)
  BY <1>1, SentArrives
<1>3. AllSettings(s) = <<a, b>>
  BY DEF AllSettings
<1> HIDE DEF a, b
<1>4. first \in Seq(Commands) /\ queue \o <<a, b>> = Append(first, b)
  BY <1>1
<1> HIDE DEF first
<1>5. Arrives(Append(first, b), "SET_BREW_SET_POINT", a,
              now.brewTemperatureTarget = s.brewTemperatureTarget)
  BY <1>1, <1>2, <1>4, OtherArrives
<1>6. Arrives(Append(first, b), "SET_SLEEP_MODE", b, now.sleepMode = s.sleepMode)
  <2>1. Arrives(Append(first, b), b.type, b, now.sleepMode = s.sleepMode)
    BY <1>1, <1>4, SentArrives, Zenon
  <2>2. QED
    BY <1>1, <2>1, Zenon
<1>7. QED
  BY <1>3, <1>4, <1>5, <1>6 DEF Comes, a, b

\* Handling a command leaves what comes.
LEMMA HandledComes ==
    ASSUME TypeOK, HandleCommand, NEW s \in Settings, Comes(commandQueue, applied, s)
    PROVE  Comes(commandQueue', applied', s)
<1> DEFINE c == Head(commandQueue)
<1>1. commandQueue \in Seq(Commands) /\ commandQueue # <<>> /\ commandQueue' = Tail(commandQueue)
  BY DEF HandleCommand, TypeOK
<1>2. applied' = IF c.type = "SET_SLEEP_MODE" THEN [applied EXCEPT !.sleepMode = c.bool1]
                 ELSE [applied EXCEPT !.brewTemperatureTarget = c.float1]
  BY DEF HandleCommand
<1>3. applied \in Settings
  BY DEF TypeOK
<1>4. c \in Commands
  BY <1>1
<1> HIDE DEF c
<1>5. /\ c = SetTarget(s.brewTemperatureTarget)
           => applied'.brewTemperatureTarget = s.brewTemperatureTarget
      /\ c.type # "SET_BREW_SET_POINT" => applied'.brewTemperatureTarget = applied.brewTemperatureTarget
      /\ c = SetSleep(s.sleepMode) => applied'.sleepMode = s.sleepMode
      /\ c.type # "SET_SLEEP_MODE" => applied'.sleepMode = applied.sleepMode
  BY <1>2, <1>3, <1>4 DEF SetTarget, SetSleep, Settings, Commands
<1>6. Arrives(Tail(commandQueue), "SET_BREW_SET_POINT", SetTarget(s.brewTemperatureTarget),
              applied'.brewTemperatureTarget = s.brewTemperatureTarget)
  BY <1>1, <1>5, HandledArrives DEF Comes, c
<1>7. Arrives(Tail(commandQueue), "SET_SLEEP_MODE", SetSleep(s.sleepMode),
              applied'.sleepMode = s.sleepMode)
  BY <1>1, <1>5, HandledArrives DEF Comes, c
<1>8. QED
  BY <1>1, <1>6, <1>7 DEF Comes

\* From the first assignment of readSettings on the page has what core 1 will have.
Chosen == IF pc = "reading" THEN page[1] ELSE currentSettings

\* Core 0 comes to have what core 1 has or is about to read back.
AgreeInv ==
    /\ TypeOK /\ StoreInv
    /\ pc \in {"programmed", "reading"} => page # <<>>
    /\ pc # "boot" /\ ~lost /\ ~interrupted => Comes(commandQueue, applied, Chosen)

LEMMA FitsWhole ==
    ASSUME NEW cs, SendMessages(cs), ~lost'
    PROVE  /\ commandQueue' = commandQueue \o cs /\ ~lost
           /\ applied' = applied /\ interrupted' = interrupted
BY DEF SendMessages

\* A setter sends what it assigns.
LEMMA SetterAgrees ==
    ASSUME AgreeInv, NEW c \in Commands, NEW s \in Settings, pc = "idle", UNCHANGED <<pc, page>>,
           currentSettings' = s, SendMessages(<<c>>), TypeOK', StoreInv',
           Comes(commandQueue, applied, currentSettings)
             => Comes(Append(commandQueue, c), applied, s)
    PROVE  AgreeInv'
<1>1. ASSUME ~lost', ~interrupted'
      PROVE  Comes(commandQueue', applied', s)
  <2>1. commandQueue' = Append(commandQueue, c) /\ ~lost /\ applied' = applied /\ ~interrupted
    <3>1. /\ commandQueue' = commandQueue \o <<c>> /\ ~lost
          /\ applied' = applied /\ interrupted' = interrupted
      BY <1>1, FitsWhole
    <3>2. commandQueue \o <<c>> = Append(commandQueue, c)
      BY DEF AgreeInv, TypeOK
    <3>3. QED
      BY <1>1, <3>1, <3>2, Zenon
  <2>2. Comes(commandQueue, applied, currentSettings)
    BY <2>1 DEF AgreeInv, Chosen
  <2>3. QED
    BY <2>1, <2>2
<1>2. Chosen' = s
  BY DEF Chosen
<1>3. QED
  BY <1>1, <1>2 DEF AgreeInv

LEMMA NextAgree ==
    ASSUME FlashPresent, AgreeInv, TypeOK', StoreInv', [Next]_vars
    PROVE  AgreeInv'
<1>1. CASE Initialize
  <2>1. /\ pc' = "idle" /\ currentSettings' = Restored
        /\ SendMessages(AllSettings(Restored))
    BY <1>1 DEF Initialize
  <2>2. Restored \in Settings /\ commandQueue \in Seq(Commands)
    BY ReadTyped DEF AgreeInv, TypeOK
  <2>3. ASSUME ~lost' PROVE Comes(commandQueue', applied', Restored)
    BY <2>1, <2>2, <2>3, FitsWhole, AllComes
  <2>4. Chosen' = Restored
    BY <2>1 DEF Chosen
  <2>5. QED
    BY <2>1, <2>3, <2>4 DEF AgreeInv
<1>2. ASSUME NEW t \in Targets, SetTargetBrewTemp(t)
      PROVE  AgreeInv'
  <2>1. SetTarget(t) \in Commands /\ commandQueue \in Seq(Commands) /\ currentSettings \in Settings
    BY DEF SetTarget, Commands, AgreeInv, TypeOK
  <2>2. [currentSettings EXCEPT !.brewTemperatureTarget = t] \in Settings
    BY <2>1 DEF Settings
  <2>3. QED
    BY <1>2, <2>1, <2>2, TargetComes, SetterAgrees DEF SetTargetBrewTemp
<1>3. ASSUME NEW b \in BOOLEAN, SetSleepMode(b)
      PROVE  AgreeInv'
  <2>1. SetSleep(b) \in Commands /\ commandQueue \in Seq(Commands) /\ currentSettings \in Settings
    BY DEF SetSleep, Commands, AgreeInv, TypeOK
  <2>2. [currentSettings EXCEPT !.sleepMode = b] \in Settings
    BY <2>1 DEF Settings
  <2>3. QED
    BY <1>3, <2>1, <2>2, SleepComes, SetterAgrees DEF SetSleepMode
<1>4. CASE LeaveSleepForBrew
  BY <1>3, <1>4 DEF LeaveSleepForBrew
<1>5. CASE SectorErase \/ PageProgram
  BY <1>5 DEF SectorErase, PageProgram, managerVars, coreVars, history, AgreeInv, Chosen
<1>6. CASE ResetSettings
  <2>1. page = <<currentSettings>>
    BY <1>6 DEF ResetSettings, AgreeInv, StoreInv, PageKnown
  <2>2. Chosen' = Chosen
    BY <1>6, <2>1 DEF ResetSettings, Chosen
  <2>3. QED
    BY <1>6, <2>2 DEF ResetSettings, coreVars, history, AgreeInv
<1>7. CASE ReadBack
  <2>1. page # <<>> /\ ReadSettings = page[1]
    BY <1>7 DEF ReadBack, AgreeInv, ReadSettings, Readable
  <2>2. Chosen' = Chosen
    BY <1>7, <2>1 DEF ReadBack, Chosen
  <2>3. QED
    BY <1>7, <2>2 DEF ReadBack, coreVars, history, AgreeInv
<1>8. CASE HandleCommand
  <2>1. UNCHANGED <<pc, page, managerVars, history>>
    BY <1>8 DEF HandleCommand
  <2>2. Chosen' = Chosen
    BY <2>1 DEF Chosen, managerVars
  <2>3. pc # "boot" => Chosen \in Settings
    BY DEF AgreeInv, TypeOK, Chosen
  <2>4. QED
    BY <1>8, <2>1, <2>2, <2>3, HandledComes DEF AgreeInv, history
<1>9. CASE RelaunchCore1
  BY <1>9 DEF RelaunchCore1, managerVars, coreVars, AgreeInv, Chosen, TypeOK
<1>10. ASSUME NEW t \in Targets, RelaunchInSetter(t)
       PROVE  AgreeInv'
  BY <1>10 DEF RelaunchInSetter, AgreeInv
<1>11. ASSUME NEW c \in Causes, Restart(c)
       PROVE  AgreeInv'
  BY <1>11 DEF Restart, AgreeInv
<1>12. CASE UNCHANGED vars
  BY <1>12 DEF vars, managerVars, coreVars, history, AgreeInv, Chosen
<1>13. QED
  BY <1>1, <1>2, <1>3, <1>4, <1>5, <1>6, <1>7, <1>8, <1>9, <1>10, <1>11, <1>12
     DEF Next, Core1, WriteSettingsIfChanged, Setter

\* With an empty queue what comes is there.
LEMMA ComeMeansAgree == AgreeInv => CoresAgree
<1> SUFFICES ASSUME AgreeInv, pc = "idle", commandQueue = <<>>, ~lost, ~interrupted
             PROVE  applied = currentSettings
  BY DEF CoresAgree
<1>1. Comes(<<>>, applied, currentSettings)
  BY DEF AgreeInv, Chosen
<1>2. /\ applied.brewTemperatureTarget = currentSettings.brewTemperatureTarget
      /\ applied.sleepMode = currentSettings.sleepMode
  BY <1>1 DEF Comes, Arrives
<1>3. applied \in Settings /\ currentSettings \in Settings
  BY DEF AgreeInv, TypeOK
<1>4. QED
  BY <1>2, <1>3 DEF Settings

\* With a flash chip the cores agree whenever core 0 has handled its commands, for
\* queues of every capacity and any sequence of setters, writes and restarts in which
\* no command was lost and core 1 was not reset at work.  Without one, reading back
\* returns core 1 to the defaults and tells core 0 nothing.
THEOREM CoresComeToAgree == ASSUME FlashPresent PROVE Spec => []CoresAgree
<1>1. Init => AgreeInv
  BY InitTyped, InitStoreInv DEF Init, AgreeInv
<1>2. AgreeInv /\ [Next]_vars => AgreeInv'
  BY NextAgree, NextTyped, NextStoreInv DEF AgreeInv
<1>3. QED
  BY <1>1, <1>2, ComeMeansAgree, PTL DEF Spec

-----------------------------------------------------------------------------
(* The settings are saved in the end.                                      *)

\* The guard of Core1: between writes core 1 has something to do when the settings
\* are not the last read.
Unsaved  == pc = "idle" /\ currentSettings # lastReadSettings
Core1Can == pc # "idle" \/ Unsaved

\* WF_vars(Core1), with this guard where the definition has ENABLED <<Core1>>_vars.
Core1GoesOn == []<>~Core1Can \/ []<><<Core1>>_vars

Saved == pc = "idle" /\ currentSettings = lastReadSettings

\* Core 1 has nothing in mind but what it read from a page, unless it was reset at work.
SaveInv ==
    /\ TypeOK /\ StoreInv
    /\ pc = "boot" => lastReadSettings = NeverRead
    /\ pc = "idle" /\ ~interrupted /\ page = <<>> => lastReadSettings = NeverRead
    /\ pc = "reading" => page # <<>>

LEMMA InitSaveInv == Init => SaveInv
BY InitTyped, InitStoreInv DEF Init, SaveInv

LEMMA NextSaveInv ==
    ASSUME FlashPresent, SaveInv, [Next]_vars
    PROVE  SaveInv'
<1>1. TypeOK' /\ StoreInv'
  BY NextTyped, NextStoreInv DEF SaveInv
<1>2. ASSUME Setter PROVE SaveInv'
  BY <1>1, <1>2 DEF Setter, LeaveSleepForBrew, SetTargetBrewTemp, SetSleepMode, SendMessages,
                    SaveInv
<1>3. CASE Initialize
  BY <1>1, <1>3 DEF Initialize, SendMessages, LastRead, Readable, SaveInv
<1>4. CASE SectorErase \/ PageProgram \/ ReadBack
  BY <1>1, <1>4 DEF SectorErase, PageProgram, ReadBack, SaveInv
<1>5. CASE ResetSettings
  <2>1. page # <<>>
    BY <1>5 DEF ResetSettings, SaveInv, StoreInv, PageKnown
  <2>2. QED
    BY <1>1, <1>5, <2>1 DEF ResetSettings, SaveInv
<1>6. CASE HandleCommand
  BY <1>1, <1>6 DEF HandleCommand, managerVars, history, SaveInv
<1>7. CASE RelaunchCore1
  BY <1>1, <1>7 DEF RelaunchCore1, managerVars, SaveInv, TypeOK
<1>8. ASSUME NEW t \in Targets, RelaunchInSetter(t)
      PROVE  SaveInv'
  BY <1>1, <1>8 DEF RelaunchInSetter, SaveInv
<1>9. ASSUME NEW c \in Causes, Restart(c)
      PROVE  SaveInv'
  BY <1>1, <1>9 DEF Restart, SaveInv
<1>10. CASE UNCHANGED vars
  BY <1>1, <1>10 DEF vars, managerVars, history, SaveInv
<1>11. QED
  BY <1>2, <1>3, <1>4, <1>5, <1>6, <1>7, <1>8, <1>9, <1>10
     DEF Next, Core1, WriteSettingsIfChanged

LEMMA OnlyCore1Moves ==
    ASSUME HandleCommand \/ UNCHANGED vars
    PROVE  UNCHANGED <<pc, page, managerVars, interrupted>>
BY DEF HandleCommand, vars, history

\* No choice of settings looks like the initial lastReadSettings, so that a page is
\* written before anything counts as saved.
LEMMA SavedIsKept ==
    ASSUME FlashPresent, SaveInv, ~interrupted, Saved
    PROVE  pc = "idle" /\ ReadSettings = currentSettings
<1>1. currentSettings # NeverRead
  BY SettingsManagerAssumption DEF SaveInv, TypeOK, Settings, NeverRead
<1>2. page # <<>>
  BY <1>1 DEF Saved, SaveInv
<1>3. QED
  BY <1>2 DEF Saved, SaveInv, StoreInv, PageKnown, Readable, ReadSettings

\* EventuallySaved with a flash chip, for any targets and queue: from wherever core 1
\* is, setting up, erasing, programming and reading back follow one another and end
\* with what the page holds.
THEOREM SavedInTheEnd == ASSUME FlashPresent PROVE Spec /\ Core1GoesOn => EventuallySaved
<1> DEFINE Kept == pc = "idle" /\ ReadSettings = currentSettings
<1> DEFINE Calm == SaveInv /\ ~interrupted
<1> USE DEF Core1, WriteSettingsIfChanged, Initialize, SectorErase, PageProgram,
            ResetSettings, ReadBack
<1>1. Calm /\ [Core1 \/ HandleCommand]_vars /\ pc = "boot"
        => (pc = "boot" \/ Unsaved \/ Saved)'
  BY OnlyCore1Moves DEF Unsaved, Saved
<1>2. Calm /\ [Core1 \/ HandleCommand]_vars /\ Unsaved => (Unsaved \/ pc = "erased")'
  BY OnlyCore1Moves DEF Unsaved, managerVars
<1>3. Calm /\ [Core1 \/ HandleCommand]_vars /\ pc = "erased"
        => (pc = "erased" \/ pc = "programmed")'
  BY OnlyCore1Moves
<1>4. Calm /\ [Core1 \/ HandleCommand]_vars /\ pc = "programmed"
        => (pc = "programmed" \/ pc = "reading")'
  BY OnlyCore1Moves
<1>5. Calm /\ [Core1 \/ HandleCommand]_vars /\ pc = "reading" => (pc = "reading" \/ Saved)'
  BY OnlyCore1Moves DEF Saved, SaveInv, ReadSettings, LastRead, Readable
<1>6. Calm /\ [Core1 \/ HandleCommand]_vars /\ Saved => Saved'
  BY OnlyCore1Moves DEF Saved, managerVars
<1>7. <<Core1>>_vars =>
        /\ pc = "boot" => ~(pc = "boot")'
        /\ Unsaved => ~Unsaved'
        /\ pc = "erased" => ~(pc = "erased")'
        /\ pc = "programmed" => ~(pc = "programmed")'
        /\ pc = "reading" => ~(pc = "reading")'
  BY DEF Unsaved
<1>8. Calm => \/ pc = "boot" \/ Unsaved \/ pc = "erased" \/ pc = "programmed"
              \/ pc = "reading" \/ Saved
  BY DEF SaveInv, TypeOK, Unsaved, Saved
<1>9. pc = "boot" \/ Unsaved \/ pc = "erased" \/ pc = "programmed" \/ pc = "reading"
        => Core1Can
  BY DEF Core1Can
<1>10. Calm /\ Saved => Kept
  BY SavedIsKept
<1>11. Spec => []SaveInv
  BY InitSaveInv, NextSaveInv, PTL DEF Spec
<1>12. QED
  BY <1>1, <1>2, <1>3, <1>4, <1>5, <1>6, <1>7, <1>8, <1>9, <1>10, <1>11, PTL
     DEF Core1GoesOn, EventuallySaved

=============================================================================
