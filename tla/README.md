# Formal models of the Open LCC firmware

This directory holds TLA+ models of the RP2040 firmware of the Open LCC for the
Lelit Bianca, TLC configurations that check them on small instances, and proofs
that TLAPS checks for every instance. Source paths are relative to the root of
the repository; `Core0/` and `Core1/` stand for `src/src/Controller/Core0/` and
`.../Core1/`.

## The system

The RP2040 sits between the control board of the machine (relays, valves,
probes) and an ESP32 (display, network). It runs two loops, one on each core.

| Part | State | Operations | Talks to |
|---|---|---|---|
| System controller, core 0 (`Core0/SystemController.*`) | bail state and reason, run state, quarantine and heat-up timers, latches, slot queue, flow mode, settings, last packet in each direction | one turn of `loop()` every 100 ms: send, read, heat-up automation, commands, control, status | control board (UART), command queue, status queue |
| LCC protocol (`Core0/Protocol/lcc_protocol.*`, `utils/checksum.cpp`) | none | encode, decode, validate the frame to the board | system controller |
| Control board protocol (`Core0/Protocol/control_board_protocol.*`) | none | validate and decode the frame from the board; temperatures from ADC values | system controller |
| Timed latch (`Core0/Util/TimedLatch.*`) | value, since when the input disagrees | `set`, `get` | system controller |
| Boiler controllers (`Core0/Util/{Hysteresis,Hybrid,PID}Controller.*`, `utils/MovingAverage.h`) | hysteresis direction, integral, averages | `getControlSignal`, `updateSetPoint` | system controller |
| Inter-core queues (`utils/PicoQueue.h`) | two bounded queues of 100 | add and remove, blocking or not | both cores |
| Main program (`smart_lcc.cpp`) | core-1 reboot timer, watchdog, boot timer | `main0`, `main1`, launch and relaunch of core 1 | everything |
| Settings manager and flash (`Core1/SettingsManager.*`, `Core1/SettingsFlash.*`) | current and last read settings, one flash page | setters (each sends a command), read at boot, write when changed | command queue, SPI flash |
| Automations (`Core1/Automations.*`, `Routine/*`) | routine, step, step and brew timers, auto-sleep timer | edges of the brew switch seen in status messages, step conditions, entry commands | status queue, command queue, settings manager |
| ESP32 link (`Core1/EspFirmware.*`, `esp-protocol.h`, `lib/Ring-Buffer`) | ring buffer filled by an interrupt | receive commands, send status and wait for the acknowledgement | ESP32 (UART), settings manager, automations, command queue |
| Serial bootloader (`src/lib/rp2040-serial-bootloader/main.c`) | flash sectors and image header, watchdog scratch registers | check the image and jump to it, or take commands of a host: erase, write, seal, go, reboot | flash, ESP32 as the host of an update |
| Boot helpers (`double_tap.cpp`) | token in RAM | armed for 500 ms at every start | reset button, USB boot mode |
| System status, thermocouples, SD card, multicore support, hex and CRC utilities, other vendored libraries | display values or none | I/O | |

What is hard here: the two cores interleave through two bounded queues; the
board answers late, wrongly or not at all; the same cycle both judges a packet
and acts on one, with state (latches, slots, brew start, timers) that outlives
bails; commands arrive between any two steps; core 1 and the chip can be
restarted in the middle of anything, core 1 also while it holds a lock that core
0 needs; settings survive restarts in one flash page; frames of the ESP32 arrive
in pieces, and while core 1 waits for something else; power may fail in the
middle of an update. `PROJECT.json` lists each such hazard at its line with the properties
that cover it.

What makes each part correct:

* system controller: no relay is closed while not running, never two at once;
  a bail ends by itself only after its quarantine and then leaves nothing behind,
  and what a command of core 1 changes of that is bounded; water decisions follow
  the probes for as long as the latches promise, bails or not; every bail and
  heat-up ends;
* LCC protocol: decoding inverts encoding; the self-check accepts exactly the
  permitted combinations;
* relay scheduler: a period has exactly its length, nobody gets more than the
  signal asked for;
* settings: both cores come to have the same settings, the current ones come to
  be saved, and a saved choice is not put at risk by restarts;
* automations: a routine belongs to one brew and ends with it, the flow mode is
  that of its step, the machine sleeps neither early nor never;
* boiler controllers: a boiler that stays too hot is off, one that stays too cold
  is heated, however often the modes changed before;
* ESP32 link: a command is handled at most once for each sending and acknowledged
  only when it was, which means executed unless it is a setting or of a type core 1
  does not know; the link finds the beginning of a frame again;
* main program: core 0 never waits for core 1, a core 1 that hangs is reset, and
  what the reset leaves behind, or an exception of core 0, ends in a restart of the
  chip;
* bootloader: no interrupted update makes the machine unusable.

## Modules

| Module | What it models |
|---|---|
| `LccProtocol` | the frame to the board; a shift register is the set of its 1 bits |
| `TimedLatch` | the latch as a pure function; a time stamp is its saturated age |
| `SsrScheduler` | power-sharing and the filling of the slot queue |
| `SsrPeriods` | whole periods of slots under arbitrary control signals |
| `SystemController` | all of core 0's loop, with core 1 and the board as environment |
| `SafetyInterlock` | abstract specification: what the loop promises about relays and bails |
| `SystemControllerHistory` | history variables, the properties that need them, the refinement |
| `MCSystemController`, `MCSystemControllerHistory` | inputs of the instances TLC checks |
| `SettingsManager` | core 1's settings, the flash page, restarts, the commands to core 0 |
| `SettingsStore` | abstract specification: what settings promise across restarts |
| `Automations` | the loop of core 1: statuses, messages of the ESP32, auto sleep, brew routine; core 0 reduced to what they see and cause |
| `BoilerControl` | from sensor readings to slots: averages, hysteresis, the switch between PID and hysteresis, over `SsrPeriods` |
| `EspLink` | ring buffer, interrupt, framing, timeouts, commands and their answers, statuses and their acknowledgement |
| `CommandLink` | abstract specification: what the ESP32 may rely on |
| `Bootloader` | flash, update commands, start of the application |
| `Firmware` | `Bootloader` and both cores as far as they can stop each other: queue locks, reset of core 1, watchdog |
| `MCSettingsManager`, `MCAutomations`, `MCBoilerControl`, `MCEspLink`, `MCFirmware` | the instances for their runs |
| `LccProtocolProofs`, `SystemControllerProofs`, `BoilerControlProofs`, `SettingsManagerProofs`, `AutomationsProofs`, `EspLinkProofs`, `SystemControllerHistoryProofs`, `FirmwareProofs` | theorems and their proofs |

`SystemController` has all of core 0 and takes core 1 as its environment; the
modules of core 1 have their component in full and of core 0 only what handles
their commands and reports. They meet in the queues. `Firmware` composes the two
cores and the bootloader: it has the control of every queue operation, lock and
wait, and no contents but COMMAND_BEGIN. `BoilerControl` opens what
`SystemController` takes as arbitrary, the two control signals, and
`BoilersImplementPeriods` shows that it stays within that abstraction.

### Correspondence with the code

One turn of `loop()` is cut into steps where the other core or the board can
make a difference: `pc` goes through `loop` (send the frame), `read` (the
answer and everything decided from it), `commands` (one step per command; the
queue is read again before each), `control` (latches, water, slots, status),
`sleep`. Before COMMAND_BEGIN it is `loop`, `earlyCommands`. Each action is a
whole branch of the code: `ReadTimeout`, `ReadInvalid`, `ReadBailed` and
`ReadRunning` are the four ways through lines 53-88 of `SystemController.cpp`;
the disjuncts of `ReadRunning` are the branches of
`handleRunningStateAutomations`; each command is one action, with
`FinishCommands` for the `updateControllerSettings()` that ends
`handleCommands`; `ControlRunning` is all of `handleControlBoardPacket` and of
the status message. `PROJECT.json` gives the lines of every definition.

Abstractions:

* time passes in `Sleep` only, in ticks of one 100 ms cycle; a stored time
  stamp is represented by its age, saturated just above the threshold it is
  compared with (ages above it are indistinguishable to the code);
* the boilers' control signals are any member of the range the controllers can
  return, all or nothing for the hysteresis. A set point of 0 means "off": the
  hysteresis asks for no heat as long as the average stays above 0.5 C, which
  is an assumption about water in a kitchen;
* a temperature is `cold` (below 65 C), `warm` or `hot` (above 128 C);
* the outcome of a read is `timeout`, `corrupt`, `overheat` or `valid`; on a
  timeout the code also validates the incomplete packet, which changes nothing
  more because the bail and its reason are already set;
* the initial control-board packet is arbitrary: the member has no initialiser;
* an uncaught `bad_optional_access` stops core 0 (`panicked`) and the watchdog
  restarts the chip;
* PID parameters, bail counter and display values are left out.

`SettingsManager` cuts `writeToFlash` at the three points where a restart
matters: page erased, page programmed, current settings reset for the read-back.
From its first moment an erasure leaves the page unreadable, and so does an
unfinished programming. The page is readable (with its settings) or not: bytes,
version and CRC are behind that. One numeric setting, the brew target, and the
sleep mode stand for the eight settings, whose setters are all alike. The
variables `lost` and `interrupted` are history: since the chip restarted a command
was dropped by a full queue, or core 1 was reset between two steps of a write or
of a setter.

`Automations` cuts a turn of `main1` into `drain` (all statuses, the last one
counts), `esp` (at most one message), `edges` (`Automations::loop` up to the
step) and `steps`. Timers are ages or remaining times in ticks; a tick may pass
at any moment. `quiet` and `overridden` are history variables: the time since the
last activity, and whether the user has set a flow mode since the last entry
command. A new auto sleep time takes no room in the command queue, unlike in the
code: core 0 does nothing with that command, and others fill the queue as well. That core 1 blocks in `addBlocking` is a guard. `EspLoop` may pick
another message while one is blocked; nothing distinguishes the two.

`BoilerControl` runs one action per control cycle, `Cycle`, and `ChangeMode`
for whatever changes set points between two cycles. Temperatures are in half
degrees, so that every delta is an integer, and averages are compared as sums.
`brewHeld` and `serviceHeld` are history: for how many cycles the reading, the
settings and the run state have been the same.

`EspLink` cuts a frame into four pieces of equal length, since the code reads
headers and bodies, and asks of them only what is in a piece. What core 1 does
with the bytes it reads depends on whose piece they are: a header is the first
two pieces of one frame, a body that passes the checksum the last two of one
command. A header with a wrong length field is treated as one that was torn in
the middle. Of the frames that are not commands the acknowledgement is modelled;
pings and other types end in the same `consumerClear()`. The wait for pieces is
one step when they are there, and may end with its timeout at any time before. An
id is used again when nothing of its last sending is left, which stands for the
random ids of the code. What a command does is in other modules; here it matters only
whether core 0 comes to know of it (`Outcomes`): settings are sent with a `tryAdd`
whose result nobody looks at, so they may be kept on core 1 only, types without a case
are ignored, all others are executed. `fate`, `answer` and `torn` are history: what became of
the last sending of each command.

`Firmware` takes the time core 0 waits for the board as its tick. Everything the
cores compute is instantaneous, so `Tick` needs both cores to wait for something
(`Core0Waits`, `Core1Waits`); the waits of core 1 for devices may take any
number of ticks or never end. An operation on a queue is two steps, taking the
spin lock and the operation with the release, so that a reset of core 1 can come
between them. `timerLost` says that sleep mode has emptied the timer of the second
heat-up stage; a core 0 that reads it then is `panicked` and waits for the watchdog.
The stage itself is in `SystemController`, so here the timer may be lost with any
command, and found again at any read. `Bootloader` knows for each sector of flash whose it is: blank, of
one version of the application, or junk, and the image is as long as `Sectors`.

Definitions commented "Slip" are plausible bugs. Nothing uses them: each one
replaces the definition below it in an experiment that shows that some property
notices.

## Runs

| Run | Question | Bounds |
|---|---|---|
| `MCBail` | bails: silence after a timeout, quarantine, reset of reason and timer, the abstract interlock; all of it across a relaunch of core 1 | two launches of core 1, a forced hard bail, quarantine 2 ticks, cycles of 1-2 ticks, queues of 2 commands and 1 status |
| `MCWater` | latches, brews and filling across bails and flow-mode changes | thresholds 2 and 1 ticks (two different ones), cycles of 1-2 ticks |
| `MCSlots` | stale slots: eco mode, sleep mode or the first heat-up stage in the middle of a period | periods of 2 slots |
| `MCCommands` | what ends a hard bail, between any two steps of bails, heat-up and crashes of core 0 | two launches of core 1; a forced hard bail, sleep mode and commands that change nothing |
| `MCHeatup` | liveness: soft bail and heat-up end, whenever a COMMAND_UNBAIL starts the heat-up over | one launch of core 1, one tick per stage, fairness |
| `MCBoilerControl` | overdriven boilers and wasted slots; do hot boilers rest and cold ones heat, across changes of mode | periods of 4 slots, averages of 2 readings; readings below, at and above the set points |
| `MCSettingsSaved` | do the cores agree on the settings; restarts and resets in the middle of a write; are settings saved in the end | queue of 3 commands (a boot sends 2), two targets, one reset of core 1, any number of restarts of the chip, fairness |
| `MCAutomations` | routine and flow mode over full queues; does the machine sleep early; liveness of routine and auto sleep | queues of 1, one tick per brew timer, auto sleep off or after 1 tick, one reset of core 1, fairness |
| `MCEspLink` | is every command handled and answered as promised; does core 1 come back to its loop, does the link recover | a setting and a command of a type without a case, sent any number of times, ring buffer of 6 pieces (a command has 4), any number of resets, fairness |
| `MCFirmware` | who can stop whom; does everything come back; does an update survive power failures | queues of 3, two versions of two sectors; watchdog 4, reset timers 4 and 10 ticks, fairness |
| `MCOverheat`, `MCSleepInStage2` | statements of the documentation that the code does not keep | |

Why the bounds suffice: the code compares every timer with one threshold, so
only "not yet" and "over" exist; a threshold of 1 or 2 ticks has both, and a
cycle of 2 ticks passes a threshold without meeting it. A period of 2
slots is filled, half used and used up; in `MCBoilerControl` a period of 4 has a
three-quarters share that differs from both signals, and the theorems cover the
real 25. A window of 2 readings is mixed or not, and the bound `Window + Slots -
1` of `HotBoilersRest` is tight: with one cycle less TLC finds a heated hot
boiler. The queues matter only when empty, non-empty or
full, which a capacity of 1 has; commands still arrive between any two steps,
and several in one `handleCommands`. `MaxLaunches` bounds how often core 1
starts: twice in `MCBail` and `MCCommands`, where the second COMMAND_BEGIN comes in
the middle of anything, once where the question has nothing to do with it; the
theorems have no such bound. `MCHeatup` has the command UNBAIL and `MCCommands`
TRIGGER_FIRST_RUN: the code handles them although nothing sends them. In `MCSettingsSaved` the queue of 3 is full
after a boot and one setter, so commands are lost as well as delivered. The ring
buffer of `MCEspLink` is neither a multiple of a frame nor large enough for two,
so it overflows in the middle of one. Its commands have all three outcomes, since a
setting may also be executed; an ordinary command differs from it only in never being
kept. `EspLinkProofs` covers the real 1024 bytes.
In `MCFirmware` the watchdog lasts longer than the longest sleep and shorter than
the reset timer of core 1, as in the code, and a queue of 3 can be full, be emptied
and fill again between two resets. `CommandsPerTick` is the one bound that stands
for a rate: a command of the ESP32 takes 6 ms on its line, so a cycle of 100 ms
has a handful, not an endless supply. That `handleCommands` comes to an end, which has
no bound of its own, is thereby assumed and not shown. No run disables the deadlock check.

Each run uses the commands and readings its question needs; between them every
action is taken. In the real program the cases combine; the theorems are
proved for all of them together.

`SafetyInterlock` knows five things: mode, closed relays, for how long the board
has answered without a gap, how many orders of core 1 (a COMMAND_BEGIN or
COMMAND_UNBAIL) are still to be obeyed, and whether the time of a bail that an order
ended still counts. `ImplementsInterlock` maps the internal state, the last frame, the
command queue and the history variables `quietFor` and `leftover` to them. It says,
across the whole loop, that frames sent outside RUNNING close no relay, that no frame
closes two, that a hard bail ends with a restart of the chip or one order, and that a
soft bail ends only by an order or after a full quarantine without a missed answer.
The exception is what the code does with a relaunch: `case COMMAND_BEGIN` sets RUNNING
out of any bail and leaves its reason and its timer, so that the next quarantine, and
only the next one, may be shorter or none at all. It allows a rejected packet to count
as an answer because the code does (see `MCOverheat`). `TimeoutSilences`,
`BailIsForgotten` and `HeatsOnlyOutOfBail` name the same commands as their only
exceptions: `resumed` is true from such a command to the next answer, and `leftover`
has what a COMMAND_BEGIN in a bail has left and nothing has cleared since.

### Fairness

`FairSpec` asks weak fairness of core 0 as a whole and of the watchdog reset.
Core 0 runs nothing but this loop and never blocks for ever: reads time out,
`removeBlocking` follows a successful test by the only consumer, the status is
added only to a queue that is not full. In that module nothing is asked of core 1 or of the
board; the premises of the liveness properties state what they must do
(eventually valid answers only, no more commands). That commands stop is a
real premise: `handleCommands` drains the queue without a bound.

`SettingsManager` asks weak fairness of core 1's loop, which calls
`writeSettingsIfChanged` every 250 ms, and of core 0 handling commands;
`Automations` of both loops and of time. Their premises (`LeftAlone`, or nothing
but writes and commands from some time on) say that users and resets leave the
machine alone; without them core 1 could keep the command queue of core 0 busy
for ever, and then core 0 would report nothing.

`EspLink` asks that core 1 goes on where it can and its timeouts end its waits,
that a piece on the line arrives or is lost, and that main0 resets a core 1 that a
failed allocation has stopped: its statuses fill the queue in time. Nothing is
asked of the ESP32. `Firmware` asks weak fairness of core 1 and of the watchdog,
and strong fairness of core 0 and of time: core 0 may find a lock taken again and
again, but the other core holds it for some instructions only, and a spinning core
obtains it sooner or later. A core 1 that is `stuck` is asked nothing.
`UpdateRecovers` has its own premises, besides addresses and lengths within the flash
(the bootloader checks them only in part, and the model has sectors): from some time on no power failure, and a
host that knows what is in the flash and goes on as long as there is something to
do; a host that only repeats what it did is not enough, because a sector must be
erased before it can be written again.

### Where code and documentation disagree

* `MCOverheat`: two seconds of packets that are rejected because a boiler is
  too hot end the soft bail, and the rest of that cycle heats from an older
  packet. `src/README.md:55` promises that temperatures never exceed safe limits.
* `MCSleepInStage2`: sleep mode in the second heat-up stage empties the stage's
  timer, and the next packet reads it.

Smaller ones were met on the way and are not kept as runs: slots queued before a
bail are used up in the first heat-up stage (`types.h:52` says the service boiler
does not run; `ServiceSlotsExpire` bounds it by one period); the comment above
the power-sharing describes a proportional rule (`SystemController.cpp:223`), the
code gives the brew boiler three quarters or all; a watchdog restart between
erasing and programming loses a saved sleep mode (`SettingsManager.cpp:126`),
which the abstract store allows only for unsaved choices; a stop and a start
in one batch of statuses are not seen (`Automations.h:69`); the ESP32 gets an
acknowledgement for a setting that core 0 was never told of, its queue being full
(`SettingsManager.cpp:36`), and for ESP_SYSTEM_COMMAND_CANCEL_ROUTINE, which has no case
(`EspFirmware.cpp:360`); a relaunch of core 1 ends any bail, a forced hard one included
(`SystemController.cpp:345`); and step 0 of every
routine is created without entry commands (`Automations.cpp:61`), so that a brew
stopped in step 3 leaves the pump off for the brews after it (`Automations.h:68`:
"Commands should reset machine").

## Proofs

All theorems hold for every value of the constants under the named assumptions
of their modules (`SystemControllerAssumption`, `SlotsAssumption`,
`BoilerControlAssumption`, `SettingsManagerAssumption`, `AutomationsAssumption`,
`EspLinkAssumption`, `BootloaderAssumption`, `FirmwareAssumption`), which TLC
evaluates on the runs.

* `TypeCorrect`: `TypeOK` is inductive; one step per action. It includes both
  queue bounds and the length of the slot queue.
* `SelfChecksSilent`: `SelfChecksNeverFire` is not inductive: whether the next
  frame passes the self-check depends on the packet computed a cycle before.
  `LccSound` says so of the packet (not both relays; inlet only with the pump),
  lemmas `SafePacket` and `ConvertType` and theorem `ValidFrames` of
  `LccProtocolProofs` carry it to the frame; and a refilled queue is never
  empty because a period has at least one slot.
* `TimeoutSilenced`, `BailForgotten`, `HeatsHotOutOfBail`: from `BailInv`, which
  follows an unanswered or rejected exchange from the read to the next frame
  (`AnswerInv`: core 0 is bailed, and while it is its frames are the safe one, or a command
  has set `resumed` since) and says of reason and timer that a bail has its own and that
  without a bail they are `leftover`. No assumption on launches. `HeatsHotOutOfBail`
  says of the violation `MCOverheat` that a frame heats after a packet above the limit
  only out of a bail: the run state is undetermined, as `unbail()` leaves it, or a
  command has ended the bail since; never in a normal run or a heat-up.
* `HardBailHeld`: an action property, from the disjuncts of `Next`; no
  assumption on launches.
* `InletClosed`: the frame in `wire` is the encoding of the packet in `lcc`,
  which never combines a running brew with the inlet.
* `FillingNeverStale`, `NeverDry`, `RequestsGranted`: from `HistoryInv`, which
  relates each latch to the report it is fed with (`Follows`): they agree, or the
  latch has timed the disagreement for as long as the report has lasted.
* `ServiceSlotsGone`: the queue shrinks by a slot in each cycle and is refilled
  without service slots while the service boiler is off, so that a service slot at
  place i leaves within the period (`SlotsInv`). `ServiceUnwanted` is about settings and
  run state, the signals come from the set points: the lemma `SetPointsKept` relates
  the two.
* `InterlockImplemented`: refinement of `SafetyInterlock`. A relay switched on is a
  step of the interlock only from a frame that passed the self-check
  (`SelfCheckInv`), a soft bail ends as it promises only if its timer is no older than
  the quiet time the interlock counts, or is one that a COMMAND_BEGIN has left
  (`QuietInv`), and each command that ends a bail is one order less in the queue
  (`OrdersHandled`: the tail of a queue has one order less than the queue, or as many).
* `RoundTrip`, `ValidFrames`: the codec, over all 128 parsed packets.
* `StoreImplemented`: `SettingsManager` implements `SettingsStore`, resets of
  core 1 included. A step is a step of the store or a stutter; that an erasure
  endangers nothing saved needs the invariant `StoreInv`: an idle core 1 that was
  not reset at work remembers a readable page correctly, and a page just
  programmed holds the current settings. A reset between programming and reading
  back leaves a stale memory of the page; the store has the step `Interrupt` for
  it, after which a saved choice may be at risk until the chip restarts.
* `RoutineBelongsToBrew`: `RoutineOnlyWhileBrewing`, from `RoutineInv`: the clock
  of a brew that core 1 has seen runs, and a routine is looked at only when the
  last status has just been taken over.
* `RoutineSetsFlow`: `FlowFollowsStep` says nothing while a flow command is on its
  way. `FlowInv` does: the last flow command in the queue asks for the mode of the
  step, or there is none and the mode is that one (`LeadsTo`). The lemmas before it
  show what appending sleep commands or a flow command and taking the head do to it.
* `AutoSleepIsNeverEarly`: from `SleepInv`: a planned sleep has at least the rest of
  the auto sleep time before it, and outside of the edges the two copies of that
  time agree.
* `SettingsTypes`, `AutomationsTypes`: type correctness with the queue bounds.
* `NobodyOverdriven`, `CompetitionUsesPeriods`: both are about `given`, what the
  period in course has handed out so far, and say nothing of what is still queued.
  `PeriodInv` does: queue and `given` together are the period that `FilledQueue`
  makes of the two signals, so that what is left can be counted. The lemmas before
  it count the slots of each kind in a filled queue and in its tails.
* `BoilersImplementPeriods`, and from it `BoilersNeverOverdriven`: every signal
  the controllers return is one that `SsrPeriods` allows; a change of mode
  leaves the period alone. `BoilerTypes` bounds the averages.
* `LinkTypes`: type correctness of the link, with the bound of the ring buffer.
* `LinkImplementsCommandLink`: refinement of `CommandLink`. A step that executes,
  acknowledges or refuses is one of the abstract link only if the command it names
  was sent, whole and not yet handled. `LinkInv` says why: ring buffer and line
  together are one stream of frames in order (`Ordered`), each without a gap unless
  it was torn (`Unbroken`), only the last one unfinished (`OneFrame`); a command
  with its beginning in the stream is not handled yet (`Unread`); and what core 1
  holds agrees with the fate of the command (`Handling`).
* `WatchdogExplained`: as long as no lock is lost with a reset of core 1 and core 0 has
  not thrown, every wait of core 0 ends before the watchdog does. `LocksInv` says who may hold a lock and
  at which step, `FedInv` how much of the watchdog is left at each step of a turn.
* `WatchdogIsNoTap`, `FirmwareTypes`: a restart by the watchdog does not read as a
  double tap of the reset button, since the bootloader takes its magic words back
  before it starts the application (`RunningDisarmed`); type correctness.

* `HotRest`, `ColdHeat`: the controllers see the average of a window, so both need
  that a window filled with one reading has that reading as its average, for windows
  of every length (`SumBounds`: a sum lies between the length times the smallest
  and the length times the largest element). The sum is a fold, and the community
  modules give no facts about it here; `FoldExists` and `SumEquation` derive its
  defining equation, and `NaturalsFrom` is induction over the naturals for a set
  instead of a predicate, which the provers cannot instantiate. The invariant
  `SettledInv` says what the properties leave out: a boiler whose reading had lasted
  for a window when the period in course began has a signal of 0 above its band and
  of all it may ask for below.
* `CoresComeToAgree`: `AgreeInv` says to what settings the commands in the queue will
  bring core 0 (`Comes`: the last target and the last sleep mode in the queue, else
  those applied already) and that these are the ones core 1 has chosen, also while a
  write has reset `currentSettings`. It assumes `FlashPresent`: without a flash chip
  reading back returns core 1 to the defaults and tells core 0 nothing, and the
  property is false. `StoreImplemented` and the types need no chip.
* `SavedInTheEnd`, `LoopIsReached`: two liveness properties, with fairness written
  out. Core 1's turns consist of a bounded number of stages (set-up, erase, program,
  read back; the stages of a command or of a status exchange), each of which is left
  for the next, so that propositional temporal logic is enough. The prover has no
  rules for ENABLED: the theorems name the guard instead (`Core1Can`, `TimeoutCan`;
  since every step of core 1 changes `pc`, the guard is when a step is possible) and
  state weak fairness with it (`Core1GoesOn`, `WaitsEnd`, `PanicsEnd`). What
  `SavedInTheEnd` needs of the state is `SaveInv`: before the first page is written
  the last settings read are ones nobody can choose. `LoopIsReached` needs that the
  ring buffer only grows while core 1 waits, so that a wait that could end still can.
* `OnlySleepPanics`: what the violation `MCSleepInStage2` depends on. If no command
  sends core 0 to sleep, the timer of the second heat-up stage is set whenever that
  stage is on (`TimerInv`).

Only model-checked: the other liveness properties, `SoftBailEnds`, `HeatupEnds`,
`RoutineEnds`, `RoutineCompletes`, `AutoSleepHappens`, `LinkRecovers`, `TurnsGoOn`,
`Begins`, `Core1Revived` and `UpdateRecovers`. Each has to count down a timer, a queue,
the ring buffer or the sectors, whose length is a constant of the module. That is
an induction over temporal formulas: they cannot be collected in a set as
`NaturalsFrom` would have it, and no installed prover instantiates the predicate of
an induction rule.

## Not modelled

Floating-point arithmetic (the PID terms, feed-forward, NTC conversion), and with
it the codec of the control-board packet, of which only the outcomes of the
validation and the parsed fields appear: a sensor outside of its range makes a NaN,
whose conversion to an integer C++ does not define, and which decides whether such
a reading counts as hot or cold. The bytes of flash pages, frames and addresses.
Peripheral drivers. Display-only parts and vendored code are listed in
`PROJECT.json` with the reason; no-OS-FatFS, the bulk of the repository's lines, is
third-party code of which the firmware only mounts the card.

## Plan

Done: the system controller with its protocol, latches and slots; settings and
flash; automations; the ESP32 link; boiler controllers; bootloader and the
composition of both cores; the safety properties of all of them proved, and of
the liveness properties those that need no countdown. Left: the codec of the control-board packet on integer ADC
values, with the conversion tabulated, so that the thresholds of the validation
and of the parser can be compared.
