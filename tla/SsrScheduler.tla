---------------------------- MODULE SsrScheduler ----------------------------
(***************************************************************************)
(* Time-sharing of the two boiler relays, the middle of                    *)
(* SystemController::handleControlBoardPacket.  A period is Slots cycles   *)
(* of 100 ms (25 in the code); in every cycle at most one relay is closed. *)
(* When the queue of slots is empty the two control signals are turned     *)
(* into a new period, and one slot is consumed per cycle.                  *)
(***************************************************************************)
EXTENDS Integers, Sequences

CONSTANT Slots           \* length of a period; 25 in SystemController.cpp

ASSUME SlotsAssumption == Slots \in Nat \ {0}

SsrState == {"BREW_BOILER_SSR_ON", "SERVICE_BOILER_SSR_ON", "BOTH_SSRS_OFF"}

\* floor((float)bbSignal * 0.75): exact in binary floating point.
ThreeQuarters(bbSignal) == (3 * bbSignal) \div 4

\* Slips: the service boiler gets the rest whether it asked or not; the brew
\* boiler gives way even during a brew.
ServiceGetsTheRest(bbSignal, sbSignal, brewing) == [bb |-> bbSignal, sb |-> Slots - bbSignal]
NoBrewPriority(bbSignal, sbSignal, brewing) ==
    LET bb == IF bbSignal + sbSignal =< Slots THEN bbSignal ELSE ThreeQuarters(bbSignal)
    IN  [bb |-> bb, sb |-> IF bbSignal + sbSignal =< Slots THEN sbSignal ELSE Slots - bb]

\* The signals after "Power-sharing": [bb, sb] with bb + sb =< Slots.
PowerShare(bbSignal, sbSignal, brewing) ==
    IF bbSignal + sbSignal =< Slots
      THEN [bb |-> bbSignal, sb |-> sbSignal]
      ELSE LET bb == IF brewing THEN bbSignal ELSE ThreeQuarters(bbSignal)
           IN  [bb |-> bb, sb |-> Slots - bb]

\* The three filling loops: bb brew slots, then sb service slots, then idle ones.
FilledQueue(share) ==
    [i \in 1..Slots |->
        CASE i =< share.bb -> "BREW_BOILER_SSR_ON"
          [] share.bb < i /\ i =< share.bb + share.sb -> "SERVICE_BOILER_SSR_ON"
          [] OTHER -> "BOTH_SSRS_OFF"]

\* What is in the queue when the slot of this cycle is taken.
Refilled(queue, bbSignal, sbSignal, brewing) ==
    IF queue = <<>> THEN FilledQueue(PowerShare(bbSignal, sbSignal, brewing)) ELSE queue

=============================================================================
