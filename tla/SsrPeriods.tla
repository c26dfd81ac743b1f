----------------------------- MODULE SsrPeriods -----------------------------
(***************************************************************************)
(* The relay schedule over whole periods: SsrScheduler driven by arbitrary *)
(* control signals, one slot per control cycle, with the number of slots   *)
(* each boiler got counted.  The signals are those the controllers return: *)
(* 0..Slots for the brew boiler, all or nothing for the service boiler.    *)
(***************************************************************************)
EXTENDS SsrScheduler

VARIABLES
    ssrStateQueue,
    bbSignal, sbSignal, brewing,    \* what the last period was filled from
    given                           \* slots of it taken so far, by relay state

pvars == <<ssrStateQueue, bbSignal, sbSignal, brewing, given>>

NothingGiven == [s \in SsrState |-> 0]

PInit ==
    /\ ssrStateQueue = <<>>
    /\ bbSignal = 0 /\ sbSignal = 0 /\ brewing = FALSE
    /\ given = NothingGiven

\* A control cycle: refill if empty, then take one slot.
ControlCycle(bb, sb, brew) ==
    LET refill == ssrStateQueue = <<>>
        queue  == Refilled(ssrStateQueue, bb, sb, brew)
        counts == IF refill THEN NothingGiven ELSE given
    IN  /\ queue # <<>>
        /\ ssrStateQueue' = Tail(queue)
        /\ given' = [counts EXCEPT ![Head(queue)] = @ + 1]
        /\ IF refill THEN bbSignal' = bb /\ sbSignal' = sb /\ brewing' = brew
                     ELSE UNCHANGED <<bbSignal, sbSignal, brewing>>

PNext == \E bb \in 0..Slots, sb \in {0, Slots}, brew \in BOOLEAN : ControlCycle(bb, sb, brew)

PSpec == PInit /\ [][PNext]_pvars

-----------------------------------------------------------------------------
(* Properties.                                                             *)

BrewSlots    == given["BREW_BOILER_SSR_ON"]
ServiceSlots == given["SERVICE_BOILER_SSR_ON"]
Demand       == bbSignal + sbSignal

\* Over a whole period a boiler that competes with nobody gets what it asked
\* for, and nobody ever gets more than that: noSignal cannot wrap around.
NoBoilerOverdriven ==
    /\ BrewSlots =< bbSignal /\ ServiceSlots =< sbSignal
    /\ ssrStateQueue = <<>> /\ Demand =< Slots =>
          BrewSlots = bbSignal /\ ServiceSlots = sbSignal

\* When the boilers compete no slot is wasted, and during a brew it is the
\* service boiler alone that gives way.
CompetitionIsUsed ==
    ssrStateQueue = <<>> /\ Demand > Slots =>
        /\ given["BOTH_SSRS_OFF"] = 0
        /\ brewing => BrewSlots = bbSignal

=============================================================================
