--------------------------- MODULE SafetyInterlock ---------------------------
(***************************************************************************)
(* What core 0 promises about the two boiler relays, without its loop, its *)
(* queues or its packets.                                                  *)
(*   - No relay is closed by a frame sent while not running, at most one   *)
(*     otherwise.                                                          *)
(*   - A hard bail ends with a restart of the chip or with an order of     *)
(*     core 1, and each order core 1 gives ends one bail at most.          *)
(*   - A soft bail ends also by itself, after a stretch of more than       *)
(*     Quarantine ticks in which the board never failed to answer; only    *)
(*     once after an order that ended a bail may the stretch be shorter.   *)
(* An order is a COMMAND_BEGIN, which every launch of core 1 sends, or a   *)
(* COMMAND_UNBAIL.                                                         *)
(***************************************************************************)
EXTENDS Integers

CONSTANTS Quarantine, MaxDelay

VARIABLES
    mode,       \* "NOT_STARTED_YET", "RUNNING", "SOFT_BAIL" or "HARD_BAIL"
    relays,     \* the relays closed by the last frame
    quiet,      \* ticks of soft bail without an unanswered frame; 0 otherwise
    orders,     \* orders of core 1 that are yet to be obeyed
    stale       \* the time of a bail that an order ended still counts

ivars == <<mode, relays, quiet, orders, stale>>

IInit == mode = "NOT_STARTED_YET" /\ relays = {} /\ quiet = 0 /\ orders = 0 /\ stale = FALSE

Order == orders' = orders + 1 /\ UNCHANGED <<mode, relays, quiet, stale>>

\* An order starts the machine, or ends any bail there and then.
Obey ==
    /\ orders > 0 /\ orders' = orders - 1
    /\ mode' = "RUNNING" /\ quiet' = 0
    /\ stale' \in BOOLEAN /\ (stale' => stale \/ mode \in {"SOFT_BAIL", "HARD_BAIL"})
    /\ UNCHANGED relays

\* A rejected packet while running, or an unanswered frame.
SoftBail ==
    /\ mode \in {"RUNNING", "SOFT_BAIL"}
    /\ mode' = "SOFT_BAIL" /\ quiet' = 0
    /\ stale' \in BOOLEAN /\ (stale' => stale)
    /\ UNCHANGED <<relays, orders>>

Recover ==
    /\ mode = "SOFT_BAIL" /\ quiet > Quarantine
    /\ mode' = "RUNNING" /\ quiet' = 0 /\ stale' = FALSE
    /\ UNCHANGED <<relays, orders>>

\* The time of the earlier bail uses up the quarantine, or all of it: then a
\* rejected packet does not even begin a bail.
RecoverEarly ==
    /\ stale /\ mode \in {"RUNNING", "SOFT_BAIL"}
    /\ mode' = "RUNNING" /\ quiet' = 0 /\ stale' = FALSE
    /\ UNCHANGED <<relays, orders>>

HardBail == mode' = "HARD_BAIL" /\ quiet' = 0 /\ UNCHANGED <<relays, orders, stale>>

Transmit ==
    /\ relays' \in IF mode = "RUNNING" THEN {{}, {"brew"}, {"service"}} ELSE {{}}
    /\ UNCHANGED <<mode, quiet, orders, stale>>

Tick(d) ==
    /\ mode = "SOFT_BAIL"
    /\ quiet' = IF quiet + d > Quarantine THEN Quarantine + 1 ELSE quiet + d
    /\ UNCHANGED <<mode, relays, orders, stale>>

\* A restart of the chip; the board keeps what it was told last.
Restart ==
    /\ mode' = "NOT_STARTED_YET" /\ quiet' = 0 /\ orders' = 0 /\ stale' = FALSE
    /\ UNCHANGED relays

INext ==
    \/ Order \/ Obey \/ SoftBail \/ Recover \/ RecoverEarly \/ HardBail \/ Transmit \/ Restart
    \/ \E d \in 1..MaxDelay : Tick(d)

ISpec == IInit /\ [][INext]_ivars

=============================================================================
