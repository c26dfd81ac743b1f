---------------------------- MODULE MCAutomations ----------------------------
(* Messages for the run of Automations.                                    *)
EXTENDS Automations

SleepMessages ==
    {[type |-> "SET_SLEEP_MODE", bool1 |-> b] : b \in BOOLEAN}
      \cup {[type |-> "SET_AUTO_SLEEP_MINUTES", float1 |-> m] : m \in AutoSleepChoices}

\* The routine, one flow mode set by hand, sleep and auto sleep.
AllMessages ==
    {[type |-> "ENQUEUE_ROUTINE"], [type |-> "CLEAR_ROUTINE"],
     [type |-> "SET_FLOW_MODE", int1 |-> "PUMP_ON_SOLENOID_CLOSED"]} \cup SleepMessages

=============================================================================
