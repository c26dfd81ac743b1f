---------------------------- MODULE SettingsStore ----------------------------
(***************************************************************************)
(* What the settings promise across restarts, without pages, erasures or   *)
(* commands: there is a choice and there is what a restart will bring      *)
(* back.  A save makes the second equal to the first.  Until it is         *)
(* complete a restart may bring back the defaults, but only if there was   *)
(* something to save: a saved choice is never at risk.  An interruption    *)
(* of the keeper may change the choice and takes that assurance away until *)
(* the next restart.                                                       *)
(***************************************************************************)
CONSTANTS Choices, Default, Awakened(_)

VARIABLES up, chosen, kept, sure

svars == <<up, chosen, kept, sure>>

SInit == ~up /\ chosen \in Choices /\ kept \in Choices /\ sure = TRUE

Choose == up /\ chosen' \in Choices /\ UNCHANGED <<up, kept, sure>>

Spoil ==
    /\ up /\ (kept # chosen \/ ~sure)
    /\ kept' = Default
    /\ UNCHANGED <<up, chosen, sure>>

Save == up /\ kept' = chosen /\ UNCHANGED <<up, chosen, sure>>

Interrupt == up /\ sure' = FALSE /\ chosen' \in Choices /\ UNCHANGED <<up, kept>>

Stop == up' = FALSE /\ sure' = TRUE /\ chosen' \in Choices /\ UNCHANGED kept

\* What was kept comes back, as a whole; sleep mode may be left on the way.
Start == ~up /\ up' = TRUE /\ chosen' \in {kept, Awakened(kept)} /\ UNCHANGED <<kept, sure>>

SSpec == SInit /\ [][Choose \/ Spoil \/ Save \/ Interrupt \/ Stop \/ Start]_svars

=============================================================================
