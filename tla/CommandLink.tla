----------------------------- MODULE CommandLink -----------------------------
(***************************************************************************)
(* What the ESP32 may rely on when it sends a command, without frames,     *)
(* buffers or timeouts.  A sending may be lost.  One that reaches core 1   *)
(* as it was sent is handled at most once, is acknowledged only after that *)
(* and refused only if it never is.  An acknowledged command was executed; *)
(* except that core 0 may not know of a setting, which is then kept on     *)
(* core 1 only, and that a command of a type core 1 does not know was      *)
(* ignored.  A sending torn on the line may be answered as if it were      *)
(* another.                                                                *)
(***************************************************************************)
CONSTANTS Commands, SettingCommands, UnhandledCommands

VARIABLES
    fate,     \* of the last sending of each command
    answer,   \* to it
    torn      \* the commands part of whose last sending was lost on the line

lvars == <<fate, answer, torn>>

LInit ==
    /\ fate = [c \in Commands |-> "unsent"]
    /\ answer = [c \in Commands |-> "none"]
    /\ torn = {}

Send(c) ==
    /\ fate' = [fate EXCEPT ![c] = "sent"]
    /\ answer' = [answer EXCEPT ![c] = "none"]
    /\ torn' = torn \ {c}

Tear(c) == torn' = torn \cup {c} /\ UNCHANGED <<fate, answer>>

Handle(c, outcome) ==
    /\ fate[c] = "sent"
    /\ c \in torn \/ answer[c] = "none"
    /\ fate' = [fate EXCEPT ![c] = outcome]
    /\ UNCHANGED <<answer, torn>>

Execute(c) == c \notin UnhandledCommands /\ Handle(c, "executed")
Keep(c)    == c \in SettingCommands /\ Handle(c, "kept")
Ignore(c)  == c \in UnhandledCommands /\ Handle(c, "ignored")

Ack(c) ==
    /\ answer[c] = "none"
    /\ c \in torn \/ fate[c] \in {"executed", "kept", "ignored"}
    /\ answer' = [answer EXCEPT ![c] = "ack"]
    /\ UNCHANGED <<fate, torn>>

Nack(c) ==
    /\ answer[c] = "none"
    /\ c \in torn \/ fate[c] = "sent"
    /\ answer' = [answer EXCEPT ![c] = "nack"]
    /\ UNCHANGED <<fate, torn>>

LNext ==
    \E c \in Commands :
        Send(c) \/ Tear(c) \/ Execute(c) \/ Keep(c) \/ Ignore(c) \/ Ack(c) \/ Nack(c)

LSpec == LInit /\ [][LNext]_lvars

=============================================================================
