-------------------------- MODULE MCSettingsManager --------------------------
(* Values for the runs of SettingsManager: one target besides the default. *)
EXTENDS SettingsManager

TwoTargets == {105, 90}
=============================================================================
