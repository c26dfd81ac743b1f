--------------------------- MODULE MCBoilerControl ---------------------------
(* The instance of BoilerControl TLC checks.                               *)
EXTENDS BoilerControl
=============================================================================
