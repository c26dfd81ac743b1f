------------------------------ MODULE MCEspLink ------------------------------
(* The instance of EspLink TLC checks.                                     *)
EXTENDS EspLink
=============================================================================
