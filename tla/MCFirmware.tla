------------------------------ MODULE MCFirmware ------------------------------
(* The instance of Firmware TLC checks.                                    *)
EXTENDS Firmware
=============================================================================
