---------------------- MODULE MCSystemControllerHistory ----------------------
(***************************************************************************)
(* The instances of MCSystemController with the history variables.         *)
(***************************************************************************)
EXTENDS SystemControllerHistory, MCSystemController
=============================================================================
