---------------------------- MODULE MCFrankaDesk ----------------------------
(* Instances of FrankaDesk for TLC.                                         *)
EXTENDS FrankaDesk
=============================================================================
