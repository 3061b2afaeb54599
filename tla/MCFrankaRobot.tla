--------------------------- MODULE MCFrankaRobot ---------------------------
(* Instances of FrankaRobot for TLC.                                        *)
EXTENDS FrankaRobot
=============================================================================
