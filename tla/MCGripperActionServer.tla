----------------------- MODULE MCGripperActionServer -----------------------
(* Instances of GripperActionServer for TLC.                                *)
EXTENDS GripperActionServer
=============================================================================
