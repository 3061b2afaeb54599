------------------------- MODULE MCLaunchInterface -------------------------
EXTENDS LaunchInterface

MCSetups ==
  {[program |-> "launch_interface", arms |-> 2, camera |-> TRUE],
   [program |-> "launch_interface", arms |-> 1, camera |-> FALSE],
   [program |-> "panel_demo", arms |-> 2, camera |-> FALSE]}
=============================================================================
