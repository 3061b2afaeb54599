----------------------------- MODULE MCPlatform -----------------------------
EXTENDS Platform

(* The chain that the dashboard watches.                                    *)
Chain ==
  {"ros2_control_node", "joint_state_broadcaster", "franka_robot_state_broadcaster",
   "joint_state_publisher", "robot_mode_broadcaster"}

Joint == {"ros2_control_node", "joint_state_publisher"}

(* What an arm's launch sets and waits for.                                 *)
Hand ==
  {"ros2_control_node", "franka_gripper_node", "fake_gripper_state_publisher",
   "crisp_py_gripper_adapter", "set_robot_collision_behavior"}

MCMortal ==
  {"ros2_control_node", "robot_mode_broadcaster", "franka_gripper_node",
   "fake_gripper_state_publisher", "crisp_py_gripper_adapter"}

Launching(f, a, v) == [file |-> f, args |-> a, view |-> v]

MCLaunches ==
  {Launching("franka_platform", PanelArguments("left", TRUE), Chain),
   Launching("franka_platform", PanelArguments("left_arm", FALSE), Joint),
   Launching("franka_platform", PanelArguments("left", TRUE), Hand),
   Launching("franka_platform", PanelArguments("left", FALSE), Hand),
   Launching("franka_platform", PlatformDefaults, Hand),
   Launching("franka_platform", [PlatformDefaults EXCEPT !.collision = FALSE], Hand),
   Launching("franka_platform", [PlatformDefaults EXCEPT !.fake = TRUE], Hand),
   Launching("franka_new", [NewDefaults EXCEPT !.ns = "left"], Chain),
   Launching("franka", [ClassicDefaults EXCEPT !.ns = "left", !.fake = TRUE], Chain)}
=============================================================================
