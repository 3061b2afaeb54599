----------------------------- MODULE ArmLaunch -----------------------------
(***************************************************************************)
(* One arm's launch: the processes that a launch file of franka_bringup     *)
(* starts, how they wait for each other, and what ends them.                *)
(*                                                                          *)
(* launch starts everything at once; order comes from the processes         *)
(* themselves: a spawner and `ros2 service call` wait for the control node, *)
(* the gripper's adapter waits Patience seconds for the gripper.  Only the  *)
(* control node's exit takes the others with it (on_exit=Shutdown()).       *)
(*                                                                          *)
(* A spawner is named after its controller.  A behaviour follows the        *)
(* processes of one view; those that are left out disturb no other one.     *)
(***************************************************************************)
EXTENDS Naturals

CONSTANTS
  Launches,   \* the launches in use: file, args and the view that is followed
  Mortal,     \* the processes that may end by themselves
  Patience    \* wait_until_ready(): 5 seconds

ASSUME PatienceAssumption == Patience \in Nat

VARIABLES
  file, args, view,
  launch,      \* the `ros2 launch` process: "off", "running", "stopping"
  proc,        \* a process: "off", "starting", "up" or (of a spawner) "done", then
               \* "gone", or "failed" without having come up
  waited,      \* seconds the adapter has waited
  armMode,     \* the arm: "move", "reflex" or "stopped" (external)
  thresholds,  \* of the arm's collision detection: whose they are
  initParams,  \* init_params_set of the control node
  hasError,    \* has_error_ of the control node
  met,         \* the control node that the thresholds wait for has met the arm in error
               \* (history)
  accepted     \* the arm took the launch's thresholds over: "no", "early" (before the
               \* control node had set its defaults) or "late" (history)

armVars == <<armMode, thresholds, initParams, hasError, met, accepted>>
launchVars == <<file, args, view, launch, proc, waited, armVars>>

-----------------------------------------------------------------------------
(* The arguments and processes of each file.                                *)

PlatformDefaults == [ns |-> "", gripper |-> TRUE, fake |-> FALSE, buttons |-> TRUE,
                     rviz |-> FALSE, collision |-> TRUE]
NewDefaults == [ns |-> "", gripper |-> TRUE, fake |-> FALSE, buttons |-> FALSE,
                rviz |-> FALSE, collision |-> FALSE]
ClassicDefaults == [ns |-> "", gripper |-> TRUE, fake |-> FALSE, buttons |-> FALSE,
                    rviz |-> FALSE, collision |-> FALSE]

Defaults(f) ==
  CASE f = "franka_platform" -> PlatformDefaults
    [] f = "franka_new" -> NewDefaults
    [] f = "franka" -> ClassicDefaults

(* What the launch interface gives; whoever launches by hand may give any.  *)
PanelArguments(name, gripper) ==
  [PlatformDefaults EXCEPT !.ns = name, !.gripper = gripper]

(* generate_robot_nodes() subscripts what get_collision_params() returned,  *)
(* None included, before any process is started.                            *)
Generates(f, a) == f = "franka_platform" => a.collision

GripperNode(a) == IF a.fake THEN "fake_gripper_state_publisher" ELSE "franka_gripper_node"

GripperProcesses(a) ==
  IF a.gripper THEN {GripperNode(a), "crisp_py_gripper_adapter"} ELSE {}

ButtonProcesses == {"franka_pilot_buttons", "franka_buttons_to_record"}

PlatformNodes == {"robot_state_publisher", "ros2_control_node", "joint_state_publisher"}

PlatformSpawners ==
  {"franka_robot_state_broadcaster", "joint_state_broadcaster", "pose_broadcaster",
   "cartesian_impedance_controller", "gravity_compensation",
   "joint_impedance_controller", "joint_trajectory_controller"}

PlatformProcesses(a) ==
  PlatformNodes \cup PlatformSpawners \cup GripperProcesses(a)
    \cup {"robot_mode_broadcaster", "set_robot_collision_behavior"}
    \cup (IF a.buttons THEN ButtonProcesses ELSE {})
    \cup (IF a.rviz THEN {"rviz2"} ELSE {})

NewProcesses(a) ==
  PlatformNodes \cup (PlatformSpawners \ {"franka_robot_state_broadcaster"})
    \cup GripperProcesses(a) \cup (IF a.rviz THEN {"rviz2"} ELSE {})

ClassicSpawners ==
  PlatformSpawners \cup {"twist_broadcaster", "torque_feedback_controller"}

ClassicProcesses(a) ==
  PlatformNodes \cup ClassicSpawners \cup GripperProcesses(a)
    \cup (IF a.rviz THEN {"rviz2"} ELSE {})

Processes(f, a) ==
  CASE f = "franka_platform" -> PlatformProcesses(a)
    [] f = "franka_new" -> NewProcesses(a)
    [] f = "franka" -> ClassicProcesses(a)

Grippers == {"fake_gripper_state_publisher", "franka_gripper_node"}
Spawners == ClassicSpawners
Plain == {"robot_state_publisher", "joint_state_publisher", "robot_mode_broadcaster",
          "rviz2"} \cup ButtonProcesses \cup Grippers
AllProcesses ==
  Plain \cup Spawners
    \cup {"ros2_control_node", "crisp_py_gripper_adapter", "set_robot_collision_behavior"}

-----------------------------------------------------------------------------
LaunchInit ==
  /\ \E l \in Launches : file = l.file /\ args = l.args /\ view = l.view
  /\ launch = "off" /\ proc = [p \in AllProcesses |-> "off"] /\ waited = 0
  /\ armMode \in {"move", "reflex", "stopped"} /\ thresholds = "default"
  /\ initParams = FALSE /\ hasError = FALSE /\ met = FALSE /\ accepted = "no"

ControlUp == proc["ros2_control_node"] = "up"
Alive(p) == proc[p] \in {"starting", "up"}
Over(p) == proc[p] \in {"failed", "gone"}
Becomes(p, state) == proc' = [proc EXCEPT ![p] = state]

(* `ros2 launch` starts, in the pane of the arm or by hand.                 *)
Begin ==
  /\ launch = "off" /\ Generates(file, args)
  /\ launch' = "running"
  /\ proc' = [p \in AllProcesses |->
                IF p \in view \cap Processes(file, args) THEN "starting" ELSE "off"]
  /\ waited' = 0
  /\ UNCHANGED <<file, args, view, armVars>>

(* ctrl-C in the pane.                                                      *)
Interrupt ==
  /\ launch = "running"
  /\ launch' = "stopping"
  /\ UNCHANGED <<file, args, view, proc, waited, armVars>>

(* Mutant: without on_exit=Shutdown().                                      *)
NoShutdown == FALSE /\ UNCHANGED launchVars

(* on_exit=Shutdown() of the control node.                                  *)
Shutdown ==
  /\ launch = "running" /\ Over("ros2_control_node")
  /\ launch' = "stopping"
  /\ UNCHANGED <<file, args, view, proc, waited, armVars>>

(* A process ends; with the control node goes what it knew of the arm.      *)
End(p) ==
  /\ Alive(p) /\ Becomes(p, IF proc[p] = "up" THEN "gone" ELSE "failed")
  /\ IF p = "ros2_control_node"
       THEN initParams' = FALSE /\ hasError' = FALSE /\ met' = FALSE /\ accepted' = "no"
       ELSE UNCHANGED <<initParams, hasError, met, accepted>>
  /\ UNCHANGED <<file, args, view, launch, waited, armMode, thresholds>>

(* A launch that stops ends its processes, by SIGKILL at last.              *)
Exit(p) == launch = "stopping" /\ End(p)

(* A process fails to start, or dies.                                       *)
Die(p) == launch = "running" /\ p \in Mortal /\ End(p)

Ended ==
  /\ launch = "stopping" /\ \A p \in AllProcesses : ~Alive(p)
  /\ launch' = "off"
  /\ UNCHANGED <<file, args, view, proc, waited, armVars>>

(* A node that waits for nothing.                                           *)
Start(p) ==
  /\ launch = "running" /\ p \in Plain /\ proc[p] = "starting"
  /\ Becomes(p, "up")
  /\ UNCHANGED <<file, args, view, launch, waited, armVars>>

(* The control node connects; the constructor of Robot sets the default     *)
(* parameters, which an arm in error refuses.  Fake hardware has no arm.    *)
StartControl ==
  /\ launch = "running" /\ proc["ros2_control_node"] = "starting"
  /\ Becomes("ros2_control_node", "up")
  /\ IF args.fake THEN UNCHANGED <<thresholds, initParams, hasError, met>>
     ELSE /\ met' = (armMode # "move" /\ proc["set_robot_collision_behavior"] = "starting")
          /\ \/ /\ armMode = "move"
                /\ thresholds' = "default" /\ initParams' = TRUE /\ UNCHANGED hasError
             \/ /\ armMode # "move"
                /\ hasError' = TRUE /\ UNCHANGED <<thresholds, initParams>>
  /\ UNCHANGED <<file, args, view, launch, waited, armMode, accepted>>

(* A spawner loads its controller and ends.  The state broadcaster needs    *)
(* the state interface of the real hardware.                                *)
Spawn(p) ==
  /\ launch = "running" /\ p \in Spawners /\ proc[p] = "starting" /\ ControlUp
  /\ Becomes(p, IF args.fake /\ p = "franka_robot_state_broadcaster" THEN "failed" ELSE "done")
  /\ UNCHANGED <<file, args, view, launch, waited, armVars>>

(* `ros2 service call` of the collision thresholds.  With an empty name the *)
(* service is //panda_param_service_server/..., which is no name; fake      *)
(* hardware has no such service, and the call waits.                        *)
CallService ==
  /\ launch = "running" /\ proc["set_robot_collision_behavior"] = "starting"
  /\ \/ /\ args.ns = ""
        /\ Becomes("set_robot_collision_behavior", "failed")
        /\ UNCHANGED <<thresholds, accepted>>
     \/ /\ args.ns # "" /\ ControlUp /\ ~args.fake
        /\ Becomes("set_robot_collision_behavior", "done")
        /\ \/ thresholds' = "launch" /\ accepted' = IF initParams THEN "late" ELSE "early"
           \/ UNCHANGED <<thresholds, accepted>>
  /\ UNCHANGED <<file, args, view, launch, waited, armMode, initParams, hasError, met>>

(* Mutant: the adapter waits as long as it takes.                           *)
AdapterWaitsOn ==
  /\ launch = "running" /\ proc["crisp_py_gripper_adapter"] = "starting"
  /\ \E p \in Grippers : proc[p] = "up"
  /\ Becomes("crisp_py_gripper_adapter", "up")
  /\ UNCHANGED <<file, args, view, launch, waited, armVars>>

(* wait_until_ready(): a joint state of the gripper, or the TimeoutError,   *)
(* which nobody catches and which is raised even if one has just come.      *)
AdapterReady ==
  /\ launch = "running" /\ proc["crisp_py_gripper_adapter"] = "starting"
  /\ \/ waited > Patience /\ Becomes("crisp_py_gripper_adapter", "failed")
     \/ /\ waited <= Patience /\ \E p \in Grippers : proc[p] = "up"
        /\ Becomes("crisp_py_gripper_adapter", "up")
  /\ UNCHANGED <<file, args, view, launch, waited, armVars>>

-----------------------------------------------------------------------------
(* The arm and the control node.                                            *)

(* A reflex, the stop button, and its release.                              *)
ChangeMode ==
  /\ armMode' \in {"move", "reflex", "stopped"} \ {armMode}
  /\ armMode' = "reflex" => armMode = "move"
  /\ armMode = "reflex" => armMode' = "stopped"
  /\ hasError' = (hasError \/ (ControlUp /\ ~args.fake /\ armMode' # "move"))
  /\ UNCHANGED <<file, args, view, launch, proc, waited, thresholds, initParams, met, accepted>>

(* Mutant: every recovery restores the default parameters.                  *)
RecoverAnew ==
  /\ ControlUp /\ hasError /\ armMode # "stopped"
  /\ armMode' = "move" /\ hasError' = FALSE
  /\ thresholds' = "default" /\ initParams' = TRUE
  /\ UNCHANGED <<file, args, view, launch, proc, waited, met, accepted>>

(* error_recovery; setDefaultParams() may throw before or after the arm has *)
(* taken the parameters over.                                               *)
Recover ==
  /\ ControlUp /\ hasError /\ armMode # "stopped"
  /\ armMode' = "move" /\ hasError' = FALSE
  /\ \/ initParams /\ UNCHANGED <<thresholds, initParams>>
     \/ ~initParams /\ thresholds' = "default" /\ initParams' = TRUE
     \/ ~initParams /\ thresholds' \in {thresholds, "default"} /\ UNCHANGED initParams
  /\ UNCHANGED <<file, args, view, launch, proc, waited, met, accepted>>

(* update() of the state broadcaster answers ERROR whenever the lock of its *)
(* publisher is taken, and the controller manager deactivates it.           *)
BroadcasterFails ==
  /\ ControlUp /\ proc["franka_robot_state_broadcaster"] = "done"
  /\ Becomes("franka_robot_state_broadcaster", "gone")
  /\ UNCHANGED <<file, args, view, launch, waited, armVars>>

(* write() of the hardware answers ERROR to a command that is not finite:   *)
(* the controller manager deactivates the controllers, and those that come  *)
(* later find no hardware; the process goes on.                             *)
Fault ==
  /\ ControlUp /\ ~args.fake
  /\ proc' = [p \in AllProcesses |->
                IF p \in Spawners /\ proc[p] = "done" THEN "gone"
                ELSE IF p \in Spawners /\ proc[p] = "starting" THEN "failed"
                ELSE proc[p]]
  /\ UNCHANGED <<file, args, view, launch, waited, armVars>>

(* Mutant: the clock runs on.                                               *)
LaunchTickForever ==
  /\ launch = "running"
  /\ waited' = IF proc["crisp_py_gripper_adapter"] = "starting" THEN waited + 1 ELSE waited
  /\ UNCHANGED <<file, args, view, launch, proc, armVars>>

(* A second passes; the adapter does not sleep through what it waits for.   *)
LaunchTick ==
  /\ launch = "running" /\ proc["crisp_py_gripper_adapter"] = "starting"
       => waited <= Patience /\ \A p \in Grippers : proc[p] # "up"
  /\ waited' = IF proc["crisp_py_gripper_adapter"] = "starting" /\ waited <= Patience
               THEN waited + 1 ELSE waited
  /\ UNCHANGED <<file, args, view, launch, proc, armVars>>

LaunchStep ==
  \/ Begin \/ Interrupt \/ Shutdown \/ Ended
  \/ StartControl \/ CallService \/ AdapterReady
  \/ ChangeMode \/ Recover \/ Fault \/ BroadcasterFails
  \/ \E p \in view : Exit(p) \/ Die(p) \/ Spawn(p)
=============================================================================
