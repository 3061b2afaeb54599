------------------------------ MODULE Platform ------------------------------
(***************************************************************************)
(* The launch of one arm and the dashboard that watches it: the nodes feed  *)
(* the dashboard as long as they are alive, whatever becomes of what they   *)
(* repeat.                                                                  *)
(***************************************************************************)
EXTENDS ArmLaunch, StatusMonitor

vars == <<launchVars, monitorVars>>

Init == LaunchInit /\ MonitorInit

(* The dashboard cannot subscribe under an empty name.                      *)
Watched == args.ns # ""
(* The name of the heartbeat leads back to the arm's entry.                 *)
Listed == args.ns # "left_arm"

ModesUp == proc["robot_mode_broadcaster"] = "up"

StateFlows == ControlUp /\ proc["franka_robot_state_broadcaster"] = "done"

JointsUp == proc["joint_state_publisher"] = "up"

JointsFlow == JointsUp /\ ControlUp /\ proc["joint_state_broadcaster"] = "done"

StartNode(p) ==
  /\ Start(p)
  /\ IF p = "robot_mode_broadcaster" THEN BroadcasterInit ELSE UNCHANGED monitorVars

State == ModesUp /\ StateFlows /\ StateMessage(armMode) /\ UNCHANGED launchVars
Mode == ModesUp /\ Watched /\ ModeMessage /\ UNCHANGED launchVars

(* joint_state_publisher goes on with the last positions it has merged;     *)
(* franka.launch.py lets it have those of the description, too.             *)
Joints ==
  /\ JointsUp /\ Watched
  /\ \/ file = "franka"
     \/ \E p \in Grippers \cup {"joint_state_broadcaster"} : proc[p] \in {"up", "done", "gone"}
  /\ HeartBeat /\ UNCHANGED launchVars

(* A second passes, in which joint states have come if any are sent.        *)
Second ==
  /\ LaunchTick
  /\ IF Watched THEN (JointsFlow => age = 0) /\ Check(Listed) ELSE UNCHANGED monitorVars

Next ==
  \/ LaunchStep /\ UNCHANGED monitorVars
  \/ \E p \in view : StartNode(p)
  \/ State \/ Mode \/ Joints
  \/ Second

(* Processes get on, messages arrive and time passes; nobody has to start,  *)
(* stop, break or recover anything.                                         *)
Fairness ==
  /\ WF_vars(\E p \in view : StartNode(p))
  /\ WF_vars((\E p \in view : Exit(p) \/ Spawn(p)) /\ UNCHANGED monitorVars)
  /\ WF_vars((StartControl \/ AdapterReady \/ Shutdown \/ Ended) /\ UNCHANGED monitorVars)
  /\ WF_vars(State) /\ WF_vars(Mode) /\ WF_vars(Joints) /\ WF_vars(Second)

Spec == Init /\ [][Next]_vars /\ Fairness

-----------------------------------------------------------------------------
(* Arguments, processes and what is shown are of their kinds.               *)
TypeOK ==
  /\ \E l \in Launches : file = l.file /\ args = l.args /\ view = l.view
  /\ launch \in {"off", "running", "stopping"}
  /\ proc \in [AllProcesses -> {"off", "starting", "up", "done", "gone", "failed"}]
  /\ waited \in 0 .. Patience + 1
  /\ armMode \in {"move", "reflex", "stopped"} /\ thresholds \in {"default", "launch"}
  /\ initParams \in BOOLEAN /\ hasError \in BOOLEAN
  /\ met \in BOOLEAN /\ accepted \in {"no", "early", "late"}
  /\ known \in {"none", "move", "reflex", "stopped"}
  /\ age \in 0 .. Timeout
  /\ status \in {"STALE", "ACTIVE", "COLLISION", "EMERGENCY STOP", "DISCONNECTED"}

(* Collision thresholds that a launch has set stay the arm's, through any   *)
(* reflexes and recoveries of that launch, but for one way to lose them:    *)
(* the control node met the arm in error, the call came before a recovery   *)
(* had set the defaults, and a recovery then set these over them.           *)
ThresholdsKept ==
  accepted # "no" /\ thresholds # "launch" => accepted = "early" /\ met

(* "If this core node exits, shut down the entire launch system."           *)
ShutdownEndsAll ==
  Over("ros2_control_node") ~> \A p \in AllProcesses : ~Alive(p)

(* The adapter does not wait for ever for a gripper that does not come.     *)
AdapterSettles ==
  proc["crisp_py_gripper_adapter"] = "starting"
    ~> proc["crisp_py_gripper_adapter"] # "starting"

(* An arm whose control node has ended is shown as disconnected, unless it  *)
(* is launched again.                                                       *)
DeadArmShown ==
  Watched /\ Listed /\ Over("ros2_control_node")
    ~> status = "DISCONNECTED" \/ ~Over("ros2_control_node")

Watching == Watched /\ ModesUp /\ StateFlows /\ JointsFlow

(* A reflex that lasts is shown again and again, though the watchdog writes *)
(* ACTIVE over it every second.                                             *)
ReflexShown ==
  <>[](Watching /\ armMode = "reflex") => []<>(status = "COLLISION")

(* An arm that moves freely is shown so in the end, whatever came before.   *)
FreeArmShown ==
  <>[](Watching /\ armMode = "move") => <>[](status = "ACTIVE")
=============================================================================
