--------------------------- MODULE PlatformProofs ---------------------------
(***************************************************************************)
(* The launch of an arm, proved for every choice of launches, of processes  *)
(* that may die and of the adapter's patience.                              *)
(***************************************************************************)
EXTENDS Platform, TLAPS

(* Thresholds are accepted of a control node that lives: late ones with the *)
(* defaults set, early ones only where the arm was met in error.            *)
AcceptedIsLive ==
  /\ accepted # "no" => ControlUp
  /\ accepted = "late" => initParams
  /\ accepted = "early" => met

(* A control node that met an arm without an error has set the defaults.    *)
MetIsSet ==
  ControlUp /\ ~args.fake /\ proc["set_robot_collision_behavior"] = "starting" /\ ~met
    => initParams

(* Between two launches there is no control node.                           *)
OffIsDead == launch = "off" => ~ControlUp

Kept ==
  /\ ThresholdsKept
  /\ AcceptedIsLive
  /\ MetIsSet
  /\ OffIsDead

IInv == TypeOK /\ Kept

States == {"off", "starting", "up", "done", "gone", "failed"}

-----------------------------------------------------------------------------
LEMMA Names ==
  /\ "ros2_control_node" \in AllProcesses
  /\ "crisp_py_gripper_adapter" \in AllProcesses
  /\ "set_robot_collision_behavior" \in AllProcesses
  /\ {"ros2_control_node", "set_robot_collision_behavior"} \cap (Spawners \cup Plain) = {}
BY DEF AllProcesses, Spawners, Plain, ClassicSpawners, PlatformSpawners, ButtonProcesses, Grippers

LEMMA InitHolds == Init => IInv
<1> SUFFICES ASSUME Init PROVE IInv
  OBVIOUS
<1>a. waited \in 0 .. Patience + 1 /\ age \in 0 .. Timeout
  BY PatienceAssumption DEF Init, LaunchInit, MonitorInit, Timeout
<1>b. proc \in [AllProcesses -> States]
  BY DEF Init, LaunchInit, States
<1>1. TypeOK
  BY <1>a, <1>b DEF Init, LaunchInit, MonitorInit, TypeOK, States
<1>2. QED
  BY <1>1, Names DEF Init, LaunchInit, IInv, Kept, ThresholdsKept, AcceptedIsLive, MetIsSet,
     OffIsDead, ControlUp

(* Of what a step of the launch does to the control node, this is all that  *)
(* the invariant needs.                                                     *)
LEMMA LaunchTypes ==
  ASSUME TypeOK, LaunchStep \/ LaunchTick \/ (\E p \in Plain : Start(p)),
         UNCHANGED monitorVars
  PROVE  TypeOK'
<1>0. proc \in [AllProcesses -> States] /\ waited \in 0 .. Patience + 1 /\ Patience \in Nat
  BY PatienceAssumption DEF TypeOK, States
<1>1. UNCHANGED <<file, args, view, known, age, status>>
  BY DEF LaunchStep, Begin, Interrupt, Shutdown, Ended, StartControl, CallService, AdapterReady,
     ChangeMode, Recover, Fault, BroadcasterFails, Exit, Die, End, Spawn, LaunchTick, Start, monitorVars
<1>2. launch' \in {"off", "running", "stopping"}
  BY DEF LaunchStep, Begin, Interrupt, Shutdown, Ended, StartControl, CallService, AdapterReady,
     ChangeMode, Recover, Fault, BroadcasterFails, Exit, Die, End, Spawn, LaunchTick, Start, TypeOK
<1>3. proc' \in [AllProcesses -> States]
  <2>1. CASE Begin
    BY <2>1 DEF Begin, States
  <2>2. CASE Fault
    BY <1>0, <2>2 DEF Fault, States
  <2>3. CASE Interrupt \/ Shutdown \/ Ended \/ ChangeMode \/ Recover \/ LaunchTick
    BY <1>0, <2>3 DEF Interrupt, Shutdown, Ended, ChangeMode, Recover, LaunchTick
  <2>4. CASE StartControl \/ CallService \/ AdapterReady \/ BroadcasterFails
    BY <1>0, <2>4 DEF StartControl, CallService, AdapterReady, BroadcasterFails, Becomes, States
  <2>5. ASSUME NEW p, Exit(p) \/ Die(p) \/ Spawn(p) \/ Start(p)
        PROVE  proc' \in [AllProcesses -> States]
    BY <1>0, <2>5 DEF Exit, Die, End, Spawn, Start, Becomes, States
  <2>6. QED
    BY <2>1, <2>2, <2>3, <2>4, <2>5 DEF LaunchStep
<1>4. waited' \in 0 .. Patience + 1
  <2>1. CASE LaunchTick
    BY <1>0, <2>1 DEF LaunchTick
  <2>2. CASE ~LaunchTick
    <3>1. waited' = waited \/ waited' = 0
      BY <2>2 DEF LaunchStep, Begin, Interrupt, Shutdown, Ended, StartControl, CallService,
         AdapterReady, ChangeMode, Recover, Fault, BroadcasterFails, Exit, Die, End, Spawn, Start
    <3>2. QED
      BY <1>0, <3>1
  <2>3. QED
    BY <2>1, <2>2
<1>5. armMode' \in {"move", "reflex", "stopped"} /\ thresholds' \in {"default", "launch"}
  BY DEF LaunchStep, Begin, Interrupt, Shutdown, Ended, StartControl, CallService, AdapterReady,
     ChangeMode, Recover, Fault, BroadcasterFails, Exit, Die, End, Spawn, LaunchTick, Start, TypeOK, armVars
<1>6. initParams' \in BOOLEAN
  BY DEF LaunchStep, Begin, Interrupt, Shutdown, Ended, StartControl, CallService, AdapterReady,
     ChangeMode, Recover, Fault, BroadcasterFails, Exit, Die, End, Spawn, LaunchTick, Start, TypeOK, armVars
<1>7. hasError' \in BOOLEAN
  BY DEF LaunchStep, Begin, Interrupt, Shutdown, Ended, StartControl, CallService, AdapterReady,
     ChangeMode, Recover, Fault, BroadcasterFails, Exit, Die, End, Spawn, LaunchTick, Start, TypeOK, armVars
<1>8. met' \in BOOLEAN /\ accepted' \in {"no", "early", "late"}
  BY DEF LaunchStep, Begin, Interrupt, Shutdown, Ended, StartControl, CallService, AdapterReady,
     ChangeMode, Recover, Fault, BroadcasterFails, Exit, Die, End, Spawn, LaunchTick, Start, TypeOK, armVars
<1>9. QED
  BY <1>1, <1>2, <1>3, <1>4, <1>5, <1>6, <1>7, <1>8 DEF TypeOK, States

LEMMA MonitorTypes ==
  ASSUME TypeOK, armMode \in {"move", "reflex", "stopped"},
         \/ BroadcasterInit \/ StateMessage(armMode) \/ ModeMessage \/ HeartBeat
         \/ \E listed \in BOOLEAN : Check(listed)
  PROVE  /\ known' \in {"none", "move", "reflex", "stopped"}
         /\ age' \in 0 .. Timeout
         /\ status' \in {"STALE", "ACTIVE", "COLLISION", "EMERGENCY STOP", "DISCONNECTED"}
<1>1. age \in 0 .. Timeout /\ Timeout = 2
  BY DEF TypeOK, Timeout
<1>2. age' \in 0 .. Timeout
  BY <1>1 DEF BroadcasterInit, StateMessage, ModeMessage, HeartBeat, Check
<1>3. QED
  BY <1>2 DEF TypeOK, BroadcasterInit, StateMessage, ModeMessage, HeartBeat, Check, Shown

(* What a step does to the thresholds.                                      *)
LEMMA LaunchThresholds ==
  ASSUME IInv, LaunchStep \/ LaunchTick \/ (\E p \in Plain : Start(p))
  PROVE  Kept'
<1> DEFINE set == "set_robot_collision_behavior"
<1> USE DEF IInv, Kept, ThresholdsKept, AcceptedIsLive, MetIsSet, OffIsDead
<1>0. proc \in [AllProcesses -> States]
  BY DEF TypeOK, States
<1>a. /\ accepted \in {"no", "early", "late"} /\ initParams \in BOOLEAN /\ met \in BOOLEAN
      /\ set \in AllProcesses /\ set # "ros2_control_node"
  BY Names DEF TypeOK
<1>1. CASE Begin
  <2>1. accepted = "no" /\ accepted' = accepted
    BY <1>1 DEF Begin, armVars
  <2>2. launch' = "running" /\ ~ControlUp'
    BY <1>1, Names DEF Begin, ControlUp
  <2>3. QED
    BY <2>1, <2>2
<1>2. CASE Interrupt \/ Shutdown \/ LaunchTick
  BY <1>2 DEF Interrupt, Shutdown, LaunchTick, armVars, ControlUp
<1>3. CASE Ended
  BY <1>3, Names DEF Ended, armVars, ControlUp, Alive
<1>4. CASE ChangeMode
  BY <1>4 DEF ChangeMode, ControlUp
<1>5. CASE Recover
  <2>1. UNCHANGED <<args, launch, proc, met, accepted>>
    BY <1>5 DEF Recover
  <2>2. initParams => initParams' /\ thresholds' = thresholds
    BY <1>5 DEF Recover
  <2>3. QED
    BY <1>a, <2>1, <2>2 DEF ControlUp
<1>6. CASE Fault
  <2>1. ControlUp' /\ proc'[set] = proc[set] /\ launch' = launch
    BY <1>0, <1>a, <1>6, Names DEF Fault, ControlUp
  <2>2. QED
    BY <1>6, <2>1 DEF Fault, armVars
<1>7. CASE StartControl
  <2>1. ~ControlUp /\ launch = "running" /\ launch' = launch /\ accepted' = accepted
        /\ args' = args
    BY <1>7 DEF StartControl, ControlUp
  <2>2. proc'[set] = proc[set]
    BY <1>0, <1>7, <1>a DEF StartControl, Becomes
  <2>3. ~args.fake => initParams' \/ met' = (proc[set] = "starting")
    BY <1>7 DEF StartControl
  <2>4. QED
    BY <2>1, <2>2, <2>3
<1>8. CASE CallService
  <2>1. (ControlUp' <=> ControlUp) /\ proc'[set] # "starting" /\ proc[set] = "starting"
    BY <1>0, <1>8, <1>a, Names DEF CallService, Becomes, ControlUp
  <2>2. \/ UNCHANGED <<accepted, thresholds>>
        \/ /\ thresholds' = "launch" /\ ControlUp /\ ~args.fake
           /\ accepted' = IF initParams THEN "late" ELSE "early"
    BY <1>8 DEF CallService
  <2>3. launch = "running" /\ launch' = launch /\ UNCHANGED <<args, initParams, met>>
    BY <1>8 DEF CallService
  <2>4. QED
    BY <1>a, <2>1, <2>2, <2>3
<1>9. ASSUME NEW p, AdapterReady \/ BroadcasterFails \/ Spawn(p) \/ (Start(p) /\ p \in Plain)
      PROVE  Kept'
  <2>1. (ControlUp' <=> ControlUp) /\ proc'[set] = proc[set]
    BY <1>0, <1>9, <1>a, Names DEF AdapterReady, BroadcasterFails, Spawn, Start, Becomes, ControlUp
  <2>2. launch' = launch /\ args' = args /\ UNCHANGED armVars
    BY <1>9 DEF AdapterReady, BroadcasterFails, Spawn, Start, armVars
  <2>3. QED
    BY <2>1, <2>2 DEF armVars
<1>10. ASSUME NEW p, End(p)
       PROVE  Kept'
  <2>1. CASE p = "ros2_control_node"
    <3>1. accepted' = "no" /\ ~ControlUp' /\ launch' = launch
      BY <1>0, <1>10, <2>1, Names DEF End, Becomes, ControlUp
    <3>2. QED
      BY <3>1
  <2>2. CASE p # "ros2_control_node"
    <3>1. (ControlUp' <=> ControlUp) /\ (proc'[set] = "starting" => proc[set] = "starting")
      BY <1>0, <1>10, <1>a, <2>2, Names DEF End, Becomes, ControlUp
    <3>2. launch' = launch /\ UNCHANGED <<args, accepted, thresholds, initParams, met>>
      BY <1>10, <2>2 DEF End
    <3>3. QED
      BY <3>1, <3>2
  <2>3. QED
    BY <2>1, <2>2
<1>11. QED
  BY <1>1, <1>2, <1>3, <1>4, <1>5, <1>6, <1>7, <1>8, <1>9, <1>10 DEF LaunchStep, Exit, Die

-----------------------------------------------------------------------------
LEMMA StepHolds == IInv /\ [Next]_vars => IInv'
<1> SUFFICES ASSUME IInv, [Next]_vars PROVE IInv'
  OBVIOUS
<1>0. TypeOK /\ armMode \in {"move", "reflex", "stopped"}
  BY DEF IInv, TypeOK
<1>1. CASE LaunchStep /\ UNCHANGED monitorVars
  BY <1>0, <1>1, LaunchTypes, LaunchThresholds DEF IInv
<1>2. ASSUME NEW p \in view, StartNode(p)
      PROVE  IInv'
  <2>1. p \in Plain /\ Start(p) /\ (BroadcasterInit \/ UNCHANGED monitorVars)
    BY <1>2 DEF StartNode, Start
  <2>2. Kept'
    BY <2>1, LaunchThresholds
  <2>3. CASE UNCHANGED monitorVars
    BY <1>0, <2>1, <2>2, <2>3, LaunchTypes DEF IInv
  <2>4. CASE BroadcasterInit
    <3>1. /\ known' \in {"none", "move", "reflex", "stopped"}
          /\ age' \in 0 .. Timeout
          /\ status' \in {"STALE", "ACTIVE", "COLLISION", "EMERGENCY STOP", "DISCONNECTED"}
      BY <1>0, <2>4, MonitorTypes
    <3>2. proc \in [AllProcesses -> States]
      BY <1>0 DEF TypeOK, States
    <3>3. proc' \in [AllProcesses -> States]
      BY <2>1, <3>2 DEF Start, Becomes, States
    <3>4. UNCHANGED <<file, args, view, launch, waited, armVars>>
      BY <2>1 DEF Start
    <3>5. TypeOK'
      BY <1>0, <3>1, <3>3, <3>4 DEF TypeOK, States, armVars
    <3>6. QED
      BY <2>2, <3>5 DEF IInv
  <2>5. QED
    BY <2>1, <2>3, <2>4
<1>3. CASE State \/ Mode \/ Joints
  <2>1. /\ UNCHANGED launchVars
        /\ StateMessage(armMode) \/ ModeMessage \/ HeartBeat
    BY <1>3 DEF State, Mode, Joints
  <2>2. /\ known' \in {"none", "move", "reflex", "stopped"}
        /\ age' \in 0 .. Timeout
        /\ status' \in {"STALE", "ACTIVE", "COLLISION", "EMERGENCY STOP", "DISCONNECTED"}
    BY <1>0, <2>1, MonitorTypes
  <2>3. TypeOK'
    BY <1>0, <2>1, <2>2 DEF TypeOK, launchVars, armVars
  <2>4. QED
    BY <2>1, <2>3 DEF IInv, launchVars, armVars, Kept, ThresholdsKept, AcceptedIsLive, MetIsSet,
       OffIsDead, ControlUp
<1>4. CASE Second
  <2>1. LaunchTick /\ (Check(Listed) \/ UNCHANGED monitorVars)
    BY <1>4 DEF Second
  <2>2. Kept'
    BY <2>1, LaunchThresholds
  <2>3. CASE UNCHANGED monitorVars
    BY <1>0, <2>1, <2>2, <2>3, LaunchTypes DEF IInv
  <2>4. CASE Check(Listed)
    <3>1. /\ known' \in {"none", "move", "reflex", "stopped"}
          /\ age' \in 0 .. Timeout
          /\ status' \in {"STALE", "ACTIVE", "COLLISION", "EMERGENCY STOP", "DISCONNECTED"}
      <4>1. Listed \in BOOLEAN
        BY DEF Listed
      <4>2. QED
        BY <1>0, <2>4, <4>1, MonitorTypes
    <3>2. waited \in 0 .. Patience + 1 /\ Patience \in Nat
      BY <1>0, PatienceAssumption DEF TypeOK
    <3>3. waited' \in 0 .. Patience + 1
      BY <2>1, <3>2 DEF LaunchTick
    <3>4. UNCHANGED <<file, args, view, launch, proc, armVars>>
      BY <2>1 DEF LaunchTick
    <3>5. TypeOK'
      BY <1>0, <3>1, <3>3, <3>4 DEF TypeOK, armVars
    <3>6. QED
      BY <2>2, <3>5 DEF IInv
  <2>5. QED
    BY <2>1, <2>3, <2>4
<1>5. CASE UNCHANGED vars
  <2>1. UNCHANGED <<file, args, view, launch, proc, waited, armMode, thresholds, initParams,
                    hasError, met, accepted, known, age, status>>
    BY <1>5 DEF vars, launchVars, armVars, monitorVars
  <2>2. TypeOK'
    <3>1. initParams' \in BOOLEAN /\ hasError' \in BOOLEAN /\ met' \in BOOLEAN
      BY <1>0, <2>1, Zenon DEF TypeOK
    <3>2. \E l \in Launches : file' = l.file /\ args' = l.args /\ view' = l.view
      BY <1>0, <2>1 DEF TypeOK
    <3>3. QED
      BY <1>0, <2>1, <3>1, <3>2 DEF TypeOK
  <2>3. Kept'
    BY <2>1 DEF IInv, Kept, ThresholdsKept, AcceptedIsLive, MetIsSet, OffIsDead, ControlUp
  <2>4. QED
    BY <2>2, <2>3 DEF IInv
<1>6. QED
  BY <1>1, <1>2, <1>3, <1>4, <1>5 DEF Next

LEMMA Invariance == Spec => []IInv
BY InitHolds, StepHolds, PTL DEF Spec

(* The launch, its processes and what is shown are always of their kinds.   *)
THEOREM TypeCorrect == Spec => []TypeOK
<1>1. IInv => TypeOK
  BY DEF IInv
<1>2. QED
  BY Invariance, <1>1, PTL

(* The thresholds of a launch are lost in one way: to the first defaults of *)
(* a control node that met the arm in error.                                *)
THEOREM LaunchKeepsThresholds == Spec => []ThresholdsKept
<1>1. IInv => ThresholdsKept
  BY DEF IInv, Kept
<1>2. QED
  BY Invariance, <1>1, PTL
=============================================================================
