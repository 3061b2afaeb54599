# Verification of the Panda ROS 2 platform

TLA+ models of the control software in this repository, the TLC runs that
check them on small instances, and TLAPS proofs of the properties that matter
most, for every value of the constants. Paths below are relative to the
repository's root.

## 1. The system

The platform drives one or two Franka arms and their grippers from ROS 2.

| Part | State it keeps | Operations | Talks to |
|---|---|---|---|
| **Robot** (`src/franka_hardware/src/real/robot.cpp`, `robot.hpp`) | the loop's thread, `finish_`, `stopped_`, `has_error_`, the cached robot state, the commands, three mutexes | `read`, `write`, `stopRobot`, five `initialize...Control`, `initializeContinuousReading`, parameter setters | libfranka, everything below that holds a `Robot` |
| **Error recovery service** (`franka_error_recovery_service_server.cpp`) | none | `triggerAutomaticRecovery` | Robot, on a thread of `FrankaExecutor` |
| **Parameter services** (`franka_param_service_server.cpp`) | none | six setters | Robot, on a thread of `FrankaExecutor` |
| **FrankaMultiHardwareInterface** (`franka_multi_hardware_interface.cpp`) | per arm: `control_mode_`, `switch_cm_`, command arrays | lifecycle callbacks, `prepare_` and `perform_command_mode_switch`, `read`, `write` | Robot; called by the controller manager from two threads |
| **ros2_control node** (`franka_control2_node.cpp`) | none | the 1 kHz cycle read, update, write | the controller manager (external) |
| **Gripper action server** (`src/franka_gripper`) | cached gripper state, goals, futures | four action servers, stop service, state timer | libfranka's Gripper |
| **Gripper adapter** (`src/franka_bringup/scripts/crisp_py_gripper_adapter.py`) | `close_state`, last width | status command, right button, two timers | gripper action server |
| **Pilot buttons** (`src/franka_buttons`) | websocket, cooldown, trigger state | button events, record messages | Desk, gripper adapter, recorder |
| **Desk client** (`scripts/utils/franka_desk.py`) | login, control token | login, token, brakes, FCI, homing, reboot, clean-up | Desk's HTTP API |
| **Launch files** (`src/franka_bringup/launch/franka_platform.launch.py`, `franka_new`, `franka`) | none; the processes they start | start, wait for the control node, set the thresholds, shut down | all nodes of one arm |
| **Dashboard**, **mode broadcaster** (`scripts/utils/platformdashboard.py`, `robot_mode_broadcaster.py`) | heartbeats, statuses, last mode | timers and subscriptions | arms, cameras |
| **Launch interface** (`scripts/launch_interface.py`, `scripts/utils`) | menu, tmux sessions | start and stop the platform | Desk client, dashboard, tmux |
| **Broadcasters** (`src/franka_robot_state_broadcaster`, `src/franka_semantic_components`) | realtime publisher, pointers into the hardware | lifecycle, update | hardware interface |

What is hard here:

- **Threads.** One arm is shared by the ros2_control thread, the libfranka
  loop, and service threads. `stopRobot()`/`initialize*()` take no lock of
  their own; `read_mutex_` is held across a join; `write_mutex_` is held across
  network calls; `stopped_` is a plain `bool`.
- **Two-phase switches.** `prepare_command_mode_switch()` runs on the
  controller manager's service thread, `perform_command_mode_switch()` in the
  cycle; a refusal for a later arm comes after earlier arms were changed.
- **Failure.** Reflexes and lost packets at any moment, libfranka exceptions
  of which some are caught, a recovery that fails half-way.
- **Goals on detached threads.** Cancel against completion against the stop
  service against shutdown, with one gripper behind four servers.
- **Keys typed unseen.** The launch interface types commands and ctrl-C into
  panes of tmux and never looks at what becomes of them, while the brakes it
  opens and closes are those of the arms that these commands move.
- **Liveness inferred.** The dashboard tells a dead arm by the messages that do
  not come, and nodes go on sending after what they repeat has ended.
- **External authority.** Desk hands one control token to competing clients,
  over HTTP, with time-outs.

The hazards, each at its line, are listed in `PROJECT.json`.

### What makes each part correct

- *Robot*: `stopped_` tells the truth about the loop; a thread is joined
  exactly once before it is replaced; a stop ends the loop; a reflex reaches
  `has_error_`; a successful recovery resumes the loop that was interrupted.
- *Hardware interface*: modes of the arms and active controllers stay in
  step; no command that is not finite reaches an arm; a healthy arm gets its
  commands.
- *Gripper server*: each goal gets one result that fits what happened to it,
  after its command is over, and always gets one.
- *Gripper adapter*: the last command wins; a press toggles once.
- *Desk client*: no arm is left unlocked under nobody's control; the menu means
  an enabled arm; the token is given back.
- *Pilot buttons*: the node ends when its connection does.
- *Launch files*: when the control node ends, so does all the rest; the
  thresholds that a launch sets stay (all but one way to lose them, section 4);
  nothing waits for ever.
- *Dashboard*: a dead arm is shown as dead, a reflex as a reflex, a free arm as
  active, whatever the watchdog and the modes write over each other.
- *Launch interface*: each launch has a confirmation of its own; a launch is told
  to end before the brakes of its arm close, ends at last, and none starts late;
  the brakes close for each arm whatever fails for the other.

## 2. Plan

1. `FrankaRobot`, and `ControlLoop`, the abstract specification of what it promises;
   `FrankaRobotProofs` (done).
2. `CommandModeSwitch` (done) and `CommandModeSwitchProofs` (done).
3. `GoalLifecycle`, the abstract specification of an action server's goals,
   and `GripperActionServer`, which implements it (done);
   `GripperActionServerProofs` with the refinement (done).
4. `FrankaDesk`: the Desk client, with competing programs, and
   `FrankaDeskProofs` (done).
5. `GripperAdapter`, `PilotButtons` and `Teleop`, which composes them, and
   `TeleopProofs` (done).
6. `ArmLaunch`, `StatusMonitor` and `Platform`, which composes them, and
   `PlatformProofs` (done).
7. `LaunchInterface`, with two arms and the panes, and `LaunchInterfaceProofs`
   (done). `DeskSession`, which it and `FrankaDesk` both refine (done).
8. `GripperAdapter` over `GripperActionServer`: goals that fail or are
   superseded.
9. The realtime publishers of the broadcasters and the pointers they keep into
   the hardware interface.
10. Theorems on `FrankaRobot` with recovery: what still holds of `isStopped()`, that
    nothing else waits in a circle, and what order of recoveries is enough (done).

Each component has one module, an `MC` module with its instances, one `.cfg`
per run, and, where theorems are worth it, a `*Proofs` module that EXTENDS it.
No module uses RECURSIVE.

## 3. Modules

### FrankaRobot

Models `Robot` with its four threads, one label of `pc` per point where
another thread can be seen: `rt` (cycle and lifecycle), `ctl` (the loop), `rec`
(recovery service), `par` (parameter service).

| Code | Model |
|---|---|
| `finish_`, `stopped_`, `has_error_`, `init_params_set` | `finish`, `stopped`, `hasError`, `initParams` |
| `control_thread_` | `handle` (null, joinable, joined) and `pc["ctl"]` |
| `read_mutex_`, `write_mutex_` | `readMutex`, `writeMutex` |
| libfranka's lock in `franka::Robot` (external) | `libMutex` |
| `current_state_` | `currentMode`, the one field the code tests |
| `Robot::control_mode_` | `cm`, initially anything, also no enumerator (`Garbage`) |
| `ArmContainer::control_mode_` | `hwMode`; `loopMode` is the mode of the loop that was really started |
| `stopRobot()` | `StopCheck`, `StopSignal`, `StopJoin` / `StopJoinTwice`, `StopHalt`, `StopReset` |
| `initialize*()` | `InitializeBegin`, `InitializeSpawn` / `InitializeOverLoop` |
| the lambdas of the loops | `LoopEnter` ... `LoopRaise` |
| `read()` | `ReadBegin` ... `ReadEnd`, and `StopRobot("rt")` |
| `triggerAutomaticRecovery()` | `RecoveryCall` ... `RecoveryAnswer`, `RecoveryCaught`, `RecoveryUncaught` |
| setters | `ParamCall`, `ParamReturn` |
| an exception nobody catches | `Terminate` and `Lose`, after which `alive` is FALSE |

`assert(isStopped())` is no guard: the packages are built as Release. The
plain `bool` fields are read and written without a common lock; they are taken
to be sequentially consistent, which is what the build does for an aligned
byte. Not in the model: the contents of the command arrays and the destructor.

A process can die in two ways, which `pc` tells apart. `Terminate` ("dead") is the code's
own doing: a second `join()`, a thread object overwritten, or an
`InvalidOperationException` in a control lambda. `Lose` ("lost") is an exception of
libfranka's that nobody catches: the lambdas catch `ControlException` (the reading loop
also `InvalidOperationException`) and `read()` only the latter, so a
`NetworkException` or a `RealtimeException` ends the process, and `has_error_` stays as
it was. It may come at any packet or end of a motion of the loop (`LoopLost`), in
`readOnce()` (`ReadOnceLost`), in `robot_->stop()` of the cycle (`StopHaltLost`), and in
the recovery (`RecoveryUncaught`). A lost process has no loop and says nothing, so what
`CommandedLoop` and `CollisionOnlyInError` say of a loop is said of a live process.

`ControlLoop` is what the hardware interface sees of a `Robot`: a loop is announced
(`initialize*()` sets `stopped_` to false), starts, is asked to end, ends or fails with
the error flag set, and only then is the robot stopped again. `KeepsControlLoop` is the
refinement: `stopped` and `alive` are themselves, `due` is the program counter of a
caller between the flag and the thread, `runs` is `LoopRuns`, `asked` is `finish`,
`error` is `hasError`, and `lost` whether a thread died of such an exception. Only a loop
that an arm in error refuses (`Die`) or a lost connection (`Lose`) ends the process there;
a second `join()` or an overwritten thread would be neither. `Start` needs no guard on `runs`: a robot on which a loop is announced was
stopped, which `Stop` makes true only when no loop runs.

### CommandModeSwitch

Models the hardware interface over `N` arms: the request of the controller
manager, `prepare_` and `perform_command_mode_switch()`, update, `write()`,
activation. Interfaces are claimed in whole groups (the seven joints of a word,
sixteen pose elements, six twist elements), so the code's counts become
`Single`. `Within` is the relation "the arm's name occurs in the interface's",
by which the code assigns interfaces to arms. `mode`, `switch`, `hwCmd` are the
container's fields, `robotCmd` the copy in `Robot`, `loop` the mode the arm's
loop was last started in (what a loop then does is `FrankaRobot`'s subject).

A command is told apart by its author only: a controller, the zero of a reset,
or a value that is not finite. `export_command_interfaces()` iterates over
copies of the containers, so what a controller writes to a Cartesian interface
reaches no array of the hardware interface: `Update` leaves the Cartesian
commands as they are, and `HealthyArmObeys` speaks of joint controllers only.

The controller manager is external: `Request` says what requests it makes
(active controllers are stopped, no interface is claimed twice), it drops a
request that is refused, and it performs an accepted one before or after the
update of a cycle. After `write()` has answered ERROR it finalises the
component, and the model ends.

### GoalLifecycle and GripperActionServer

`GoalLifecycle` is what a client may rely on: a goal gets one result, canceled
only if it was asked to cancel, and none while its command is in flight.

`GripperActionServer` has the executor's one thread (goal and cancel requests,
the stop service, the timer that keeps `gripper_state_mutex_` while it reads),
one detached thread per goal (`pc`), and one async thread per goal (`future`).
`homing`, `move` and `grasp` run `executeCommand()`; a goal of `Moveit` runs
`onExecuteGripperCommand()` and `executeGripperCommand()`, which check the width
first and take the mutex for the result. `motion` is the goal whose command the
gripper carries out (external): a command on top of another replaces it or
fails.

Refinement: `status` is `status`, and `inFlight` the goals whose future is
spawned or sent.

### FrankaDesk

Models `franka_desk.py` for one arm. A client is one run of one program with
its `FrankaLockUnlock` object: `franka_desk.py`'s own `main()` (the clients in
`Cli`), or `launch_interface.py`, which may leave its menu at any time because
of its other arm. `pc` is the HTTP request a client makes next and `phase` the
part of the program it is in, which decides what an exception does: `Raise`
goes to `main()`'s finally clause, to the `_cleanup()` registered with `atexit`,
or out of it.

Every request can be refused, and can be carried out with its answer lost (a
`RequestException`, or ctrl-C while it runs). `Kill` ends a program without any
handler. Desk itself is external, as the requests and the documentation in
`buttons_listener.py` (lines 49-59) describe it: one active token; a forced claim
comes into force when the button on the robot is pressed, or at once when
nobody has control; only the active token opens and closes brakes or switches
the FCI; releasing it disables the FCI (`franka_desk.py:205`). A person at Desk's
web page is not a client of the model.

`token` stands for `_token` and `_token_id`, which are set and cleared together,
and is named after its client: no client gets a second one, because after the
only path that gives the first one back and goes on (`giveUp`) it is logged out.

### GripperAdapter, PilotButtons and Teleop

`GripperAdapter` models `crisp_py_gripper_adapter.py`: a callback for a status
command or a press of the right button (`pc` per thread of the executor)
reads `width`, then `closeState`, sends a goal and sets `closeState`, in that
order and with other threads in between. `PilotButtons` models the two asyncio tasks of
`franka_pilot_buttons.py` (`desk`, `spin`), the `asyncio.wait` over them (`main`)
and the cool-down of `franka_buttons_to_record.py` (`since`; the messages it
sends to the recorder are left out). `Teleop` composes
them: an accepted press of the right button is a message in `rights`, and both
share the ticks.

Time is a tick of 0.1 s and widths are centimetres, so that fingers at the 0.1 m/s
of every goal move by one a tick: the opening time (0.8 s), the threshold of
`is_open()` (7 cm) and the cool-down (0.5 s) keep the proportions that matter.
Messages and callbacks are handled within the tick; a joint state arrives at
least once a tick, and may come between any two steps of a callback. External:
the gripper, which carries out the last goal it was sent, an object of a width in
`Objects`, up to the whole opening, that stops the closing fingers and may be exchanged
or taken away (`Place`), and the teleoperator, who streams `cmd` and changes it at will.
An object wider than `is_open()`'s threshold is `Wide`: fingers that hold it count as
open, so that the adapter closes them at every press and ignores an open command, for as
long as they hold it. `heard` and `quiet` are
history variables: `quiet` counts the ticks in which the current command was
heard and nothing else happened, up to the time of the fingers' whole way; a wide object
that is lost starts the count again, since the fingers only then close.
`clash` is another: opposite goals have been in hand, that is decided upon and not
yet noted in `closeState`, since the adapter was last in step with the gripper.

### ArmLaunch, StatusMonitor and Platform

`ArmLaunch` models what a launch file starts for one arm and how the processes
wait for each other; `StatusMonitor` the mode broadcaster and the dashboard's
entry of the arm; `Platform` composes them: which processes must be alive for
a message to come.

| Code | Model |
|---|---|
| the arguments and nodes of `franka_platform.launch.py`, `franka_new`, `franka` | `Defaults`, `Processes(file, args)` |
| what the launch interface passes | `PanelArguments` |
| a `ros2 launch`, its ctrl-C, `on_exit=Shutdown()` | `Begin`, `Interrupt`, `Shutdown`, `Exit`, `Ended` |
| a spawner, which waits for the control node and ends | `Spawn(p)`, process named after its controller |
| `set_robot_collision_behavior` | `CallService` |
| `setDefaultParams()` in `Robot`'s constructor and in a recovery | `StartControl`, `Recover` |
| `wait_until_ready()` of the adapter | `AdapterReady`, `waited` |
| `robot_mode`, the 30 Hz timer | `known`, `ModeMessage` |
| `last_seen`, `_check_heartbeats()` | `age` (runs of the watchdog), `Check` |
| `status_dict` | `status` |

A launch has some fifteen processes. Except for the ones an action names together,
they disturb each other only through the control node, so a behaviour follows the
processes of one *view*: the chain of nodes that the dashboard watches, or the
hand with the collision service. `Processes` still says for every file and
arguments which of them exist. `Fault` is `write()` answering ERROR (the subject
of `CommandModeSwitch`), after which the node goes on without its controllers;
`BroadcasterFails` is the state broadcaster's `update()` answering ERROR when the
lock of its publisher is taken. The mode of the arm is external.

### LaunchInterface

Models `main()` of `launch_interface.py` and of `panel_demo.py`, whose steps are
the same. `enable_robot()` and `_cleanup()` succeed as a whole here, or are cut off by an
error, ctrl-C or a kill with the brakes as they were or as they were to be (`HalfWay`),
and `reboot_sys()` is `unable_robot()` and then `enable_robot()`; their requests are the
subject of `FrankaDesk`. `DeskSession` ties the two: what one program does to the brakes
of one arm, in whatever position it finds them.

| Code | Model |
|---|---|
| where `main()` is, and the list it works through | `pc`, `todo` |
| `launch_tmux()` and the session that tmuxp makes, pane by pane | `Start`, `LaunchTmux`, `Load(p)`, `session` |
| a pane and its shell (external) | `pane`: busy, shell, running, stopping |
| `send_command_to_pane()`, `send_interupt_to_pane()` | `Type` and `typed`, `Interrupt` |
| `enable_arm_with_desk()`, `reboot_sys()` | `Enable`, `Unable`, `Reopen`, `brakes` |
| `safety_check_panel()`, the operator's Enter, perhaps typed ahead | `Enter`, `TypeAhead`; `confirmed` is a history variable |
| `finally`, `kill_tmux_session()` | `Kill`, `HangUp`, `ShutdownRaises` |
| the clean-ups registered with `atexit` | `registered`, `CleanUp`; `failed` is a history variable |

`way` is how `main()` is left, and "cut" when `rclpy.shutdown()` raises in the `finally`
clause, which it does when a signal has shut the context down before: SIGINT, if
rclpy's handler was faster, or SIGTERM, which `rclpy.init()` handles and the program
survives until a key is pressed. Then the session is not killed. `tmux kill-session`
only hangs the panes up: a launch becomes "stopping", and the clean-ups do not wait for
it. A command typed before its pane is there is lost (`Type`); one typed
while the last launch still stops waits (`typed`). The name of the session is fixed, so
a run that was killed may have left one, with its launches, and open brakes: `Init` has
them, and tmuxp then makes no new one. A command that such a run has typed and its pane
not yet started is left out. The operator types nothing into the panes. An Enter typed
during `enable_robot()` or `reboot_sys()` waits in the terminal and satisfies
`safety_check_panel()`; one typed before the key of the reboot is thrown away by
`tty.setcbreak()`.

## 4. Runs

| Run | Checks | Instance | Shows |
|---|---|---|---|
| `threads` | `TypeOK`, `CheckedStateIsStable`, `NoOtherDeadlock` | one control mode besides reading, recovery with failing calls, lost connections | 752 122 states |
| `rt` | `StoppedMeansNoLoop`, `CommandedLoop`, `KeepsControlLoop`, `SwitchStopEnds`, `ReflexIsFlagged` | the same, no recovery, with fairness | 8 490 states |
| `race` | `StoppedMeansNoLoop` | with recovery | violated |
| `readstop` | `StopRobotEnds` | no recovery, with fairness | violated |
| `restart` | `RecoveryRestartsLoop` | with recovery that does not fail | violated |
| `switch` | `TypeOK`, `OnlyRefusalDisturbs`, `HealthyArmObeys` | two arms, three controllers: two modes on the first arm, another word on the second | 68 248 states |
| `wedge` | `OneModePerArm` | the same | violated |
| `goals` | `TypeOK`, `ResultMeansRest`, `KeepsLifecycle`, `EveryGoalEnds` | a `move` goal and a `gripper_action` goal, two widths and one out of range | 100 416 states |
| `desk` | `TypeOK`, `OpenUnderToken`, `ReadyInMenu`, `NoClaimAfterLogout`, `EveryAttemptEnds` | one client of each program, two polls, with fairness | 8 777 states |
| `teleop` | `TypeOK`, `StateFollowsGoals`, `HeldCommandObeyed`, `PressReopens`, `FailureEndsNode` | two threads, an object of 4 or 8 cm, with fairness | 1 126 484 states |
| `platform` | `TypeOK`, `ThresholdsKept`, `ShutdownEndsAll`, `AdapterSettles`, `DeadArmShown`, `ReflexShown`, `FreeArmShown` | nine launches, with fairness | 179 904 states |
| `launch` | `TypeOK`, `StopBeforeBrakes`, `EveryArmRelocked`, `EveryLaunchConfirmed`, `KeepsSessions`, `ConfirmedArmIsLaunched`, `LaunchesEnd`, `LeavingEnds` | two arms and cameras, one arm, and `panel_demo.py`, with fairness | 267 866 states |

The runs that end in a violation show a disagreement between the code and what
it says of itself; `PROJECT.json` quotes the lines under "findings":

- *race*: with the recovery service, `isStopped()` can answer true over a
  running loop. Without it (`rt`) it cannot, nor (`OnlyOverlapsDeceive`) with it as
  long as its stop and restart do not overlap with those of the cycle.
- *readstop*: `read()` stops a loop that waits for the mutex `read()` holds.
  `SwitchStopEnds` shows that a stop from a switch or a deactivation ends, and
  `NoOtherDeadlock` that this is the only circle in which threads wait.
- *restart*: a recovery answers success with no loop, or another loop, started.
- *wedge*: a refused request leaves an arm free for a second mode beside a
  controller that is still active. `OnlyRefusalDisturbs` shows that nothing
  else can.

What the passing runs show beyond the properties' names:

- `desk`: `OpenUnderToken` shows that the clean-up order is the only way to leave
  an open arm under nobody's control. `main()` of `franka_desk.py` takes that way:
  it releases its token before the clean-up that should relock, so
  `RelockedOnExit`, which no run checks, is false of it; launch_interface keeps it
  (`LaunchedArmIsRelocked`).
- `launch`: `KeepsSessions` has the brakes of each arm follow `DeskSession`, which
  `FrankaDesk` follows request by request (`LauncherKeepsSession`).
- `teleop`: `main()` of the adapter has a `MultiThreadedExecutor` and reentrant
  callbacks. A press and a command whose callbacks overlap can leave `close_state`
  at odds with the gripper, and the adapter then ignores the teleoperator until a
  press. `StateFollowsGoals` and `HeldCommandObeyed` show that this, and a wide object
  (below), are the only ways to an ignored command, whatever the two threads do in
  between.
- `platform`: the fake arm and the empty name are part of it. With an empty name
  the service name is invalid and the dashboard cannot subscribe; an arm whose
  name contains `_arm` has another entry written (`Listed`), so `DeadArmShown`
  excludes both. A missing file of collision parameters makes the launch fail
  before any process starts (`Generates`). `ThresholdsKept` has one exception, which is
  what the code does: when the control node meets the arm in error, `setDefaultParams()`
  of `Robot`'s constructor is refused; if the launch's thresholds are accepted before a
  recovery (`accepted` is "early"), the first recovery sets the defaults over them
  (`franka_error_recovery_service_server.cpp:37-39`), and nobody sets the launch's again.
  The property says that this is the only way to lose them.

Some disagreements have no run of their own, as the model states them plainly. After a
normal close of the websocket the node logs "This node will now exit."
(`franka_pilot_buttons.py:311`) and does not, since `FIRST_EXCEPTION` goes on
waiting for the other task (`WaitOver`). A press while the fingers open,
half a second after the press that opens them, opens them again, although line
297 of the adapter says that each press toggles. A state broadcaster that has failed is
not noticed (`ModeMessage` goes on with the last mode), nor is a silent arm: as
long as `joint_state_publisher` lives it repeats its last positions (`Joints`), so
a launch whose controllers are gone is shown ACTIVE, although the dashboard's
docstring (`platformdashboard.py:45`) has it detect silent hardware. With an object wider
than 7 cm between them, closed fingers count as open and the adapter does not open them
(`HeldCommandObeyed` and `PressReopens` except it by name).

What the properties of `launch` do not say, because the program does not keep it:

- that a launch has *ended* when the brakes close. Between ctrl-C and
  `unable_robot()` nothing waits (`launch_interface.py:272-273`), nor between
  `kill-session` (`tmux_manager.py:88-97`) and the clean-ups. `StopBeforeBrakes` says that
  the launch has been told to end and that none waits to start, `LaunchesEnd` that
  every launch of every pane ends at last. Neither holds when the `finally` clause is cut
  short ("cut"), where launches outlive the program under closed brakes; nor does
  `LaunchesEnd` say anything of a program that was killed.
- that the operator has confirmed *after* the brakes were last opened. An Enter typed
  during the reboot counts (`TypeAhead`). `EveryLaunchConfirmed` says that each launch has
  an Enter of its own, typed since the start of the program or the key of the reboot; a
  command from before a reboot never starts after it.
- that a confirmed arm is launched when the launch of an earlier, killed run is still
  there: `ConfirmedArmIsLaunched` speaks of panes that exist and are not so occupied.

**Bounds.** No action is cut off by a counter; the state spaces are finite
because the data are. One control mode besides the reading loop is enough for
`FrankaRobot`, since the five run the same code. Two arms make the order of
the map and refusals after an accepted arm matter; three controllers give
switches within an arm, across words and across kinds. Two goals of different
types suffice for one goal's cancel to stop the other's motion. One client of
each program lets each take the control from the other at every point; a third
one adds nothing a take-over does not. `MaxPolls` is 20 in the code; two make a
poll that is not the last one. In `teleop`, two threads
have every overlap of two callbacks, an object of 8 cm is beyond the threshold of
`is_open()`, which the fingers cross on their way to one of 4 cm; any number of threads, and
the whole way, is what the proofs are for.
`CoolDown` and `Settled` cap the two clocks: beyond them nothing depends on the time.
In `platform`, `Patience` is 1 second for 5, which leaves a second in which the
gripper may come and one in which it is too late; `Timeout` caps `age`; the nine
launches are the three files, both views, real and fake hardware, with and without
gripper, parameters and name; `Mortal` are the processes whose death the other
ones, or the dashboard, could miss. Nobody but the launch sets thresholds. In
`launch`, a program is interrupted once: a second ctrl-C during the clean-up is
left out. Two arms are all that the program offers.

**Fairness.** `FrankaRobot`: threads are scheduled and calls to the arm return
(weak); the loop is served strongly, since it competes for `write_mutex_` with a
service that gives it back for a network round trip between two requests.
Nothing is assumed of the operator, of reflexes or of which switches are made.
`CommandModeSwitch`: the cycle goes on. `GripperActionServer`: threads are
scheduled and libfranka's calls return; strong for goal threads, which compete
for the mutex with a timer that leaves it free most of its period. `FrankaDesk`:
programs run and requests return (`requests` is called without a time-out, so
this is an assumption on Desk); nobody has to press a button, use or quit a menu.
`Platform`: processes get on, messages arrive and seconds pass; nobody has to
start, stop, break or recover anything, and a call of the collision service may
wait for ever. `LaunchInterface`: the program's own steps, the shells and the
launches told to end get on (`ros2 launch` ends its processes by SIGKILL at last);
the requests of a clean-up return or fail, as for `FrankaDesk`; those that enable
or reboot an arm may hang, a session need not come up, and nobody has to press keys.
`Teleop`: the asyncio loop of the node of the buttons runs its tasks and the login
returns (it has a time-out); nothing is assumed of events, commands or the clock.

Deadlock is checked in `teleop` and `platform`. In the other runs it is not: the models end
where the process does (`alive = FALSE`, `failed = TRUE`, `pc = "gone"`), and the
stuck cycle of `readstop` is the subject of a liveness property.

## 5. Proofs

All in `*Proofs.tla`, checked by TLAPS for every value of the constants, from
the modules' named assumptions.

- `FrankaRobotProofs`. Four theorems hold with recoveries and failing calls.
  `TypeCorrect`. `CallbackStateStable`, from `LockInv`: whoever is inside libfranka
  owns `libMutex`, so `read()` is never between its `readOnce()` and its assignment
  while the loop is in its callback. `WaitsEnd` (`NoOtherDeadlock`), from `OwnInv`, which
  ties the owner of each mutex to where its thread is: in every set of threads that
  wait for one of the set there is the loop, at `cbRead`, and `read()` that joins it
  (`OwnersGetOn`). `OnlyOverlapsDeceive`: `StoppedMeansNoLoop` holds of every behaviour
  in which the two callers are never both inside `stopRobot()` or `initialize*()`
  (`Apart`); the overlap that the run `race` shows is the only way to it, not the failing
  calls, nor a switch between a recovery's stop and its restart.
  The other theorems need more, and hold of every behaviour that is `Orderly`: the
  recovery from its `stopRobot()` to its restart excludes the other stops and starts and
  a `readOnce()` in flight, and comes only to an active component (`Serial`), and its
  `robot_->stop()` does not throw an exception that the service catches
  (`RecoveryBreaks`; one that it does not catch ends the process, and is allowed). That is what one more mutex and a test in the service would do.
  TLC was used to find it: leave out any of its conditions and one of the properties is
  violated (a recovery of an inactive component, for one, starts a loop over which
  `on_activate()` starts another). `PairInv` ties `stopped`, `finish` and `handle` to
  where the callers and the loop are; it is needed because none of the properties is
  inductive (that `stopped` means no loop depends on where in `stopRobot()` or
  `initialize*()` a thread is). From it: `AssertionHolds`, `RtThreadSurvives`,
  `CollisionNeedsError`, and, with `AskedInv` (who sets `finish`, who holds `libMutex`),
  `ImplementsControlLoop`, the refinement of `ControlLoop`, one step per action; a process
  lost at any call of libfranka maps to `Lose`. Without
  recoveries every behaviour is orderly (`LoopWithoutRecovery`), and `ModeInv`, what `rt`
  is about to start, gives `CommandedLoop`: between two switches the loop is the one that
  `control_mode_` of the hardware interface names. `CommandModeSwitch` rests on it where
  `Perform` sets `loop` in one step.
- `CommandModeSwitchProofs`. `TypeCorrect` for any number of arms and any
  claims, with the point that no arm is given a command that is not finite.
  `AcceptedSwitchesStayInSync`, under the assumption that arm names do not occur
  in each other: if modes and controllers are in step, every step but a refused
  request keeps them so. The argument goes through `Prepare`: an accepted request
  turns off exactly the arms of the controllers it stops, and starts an arm only
  in the mode of the one group it claims there. `WedgeTakesRefusal` follows: the
  violation that the run `wedge` shows takes a refused request.
- `GripperActionServerProofs`. `TypeCorrect`; `GoalInv`, which bounds a goal's
  future and status by where its thread is; from it `RestAfterResult` and
  `ImplementsLifecycle`, the refinement of `GoalLifecycle`, one step per action.
- `FrankaDeskProofs`. One inductive invariant, per client: `Places` (which
  requests a phase makes), `Claims` (what a client may have claimed at Desk
  without knowing, and when it knows), `Arm` (what the client in control has made
  of the arm). It is needed because `OpenUnderToken` rests on the order within
  `_cleanup()`, and that on a client losing its control between two requests and
  never getting it back. `Bystander` says once that a step of one client disturbs
  no other. Theorems: `TypeCorrect`, `OpenArmIsControlled`, `MenuMeansReady`,
  `LogoutLeavesNoClaim`, and, when `main()` is not used, `LaunchedArmIsRelocked`,
  which is false of `main()`. `LauncherKeepsSession`: what a client of launch_interface
  does to the brakes is a `DeskSession` (mapping in `SessionState`), as long as no other
  client gets the control (`Unrivalled`; others may run, ask and wait). It needs
  `SessionInv`: the client is in control whenever it offers or reboots the arm, although
  `_is_active_token()` is also true when nobody is. `AttemptsAreBounded` is the part of
  the liveness property `EveryAttemptEnds` that needs no fairness: each request, whatever
  its answer, lowers `Distance`, and only a reboot raises it, so an attempt makes at most
  `2 * MaxPolls + 18` requests (58 with the 20 polls of the code). The clean-up of the
  menu's way in (`giveUp`) comes back to it and is the case to look at: it ends logged
  out, so the request that follows can only fail.
- `TeleopProofs`. For every set of threads and of objects up to the whole opening. None of the properties is
  inductive: `StateFollowsGoals` needs what `goal` and `closeState` are while threads
  are between sending and noting (`NoOddsWithoutClash`); `HeldCommandObeyed` needs to
  know how far the fingers have come in `quiet` ticks towards a goal that is not the
  command (`OnTheirWay`), that every callback then knows nothing but the command
  (`OnlyCmd`), and that a command heard at rest is in hand, obeyed, or ignored by a
  wrong `closeState` (`HeardIsObeyed`); `PressReopens` needs how far they have come
  since the last accepted press (`ClosingByPress`), and that no other thread holds
  the opposite goal (`PressInHand`). Theorems: `TypeCorrect`, `StateIsWhatWasAsked`,
  `KeptCommandsAreObeyed`, `PressesAlternate`.
- `PlatformProofs`. For any launches, mortal processes and patience. `TypeCorrect`
  and `LaunchKeepsThresholds`. `ThresholdsKept` is not inductive: a new connection
  of the control node would set the default thresholds over accepted ones. The
  invariant adds that thresholds accepted late are kept by `init_params_set`, and early
  ones until a recovery of a node that met the arm in error (`Kept`), that they are
  accepted only of a control node that is up (`AcceptedIsLive`), that `met` is set
  whenever that node has not set its parameters (`MetIsSet`), and that nothing is up in a
  launch that is off (`OffIsDead`), from where a launch begins.
- `LaunchInterfaceProofs`. For any setups. `TypeCorrect`, `LaunchIsToldFirst`,
  `ArmsAreRelocked`, `LaunchesAreConfirmed`. The invariant `IInv`
  adds to the properties what they rest on: nothing waits where there is no pane, and a
  killed session is not typed into again (`PanesInv`), nothing waits in a pane that is
  about to be typed into (`NothingWaits`), what waits was confirmed
  (`TypedIsConfirmed`), where brakes are about to close the launches have been told to end
  (`ToldToEnd`), and each arm is enabled once and rebooted alone (`ClientsInv`).
  `LaunchesAreConfirmed` rests on ctrl-C flushing what waits: otherwise a command from
  before a reboot would start after it. `LaunchIsToldFirst` is the action property
  `StopBeforeBrakes`: for a reboot it rests on the ctrl-C before it, for a clean-up on no
  launch starting after `kill-session`. `ImplementsSessions`: each arm is in a
  `DeskSession`, the one `FrankaDesk` keeps; so a whole `enable_robot()` or `_cleanup()`
  can be one step there, and `reboot_sys()` two.

Only model-checked: all liveness, which is out of the prover's reach
(`SwitchStopEnds`, `ReflexIsFlagged`, `HealthyArmObeys`, `EveryGoalEnds`,
`EveryAttemptEnds`, `FailureEndsNode`, `ShutdownEndsAll`, `AdapterSettles`,
`DeadArmShown`, `ReflexShown`, `FreeArmShown`, `ConfirmedArmIsLaunched`,
`LaunchesEnd`, `LeavingEnds`).

## 6. Not modelled

Points 8 and 9 of the plan; what a loop's commands start from: the zero that
`prepare_command_mode_switch()` writes can be overwritten by the controller that is
being stopped (`Update` between `Prepare` and `Perform`), and no property says what
should then be in its place; the updates of the state and model broadcasters, of
which `Platform` has only the failure; the copies under `src/launch` and
`franka_platform.launch copy.py`, which the package does not use;
`diagnostic_viewer.py` and `buttons_listener.py`, tools for a person;
descriptions, meshes, cameras and test scripts, which have no state of their own;
rich panels, prompts' wording and logging; the message conversions of the
semantic components, which copy fields. `TerminalStreamBuffer` of `panel_demo.py`
(38-44) keeps lines for the screen only. The titles of the camera panes differ
between the launch interface and `tmux_layout.yaml`; panes are numbers here.
