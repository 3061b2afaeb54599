---------------------------- MODULE FrankaRobot ----------------------------
(***************************************************************************)
(* One arm of franka_hardware: class Robot (robot.cpp, robot.hpp), driven   *)
(* by the four threads that share it.                                       *)
(*                                                                          *)
(*   rt   the ros2_control thread: per cycle read(), a possible             *)
(*        perform_command_mode_switch() and write(); it also carries the    *)
(*        lifecycle calls on_activate() and on_deactivate(), which the      *)
(*        resource manager serialises with the cycle                        *)
(*   ctl  control_thread_: the libfranka control or reading loop            *)
(*   rec  a thread of FrankaExecutor inside triggerAutomaticRecovery()      *)
(*   par  a thread of FrankaExecutor inside a parameter service             *)
(*                                                                          *)
(* Granularity.  Every access to a shared field is a step of its own,       *)
(* except that taking a mutex is joined to the access it protects and a     *)
(* mutex that no other call is made under is taken and given back in one    *)
(* step.  error_mutex_ is always of that second kind.  The five control     *)
(* modes run the same code on different command arrays, and the arrays      *)
(* are left out; ControlModes says how many of the modes a run tells apart. *)
(*                                                                          *)
(* libfranka is external: franka::Robot lets one control(), read() or       *)
(* readOnce() in at a time and answers the others InvalidOperationException *)
(* (libMutex).  A call of it may also end in a NetworkException, a          *)
(* RealtimeException or a CommandException: outside the services nobody     *)
(* catches these, and the process is lost.                                  *)
(***************************************************************************)
EXTENDS Naturals

CONSTANTS
  ControlModes,  \* the modes other than ControlMode::None
  None,          \* ControlMode::None: the reading loop
  Garbage,       \* an indeterminate control_mode_ that equals no enumerator
  Recovery,      \* TRUE: error_recovery may be called
  CallsFail      \* TRUE: libfranka calls of the recovery service may throw

ASSUME ModesAssumption == None \notin ControlModes /\ Garbage \notin ControlModes \cup {None}
ASSUME SwitchesAssumption == Recovery \in BOOLEAN /\ CallsFail \in BOOLEAN

Modes == ControlModes \cup {None}
Callers == {"rt", "rec"}                 \* the threads that stop and start loops
Threads == Callers \cup {"ctl", "par"}
Free == "free"

(* Where stopRobot() and initialize*() return to.                           *)
Calls == {"read", "perform", "activate", "deactivate"}
CallOf(t, c) == IF t = "rec" THEN "recovery" ELSE c
StopReturn(c) == CASE c = "read" -> "unlock" [] c = "perform" -> "init"
                   [] c = "recovery" -> "params" [] OTHER -> "read"
InitReturn(c) == CASE c = "perform" -> "write" [] c = "recovery" -> "answer" [] OTHER -> "read"

VARIABLES
  pc,           \* where each thread is
  call,         \* what rt called stopRobot() or initialize*() from
  want,         \* the loop a caller is about to initialise
  readMutex,    \* owner of read_mutex_, or Free
  writeMutex,   \* owner of write_mutex_, or Free
  libMutex,     \* owner of franka::Robot's own lock, or Free (external)
  handle,       \* control_thread_: "null", "joinable" or "joined"
  finish,       \* finish_
  stopped,      \* stopped_
  hasError,     \* has_error_
  initParams,   \* init_params_set
  loopMode,     \* the mode the running or last loop was started in
  hwMode,       \* ArmContainer::control_mode_ as last performed
  cm,           \* Robot::control_mode_, which nothing assigns
  active,       \* the hardware component is ACTIVE
  robotMode,    \* the arm itself: "ok" or "reflex" (external)
  currentMode,  \* current_state_.robot_mode
  response,     \* the last answer of error_recovery
  alive         \* FALSE once an exception has terminated the process

locks == <<readMutex, writeMutex, libMutex>>
flags == <<finish, stopped, hasError, initParams>>
view  == <<loopMode, hwMode, cm, active>>
arm   == <<robotMode, currentMode>>
vars  == <<pc, call, want, locks, handle, flags, view, arm, response, alive>>

Goto(t, label) == pc' = [pc EXCEPT ![t] = label]
At(t, label) == alive /\ pc[t] = label

(* The process dies of an exception nobody catches: std::terminate().       *)
Terminate(t) ==
  /\ alive' = FALSE
  /\ Goto(t, "dead")
  /\ UNCHANGED <<call, want, locks, handle, flags, view, arm, response>>

(* It dies of an exception of libfranka: the connection is lost, the thread *)
(* gets no real-time priority, the arm refuses stop().                      *)
Lose(t) ==
  /\ alive' = FALSE
  /\ Goto(t, "lost")
  /\ UNCHANGED <<call, want, locks, handle, flags, view, arm, response>>

(***************************************************************************)
(* The constructor, on_init's read and the rest of set-up: setDefaultParams *)
(* either succeeds or throws because the arm is in reflex.  control_mode_   *)
(* is left uninitialised.                                                   *)
(***************************************************************************)
Init ==
  /\ robotMode \in {"ok", "reflex"}
  /\ currentMode = robotMode
  /\ hasError = (robotMode = "reflex")
  /\ initParams = (robotMode = "ok")
  /\ cm \in Modes \cup {Garbage}
  /\ pc = [t \in Threads |-> CASE t = "rt" -> "update" [] t = "ctl" -> "none" [] OTHER -> "idle"]
  /\ call = "activate"
  /\ want = [t \in Callers |-> None]
  /\ readMutex = Free /\ writeMutex = Free /\ libMutex = Free
  /\ handle = "null"
  /\ finish = FALSE /\ stopped = TRUE
  /\ loopMode = None /\ hwMode = None
  /\ active = FALSE
  /\ response = "none"
  /\ alive = TRUE

-----------------------------------------------------------------------------
(* Robot::stopRobot(), called by rt under no lock (perform, deactivate) or  *)
(* under read_mutex_ (read), and by rec under no lock.                      *)

StopCheck(t) ==
  /\ At(t, "check")
  /\ Goto(t, IF stopped THEN StopReturn(CallOf(t, call)) ELSE "signal")
  /\ UNCHANGED <<call, want, locks, handle, flags, view, arm, response, alive>>

(* Mutant: the stop request is not published to the callback.               *)
StopSignalLost(t) ==
  /\ At(t, "signal")
  /\ Goto(t, "join")
  /\ UNCHANGED <<call, want, locks, handle, flags, view, arm, response, alive>>

StopSignal(t) ==
  /\ At(t, "signal")
  /\ finish' = TRUE
  /\ Goto(t, "join")
  /\ UNCHANGED <<call, want, locks, handle, stopped, hasError, initParams, view, arm, response, alive>>

(* Mutant: the thread is detached instead of joined.                        *)
StopDetach(t) ==
  /\ At(t, "join")
  /\ handle = "joinable"
  /\ handle' = "joined"
  /\ Goto(t, "halt")
  /\ UNCHANGED <<call, want, locks, flags, view, arm, response, alive>>

(* control_thread_->join() waits for the loop to return.                    *)
StopJoin(t) ==
  /\ At(t, "join")
  /\ handle = "joinable" /\ pc["ctl"] = "exited"
  /\ handle' = "joined"
  /\ Goto(t, "halt")
  /\ UNCHANGED <<call, want, locks, flags, view, arm, response, alive>>

(* join() on a thread that another caller has joined throws system_error,   *)
(* which neither caller catches.                                            *)
StopJoinTwice(t) ==
  /\ At(t, "join")
  /\ handle # "joinable"
  /\ Terminate(t)

StopHalt(t) ==
  /\ At(t, "halt")
  /\ Goto(t, "reset")
  /\ UNCHANGED <<call, want, locks, handle, flags, view, arm, response, alive>>

(* rt catches nothing of robot_->stop() but InvalidOperationException, and  *)
(* that in read() only.                                                     *)
StopHaltLost ==
  /\ At("rt", "halt")
  /\ Lose("rt")

StopReset(t) ==
  /\ At(t, "reset")
  /\ finish' = FALSE
  /\ stopped' = TRUE
  /\ Goto(t, StopReturn(CallOf(t, call)))
  /\ UNCHANGED <<call, want, locks, handle, hasError, initParams, view, arm, response, alive>>

StopRobot(t) == StopCheck(t) \/ StopSignal(t) \/ StopJoin(t) \/ StopJoinTwice(t)
                  \/ StopHalt(t) \/ StopReset(t)

-----------------------------------------------------------------------------
(* Robot::initialize*(): assert(isStopped()) is compiled out of the Release *)
(* build, so the step goes on whatever stopped_ is.                         *)

(* Mutant: stopped_ is left TRUE.                                           *)
InitializeBeginForgets(t) ==
  /\ At(t, "init")
  /\ Goto(t, "spawn")
  /\ UNCHANGED <<call, want, locks, handle, flags, view, arm, response, alive>>

InitializeBegin(t) ==
  /\ At(t, "init")
  /\ stopped' = FALSE
  /\ Goto(t, "spawn")
  /\ UNCHANGED <<call, want, locks, handle, finish, hasError, initParams, view, arm, response, alive>>

InitializeSpawn(t) ==
  /\ At(t, "spawn")
  /\ handle # "joinable"
  /\ handle' = "joinable"
  /\ loopMode' = want[t]
  /\ pc' = [pc EXCEPT !["ctl"] = "spawned", ![t] = InitReturn(CallOf(t, call))]
  /\ UNCHANGED <<call, want, locks, flags, hwMode, cm, active, arm, response, alive>>

(* Assigning control_thread_ destroys a std::thread that is still joinable. *)
InitializeOverLoop(t) ==
  /\ At(t, "spawn")
  /\ handle = "joinable"
  /\ Terminate(t)

Initialize(t) == InitializeBegin(t) \/ InitializeSpawn(t) \/ InitializeOverLoop(t)

-----------------------------------------------------------------------------
(* ctl: the lambda given to control_thread_.                                *)

InCallback == {"cbRead", "cbWrite", "cbCheck"}

LoopEnter ==
  /\ At("ctl", "spawned")
  /\ libMutex = Free
  /\ libMutex' = "ctl"
  /\ Goto("ctl", "tick")
  /\ UNCHANGED <<call, want, readMutex, writeMutex, handle, flags, view, arm, response, alive>>

(* InvalidOperationException: kReading catches it, the control lambdas do   *)
(* not.                                                                     *)
ReadingRefused ==
  /\ At("ctl", "spawned")
  /\ libMutex # Free /\ loopMode = None
  /\ Goto("ctl", "raise")
  /\ UNCHANGED <<call, want, locks, handle, flags, view, arm, response, alive>>

ControlRefused ==
  /\ At("ctl", "spawned")
  /\ libMutex # Free /\ loopMode # None
  /\ Terminate("ctl")

(* One packet of the arm.  control() throws ControlException in reflex,     *)
(* read() hands the state to its callback.                                  *)
LoopTick ==
  /\ At("ctl", "tick")
  /\ robotMode = "ok" \/ loopMode = None
  /\ Goto("ctl", "cbRead")
  /\ UNCHANGED <<call, want, locks, handle, flags, view, arm, response, alive>>

LoopReflex ==
  /\ At("ctl", "tick")
  /\ robotMode = "reflex" /\ loopMode # None
  /\ libMutex' = Free
  /\ Goto("ctl", "raise")
  /\ UNCHANGED <<call, want, readMutex, writeMutex, handle, flags, view, arm, response, alive>>

(* The five control lambdas catch ControlException, kReading also           *)
(* InvalidOperationException: what else control() and read() throw, while   *)
(* they wait for a packet or end a motion, ends the process with has_error_ *)
(* as it was.                                                               *)
LoopLost ==
  /\ \/ At("ctl", "tick")
     \/ At("ctl", "cbWrite") /\ finish /\ writeMutex = Free
  /\ Lose("ctl")

(* The callback's first block: current_state_ = state under read_mutex_.    *)
CallbackRead ==
  /\ At("ctl", "cbRead")
  /\ readMutex = Free
  /\ currentMode' = robotMode
  /\ Goto("ctl", IF loopMode = None THEN "cbCheck" ELSE "cbWrite")
  /\ UNCHANGED <<call, want, locks, handle, flags, view, robotMode, response, alive>>

(* A control callback under write_mutex_: motion_finished = finish_.  A     *)
(* reflex while libfranka ends the motion still makes control() throw.      *)
CallbackWrite ==
  /\ At("ctl", "cbWrite")
  /\ writeMutex = Free
  /\ libMutex' = IF finish THEN Free ELSE libMutex
  /\ Goto("ctl", IF ~finish THEN "tick" ELSE IF robotMode = "ok" THEN "exited" ELSE "raise")
  /\ UNCHANGED <<call, want, readMutex, writeMutex, handle, flags, view, arm, response, alive>>

(* The reading callback's test of current_state_, which it reads without    *)
(* read_mutex_, and of finish_.                                             *)
CallbackCheck ==
  /\ At("ctl", "cbCheck")
  /\ LET reflex == currentMode = "reflex"
     IN  /\ hasError' = (hasError \/ reflex)   \* without error_mutex_
         /\ libMutex' = IF reflex \/ finish THEN Free ELSE libMutex
         /\ Goto("ctl", IF reflex THEN "raise" ELSE IF finish THEN "exited" ELSE "tick")
  /\ UNCHANGED <<call, want, readMutex, writeMutex, handle, finish, stopped, initParams, view, arm, response, alive>>

(* Mutant: the handler of ControlException prints and returns.              *)
LoopRaiseSilently ==
  /\ At("ctl", "raise")
  /\ Goto("ctl", "exited")
  /\ UNCHANGED <<call, want, locks, handle, flags, view, arm, response, alive>>

LoopRaise ==
  /\ At("ctl", "raise")
  /\ hasError' = TRUE
  /\ Goto("ctl", "exited")
  /\ UNCHANGED <<call, want, locks, handle, finish, stopped, initParams, view, arm, response, alive>>

Ctl == LoopEnter \/ ReadingRefused \/ ControlRefused \/ LoopTick \/ LoopReflex
         \/ CallbackRead \/ CallbackWrite \/ CallbackCheck \/ LoopRaise

-----------------------------------------------------------------------------
(* rt: Robot::read(), entered once per cycle.                               *)

ReadBegin ==
  /\ At("rt", "read")
  /\ readMutex = Free
  /\ IF hasError \/ stopped
       THEN readMutex' = "rt" /\ Goto("rt", "readOnce")
       ELSE readMutex' = Free /\ Goto("rt", "update")
  /\ UNCHANGED <<call, want, writeMutex, libMutex, handle, flags, view, arm, response, alive>>

ReadOnceBegin ==
  /\ At("rt", "readOnce")
  /\ libMutex = Free
  /\ libMutex' = "rt"
  /\ Goto("rt", "reading")
  /\ UNCHANGED <<call, want, readMutex, writeMutex, handle, flags, view, arm, response, alive>>

(* Mutant: the refusal of readOnce() is not told from a success.            *)
ReadOnceRefusalIgnored ==
  /\ At("rt", "readOnce")
  /\ libMutex # Free
  /\ Goto("rt", "assign")
  /\ UNCHANGED <<call, want, locks, handle, flags, view, arm, response, alive>>

(* InvalidOperationException from readOnce() is printed and dropped.        *)
ReadOnceRefused ==
  /\ At("rt", "readOnce")
  /\ libMutex # Free
  /\ Goto("rt", "unlock")
  /\ UNCHANGED <<call, want, locks, handle, flags, view, arm, response, alive>>

ReadOnceEnd ==
  /\ At("rt", "reading")
  /\ libMutex' = Free
  /\ Goto("rt", "assign")
  /\ UNCHANGED <<call, want, readMutex, writeMutex, handle, flags, view, arm, response, alive>>

(* read() catches InvalidOperationException only.                           *)
ReadOnceLost ==
  /\ At("rt", "reading")
  /\ Lose("rt")

(* current_state_ = ..., then hasError() decides whether the loop is        *)
(* stopped, still under read_mutex_.                                        *)
ReadAssign ==
  /\ At("rt", "assign")
  /\ currentMode' = robotMode
  /\ Goto("rt", IF hasError THEN "check" ELSE "unlock")
  /\ call' = "read"
  /\ UNCHANGED <<want, locks, handle, flags, view, robotMode, response, alive>>

ReadEnd ==
  /\ At("rt", "unlock")
  /\ readMutex' = Free
  /\ Goto("rt", "update")
  /\ UNCHANGED <<call, want, writeMutex, libMutex, handle, flags, view, arm, response, alive>>

Read == ReadBegin \/ ReadOnceBegin \/ ReadOnceRefused \/ ReadOnceEnd \/ ReadAssign \/ ReadEnd

(* perform_command_mode_switch() with switch_cm_ set and mode m prepared.   *)
Perform(m) ==
  /\ At("rt", "update") /\ active
  /\ hwMode' = m
  /\ want' = [want EXCEPT !["rt"] = m]
  /\ call' = "perform"
  /\ Goto("rt", "check")
  /\ UNCHANGED <<locks, handle, flags, loopMode, cm, active, arm, response, alive>>

KeepMode ==
  /\ At("rt", "update")
  /\ Goto("rt", "write")
  /\ UNCHANGED <<call, want, locks, handle, flags, view, arm, response, alive>>

(* Mutant: control_mode_ is left to on_deactivate().                        *)
OnActivateKeepsMode ==
  /\ At("rt", "update") /\ ~active
  /\ active' = TRUE
  /\ want' = [want EXCEPT !["rt"] = None]
  /\ call' = "activate"
  /\ Goto("rt", "init")
  /\ UNCHANGED <<locks, handle, flags, loopMode, hwMode, cm, arm, response, alive>>

(* on_activate(): the reading loop is started without stopping another.     *)
OnActivate ==
  /\ At("rt", "update") /\ ~active
  /\ active' = TRUE
  /\ hwMode' = None
  /\ want' = [want EXCEPT !["rt"] = None]
  /\ call' = "activate"
  /\ Goto("rt", "init")
  /\ UNCHANGED <<locks, handle, flags, loopMode, cm, arm, response, alive>>

(* on_deactivate() resets control_mode_ in a copy of the container only.    *)
OnDeactivate ==
  /\ At("rt", "update") /\ active
  /\ active' = FALSE
  /\ call' = "deactivate"
  /\ Goto("rt", "check")
  /\ UNCHANGED <<want, locks, handle, flags, loopMode, hwMode, cm, arm, response, alive>>

(* Robot::write() copies the commands under write_mutex_; the hardware      *)
(* interface skips it while the arm is in error.                            *)
Write ==
  /\ At("rt", "write")
  /\ hasError \/ writeMutex = Free
  /\ Goto("rt", "read")
  /\ UNCHANGED <<call, want, locks, handle, flags, view, arm, response, alive>>

RtCall == Read \/ Write \/ StopRobot("rt") \/ Initialize("rt")
RtChoice == KeepMode \/ OnActivate \/ OnDeactivate \/ \E m \in Modes : Perform(m)

-----------------------------------------------------------------------------
(* rec: FrankaErrorRecoveryServiceServer::triggerAutomaticRecovery().       *)

RecoveryCall ==
  /\ Recovery
  /\ At("rec", "idle")
  /\ response' = IF hasError THEN "none" ELSE "noErrors"
  /\ Goto("rec", IF hasError THEN "recover" ELSE "idle")
  /\ UNCHANGED <<call, want, locks, handle, flags, view, arm, alive>>

AutomaticRecovery ==
  /\ At("rec", "recover")
  /\ robotMode' = "ok"
  /\ Goto("rec", "clear")
  /\ UNCHANGED <<call, want, locks, handle, flags, view, currentMode, response, alive>>

(* Mutant: the recovery takes read_mutex_ before it stops the loop.         *)
ClearErrorLocked ==
  /\ At("rec", "clear")
  /\ readMutex = Free
  /\ readMutex' = "rec"
  /\ hasError' = FALSE
  /\ Goto("rec", "check")
  /\ UNCHANGED <<call, want, writeMutex, libMutex, handle, finish, stopped, initParams, view, arm, response, alive>>

ClearError ==
  /\ At("rec", "clear")
  /\ hasError' = FALSE
  /\ Goto("rec", "check")
  /\ UNCHANGED <<call, want, locks, handle, finish, stopped, initParams, view, arm, response, alive>>

RestoreParams ==
  /\ At("rec", "params")
  /\ initParams' = TRUE
  /\ Goto("rec", "lock")
  /\ UNCHANGED <<call, want, locks, handle, finish, stopped, hasError, view, arm, response, alive>>

(* Mutant: control_mode_ is trusted to be an enumerator.                    *)
RestartUnchecked ==
  /\ At("rec", "lock")
  /\ readMutex = Free
  /\ readMutex' = "rec"
  /\ want' = [want EXCEPT !["rec"] = cm]
  /\ Goto("rec", "init")
  /\ UNCHANGED <<call, writeMutex, libMutex, handle, flags, view, arm, response, alive>>

(* getControlMode() chooses the loop; a value that is no enumerator chooses *)
(* none.                                                                    *)
Restart ==
  /\ At("rec", "lock")
  /\ readMutex = Free
  /\ readMutex' = "rec"
  /\ want' = [want EXCEPT !["rec"] = IF cm \in Modes THEN cm ELSE @]
  /\ Goto("rec", IF cm \in Modes THEN "init" ELSE "answer")
  /\ UNCHANGED <<call, writeMutex, libMutex, handle, flags, view, arm, response, alive>>

RecoveryAnswer ==
  /\ At("rec", "answer")
  /\ readMutex' = Free
  /\ response' = "success"
  /\ Goto("rec", "idle")
  /\ UNCHANGED <<call, want, writeMutex, libMutex, handle, flags, view, arm, alive>>

(* A libfranka call of the service throws: ControlException and             *)
(* NetworkException end the request, any other ends the process.            *)
RecoveryCallSite == \/ pc["rec"] \in {"recover", "halt"}
                    \/ pc["rec"] = "params" /\ ~initParams

RecoveryCaught ==
  /\ CallsFail /\ alive /\ RecoveryCallSite
  /\ response' = "failed"
  /\ Goto("rec", "idle")
  /\ UNCHANGED <<call, want, locks, handle, flags, view, arm, alive>>

RecoveryUncaught ==
  /\ CallsFail /\ alive /\ RecoveryCallSite
  /\ Lose("rec")

Rec == AutomaticRecovery \/ ClearError \/ StopRobot("rec") \/ RestoreParams \/ Restart
         \/ Initialize("rec") \/ RecoveryAnswer

-----------------------------------------------------------------------------
(* par: a setter of Robot holds write_mutex_ across its call to the arm,    *)
(* whatever the call returns or throws (setGenericRobotParam catches both). *)

ParamCall ==
  /\ At("par", "idle")
  /\ writeMutex = Free
  /\ writeMutex' = "par"
  /\ Goto("par", "calling")
  /\ UNCHANGED <<call, want, readMutex, libMutex, handle, flags, view, arm, response, alive>>

ParamReturn ==
  /\ At("par", "calling")
  /\ writeMutex' = Free
  /\ Goto("par", "idle")
  /\ UNCHANGED <<call, want, readMutex, libMutex, handle, flags, view, arm, response, alive>>

(* A collision, an emergency stop or missed packets put the arm in reflex.  *)
Reflex ==
  /\ alive /\ robotMode = "ok"
  /\ robotMode' = "reflex"
  /\ UNCHANGED <<pc, call, want, locks, handle, flags, view, currentMode, response, alive>>

Lost == LoopLost \/ ReadOnceLost \/ StopHaltLost

Next ==
  \/ RtCall \/ RtChoice
  \/ Ctl
  \/ Lost
  \/ RecoveryCall \/ Rec \/ RecoveryCaught \/ RecoveryUncaught
  \/ ParamCall \/ ParamReturn
  \/ Reflex

Spec == Init /\ [][Next]_vars

(* The threads are scheduled, and a call to the arm returns: a response or  *)
(* a timeout.  std::mutex does not starve the loop: between two requests of *)
(* par it is free for a network round trip, hence SF for ctl.  Nothing is   *)
(* assumed of the operator, of the arm or of what rt chooses to do.         *)
Fairness ==
  /\ WF_vars(RtCall) /\ WF_vars(RtChoice)
  /\ SF_vars(Ctl)
  /\ WF_vars(Rec)
  /\ WF_vars(ParamReturn)

FairSpec == Spec /\ Fairness

-----------------------------------------------------------------------------
StopLabels == {"check", "signal", "join", "halt", "reset"}
InitLabels == {"init", "spawn"}
RtLabels == StopLabels \cup InitLabels \cup
            {"update", "read", "readOnce", "reading", "assign", "unlock", "write"}
RecLabels == StopLabels \cup InitLabels \cup {"idle", "recover", "clear", "params", "lock", "answer"}
CtlLabels == {"none", "spawned", "tick", "raise", "exited"} \cup InCallback
ParLabels == {"idle", "calling"}
Ends == {"dead", "lost"}
Labels == RtLabels \cup RecLabels \cup CtlLabels \cup ParLabels \cup Ends

(* Every thread is at a label of its own program, every mutex is held by a  *)
(* thread that takes it, and a loop is only ever started in a real mode.    *)
TypeOK ==
  /\ pc \in [Threads -> Labels]
  /\ pc["rt"] \in RtLabels \cup Ends
  /\ pc["rec"] \in RecLabels \cup Ends
  /\ pc["ctl"] \in CtlLabels \cup Ends
  /\ pc["par"] \in ParLabels
  /\ call \in Calls
  /\ want \in [Callers -> Modes]
  /\ readMutex \in Callers \cup {Free}
  /\ writeMutex \in {"par", Free}
  /\ libMutex \in {"rt", "ctl", Free}
  /\ handle \in {"null", "joinable", "joined"}
  /\ finish \in BOOLEAN /\ stopped \in BOOLEAN /\ hasError \in BOOLEAN
  /\ initParams \in BOOLEAN /\ active \in BOOLEAN /\ alive \in BOOLEAN
  /\ loopMode \in Modes /\ hwMode \in Modes
  /\ cm \in Modes \cup {Garbage}
  /\ robotMode \in {"ok", "reflex"} /\ currentMode \in {"ok", "reflex"}
  /\ response \in {"none", "noErrors", "failed", "success"}

LoopRuns == pc["ctl"] \in {"spawned", "tick", "raise"} \cup InCallback

(* The reading callback tests current_state_ after giving read_mutex_ back. *)
(* No other thread writes the state at that moment, with any number of      *)
(* recoveries and switches: read() writes it only after a readOnce() that   *)
(* succeeded, and libfranka's lock, which the loop holds in its callback,   *)
(* makes readOnce() fail.                                                   *)
CheckedStateIsStable == ~(pc["ctl"] = "cbCheck" /\ pc["rt"] = "assign")

(* isStopped() answers "true if there is no control or reading loop         *)
(* running" (robot.hpp).                                                    *)
StoppedMeansNoLoop == alive /\ stopped => ~LoopRuns

(* Whoever calls initialize*() finds the robot stopped: assert(isStopped()) *)
(* at the head of each of them, which the Release build leaves out.         *)
InitializeFindsStopped == \A t \in Callers : At(t, "init") => stopped

(* Whom a thread waits for: the owner of the mutex it is about to take, or  *)
(* the loop it joins.                                                       *)
WaitsForRead(t) == \/ t = "rt" /\ pc[t] = "read"
                   \/ t = "rec" /\ pc[t] = "lock"
                   \/ t = "ctl" /\ pc[t] = "cbRead"
WaitsForWrite(t) == \/ t = "rt" /\ pc[t] = "write" /\ ~hasError
                    \/ t = "ctl" /\ pc[t] = "cbWrite"
                    \/ t = "par" /\ pc[t] = "idle"
Joins(t) == pc[t] = "join" /\ handle = "joinable" /\ pc["ctl"] # "exited"
Waits(t, u) == \/ WaitsForRead(t) /\ readMutex = u
               \/ WaitsForWrite(t) /\ writeMutex = u
               \/ Joins(t) /\ u = "ctl"

(* The loop waits for read_mutex_, and read() holds it and joins the loop:  *)
(* what the run readstop shows.                                             *)
StuckInRead == Joins("rt") /\ readMutex = "rt" /\ pc["ctl"] = "cbRead"

(* Threads wait for each other only there: read_mutex_, write_mutex_ and    *)
(* the joins of stopRobot() lead to no other deadlock, with any number of   *)
(* recoveries, parameter services and switches.                             *)
NoOtherDeadlock ==
  alive /\ ~StuckInRead =>
    ~\E S \in (SUBSET Threads) \ {{}} : \A t \in S : \E u \in S : Waits(t, u)

(* Between two switches the loop that runs is the one that control_mode_ of *)
(* the hardware interface says, by which it refuses and performs switches,  *)
(* whichever errors, stops and activations came before.                     *)
Switching == pc["rt"] \in StopLabels \cup InitLabels
CommandedLoop == alive /\ ~stopped /\ ~Switching => loopMode = hwMode

(* rt neither joins a thread twice nor drops one that is still joinable     *)
(* (either would end the process, a lost connection aside):                 *)
(* stopRobot() and initialize*() pair up over every order of cycles,        *)
(* switches, activations and errors.                                        *)
RtNeverDies == pc["rt"] # "dead"

(* read() can be inside readOnce() while a new loop starts, and so make     *)
(* libfranka refuse the loop, only if the arm was already in error.         *)
CollisionOnlyInError == alive /\ pc["ctl"] = "spawned" /\ libMutex = "rt" => hasError

(* What the hardware interface relies on: no loop under a robot that says   *)
(* it is stopped, none started unannounced, none that ends unasked without  *)
(* an error, and a process that dies only of a loop that an arm in error    *)
(* refused or of an exception of libfranka's that nobody catches.           *)
Loop == INSTANCE ControlLoop WITH
          due <- \E t \in Callers : pc[t] = "spawn", runs <- LoopRuns,
          mode <- loopMode, asked <- finish, error <- hasError,
          lost <- \E t \in Threads : pc[t] = "lost"
KeepsControlLoop == Loop!Spec

(* stopRobot() called by a mode switch or a deactivation ends the loop,     *)
(* whatever the arm and the parameter services do meanwhile.                *)
SwitchStopEnds == At("rt", "join") /\ call # "read" ~> (~alive \/ pc["rt"] # "join")

(* stopRobot() "stops the control or reading loop of the robot" (robot.hpp) *)
(* from wherever it is called, read() included.                             *)
StopRobotEnds == At("rt", "join") ~> (~alive \/ pc["rt"] # "join")

(* A reflex under a running loop is flagged in has_error_, unless the loop  *)
(* is told to stop before its next packet.                                  *)
ReflexIsFlagged ==
  (alive /\ LoopRuns /\ robotMode = "reflex") ~> (~alive \/ hasError \/ finish \/ stopped)

(* "Restarting the control loop" (error recovery service): a recovery that  *)
(* succeeds while no switch is going on leaves the arm in the loop that the *)
(* hardware interface last put it in.                                       *)
Recovering == pc["rec"] \in StopLabels \cup InitLabels
RecoveryRestartsLoop ==
  [][pc["rec"] = "answer" /\ active /\ ~Switching => ~stopped /\ loopMode = hwMode]_response

====
