------------------------ MODULE GripperActionServer ------------------------
(***************************************************************************)
(* franka_gripper: the node with the four action servers homing, move,      *)
(* grasp and gripper_action, the stop service and the state timer.          *)
(*                                                                          *)
(*   executor   one thread: the timer, the stop service, and the goal and   *)
(*              cancel requests, all of which are accepted                  *)
(*   goal g     the detached thread of an accepted goal: it hands a command *)
(*              to an async thread and polls the future                     *)
(*   async g    the thread of std::async, inside franka::Gripper            *)
(*                                                                          *)
(* The first three action types run executeCommand(); gripper_action runs   *)
(* onExecuteGripperCommand() and executeGripperCommand(), which differ from *)
(* it in the check of the width and in taking gripper_state_mutex_ for the  *)
(* result.  Widths are small numbers; whether the gripper is moved or       *)
(* grasps is left out.                                                      *)
(*                                                                          *)
(* franka::Gripper and the goal handles are external.  The gripper carries  *)
(* out one command at a time; one that comes on top of another replaces it  *)
(* or fails, and stop() leaves none.                                        *)
(***************************************************************************)
EXTENDS Naturals

CONSTANTS
  Goals,      \* the goals a client may send
  Moveit,     \* those of them for gripper_action
  MaxWidth,   \* current_gripper_state_.max_width
  Nobody      \* no goal

ASSUME GoalsAssumption == Moveit \subseteq Goals /\ Nobody \notin Goals
ASSUME WidthAssumption == MaxWidth \in Nat

Widths == 0 .. MaxWidth
Executor == "executor"

VARIABLES
  status,    \* goal handles (external)
  pc,        \* the goal threads
  future,    \* result_future: "none", "spawned", "sent", "ok" or "failed"
  target,    \* kTargetWidth of a gripper_action goal
  motion,    \* the goal whose command the gripper carries out (external)
  width,     \* current_gripper_state_.width
  mutex,     \* owner of gripper_state_mutex_, or Nobody
  exec,      \* the executor: "idle", "reading" or "stopping"
  ok,        \* rclcpp::ok()
  alive      \* FALSE once an exception has terminated the process

vars == <<status, pc, future, target, motion, width, mutex, exec, ok, alive>>

Active == {"executing", "canceling"}
Terminal == {"succeeded", "aborted", "canceled"}
Returned == {"ok", "failed"}

Init ==
  /\ status = [g \in Goals |-> "new"]
  /\ pc = [g \in Goals |-> "none"]
  /\ future = [g \in Goals |-> "none"]
  /\ target \in [Moveit -> 0 .. MaxWidth + 1]    \* one of them out of range
  /\ motion = Nobody
  /\ width \in Widths
  /\ mutex = Nobody
  /\ exec = "idle"
  /\ ok = TRUE /\ alive = TRUE

At(g, label) == alive /\ pc[g] = label
Goto(g, label) == pc' = [pc EXCEPT ![g] = label]
Settle(g, s) == status' = [status EXCEPT ![g] = s]

-----------------------------------------------------------------------------
(* The executor.                                                            *)

Free == alive /\ ok /\ exec = "idle"

(* handleGoal(), and the detached thread of the accepted goal.              *)
AcceptGoal(g) ==
  /\ Free /\ status[g] = "new"
  /\ Settle(g, "executing")
  /\ Goto(g, IF g \in Moveit THEN "check" ELSE "launch")
  /\ UNCHANGED <<future, target, motion, width, mutex, exec, ok, alive>>

(* handleCancel() accepts a cancel of every goal that still executes.       *)
AcceptCancel(g) ==
  /\ Free /\ status[g] = "executing"
  /\ Settle(g, "canceling")
  /\ UNCHANGED <<pc, future, target, motion, width, mutex, exec, ok, alive>>

(* stopServiceCallback(): what stop() throws becomes the answer.            *)
StopService ==
  /\ Free
  /\ exec' = "stopping"
  /\ UNCHANGED <<status, pc, future, target, motion, width, mutex, ok, alive>>

StopServiceEnd ==
  /\ alive /\ exec = "stopping"
  /\ exec' = "idle"
  /\ motion' \in {motion, Nobody}
  /\ UNCHANGED <<status, pc, future, target, width, mutex, ok, alive>>

(* publishGripperState() keeps the mutex while readOnce() waits for a state *)
(* of the gripper, which it may fail to get.                                *)
PublishBegin ==
  /\ Free /\ mutex = Nobody
  /\ mutex' = Executor
  /\ exec' = "reading"
  /\ UNCHANGED <<status, pc, future, target, motion, width, ok, alive>>

(* Mutant: a state that cannot be read leaves the mutex taken.              *)
PublishEndLocked ==
  /\ alive /\ exec = "reading"
  /\ width' \in Widths
  /\ mutex' \in {mutex, Nobody}
  /\ exec' = "idle"
  /\ UNCHANGED <<status, pc, future, target, motion, ok, alive>>

PublishEnd ==
  /\ alive /\ exec = "reading"
  /\ width' \in Widths
  /\ mutex' = Nobody
  /\ exec' = "idle"
  /\ UNCHANGED <<status, pc, future, target, motion, ok, alive>>

Shutdown ==
  /\ alive /\ ok
  /\ ok' = FALSE
  /\ UNCHANGED <<status, pc, future, target, motion, width, mutex, exec, alive>>

-----------------------------------------------------------------------------
(* The thread of a goal.                                                    *)

(* onExecuteGripperCommand(), under the mutex.                              *)
CheckWidth(g) ==
  /\ At(g, "check") /\ mutex = Nobody
  /\ LET result == IF target[g] > MaxWidth THEN "aborted"
                   ELSE IF target[g] = width THEN "succeeded" ELSE "none"
     IN  IF result = "none" THEN Goto(g, "launch") /\ UNCHANGED status
                            ELSE Goto(g, "done") /\ Settle(g, result)
  /\ UNCHANGED <<future, target, motion, width, mutex, exec, ok, alive>>

Launch(g) ==
  /\ At(g, "launch")
  /\ future' = [future EXCEPT ![g] = "spawned"]
  /\ Goto(g, "poll")
  /\ UNCHANGED <<status, target, motion, width, mutex, exec, ok, alive>>

(* One turn of the loop: the future is not ready within the timeout, so the *)
(* goal is asked whether it is cancelled; if not, feedback is published     *)
(* under the mutex.                                                         *)
PollTimeout(g) ==
  /\ At(g, "poll") /\ ok /\ future[g] \notin Returned
  /\ Goto(g, "ask")
  /\ UNCHANGED <<status, future, target, motion, width, mutex, exec, ok, alive>>

AskCanceling(g) ==
  /\ At(g, "ask")
  /\ Goto(g, IF status[g] = "canceling" THEN "stop" ELSE "feedback")
  /\ UNCHANGED <<status, future, target, motion, width, mutex, exec, ok, alive>>

Feedback(g) ==
  /\ At(g, "feedback") /\ mutex = Nobody
  /\ Goto(g, "poll")
  /\ UNCHANGED <<status, future, target, motion, width, mutex, exec, ok, alive>>

(* Mutant: the result of the command is not waited for.                     *)
CancelStopAndReport(g) ==
  /\ At(g, "stop")
  /\ motion' = Nobody
  /\ Goto(g, "done")
  /\ Settle(g, "canceled")
  /\ UNCHANGED <<future, target, width, mutex, exec, ok, alive>>

(* gripper_->stop(), outside any try block.                                 *)
CancelStop(g) ==
  /\ At(g, "stop")
  /\ motion' = Nobody
  /\ Goto(g, "canceled")
  /\ UNCHANGED <<status, future, target, width, mutex, exec, ok, alive>>

CancelStopThrows(g) ==
  /\ At(g, "stop")
  /\ alive' = FALSE
  /\ UNCHANGED <<status, pc, future, target, motion, width, mutex, exec, ok>>

(* result_future.get(), then goal_handle->canceled().                       *)
CancelEnd(g) ==
  /\ At(g, "canceled") /\ future[g] \in Returned
  /\ Settle(g, "canceled")
  /\ Goto(g, "done")
  /\ UNCHANGED <<future, target, motion, width, mutex, exec, ok, alive>>

(* The loop ends.  After a shutdown the goal gets no result; the thread     *)
(* then waits in the destructor of the future.                              *)
PollEnd(g) ==
  /\ At(g, "poll")
  /\ future[g] \in Returned \/ ~ok
  /\ Goto(g, IF ok THEN "result" ELSE "drop")
  /\ UNCHANGED <<status, future, target, motion, width, mutex, exec, ok, alive>>

Drop(g) ==
  /\ At(g, "drop") /\ future[g] \in Returned
  /\ Goto(g, "done")
  /\ UNCHANGED <<status, future, target, motion, width, mutex, exec, ok, alive>>

(* Mutant: a goal that was asked to cancel in the meantime gets no result.  *)
ResultUnlessCanceling(g) ==
  /\ At(g, "result")
  /\ g \in Moveit => mutex = Nobody
  /\ IF status[g] = "canceling" THEN UNCHANGED status
       ELSE Settle(g, IF future[g] = "ok" THEN "succeeded" ELSE "aborted")
  /\ Goto(g, "done")
  /\ UNCHANGED <<future, target, motion, width, mutex, exec, ok, alive>>

(* succeed() or abort(), also of a goal that was asked to cancel after the  *)
(* last turn of the loop.                                                   *)
Result(g) ==
  /\ At(g, "result")
  /\ g \in Moveit => mutex = Nobody
  /\ Settle(g, IF future[g] = "ok" THEN "succeeded" ELSE "aborted")
  /\ Goto(g, "done")
  /\ UNCHANGED <<future, target, motion, width, mutex, exec, ok, alive>>

-----------------------------------------------------------------------------
(* The async thread of a goal (the gripper is external).                    *)

Send(g) ==
  /\ alive /\ future[g] = "spawned"
  /\ future' = [future EXCEPT ![g] = "sent"]
  /\ motion' \in IF motion = Nobody THEN {g} ELSE {g, motion}
  /\ UNCHANGED <<status, pc, target, width, mutex, exec, ok, alive>>

CommandReturn(g) ==
  /\ alive /\ future[g] = "sent"
  /\ \E r \in Returned :
       /\ r = "ok" => motion = g
       /\ future' = [future EXCEPT ![g] = r]
  /\ motion' = IF motion = g THEN Nobody ELSE motion
  /\ UNCHANGED <<status, pc, target, width, mutex, exec, ok, alive>>

GoalThread(g) ==
  \/ CheckWidth(g) \/ Launch(g) \/ PollTimeout(g) \/ AskCanceling(g) \/ Feedback(g)
  \/ CancelStop(g) \/ CancelStopThrows(g) \/ CancelEnd(g) \/ PollEnd(g) \/ Drop(g) \/ Result(g)

Next ==
  \/ StopService \/ StopServiceEnd \/ PublishBegin \/ PublishEnd \/ Shutdown
  \/ \E g \in Goals : AcceptGoal(g) \/ AcceptCancel(g) \/ GoalThread(g) \/ Send(g) \/ CommandReturn(g)

Spec == Init /\ [][Next]_vars

(* Threads are scheduled and libfranka's calls return.  The timer leaves    *)
(* the mutex free most of its period, hence SF for the goal threads.        *)
FairSpec ==
  /\ Spec
  /\ WF_vars(StopServiceEnd) /\ WF_vars(PublishEnd)
  /\ \A g \in Goals : SF_vars(GoalThread(g)) /\ WF_vars(Send(g)) /\ WF_vars(CommandReturn(g))

-----------------------------------------------------------------------------
(* Every variable is in its range, and the mutex is only ever kept by the   *)
(* timer, while it reads.                                                   *)
TypeOK ==
  /\ status \in [Goals -> {"new"} \cup Active \cup Terminal]
  /\ pc \in [Goals -> {"none", "check", "launch", "poll", "ask", "feedback", "stop", "canceled",
                       "result", "drop", "done"}]
  /\ future \in [Goals -> {"none", "spawned", "sent"} \cup Returned]
  /\ target \in [Moveit -> 0 .. MaxWidth + 1]
  /\ motion \in Goals \cup {Nobody}
  /\ width \in Widths
  /\ mutex = IF exec = "reading" THEN Executor ELSE Nobody
  /\ exec \in {"idle", "reading", "stopping"}
  /\ ok \in BOOLEAN /\ alive \in BOOLEAN

(* Each goal gets one result, "canceled" only when it was asked to cancel,  *)
(* and none while its command is in flight.                                 *)
Lifecycle == INSTANCE GoalLifecycle WITH
               inFlight <- {g \in Goals : future[g] \in {"spawned", "sent"}}
KeepsLifecycle == Lifecycle!Spec

(* The gripper carries out nothing for a goal that has its result: a client *)
(* that sends the next goal on a result finds the last one's motion over.   *)
ResultMeansRest == \A g \in Goals : status[g] \in Terminal => motion # g

(* Every accepted goal gets a result, cancelled at any moment or not, while *)
(* the timer and the stop service interfere: or the node is shut down or    *)
(* dies of a stop() that throws.                                            *)
EveryGoalEnds ==
  \A g \in Goals : status[g] \in Active ~> (status[g] \in Terminal \/ ~ok \/ ~alive)

=============================================================================
