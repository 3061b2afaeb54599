--------------------------- MODULE GripperAdapter ---------------------------
(***************************************************************************)
(* crisp_py_gripper_adapter.py: the node that turns the open and close      *)
(* commands of a teleoperator and the presses of the right button into      *)
(* grasp goals.                                                             *)
(*                                                                          *)
(* Its callbacks are reentrant and run on the threads of an executor, with  *)
(* no lock.  A callback decides from the measured width and close_state,    *)
(* sends a goal, whose result nobody looks at, and then sets close_state.   *)
(*                                                                          *)
(* Widths are centimetres and a tick is a tenth of a second: at the speed   *)
(* of every goal, 0.1 m/s, the fingers move by one centimetre in a tick.    *)
(* The gripper is external: it carries out the last goal it was sent, and   *)
(* its joint states arrive at least once in a tick.  Messages are handled   *)
(* within the tick in which they are sent.                                  *)
(***************************************************************************)
EXTENDS Integers

CONSTANTS
  Threads,   \* the threads of the MultiThreadedExecutor
  Objects    \* the widths at which closing fingers may be stopped

OpenWidth == 8       \* open(): 0.08
OpenThreshold == 7   \* is_open(): 0.07

ASSUME ObjectsAssumption == Objects # {} /\ Objects \subseteq 0 .. OpenWidth

VARIABLES
  pos,         \* how far the fingers are open (external)
  object,      \* where they stop when they close (external)
  goal,        \* the last goal sent
  width,       \* _width, the last measured opening
  closeState,  \* close_state
  rights,      \* messages on franka_buttons/right that no callback has taken
  cmd,         \* what the teleoperator streams on gripper_status_commands
  pc,          \* where each thread is
  job,         \* the message that its callback handles, then the goal it sends, or "none"
  heard,       \* a status command was taken in this tick (history)
  quiet,       \* ticks in which cmd alone was heard and no wide object was lost, up
               \* to Settled (history)
  lastPress,   \* the goal of the last press, "none" after one for cmd, a clash or
               \* the loss of a wide object (history)
  clash        \* opposite goals have been in hand since goal and close_state last
               \* agreed at a tick (history)

hand == <<pos, object>>
history == <<heard, quiet, lastPress, clash>>
adapterVars == <<hand, goal, width, closeState, rights, cmd, pc, job, history>>

Ways == {"open", "close"}

(* The fingers may need OpenWidth ticks for their whole way; one more for   *)
(* the last joint state and one for the command that finds them there.      *)
Settled == OpenWidth + 2

(* Mutant: the threshold is zero.                                           *)
IsOpenAtAll == width > 0

IsOpen == width > OpenThreshold

(* Fingers that hold a wide object count as open for as long as they do.    *)
Wide == object > OpenThreshold

Idle == \A t \in Threads : pc[t] = "idle"

(* __init__(): the width is known, and an open goal has been sent.          *)
AdapterInit ==
  /\ object \in Objects /\ pos \in object .. OpenWidth
  /\ goal = "open" /\ width = pos /\ closeState = FALSE
  /\ rights = 0 /\ cmd = "open"
  /\ pc = [t \in Threads |-> "idle"]
  /\ job = [t \in Threads |-> "none"]
  /\ heard = FALSE /\ quiet = 0 /\ lastPress = "none" /\ clash = FALSE

Goto(t, label) == pc' = [pc EXCEPT ![t] = label]
Return(t) == Goto(t, "idle") /\ job' = [job EXCEPT ![t] = "none"]

(* A thread holds a goal that it sends, or has sent and not yet noted.      *)
InHand(t) == pc[t] \in {"send", "set"}
Opposed(way) == \E u \in Threads : InHand(u) /\ job[u] # way

(* What is noted of the gripper is not what was asked of it.                *)
AtOdds == closeState # (goal = "close")

TakeStatus(t) ==
  /\ pc[t] = "idle"
  /\ Goto(t, "status")
  /\ job' = [job EXCEPT ![t] = cmd]
  /\ heard' = TRUE
  /\ UNCHANGED <<hand, goal, width, closeState, rights, cmd, quiet, lastPress, clash>>

TakeRight(t) ==
  /\ pc[t] = "idle" /\ rights > 0
  /\ Goto(t, "right")
  /\ rights' = rights - 1
  /\ heard' = FALSE /\ quiet' = 0
  /\ UNCHANGED <<hand, goal, width, closeState, cmd, job, lastPress, clash>>

(* Mutant: the fingers count as closed only when nothing is between them.   *)
WidthFitsShut(c) == IF c = "close" THEN IsOpen ELSE width = 0

WidthFits(c) == IF c = "close" THEN IsOpen ELSE ~IsOpen

(* The conditions of callback_status_command() look at the width first and  *)
(* then at close_state.                                                     *)
TestWidth(t) ==
  /\ pc[t] = "status"
  /\ IF WidthFits(job[t]) THEN Goto(t, "test") /\ UNCHANGED job ELSE Return(t)
  /\ UNCHANGED <<hand, goal, width, closeState, rights, cmd, history>>

DecideStatus(t) ==
  /\ pc[t] = "test"
  /\ IF closeState = (job[t] = "open")
       THEN /\ Goto(t, "send") /\ UNCHANGED job
            /\ lastPress' = "none" /\ clash' = (clash \/ Opposed(job[t]))
       ELSE Return(t) /\ UNCHANGED <<lastPress, clash>>
  /\ UNCHANGED <<hand, goal, width, closeState, rights, cmd, heard, quiet>>

(* callback_button_right() goes by the width alone.                         *)
DecideRight(t) ==
  /\ pc[t] = "right"
  /\ Goto(t, "send")
  /\ \E way \in Ways :
       /\ way = IF IsOpen THEN "close" ELSE "open"
       /\ job' = [job EXCEPT ![t] = way]
       /\ lastPress' = IF Opposed(way) THEN "none" ELSE way
       /\ clash' = (clash \/ Opposed(way))
  /\ UNCHANGED <<hand, goal, width, closeState, rights, cmd, heard, quiet>>

Send(t) ==
  /\ pc[t] = "send"
  /\ goal' = job[t]
  /\ Goto(t, "set")
  /\ UNCHANGED <<hand, width, closeState, rights, cmd, job, history>>

(* Mutant: only an opening is noted.                                        *)
SetOpened(t) ==
  /\ pc[t] = "set"
  /\ closeState' = (closeState /\ job[t] = "close")
  /\ Return(t)
  /\ UNCHANGED <<hand, goal, width, rights, cmd, history>>

Set(t) ==
  /\ pc[t] = "set"
  /\ closeState' = (job[t] = "close")
  /\ Return(t)
  /\ UNCHANGED <<hand, goal, width, rights, cmd, history>>

(* _gripper_state_callback()                                                *)
Measure ==
  /\ width' = pos
  /\ UNCHANGED <<hand, goal, closeState, rights, cmd, pc, job, history>>

(* The teleoperator changes its mind.                                       *)
Command ==
  /\ cmd' \in Ways \ {cmd}
  /\ heard' = FALSE /\ quiet' = 0
  /\ UNCHANGED <<hand, goal, width, closeState, rights, pc, job, lastPress, clash>>

(* What is between the fingers is exchanged or taken away.  Fingers that    *)
(* held a wide object have their way to go from here on.                    *)
Place ==
  /\ object' \in Objects /\ object' <= pos
  /\ IF goal = "close" /\ Wide
       THEN heard' = FALSE /\ quiet' = 0 /\ lastPress' = "none"
       ELSE UNCHANGED <<heard, quiet, lastPress>>
  /\ UNCHANGED <<pos, goal, width, closeState, rights, cmd, pc, job, clash>>

(* The fingers after a tick.                                                *)
Moved ==
  IF goal = "open" THEN IF pos < OpenWidth THEN pos + 1 ELSE pos
                   ELSE IF pos > object THEN pos - 1 ELSE pos

AdapterTick ==
  /\ Idle /\ rights = 0
  /\ pos' = Moved
  /\ width' \in {pos, Moved}
  /\ heard' = FALSE
  /\ quiet' = IF heard /\ quiet < Settled THEN quiet + 1 ELSE quiet
  /\ clash' = (clash /\ AtOdds)
  /\ UNCHANGED <<object, goal, closeState, rights, cmd, pc, job, lastPress>>

Callback(t) ==
  \/ TakeStatus(t) \/ TakeRight(t) \/ TestWidth(t) \/ DecideStatus(t) \/ DecideRight(t)
  \/ Send(t) \/ Set(t)

AdapterStep == (\E t \in Threads : Callback(t)) \/ Measure \/ Command \/ Place
=============================================================================
