------------------------------- MODULE Teleop -------------------------------
(***************************************************************************)
(* The buttons of the pilot and the gripper adapter together: a press of    *)
(* the right button that the recorder node accepts is a message to the      *)
(* adapter, and both count the same ticks.                                  *)
(***************************************************************************)
EXTENDS GripperAdapter, PilotButtons

vars == <<adapterVars, buttonVars>>

Init == AdapterInit /\ ButtonsInit

Right ==
  /\ PressRight
  /\ rights' = rights + 1
  /\ UNCHANGED <<hand, goal, width, closeState, cmd, pc, job, history>>

Tick == AdapterTick /\ ButtonsTick

Next ==
  \/ AdapterStep /\ UNCHANGED buttonVars
  \/ (NodeStep \/ PressOther) /\ UNCHANGED adapterVars
  \/ Right
  \/ Tick

Spec == Init /\ [][Next]_vars /\ ButtonsFairness

-----------------------------------------------------------------------------
(* Messages in flight, positions and callbacks are of their kinds.          *)
TypeOK ==
  /\ object \in Objects /\ pos \in 0 .. OpenWidth /\ width \in 0 .. OpenWidth
  /\ goal \in Ways /\ cmd \in Ways /\ closeState \in BOOLEAN
  /\ rights \in 0 .. 1
  /\ pc \in [Threads -> {"idle", "status", "test", "right", "send", "set"}]
  /\ job \in [Threads -> Ways \cup {"none"}]
  /\ heard \in BOOLEAN /\ quiet \in 0 .. Settled
  /\ lastPress \in Ways \cup {"none"} /\ clash \in BOOLEAN
  /\ ok \in BOOLEAN
  /\ desk \in {"login", "recv", "returned", "failed", "over"}
  /\ spin \in {"spinning", "returned", "failed", "over"}
  /\ main \in {"waiting", "ended"}
  /\ since \in 0 .. CoolDown

(* What the adapter publishes on gripper/open_close_states, and goes by     *)
(* itself, is what it last asked the gripper to do, on any number of        *)
(* threads, until two of them have opposite goals in hand.                  *)
StateFollowsGoals == Idle /\ ~clash => ~AtOdds

(* A command that the teleoperator goes on sending is obeyed, whatever the  *)
(* fingers were doing, whoever pressed the button before, on however many   *)
(* threads, and though callback_status_command() ignores it while the       *)
(* fingers move: unless close_state is at odds with the gripper, or the     *)
(* command is to let go of an object so wide that the fingers around it     *)
(* count as open.                                                           *)
HeldCommandObeyed == quiet = Settled => goal = cmd \/ AtOdds \/ (cmd = "open" /\ Wide)

(* A press after a press that closed the fingers opens them: it never finds *)
(* them still counted as open, thanks to the cool-down of another node,     *)
(* unless a wide object keeps them so.                                      *)
PressReopens ==
  [][\A u \in Threads : DecideRight(u) /\ lastPress = "close" /\ ~Wide => job'[u] = "open"]_vars
=============================================================================
