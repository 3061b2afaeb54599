---------------------------- MODULE PilotButtons ----------------------------
(***************************************************************************)
(* The way of a button of the pilot into ROS.                               *)
(*                                                                          *)
(* franka_pilot_buttons.py runs two asyncio tasks in one thread: the desk   *)
(* task logs in to Desk, receives the button events of its websocket and    *)
(* publishes them; the spin task turns the ROS executor.  start_node_async  *)
(* waits for them.  franka_buttons_to_record.py subscribes to the events    *)
(* and turns the first button of each into a message, at most one in half   *)
(* a second.  An event reaches it in the tick in which it happens.          *)
(***************************************************************************)
EXTENDS Integers

CoolDown == 5   \* _cooldown: 0.5 s, in ticks of 0.1 s

VARIABLES
  ok,        \* rclpy.ok() in the node of the pilot buttons
  desk,      \* start_desk_loop(): "login", "recv", "returned", "failed", "over"
  spin,      \* spin_async(): "spinning", "returned", "failed", "over"
  main,      \* start_node_async(): "waiting" in asyncio.wait(), "ended"
  since      \* ticks since _last_toggle, up to CoolDown

node == <<ok, desk, spin, main>>
buttonVars == <<node, since>>

ButtonsInit ==
  /\ ok = TRUE /\ desk = "login" /\ spin = "spinning" /\ main = "waiting"
  /\ since = 0

(* The credentials, the login and the opening of the websocket.             *)
Login ==
  /\ main = "waiting" /\ desk = "login"
  /\ desk' \in {"recv", "failed"}
  /\ UNCHANGED <<ok, spin, main, since>>

(* recv() raises ConnectionClosedOK, and the loop returns.                  *)
Close ==
  /\ main = "waiting" /\ desk = "recv"
  /\ desk' = "returned"
  /\ UNCHANGED <<ok, spin, main, since>>

(* It raises anything else, or what it returns is not an event.             *)
Break ==
  /\ main = "waiting" /\ desk = "recv"
  /\ desk' = "failed"
  /\ UNCHANGED <<ok, spin, main, since>>

(* A shut down context is noticed after the next event, by the publisher    *)
(* or by the condition of the loop.                                         *)
LastEvent ==
  /\ main = "waiting" /\ desk = "recv" /\ ~ok
  /\ desk' \in {"returned", "failed"}
  /\ UNCHANGED <<ok, spin, main, since>>

(* An event that handle_pilot_button() publishes and button_callback() of   *)
(* the recorder node accepts.  Events within the cool-down, and events that *)
(* only release buttons, change nothing.                                    *)
Accepted ==
  /\ main = "waiting" /\ desk = "recv" /\ ok
  /\ since = CoolDown /\ since' = 0
  /\ UNCHANGED node

(* Mutant: the right button has no cool-down.                               *)
PressRightAtOnce ==
  /\ main = "waiting" /\ desk = "recv" /\ ok
  /\ since' = 0
  /\ UNCHANGED node

(* The other buttons become record messages, or nothing.                    *)
PressRight == Accepted
PressOther == Accepted

SpinReturn ==
  /\ main = "waiting" /\ spin = "spinning" /\ ~ok
  /\ spin' \in {"returned", "failed"}
  /\ UNCHANGED <<ok, desk, main, since>>

(* Mutant: return_when is ALL_COMPLETED.                                    *)
WaitForAll ==
  desk \in {"returned", "failed"} /\ spin \in {"returned", "failed"}

(* asyncio.wait(..., return_when = FIRST_EXCEPTION)                         *)
WaitOver ==
  \/ "failed" \in {desk, spin}
  \/ desk = "returned" /\ spin = "returned"

(* start_node_async() raises or returns, asyncio.run() cancels what is      *)
(* left, and main() shuts the context down.                                 *)
End ==
  /\ main = "waiting" /\ WaitOver
  /\ main' = "ended" /\ ok' = FALSE /\ desk' = "over" /\ spin' = "over"
  /\ UNCHANGED since

(* SIGTERM: rclpy shuts the context down.                                   *)
Terminate ==
  /\ main = "waiting" /\ ok
  /\ ok' = FALSE
  /\ UNCHANGED <<desk, spin, main, since>>

(* SIGINT: KeyboardInterrupt ends asyncio.run().                            *)
Interrupt ==
  /\ main = "waiting"
  /\ main' = "ended" /\ ok' = FALSE /\ desk' = "over" /\ spin' = "over"
  /\ UNCHANGED since

ButtonsTick ==
  /\ since' = IF since < CoolDown THEN since + 1 ELSE since
  /\ UNCHANGED node

NodeStep ==
  Login \/ Close \/ Break \/ LastEvent \/ SpinReturn \/ End \/ Terminate \/ Interrupt

ButtonsFairness ==
  WF_buttonVars(Login) /\ WF_buttonVars(SpinReturn) /\ WF_buttonVars(End)

-----------------------------------------------------------------------------
(* An exception of either task ends the node, and with it the other task    *)
(* (start_node_async(): "Cancel remaining tasks if one fails").             *)
FailureEndsNode == "failed" \in {desk, spin} ~> main = "ended"
=============================================================================
