--------------------------- MODULE GoalLifecycle ---------------------------
(***************************************************************************)
(* What an action server of the gripper promises of its goals, whatever     *)
(* threads it runs them on: a goal gets one result, a cancelled one only if *)
(* it was asked to cancel, and never while its command is still in flight.  *)
(***************************************************************************)
CONSTANT Goals

VARIABLES
  status,    \* of the goal handle
  inFlight   \* the goals whose command has been handed over and has not returned

goalVars == <<status, inFlight>>

Active == {"executing", "canceling"}
Terminal == {"succeeded", "aborted", "canceled"}

Init ==
  /\ status = [g \in Goals |-> "new"]
  /\ inFlight = {}

Accept(g) ==
  /\ status[g] = "new"
  /\ status' = [status EXCEPT ![g] = "executing"]
  /\ UNCHANGED inFlight

AskToCancel(g) ==
  /\ status[g] = "executing"
  /\ status' = [status EXCEPT ![g] = "canceling"]
  /\ UNCHANGED inFlight

HandOver(g) ==
  /\ status[g] \in Active
  /\ inFlight' = inFlight \cup {g}
  /\ UNCHANGED status

Return(g) ==
  /\ g \in inFlight
  /\ inFlight' = inFlight \ {g}
  /\ UNCHANGED status

Finish(g) ==
  /\ status[g] \in Active /\ g \notin inFlight
  /\ \E s \in Terminal :
       /\ s = "canceled" => status[g] = "canceling"
       /\ status' = [status EXCEPT ![g] = s]
  /\ UNCHANGED inFlight

Next == \E g \in Goals : Accept(g) \/ AskToCancel(g) \/ HandOver(g) \/ Return(g) \/ Finish(g)

Spec == Init /\ [][Next]_goalVars

=============================================================================
