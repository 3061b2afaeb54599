---------------------------- MODULE DeskSession ----------------------------
(***************************************************************************)
(* What one program does to the brakes of one arm that nobody else uses,    *)
(* from FrankaLockUnlock() to the end of its _cleanup(): it works at them   *)
(* while it enables or reboots the arm, leaves them open as long as it      *)
(* offers the arm in its menu, and closes them when it leaves, if Desk lets *)
(* it.  A process that dies leaves them as they are.                        *)
(***************************************************************************)
VARIABLES
  state,   \* "unready", "ready" (in the menu), "leaving", "gone"
  brakes   \* "open" or "closed"

session == <<state, brakes>>
Positions == {"open", "closed"}

Init == state = "unready" /\ brakes \in Positions

Work ==
  /\ state = "unready" /\ UNCHANGED state
  /\ brakes' \in Positions

Enabled ==
  /\ state = "unready" /\ state' = "ready"
  /\ brakes' = "open"

Reboot ==
  /\ state = "ready" /\ state' = "unready"
  /\ UNCHANGED brakes

(* Give the arm up, half-way, or quit.                                      *)
Leave ==
  /\ state' = "leaving"
  /\ \/ state = "unready" /\ brakes' \in Positions
     \/ state = "ready" /\ UNCHANGED brakes

Close ==
  /\ state = "leaving" /\ state' = "gone"
  /\ brakes' = "closed"

(* Desk refuses to close the brakes, or the process dies.                   *)
Fail ==
  /\ state # "gone" /\ state' = "gone"
  /\ \/ UNCHANGED brakes
     \/ state = "unready" /\ brakes' \in Positions

Next == Work \/ Enabled \/ Reboot \/ Leave \/ Close \/ Fail

Spec == Init /\ [][Next]_session
=============================================================================
