--------------------------- MODULE StatusMonitor ---------------------------
(***************************************************************************)
(* What the dashboard of the launch interface says of one arm.              *)
(*                                                                          *)
(* robot_mode_broadcaster.py keeps the last mode that the state broadcaster *)
(* published and repeats it thirty times a second.  The dashboard shows a   *)
(* mode as it comes, and once per second its watchdog shows ACTIVE or       *)
(* DISCONNECTED over it, by the time since the last joint state.  Time is   *)
(* counted in runs of the watchdog.                                         *)
(***************************************************************************)
EXTENDS Naturals

Timeout == 2   \* of _check_heartbeats()

VARIABLES
  known,    \* robot_mode of the broadcaster, "none" before the first message
  age,      \* whole seconds since the heartbeat of the arm, up to Timeout
  status    \* the arm's entry of status_dict

monitorVars == <<known, age, status>>

MonitorInit == known = "none" /\ age = Timeout /\ status = "STALE"

(* Mutant: the two numbers mixed up.                                        *)
ShownMixedUp(mode) ==
  CASE mode = "stopped" -> "COLLISION"
    [] mode = "reflex" -> "EMERGENCY STOP"
    [] OTHER -> "ACTIVE"

Shown(mode) ==
  CASE mode = "reflex" -> "COLLISION"
    [] mode = "stopped" -> "EMERGENCY STOP"
    [] OTHER -> "ACTIVE"

(* The mode broadcaster starts, and has heard nothing.                      *)
BroadcasterInit ==
  /\ known' = "none"
  /\ UNCHANGED <<age, status>>

(* Mutant: the first mode is kept.                                          *)
StateMessageFirst(mode) ==
  /\ known' = IF known = "none" THEN mode ELSE known
  /\ UNCHANGED <<age, status>>

(* A message of the state broadcaster reaches the mode broadcaster.         *)
StateMessage(mode) ==
  /\ known' = mode
  /\ UNCHANGED <<age, status>>

(* The mode broadcaster's timer; the message reaches the dashboard.         *)
ModeMessage ==
  /\ known # "none"
  /\ status' = Shown(known)
  /\ UNCHANGED <<known, age>>

(* A joint state reaches the dashboard.                                     *)
HeartBeat ==
  /\ age' = 0
  /\ UNCHANGED <<known, status>>

(* Mutant: the watchdog leaves what has once been shown.                    *)
CheckFirst(listed) ==
  /\ status' = IF ~listed \/ status # "STALE" THEN status
               ELSE IF age >= Timeout THEN "DISCONNECTED" ELSE "ACTIVE"
  /\ age' = IF age < Timeout THEN age + 1 ELSE age
  /\ UNCHANGED known

(* The watchdog.  With age whole seconds and a fraction, more than Timeout  *)
(* has passed.  An arm whose name contains "_arm" has another entry written.*)
Check(listed) ==
  /\ status' = IF ~listed THEN status
               ELSE IF age >= Timeout THEN "DISCONNECTED" ELSE "ACTIVE"
  /\ age' = IF age < Timeout THEN age + 1 ELSE age
  /\ UNCHANGED known
=============================================================================
