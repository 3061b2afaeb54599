-------------------------- MODULE LaunchInterface --------------------------
(***************************************************************************)
(* launch_interface.py and panel_demo.py: one program that enables one or   *)
(* two arms with Desk, has the operator confirm that they are safe, types a *)
(* launch command into a tmux pane for each, reboots an arm on a key, and   *)
(* closes the brakes in the end.                                            *)
(*                                                                          *)
(* The program sends keys to a session that comes up by itself, pane by     *)
(* pane, or is left over from an earlier run of the program, and never      *)
(* looks at what becomes of them: a key to a pane that is not there is      *)
(* lost, one to a pane whose shell is busy waits, and ctrl-C flushes what   *)
(* waits.  Requests to Desk are FrankaDesk's subject; here they work or     *)
(* fail.  Panes are numbered as in the code.                                *)
(***************************************************************************)
EXTENDS Naturals

CONSTANT Setups   \* the programs, numbers of arms and cameras in use

Programs == {"launch_interface", "panel_demo"}
ASSUME SetupsAssumption ==
  Setups \subseteq [program : Programs, arms : 1 .. 2, camera : BOOLEAN]

Panes == 0 .. 3

VARIABLES
  setup,
  pc,          \* where main() is: "start", "desk", "enter", "send", "menu",
               \* "reboot", "reopen", "finally", "atexit", "gone"
  todo,        \* the arms or panes that the current step has still to go through
  way,         \* how main() is left: "quit", "error", "interrupt", "killed", "refused",
               \* or "cut" when the finally clause is
  session,     \* tmux: "none", "loading", "up", "killed"
  pane,        \* "off", "busy" (the shell starts), "shell", "running", "stopping"
               \* (told to end, by ctrl-C or a hang-up, and still at it)
  typed,       \* commands that wait in the terminal of a pane
  registered,  \* arms whose client has registered its _cleanup() with atexit
  brakes,      \* of an arm: "closed", "open"
  confirmed,   \* an Enter was typed for an arm that has not been launched on it (history)
  failed       \* arms whose clean-up failed (history)

panes == <<session, pane, typed, confirmed>>
arms == <<registered, brakes, failed>>
vars == <<setup, pc, todo, way, panes, arms>>

(* resolve_runtime_arguments()                                              *)
Arms == 0 .. setup.arms - 1
Cameras == IF setup.camera THEN {2, 3} ELSE {}

(* A run that was killed leaves its session, its launches and open brakes.  *)
Init ==
  /\ setup \in Setups
  /\ pc = "start" /\ todo = {} /\ way = "none"
  /\ \/ session = "none" /\ pane = [p \in Panes |-> "off"]
     \/ session = "up" /\ pane \in [Panes -> {"shell", "running"}]
  /\ typed = [p \in Panes |-> 0]
  /\ registered = {} /\ brakes \in [0 .. 1 -> {"closed", "open"}]
  /\ confirmed = [a \in 0 .. 1 |-> FALSE] /\ failed = {}

Goto(next, rest) == pc' = next /\ todo' = rest /\ UNCHANGED way
Leave(how) == pc' = "finally" /\ todo' = {} /\ way' = how
First(p) == p \in todo /\ \A q \in todo : p <= q
Last(a) == a \in todo /\ \A b \in todo : b <= a

-----------------------------------------------------------------------------
(* tmux and its panes (external).                                           *)

(* tmuxp makes the panes one after the other.                               *)
Load(p) ==
  /\ session = "loading" /\ pane[p] = "off" /\ \A q \in 0 .. p - 1 : pane[q] # "off"
  /\ pane' = [pane EXCEPT ![p] = "busy"]
  /\ session' = IF p = 3 THEN "up" ELSE "loading"
  /\ UNCHANGED <<setup, pc, todo, way, typed, confirmed, arms>>

LoadFails ==
  /\ session = "loading" /\ session' = "none"
  /\ UNCHANGED <<setup, pc, todo, way, pane, typed, confirmed, arms>>

ShellUp(p) ==
  /\ pane[p] = "busy"
  /\ pane' = [pane EXCEPT ![p] = "shell"]
  /\ UNCHANGED <<setup, pc, todo, way, session, typed, confirmed, arms>>

(* The shell starts what has been typed.                                    *)
Launch(p) ==
  /\ pane[p] = "shell" /\ typed[p] > 0
  /\ pane' = [pane EXCEPT ![p] = "running"]
  /\ typed' = [typed EXCEPT ![p] = @ - 1]
  /\ confirmed' = [a \in 0 .. 1 |-> confirmed[a] /\ a # p]
  /\ UNCHANGED <<setup, pc, todo, way, session, arms>>

(* A launch that was told to ends; any other may.                           *)
Stopped(p) ==
  /\ pane[p] = "stopping"
  /\ pane' = [pane EXCEPT ![p] = IF session = "killed" THEN "off" ELSE "shell"]
  /\ UNCHANGED <<setup, pc, todo, way, session, typed, confirmed, arms>>

Breaks(p) ==
  /\ pane[p] = "running"
  /\ pane' = [pane EXCEPT ![p] = "shell"]
  /\ UNCHANGED <<setup, pc, todo, way, session, typed, confirmed, arms>>

-----------------------------------------------------------------------------
(* main()                                                                   *)

(* launch_tmux() opens a terminal that loads the session, and goes on; for  *)
(* a session that is there already, tmuxp only asks whether to attach.      *)
LaunchTmux == session' = IF session = "up" THEN "up" ELSE "loading"

Start ==
  /\ pc = "start"
  /\ Goto("desk", Arms) /\ LaunchTmux
  /\ UNCHANGED <<setup, pane, typed, confirmed, arms>>

(* Arguments that are refused, or ctrl-C, before the try.                   *)
Abandon ==
  /\ pc = "start"
  /\ pc' = "gone" /\ way' = "refused"
  /\ UNCHANGED <<setup, todo, panes, arms>>

(* The dashboard's node is made after launch_tmux() and before the try; it  *)
(* refuses a namespace that is no name and a context that is shut down.     *)
NoDashboard ==
  /\ pc = "start" /\ setup.program = "launch_interface"
  /\ pc' = "gone" /\ way' = "refused" /\ LaunchTmux
  /\ UNCHANGED <<setup, todo, pane, typed, confirmed, arms>>

(* get_desk_credentials() finds none.                                       *)
NoCredentials ==
  /\ pc = "desk" /\ Leave("error")
  /\ UNCHANGED <<setup, panes, arms>>

(* What enable_robot(), or unable_robot() first, may leave when it is cut   *)
(* off: the brakes as they were or as they are to be.                       *)
HalfWay(a) == {brakes[a], IF pc = "reboot" THEN "closed" ELSE "open"}

(* enable_arm_with_desk(): the client registers its clean-up before it      *)
(* makes a request.                                                         *)
Enable ==
  /\ pc = "desk"
  /\ \E a \in Arms :
       /\ First(a)
       /\ registered' = registered \cup {a}
       /\ \/ /\ brakes' = [brakes EXCEPT ![a] = "open"]
             /\ IF todo = {a} THEN Goto("enter", Arms \cup Cameras)
                              ELSE Goto("desk", todo \ {a})
          \/ /\ \E b \in HalfWay(a) : brakes' = [brakes EXCEPT ![a] = b]
             /\ Leave("error") \/ Leave("interrupt")
  /\ UNCHANGED <<setup, panes, failed>>

(* An Enter that is typed before it is asked for waits in the terminal.     *)
(* (One that is typed before the key of a reboot is gone by then:           *)
(* tty.setcbreak() throws away what waits, and keys are read in order.)     *)
TypeAhead ==
  /\ pc \in {"desk", "reboot", "reopen"}
  /\ confirmed' = [a \in 0 .. 1 |-> confirmed[a] \/ a \in (IF pc = "desk" THEN Arms ELSE todo)]
  /\ UNCHANGED <<setup, pc, todo, way, session, pane, typed, arms>>

(* safety_check_panel(), input() or read_key() takes that Enter or one that *)
(* is typed now.                                                            *)
Enter ==
  /\ pc = "enter"
  /\ confirmed' = [a \in 0 .. 1 |-> confirmed[a] \/ a \in todo]
  /\ Goto("send", todo)
  /\ UNCHANGED <<setup, session, pane, typed, arms>>

(* Mutant: the command goes to the first pane.                              *)
TypeFirst(p) ==
  typed' = IF pane[p] = "off" THEN typed
           ELSE IF p > 1 THEN [typed EXCEPT ![p] = @ + 1] ELSE [typed EXCEPT ![0] = 1]

(* send_command_to_pane()                                                   *)
Type(p) ==
  typed' = IF pane[p] = "off" THEN typed ELSE [typed EXCEPT ![p] = @ + 1]

Send ==
  /\ pc = "send"
  /\ \E p \in Panes :
       /\ First(p) /\ Type(p)
       /\ IF todo = {p} THEN Goto("menu", {}) ELSE Goto("send", todo \ {p})
  /\ UNCHANGED <<setup, session, pane, confirmed, arms>>

(* send_interupt_to_pane()                                                  *)
Interrupt(p) ==
  /\ typed' = [typed EXCEPT ![p] = 0]
  /\ pane' = [pane EXCEPT ![p] = IF @ = "running" THEN "stopping" ELSE @]

(* Mutant: the arm is rebooted under its launch.                            *)
RebootKeyAlone(a) ==
  /\ pc = "menu"
  /\ Goto("reboot", {a})
  /\ confirmed' = [confirmed EXCEPT ![a] = FALSE]
  /\ UNCHANGED <<setup, session, pane, typed, arms>>

(* 'l' or 'r'.                                                              *)
RebootKey(a) ==
  /\ pc = "menu" /\ a \in Arms
  /\ Goto("reboot", {a}) /\ Interrupt(a)
  /\ confirmed' = [confirmed EXCEPT ![a] = FALSE]
  /\ UNCHANGED <<setup, session, arms>>

(* Mutant: unable_robot() without enable_robot().                           *)
UnableAlone ==
  /\ pc = "reboot"
  /\ \E a \in todo : brakes' = [brakes EXCEPT ![a] = "closed"] /\ Goto("enter", {a})
  /\ UNCHANGED <<setup, panes, registered, failed>>

(* reboot_sys(): unable_robot() and, three seconds later, enable_robot().   *)
Unable ==
  /\ pc = "reboot"
  /\ \E a \in todo :
       \/ brakes' = [brakes EXCEPT ![a] = "closed"] /\ Goto("reopen", {a})
       \/ /\ \E b \in HalfWay(a) : brakes' = [brakes EXCEPT ![a] = b]
          /\ Leave("error") \/ Leave("interrupt")
  /\ UNCHANGED <<setup, panes, registered, failed>>

(* Mutant: the command is sent again before the operator has confirmed.     *)
ReopenAndSend ==
  /\ pc = "reopen"
  /\ \E a \in todo : brakes' = [brakes EXCEPT ![a] = "open"]
  /\ Goto("send", todo)
  /\ UNCHANGED <<setup, panes, registered, failed>>

Reopen ==
  /\ pc = "reopen"
  /\ \E a \in todo :
       \/ brakes' = [brakes EXCEPT ![a] = "open"] /\ Goto("enter", {a})
       \/ /\ \E b \in HalfWay(a) : brakes' = [brakes EXCEPT ![a] = b]
          /\ Leave("error") \/ Leave("interrupt")
  /\ UNCHANGED <<setup, panes, registered, failed>>

Quit ==
  /\ pc = "menu" /\ Leave("quit")
  /\ UNCHANGED <<setup, panes, arms>>

(* KeyboardInterrupt.                                                       *)
CtrlC ==
  /\ pc \in {"enter", "send", "menu"} /\ Leave("interrupt")
  /\ UNCHANGED <<setup, panes, arms>>

(* tmux kill-session: shells end, and a launch is told to.                  *)
HangUp ==
  /\ session' = "killed"
  /\ pane' = [p \in Panes |-> IF pane[p] \in {"running", "stopping"} THEN "stopping" ELSE "off"]
  /\ typed' = [p \in Panes |-> 0]

Exists == \E p \in Panes : pane[p] # "off"

(* Mutant: the session is killed after a quit only.                         *)
KillAfterQuit ==
  /\ pc = "finally"
  /\ Goto("atexit", registered)
  /\ IF Exists /\ way = "quit" THEN HangUp ELSE UNCHANGED <<session, pane, typed>>
  /\ UNCHANGED <<setup, confirmed, arms>>

(* Mutant: the session is killed as soon as there is one.                   *)
KillPatiently ==
  /\ pc = "finally" /\ Exists
  /\ Goto("atexit", registered)
  /\ HangUp
  /\ UNCHANGED <<setup, confirmed, arms>>

(* kill_tmux_session() waits for no launch to end.                          *)
Kill ==
  /\ pc = "finally"
  /\ Goto("atexit", registered)
  /\ IF Exists THEN HangUp ELSE UNCHANGED <<session, pane, typed>>
  /\ UNCHANGED <<setup, confirmed, arms>>

(* rclpy.shutdown() raises if a signal has shut the context down: SIGINT,   *)
(* if rclpy's handler was faster, or SIGTERM, after which the program goes  *)
(* on as before.  What is left of the finally clause is skipped.            *)
ShutdownRaises ==
  /\ pc = "finally" /\ setup.program = "launch_interface"
  /\ pc' = "atexit" /\ todo' = registered /\ way' = "cut"
  /\ UNCHANGED <<setup, panes, arms>>

(* Mutant: an error of one clean-up ends the program.                       *)
CleanUpStops ==
  /\ pc = "atexit"
  /\ \E a \in registered :
       /\ Last(a)
       /\ \/ /\ brakes' = [brakes EXCEPT ![a] = "closed"]
             /\ Goto("atexit", todo \ {a}) /\ UNCHANGED failed
          \/ failed' = failed \cup {a} /\ Goto("atexit", {}) /\ UNCHANGED brakes
  /\ UNCHANGED <<setup, panes, registered>>

(* atexit calls the clean-ups, the last registered first, and goes on       *)
(* whatever one of them raises, before or after it has closed the brakes.   *)
CleanUp ==
  /\ pc = "atexit"
  /\ \E a \in registered :
       /\ Last(a)
       /\ Goto("atexit", todo \ {a})
       /\ \E b \in {brakes[a], "closed"} :
            /\ brakes' = [brakes EXCEPT ![a] = b]
            /\ \/ b = "closed" /\ UNCHANGED failed
               \/ failed' = failed \cup {a}
  /\ UNCHANGED <<setup, panes, registered>>

Exit ==
  /\ pc = "atexit" /\ todo = {}
  /\ Goto("gone", {})
  /\ UNCHANGED <<setup, panes, arms>>

(* The program is killed, or its terminal closed: nothing of it runs on,    *)
(* and enable_arm_with_desk() or reboot_sys() is left half-way.             *)
Crash ==
  /\ pc \notin {"start", "gone"}
  /\ pc' = "gone" /\ todo' = {} /\ way' = "killed"
  /\ \/ UNCHANGED arms
     \/ /\ pc \in {"desk", "reboot", "reopen"}
        /\ \E a \in todo :
             /\ First(a)
             /\ registered' = registered \cup {a}
             /\ \E b \in HalfWay(a) : brakes' = [brakes EXCEPT ![a] = b]
        /\ UNCHANGED failed
  /\ UNCHANGED <<setup, panes>>

-----------------------------------------------------------------------------
Main ==
  \/ Start \/ Abandon \/ NoDashboard \/ NoCredentials \/ Enable \/ TypeAhead \/ Enter
  \/ Send \/ Unable \/ Reopen \/ Quit \/ CtrlC \/ Kill \/ ShutdownRaises \/ CleanUp \/ Exit \/ Crash
  \/ \E a \in 0 .. 1 : RebootKey(a)

Tmux ==
  \/ LoadFails
  \/ \E p \in Panes : Load(p) \/ ShellUp(p) \/ Launch(p) \/ Stopped(p) \/ Breaks(p)

Next == Main \/ Tmux

(* The program's steps that wait for nobody, and the shells of the panes    *)
(* and launches that are told to end.                                       *)
Fairness ==
  /\ WF_vars(Send) /\ WF_vars(Kill) /\ WF_vars(CleanUp) /\ WF_vars(Exit)
  /\ \A p \in Panes : WF_vars(ShellUp(p)) /\ WF_vars(Launch(p)) /\ WF_vars(Stopped(p))

Spec == Init /\ [][Next]_vars /\ Fairness

-----------------------------------------------------------------------------
(* The program, panes and arms are in their states, and a command is never  *)
(* typed on top of one that waits.                                          *)
TypeOK ==
  /\ setup \in Setups
  /\ pc \in {"start", "desk", "enter", "send", "menu", "reboot", "reopen", "finally", "atexit",
             "gone"}
  /\ todo \subseteq Panes
  /\ way \in {"none", "quit", "error", "interrupt", "killed", "refused", "cut"}
  /\ session \in {"none", "loading", "up", "killed"}
  /\ pane \in [Panes -> {"off", "busy", "shell", "running", "stopping"}]
  /\ typed \in [Panes -> 0 .. 1]
  /\ registered \subseteq 0 .. 1 /\ failed \subseteq registered
  /\ brakes \in [0 .. 1 -> {"closed", "open"}]
  /\ confirmed \in [0 .. 1 -> BOOLEAN]

(* Before the brakes of an arm close, at a reboot or in a clean-up, its     *)
(* launch has been told to end and none waits to start, however the keys    *)
(* of its pane have fared.  Nobody waits for the launch to end, though, and *)
(* it is not told when rclpy.shutdown() raises.                             *)
StopBeforeBrakes ==
  [][\A a \in 0 .. 1 :
       brakes[a] = "open" /\ brakes'[a] = "closed"
         => way = "cut" \/ (pane[a] # "running" /\ typed[a] = 0)]_vars

(* When main() has come to its end and the finally clause was not cut       *)
(* short, no launch of any pane outlives the program for ever, and none     *)
(* starts late: not in a session that comes up after it was to be killed.   *)
LaunchesEnd ==
  pc = "gone" /\ way \in {"quit", "error", "interrupt"}
    ~> [](\A p \in Panes : pane[p] \notin {"running", "stopping"})

(* What main() does to the brakes of each arm is a session at its Desk:     *)
(* opened while the arm is enabled or rebooted only, open in the menu, and  *)
(* left alone once the arm's clean-up is over.                              *)
SessionState(a) ==
  IF a \notin registered \/ (pc \in {"reboot", "reopen"} /\ a \in todo) THEN "unready"
  ELSE IF pc = "finally" \/ (pc = "atexit" /\ a \in todo) THEN "leaving"
  ELSE IF pc \in {"atexit", "gone"} THEN "gone"
  ELSE "ready"
Left == INSTANCE DeskSession WITH state <- SessionState(0), brakes <- brakes[0]
Right == INSTANCE DeskSession WITH state <- SessionState(1), brakes <- brakes[1]
KeepsSessions == Left!Spec /\ Right!Spec

(* However main() is left, every arm whose client exists is closed again or *)
(* its clean-up failed: that of one arm does not keep the other open.       *)
EveryArmRelocked ==
  pc = "gone" /\ way # "killed" =>
    \A a \in registered : brakes[a] = "closed" \/ a \in failed

(* Every launch of an arm, whenever its shell gets to it, has an Enter of   *)
(* its own that the operator typed since the program started, or since the  *)
(* key that rebooted the arm; not always since the brakes were last opened, *)
(* for an Enter that is typed during the reboot counts.                     *)
EveryLaunchConfirmed ==
  [][\A a \in 0 .. 1 :
       pane[a] # "running" /\ pane'[a] = "running" => confirmed[a]]_vars

(* An arm that is confirmed when its pane is there is launched, or rebooted *)
(* again, or the program is left; even if the last launch still stops, but  *)
(* not if the launch of an earlier run of the program is in the way.        *)
ConfirmedArmIsLaunched ==
  \A a \in 0 .. 1 :
    pc = "send" /\ a \in todo /\ pane[a] \notin {"off", "running"}
      ~> ~confirmed[a] \/ pc \in {"finally", "atexit", "gone"}

(* Whatever fails on the way, the program ends once main() is left.         *)
LeavingEnds == pc = "finally" ~> pc = "gone"
=============================================================================
