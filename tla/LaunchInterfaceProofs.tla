----------------------- MODULE LaunchInterfaceProofs -----------------------
(***************************************************************************)
(* The launch interface and the panel, proved for every choice of programs, *)
(* numbers of arms and cameras.                                             *)
(***************************************************************************)
EXTENDS LaunchInterface, TLAPS

(* Nothing waits where there is no pane, and a session that was killed is   *)
(* not typed into again.                                                    *)
PanesInv ==
  /\ \A p \in Panes : pane[p] = "off" => typed[p] = 0
  /\ session = "killed" =>
       /\ pc \in {"atexit", "gone"}
       /\ \A p \in Panes : pane[p] \in {"off", "stopping"} /\ typed[p] = 0

(* Nothing waits in a pane that the program is about to type into.          *)
NothingWaits ==
  /\ pc \in {"start", "desk"} => \A p \in Panes : typed[p] = 0
  /\ pc \in {"enter", "send", "reboot", "reopen"} => \A p \in todo : typed[p] = 0

(* What waits in the pane of an arm, or will be typed, is confirmed.        *)
TypedIsConfirmed ==
  \A a \in 0 .. 1 :
    typed[a] > 0 \/ (pc = "send" /\ a \in todo) => confirmed[a]

(* Where the brakes of an arm may be closed.                                *)
ToldToEnd ==
  /\ pc = "reboot" => \A p \in todo : pane[p] # "running"
  /\ pc = "atexit" /\ way # "cut" => \A p \in Panes : pane[p] # "running" /\ typed[p] = 0

(* Each arm is enabled once, and they are rebooted one by one; of an open   *)
(* arm that has a client the clean-up is still to come.                     *)
ClientsInv ==
  /\ pc = "start" => registered = {}
  /\ pc = "desk" => todo = Arms \ registered
  /\ pc \in {"enter", "send", "menu", "reboot", "reopen"} => Arms \subseteq registered
  /\ pc \in {"reboot", "reopen"} => \E a \in Arms : todo = {a}
  /\ pc = "atexit" =>
       /\ todo \subseteq registered
       /\ \A a \in registered : brakes[a] = "closed" \/ a \in failed \/ a \in todo

IInv ==
  /\ TypeOK
  /\ PanesInv
  /\ NothingWaits
  /\ TypedIsConfirmed
  /\ ToldToEnd
  /\ ClientsInv
  /\ EveryArmRelocked

(* What the two action properties ask of a step.                            *)
LaunchStep ==
  \A a \in 0 .. 1 : pane[a] # "running" /\ pane'[a] = "running" => confirmed[a]
BrakeStep ==
  \A a \in 0 .. 1 :
    brakes[a] = "open" /\ brakes'[a] = "closed"
      => way = "cut" \/ (pane[a] # "running" /\ typed[a] = 0)

USE DEF Panes

-----------------------------------------------------------------------------
LEMMA InitHolds == Init => IInv
<1> SUFFICES ASSUME Init PROVE IInv
  OBVIOUS
<1>1. TypeOK
  BY SetupsAssumption DEF Init, TypeOK
<1>2. QED
  BY <1>1 DEF Init, IInv, PanesInv, NothingWaits, TypedIsConfirmed, ToldToEnd, ClientsInv,
     EveryArmRelocked

LEMMA ArmsOfSetup ==
  ASSUME setup \in Setups
  PROVE  Arms \subseteq 0 .. 1 /\ Cameras \subseteq Panes
<1>1. setup.arms \in 1 .. 2
  BY SetupsAssumption
<1>2. QED
  BY <1>1 DEF Arms, Cameras

(* The panes of the operator's launches.                                    *)
LEMMA TmuxStep ==
  ASSUME IInv, Tmux
  PROVE  IInv' /\ LaunchStep /\ BrakeStep
<1> USE DEF IInv
<1>0. typed \in [Panes -> 0 .. 1] /\ confirmed \in [0 .. 1 -> BOOLEAN] /\ todo \subseteq Panes
      /\ pane \in [Panes -> {"off", "busy", "shell", "running", "stopping"}]
  BY DEF TypeOK
<1>a. /\ Arms' = Arms /\ UNCHANGED <<setup, pc, todo, way, registered, brakes, failed>>
      /\ BrakeStep
  BY DEF Arms, Tmux, Load, LoadFails, ShellUp, Launch, Stopped, Breaks, arms, BrakeStep
<1>b. ClientsInv' /\ EveryArmRelocked'
  BY <1>a DEF ClientsInv, EveryArmRelocked
<1>1. CASE LoadFails
  <2>1. TypeOK'
    BY <1>1 DEF LoadFails, TypeOK, arms
  <2>2. QED
    BY <1>0, <1>a, <1>b, <1>1, <2>1 DEF LoadFails, PanesInv, NothingWaits, TypedIsConfirmed,
       ToldToEnd, LaunchStep
<1>2. ASSUME NEW p \in Panes, Load(p) \/ ShellUp(p) \/ Stopped(p) \/ Breaks(p)
      PROVE  IInv' /\ LaunchStep /\ BrakeStep
  <2>1. /\ UNCHANGED <<typed, confirmed>>
        /\ session' \in {"none", "loading", "up", "killed"}
        /\ session' = "killed" => session = "killed"
        /\ \E s \in {"off", "busy", "shell"} :
             /\ pane' = [pane EXCEPT ![p] = s]
             /\ s = "off" => session = "killed"
             /\ session = "killed" => s = "off"
    <3>1. CASE Load(p)
      BY <3>1 DEF Load
    <3>2. CASE ShellUp(p)
      BY <3>2 DEF ShellUp, TypeOK, PanesInv
    <3>3. CASE Stopped(p)
      BY <3>3 DEF Stopped, TypeOK
    <3>4. CASE Breaks(p)
      BY <3>4 DEF Breaks, TypeOK, PanesInv
    <3>5. QED
      BY <1>2, <3>1, <3>2, <3>3, <3>4
  <2>2. PICK s \in {"off", "busy", "shell"} :
          /\ pane' = [pane EXCEPT ![p] = s]
          /\ s = "off" => session = "killed"
          /\ session = "killed" => s = "off"
    BY <2>1
  <2>3. TypeOK'
    BY <1>a, <2>1, <2>2 DEF TypeOK
  <2>4. \A q \in Panes : pane'[q] = pane[q] \/ pane'[q] = s
    BY <1>0, <2>2
  <2>5. PanesInv'
    BY <1>a, <2>1, <2>2, <2>4 DEF PanesInv
  <2>6. NothingWaits' /\ TypedIsConfirmed' /\ ToldToEnd' /\ LaunchStep
    BY <1>0, <1>a, <2>1, <2>4 DEF NothingWaits, TypedIsConfirmed, ToldToEnd, LaunchStep
  <2>7. QED
    BY <1>a, <1>b, <2>3, <2>5, <2>6
<1>3. ASSUME NEW p \in Panes, Launch(p)
      PROVE  IInv' /\ LaunchStep /\ BrakeStep
  <2>1. /\ session' = session
        /\ typed[p] = 1 /\ typed' = [typed EXCEPT ![p] = 0]
        /\ pane[p] = "shell" /\ pane' = [pane EXCEPT ![p] = "running"]
        /\ confirmed' = [a \in 0 .. 1 |-> confirmed[a] /\ a # p]
    <3>1. typed[p] = 1 /\ typed[p] - 1 = 0
      BY <1>0, <1>3 DEF Launch
    <3>2. QED
      BY <3>1, <1>3 DEF Launch
  <2>2. confirmed' \in [0 .. 1 -> BOOLEAN]
    BY <2>1
  <2>3. TypeOK'
    BY <1>a, <2>1, <2>2 DEF TypeOK
  <2>4. \A a \in 0 .. 1 : a # p => confirmed'[a] = confirmed[a]
    BY <1>0, <2>1
  <2>5. PanesInv' /\ NothingWaits' /\ ToldToEnd'
    BY <1>0, <1>a, <2>1 DEF PanesInv, NothingWaits, ToldToEnd
  <2>6. TypedIsConfirmed'
    BY <1>0, <1>a, <2>1, <2>4 DEF TypedIsConfirmed, NothingWaits
  <2>7. LaunchStep
    BY <1>0, <2>1 DEF TypedIsConfirmed, LaunchStep
  <2>8. QED
    BY <1>a, <1>b, <2>3, <2>5, <2>6, <2>7
<1>4. QED
  BY <1>1, <1>2, <1>3 DEF Tmux

(* A step that leaves the panes and the brakes as they are.                 *)
LEMMA QuietStep ==
  ASSUME UNCHANGED <<pane, brakes>>
  PROVE  LaunchStep /\ BrakeStep
BY DEF LaunchStep, BrakeStep

(* The program starts, or refuses to.                                       *)
LEMMA StartStep ==
  ASSUME IInv, Start \/ Abandon \/ NoDashboard
  PROVE  IInv' /\ LaunchStep /\ BrakeStep
<1> USE DEF IInv, Goto, panes, arms, LaunchTmux
<1>1. Arms \subseteq Panes
  BY ArmsOfSetup DEF TypeOK
<1>2. /\ pc = "start" /\ pc' \in {"desk", "gone"}
      /\ todo' \subseteq Panes /\ way' \in {way, "refused"}
      /\ session' \in {session, "up", "loading"}
      /\ pc' = "desk" => todo' = Arms
      /\ UNCHANGED <<setup, pane, typed, confirmed, registered, brakes, failed>>
  <2>1. CASE Start
    BY <1>1, <2>1 DEF Start
  <2>2. CASE Abandon
    BY <2>2 DEF Abandon, TypeOK
  <2>3. CASE NoDashboard
    BY <2>3 DEF NoDashboard, TypeOK
  <2>4. QED
    BY <2>1, <2>2, <2>3
<1>3. Arms' = Arms
  BY <1>2 DEF Arms
<1>4. TypeOK'
  BY <1>2 DEF TypeOK
<1>5. PanesInv' /\ NothingWaits' /\ TypedIsConfirmed'
  BY <1>2 DEF PanesInv, NothingWaits, TypedIsConfirmed
<1>6. ToldToEnd' /\ ClientsInv' /\ EveryArmRelocked'
  BY <1>2, <1>3 DEF ToldToEnd, ClientsInv, EveryArmRelocked
<1>7. QED
  BY <1>2, <1>4, <1>5, <1>6, QuietStep

(* A step of the program that leaves the panes alone starts no launch.      *)
LEMMA MainStep ==
  ASSUME IInv, Main
  PROVE  IInv' /\ LaunchStep /\ BrakeStep
<1> USE DEF IInv, Goto, Leave, panes, arms
<1>0. /\ todo \subseteq Panes /\ typed \in [Panes -> 0 .. 1] /\ confirmed \in [0 .. 1 -> BOOLEAN]
      /\ pane \in [Panes -> {"off", "busy", "shell", "running", "stopping"}]
      /\ brakes \in [0 .. 1 -> {"closed", "open"}]
      /\ registered \subseteq 0 .. 1
      /\ Arms \subseteq 0 .. 1 /\ Cameras \subseteq Panes
  BY ArmsOfSetup DEF TypeOK
<1>a. Arms' = Arms
  BY DEF Arms, Main, Start, Abandon, NoDashboard, NoCredentials, Enable, TypeAhead, Enter, Send,
     Unable, Reopen, Quit, CtrlC, Kill, ShutdownRaises, CleanUp, Exit, Crash, RebootKey
<1>1. CASE Start \/ Abandon \/ NoDashboard
  BY <1>1, StartStep
<1>2. CASE NoCredentials \/ Quit \/ CtrlC
  <2>1. /\ pc \in {"desk", "enter", "send", "menu"}
        /\ pc' = "finally" /\ todo' = {} /\ way' \in {"error", "quit", "interrupt"}
        /\ UNCHANGED <<setup, session, pane, typed, confirmed, registered, brakes, failed>>
    BY <1>2 DEF NoCredentials, Quit, CtrlC
  <2>2. TypeOK'
    BY <2>1 DEF TypeOK
  <2>3. QED
    BY <1>0, <1>a, <2>1, <2>2, QuietStep DEF PanesInv, NothingWaits, TypedIsConfirmed,
       ToldToEnd, ClientsInv, EveryArmRelocked
<1>3. CASE Crash
  <2>1. /\ pc \notin {"start", "gone"} /\ pc' = "gone" /\ todo' = {} /\ way' = "killed"
        /\ UNCHANGED <<setup, session, pane, typed, confirmed, failed>>
    BY <1>3 DEF Crash
  <2>2. /\ registered \subseteq registered' /\ registered' \subseteq 0 .. 1
        /\ brakes' \in [0 .. 1 -> {"closed", "open"}]
        /\ BrakeStep
    <3>1. CASE UNCHANGED <<registered, brakes>>
      BY <1>0, <3>1 DEF BrakeStep
    <3>2. CASE ~UNCHANGED <<registered, brakes>>
      <4>1. PICK a \in todo :
              /\ pc \in {"desk", "reboot", "reopen"} /\ registered' = registered \cup {a}
              /\ \E b \in HalfWay(a) : brakes' = [brakes EXCEPT ![a] = b]
        BY <1>3, <3>2 DEF Crash
      <4>2. a \in 0 .. 1
        BY <1>0, <4>1 DEF ClientsInv
      <4>3. brakes' \in [0 .. 1 -> {"closed", "open"}]
            /\ \A c \in 0 .. 1 : c # a => brakes'[c] = brakes[c]
        BY <1>0, <4>1, <4>2 DEF HalfWay
      <4>4. brakes'[a] = "closed" => brakes[a] = "closed" \/ pc = "reboot"
        BY <1>0, <4>1, <4>2 DEF HalfWay
      <4>5. BrakeStep
        BY <1>0, <4>1, <4>3, <4>4 DEF BrakeStep, ToldToEnd, NothingWaits
      <4>6. QED
        BY <1>0, <4>1, <4>2, <4>3, <4>5
    <3>3. QED
      BY <3>1, <3>2
  <2>3. TypeOK'
    BY <2>1, <2>2 DEF TypeOK
  <2>4. LaunchStep
    BY <2>1 DEF LaunchStep
  <2>5. QED
    BY <1>0, <1>a, <2>1, <2>2, <2>3, <2>4 DEF PanesInv, NothingWaits, TypedIsConfirmed,
       ToldToEnd, ClientsInv, EveryArmRelocked
<1>4. CASE ShutdownRaises
  <2>1. /\ pc = "finally" /\ pc' = "atexit" /\ todo' = registered /\ way' = "cut"
        /\ UNCHANGED <<setup, session, pane, typed, confirmed, registered, brakes, failed>>
    BY <1>4 DEF ShutdownRaises
  <2>2. registered \subseteq Panes
    BY <1>0
  <2>3. TypeOK'
    BY <2>1, <2>2 DEF TypeOK
  <2>4. QED
    BY <1>0, <1>a, <2>1, <2>3, QuietStep DEF PanesInv, NothingWaits, TypedIsConfirmed,
       ToldToEnd, ClientsInv, EveryArmRelocked
<1>5. CASE Exit
  <2>1. TypeOK'
    BY <1>5 DEF Exit, TypeOK
  <2>2. QED
    BY <1>0, <1>a, <1>5, <2>1, QuietStep DEF Exit, PanesInv, NothingWaits, TypedIsConfirmed,
       ToldToEnd, ClientsInv, EveryArmRelocked
<1>6. CASE Enable
  <2>1. PICK a \in Arms :
       /\ First(a)
       /\ registered' = registered \cup {a}
       /\ \/ /\ brakes' = [brakes EXCEPT ![a] = "open"]
             /\ IF todo = {a} THEN Goto("enter", Arms \cup Cameras)
                              ELSE Goto("desk", todo \ {a})
          \/ /\ \E b \in HalfWay(a) : brakes' = [brakes EXCEPT ![a] = b]
             /\ Leave("error") \/ Leave("interrupt")
    BY <1>6 DEF Enable
  <2>2. /\ pc = "desk" /\ a \in 0 .. 1 /\ registered' = registered \cup {a}
        /\ brakes' \in [0 .. 1 -> {"closed", "open"}]
        /\ \A b \in 0 .. 1 : b # a => brakes'[b] = brakes[b]
        /\ brakes'[a] = "closed" => brakes[a] = "closed"
        /\ UNCHANGED <<setup, session, pane, typed, confirmed, failed>>
    BY <1>0, <1>6, <2>1 DEF Enable, HalfWay
  <2>3. /\ pc' \in {"desk", "enter", "finally"}
        /\ todo' \subseteq Panes
        /\ pc' = "desk" => todo' = todo \ {a}
        /\ pc' = "enter" => todo = {a}
        /\ way' \in {way, "error", "interrupt"}
    <3>1. Arms \cup Cameras \subseteq Panes
      BY <1>0
    <3>2. CASE todo = {a} /\ Goto("enter", Arms \cup Cameras)
      BY <3>1, <3>2
    <3>3. CASE Goto("desk", todo \ {a})
      BY <1>0, <3>3
    <3>4. CASE Leave("error") \/ Leave("interrupt")
      BY <3>4
    <3>5. QED
      BY <2>1, <3>2, <3>3, <3>4
  <2>4. TypeOK'
    BY <2>2, <2>3 DEF TypeOK
  <2>5. LaunchStep /\ BrakeStep
    BY <1>0, <2>2 DEF LaunchStep, BrakeStep
  <2>6. QED
    BY <1>0, <1>a, <2>2, <2>3, <2>4, <2>5 DEF PanesInv, NothingWaits, TypedIsConfirmed,
       ToldToEnd, ClientsInv, EveryArmRelocked
<1>7. CASE TypeAhead \/ Enter
  <2>1. /\ confirmed' \in [0 .. 1 -> BOOLEAN]
        /\ \A a \in 0 .. 1 : confirmed[a] => confirmed'[a]
        /\ pc' = "send" => \A a \in 0 .. 1 : a \in todo => confirmed'[a]
        /\ \/ pc' = pc /\ pc \in {"desk", "reboot", "reopen"}
           \/ pc = "enter" /\ pc' = "send"
        /\ UNCHANGED <<setup, todo, way, session, pane, typed, registered, brakes, failed>>
    <3>1. CASE TypeAhead
      BY <1>0, <3>1 DEF TypeAhead
    <3>2. CASE Enter
      BY <1>0, <3>2 DEF Enter
    <3>3. QED
      BY <1>7, <3>1, <3>2
  <2>2. TypeOK'
    BY <2>1 DEF TypeOK
  <2>3. QED
    BY <1>0, <1>a, <2>1, <2>2, QuietStep DEF PanesInv, NothingWaits, TypedIsConfirmed,
       ToldToEnd, ClientsInv, EveryArmRelocked
<1>8. CASE Send
  <2>1. PICK p \in Panes : First(p) /\ Type(p)
          /\ IF todo = {p} THEN Goto("menu", {}) ELSE Goto("send", todo \ {p})
    BY <1>8 DEF Send
  <2>2. /\ pc = "send" /\ p \in todo /\ typed[p] = 0
        /\ \A q \in Panes : typed'[q] = typed[q] \/ (q = p /\ typed'[q] = 1 /\ pane[q] # "off")
        /\ typed' \in [Panes -> 0 .. 1]
        /\ UNCHANGED <<setup, way, session, pane, confirmed, registered, brakes, failed>>
    BY <1>0, <1>8, <2>1 DEF Send, First, Type, NothingWaits
  <2>3. TypeOK'
    BY <2>1, <2>2 DEF TypeOK
  <2>4. pc' \in {"send", "menu"} /\ todo' = todo \ {p}
    BY <2>1
  <2>5. TypedIsConfirmed'
    BY <1>0, <2>2, <2>4 DEF TypedIsConfirmed
  <2>6. PanesInv' /\ NothingWaits'
    BY <1>0, <2>2, <2>4 DEF PanesInv, NothingWaits
  <2>7. ClientsInv' /\ EveryArmRelocked' /\ ToldToEnd'
    BY <1>a, <2>2, <2>4 DEF ClientsInv, EveryArmRelocked, ToldToEnd
  <2>8. QED
    BY <2>2, <2>3, <2>5, <2>6, <2>7, QuietStep
<1>9. ASSUME NEW a \in 0 .. 1, RebootKey(a)
      PROVE  IInv' /\ LaunchStep /\ BrakeStep
  <2>1. /\ pc = "menu" /\ a \in Arms /\ pc' = "reboot" /\ todo' = {a}
        /\ UNCHANGED <<setup, way, session, registered, brakes, failed>>
        /\ typed' \in [Panes -> 0 .. 1] /\ typed'[a] = 0
        /\ pane' \in [Panes -> {"off", "busy", "shell", "running", "stopping"}]
        /\ pane'[a] # "running" /\ (pane'[a] = "off" <=> pane[a] = "off")
        /\ \A q \in Panes : q # a => typed'[q] = typed[q] /\ pane'[q] = pane[q]
    BY <1>0, <1>9 DEF RebootKey, Interrupt
  <2>2. confirmed' \in [0 .. 1 -> BOOLEAN]
        /\ \A b \in 0 .. 1 : b # a => confirmed'[b] = confirmed[b]
    BY <1>0, <1>9 DEF RebootKey
  <2>3. TypeOK'
    BY <2>1, <2>2 DEF TypeOK
  <2>4. TypedIsConfirmed'
    BY <1>0, <2>1, <2>2 DEF TypedIsConfirmed
  <2>5. PanesInv' /\ NothingWaits' /\ ToldToEnd'
    BY <1>0, <2>1 DEF PanesInv, NothingWaits, ToldToEnd
  <2>6. ClientsInv' /\ EveryArmRelocked'
    BY <1>a, <2>1 DEF ClientsInv, EveryArmRelocked
  <2>7. LaunchStep /\ BrakeStep
    BY <2>1 DEF LaunchStep, BrakeStep
  <2>8. QED
    BY <2>3, <2>4, <2>5, <2>6, <2>7
<1>10. CASE Unable \/ Reopen
  <2>1. PICK a \in todo :
       \/ /\ brakes' = [brakes EXCEPT ![a] = IF pc = "reboot" THEN "closed" ELSE "open"]
          /\ Goto(IF pc = "reboot" THEN "reopen" ELSE "enter", {a})
       \/ /\ \E b \in HalfWay(a) : brakes' = [brakes EXCEPT ![a] = b]
          /\ Leave("error") \/ Leave("interrupt")
    <3>1. CASE Unable
      BY <3>1 DEF Unable
    <3>2. CASE Reopen
      BY <3>2 DEF Reopen
    <3>3. QED
      BY <1>10, <3>1, <3>2
  <2>2. /\ pc \in {"reboot", "reopen"} /\ todo = {a} /\ a \in Arms
        /\ UNCHANGED <<setup, session, pane, typed, confirmed, registered, failed>>
    <3>1. /\ pc \in {"reboot", "reopen"}
          /\ UNCHANGED <<setup, session, pane, typed, confirmed, registered, failed>>
      BY <1>10 DEF Unable, Reopen
    <3>2. QED
      BY <3>1, <2>1 DEF ClientsInv
  <2>3. /\ brakes' \in [0 .. 1 -> {"closed", "open"}]
        /\ \A b \in 0 .. 1 : b # a => brakes'[b] = brakes[b]
        /\ brakes'[a] = "closed" => brakes[a] = "closed" \/ pc = "reboot"
    BY <1>0, <2>1, <2>2 DEF HalfWay
  <2>4. /\ pc' \in {"reopen", "enter", "finally"} /\ todo' \in {{}, {a}}
        /\ pc' = "reopen" => todo' = {a}
        /\ way' \in {way, "error", "interrupt"}
    BY <2>1, <2>2
  <2>5. TypeOK'
    BY <1>0, <2>2, <2>3, <2>4 DEF TypeOK
  <2>6. LaunchStep /\ BrakeStep
    BY <1>0, <2>2, <2>3 DEF LaunchStep, BrakeStep, ToldToEnd, NothingWaits
  <2>7. PanesInv' /\ NothingWaits' /\ TypedIsConfirmed'
    BY <1>0, <2>2, <2>4 DEF PanesInv, NothingWaits, TypedIsConfirmed
  <2>8. ToldToEnd' /\ ClientsInv' /\ EveryArmRelocked'
    BY <1>0, <1>a, <2>2, <2>4 DEF ToldToEnd, ClientsInv, EveryArmRelocked
  <2>9. QED
    BY <2>5, <2>6, <2>7, <2>8
<1>11. CASE Kill
  <2>1. /\ pc = "finally" /\ pc' = "atexit" /\ todo' = registered
        /\ UNCHANGED <<setup, way, confirmed, registered, brakes, failed>>
        /\ session' \in {session, "killed"}
        /\ typed' \in [Panes -> 0 .. 1]
        /\ pane' \in [Panes -> {"off", "busy", "shell", "running", "stopping"}]
    BY <1>0, <1>11 DEF Kill, HangUp
  <2>2. \A p \in Panes : pane'[p] \in {"off", "stopping"} /\ typed'[p] = 0
    BY <1>0, <1>11 DEF Kill, HangUp, Exists, PanesInv
  <2>3. registered \subseteq Panes
    BY <1>0
  <2>4. TypeOK'
    BY <2>1, <2>3 DEF TypeOK
  <2>5. LaunchStep /\ BrakeStep
    BY <2>1, <2>2 DEF LaunchStep, BrakeStep
  <2>6. PanesInv' /\ NothingWaits' /\ TypedIsConfirmed'
    BY <2>1, <2>2 DEF PanesInv, NothingWaits, TypedIsConfirmed
  <2>7. ToldToEnd' /\ ClientsInv' /\ EveryArmRelocked'
    BY <1>a, <2>1, <2>2 DEF ToldToEnd, ClientsInv, EveryArmRelocked
  <2>8. QED
    BY <2>4, <2>5, <2>6, <2>7
<1>12. CASE CleanUp
  <2>1. PICK a \in registered :
       /\ Last(a)
       /\ Goto("atexit", todo \ {a})
       /\ \E b \in {brakes[a], "closed"} :
            /\ brakes' = [brakes EXCEPT ![a] = b]
            /\ (b = "closed" /\ UNCHANGED failed) \/ failed' = failed \cup {a}
    BY <1>12 DEF CleanUp
  <2>2. /\ pc = "atexit" /\ a \in 0 .. 1
        /\ UNCHANGED <<setup, session, pane, typed, confirmed, registered>>
        /\ brakes' \in [0 .. 1 -> {"closed", "open"}]
        /\ \A b \in 0 .. 1 : b # a => brakes'[b] = brakes[b]
        /\ failed' \in {failed, failed \cup {a}}
        /\ brakes'[a] = "closed" \/ a \in failed'
    BY <1>0, <1>12, <2>1 DEF CleanUp, TypeOK
  <2>3. TypeOK'
    BY <1>0, <2>1, <2>2 DEF TypeOK
  <2>4. LaunchStep /\ BrakeStep
    BY <1>0, <2>2 DEF LaunchStep, BrakeStep, ToldToEnd
  <2>5. QED
    BY <1>0, <1>a, <2>1, <2>2, <2>3, <2>4 DEF PanesInv, NothingWaits, TypedIsConfirmed,
       ToldToEnd, ClientsInv, EveryArmRelocked
<1>13. QED
  BY <1>1, <1>2, <1>3, <1>4, <1>5, <1>6, <1>7, <1>8, <1>9, <1>10, <1>11, <1>12 DEF Main

-----------------------------------------------------------------------------
LEMMA StepHolds == IInv /\ [Next]_vars => IInv' /\ LaunchStep /\ BrakeStep
<1> SUFFICES ASSUME IInv, [Next]_vars
             PROVE  IInv' /\ LaunchStep /\ BrakeStep
  OBVIOUS
<1>1. CASE Tmux
  BY <1>1, TmuxStep
<1>2. CASE Main
  BY <1>2, MainStep
<1>3. CASE UNCHANGED vars
  BY <1>3, QuietStep DEF vars, panes, arms, IInv, TypeOK, PanesInv, NothingWaits,
     TypedIsConfirmed, ToldToEnd, ClientsInv, EveryArmRelocked, Arms
<1>4. QED
  BY <1>1, <1>2, <1>3 DEF Next

LEMMA Invariance == Spec => []IInv
<1>1. IInv /\ [Next]_vars => IInv'
  BY StepHolds
<1>2. QED
  BY InitHolds, <1>1, PTL DEF Spec

(* The program, its panes and its arms are always in one of their states,   *)
(* and a command is typed only when none waits.                             *)
THEOREM TypeCorrect == Spec => []TypeOK
<1>1. IInv => TypeOK
  BY DEF IInv
<1>2. QED
  BY Invariance, <1>1, PTL

(* Unless rclpy.shutdown() raises, the brakes of an arm are closed, by a    *)
(* reboot or a clean-up, only after its launch was told to end and with no  *)
(* other waiting to start, whatever became of the session and its keys.     *)
THEOREM LaunchIsToldFirst == Spec => StopBeforeBrakes
<1>1. IInv /\ [Next]_vars =>
        [\A a \in 0 .. 1 :
           brakes[a] = "open" /\ brakes'[a] = "closed"
             => way = "cut" \/ (pane[a] # "running" /\ typed[a] = 0)]_vars
  BY StepHolds DEF BrakeStep
<1>2. QED
  BY Invariance, <1>1, PTL DEF Spec, StopBeforeBrakes

(* Every way out of main() but a kill comes to the brakes of every arm that *)
(* has a client.                                                            *)
THEOREM ArmsAreRelocked == Spec => []EveryArmRelocked
<1>1. IInv => EveryArmRelocked
  BY DEF IInv
<1>2. QED
  BY Invariance, <1>1, PTL

(* No launch of an arm starts without an Enter of its own, typed since the  *)
(* program started or since the key that rebooted the arm.                  *)
THEOREM LaunchesAreConfirmed == Spec => EveryLaunchConfirmed
<1>1. IInv /\ [Next]_vars =>
        [\A a \in 0 .. 1 :
           pane[a] # "running" /\ pane'[a] = "running" => confirmed[a]]_vars
  BY StepHolds DEF LaunchStep
<1>2. QED
  BY Invariance, <1>1, PTL DEF Spec, EveryLaunchConfirmed

(***************************************************************************)
(* For each arm, the program keeps a DeskSession: the abstraction that      *)
(* FrankaDesk refines too (LauncherKeepsSession), which is what entitles    *)
(* this module to take a whole enable_robot() for one step.  IInv knows     *)
(* that an arm is not enabled twice and what clean-ups are still to come.   *)
(***************************************************************************)
Session(a) == INSTANCE DeskSession WITH state <- SessionState(a), brakes <- brakes[a]
SessionStep(a) == Session(a)!Next \/ UNCHANGED <<SessionState(a), brakes[a]>>

LEMMA SessionSteps ==
  ASSUME IInv, [Next]_vars, NEW a \in 0 .. 1
  PROVE  SessionStep(a)
<1>0. /\ todo \subseteq Panes /\ registered \subseteq 0 .. 1
      /\ brakes \in [0 .. 1 -> {"closed", "open"}]
      /\ pc \in {"start", "desk", "enter", "send", "menu", "reboot", "reopen", "finally",
                "atexit", "gone"}
      /\ pc = "start" => registered = {}
      /\ pc = "desk" => todo = Arms \ registered
      /\ pc \in {"reboot", "reopen"} => (\E b \in Arms : todo = {b}) /\ Arms \subseteq registered
      /\ Arms \subseteq 0 .. 1
  BY ArmsOfSetup DEF IInv, TypeOK, ClientsInv
<1> USE <1>0 DEF Goto, Leave, panes, arms, SessionStep, SessionState, Session!Next, Session!Positions
<1>1. CASE Tmux \/ UNCHANGED vars
  BY <1>1 DEF Tmux, Load, LoadFails, ShellUp, Launch, Stopped, Breaks, vars
<1>2. CASE Start \/ Abandon \/ NoDashboard \/ TypeAhead \/ Enter \/ Exit
  BY <1>2 DEF Start, Abandon, NoDashboard, TypeAhead, Enter, Exit
<1>3. CASE NoCredentials \/ Quit \/ CtrlC
  BY <1>3 DEF NoCredentials, Quit, CtrlC, Session!Leave
<1>4. CASE Kill \/ ShutdownRaises
  BY <1>4 DEF Kill, ShutdownRaises
<1>5. CASE Send
  BY <1>5 DEF Send
<1>6. CASE Enable
  BY <1>6 DEF Enable, First, HalfWay, Session!Enabled, Session!Leave
<1>7. ASSUME NEW b \in 0 .. 1, RebootKey(b) PROVE SessionStep(a)
  BY <1>7 DEF RebootKey, Session!Reboot
<1>8. CASE Unable \/ Reopen
  <2>1. PICK b \in Arms : pc \in {"reboot", "reopen"} /\ todo = {b}
    BY <1>8 DEF Unable, Reopen
  <2>2. CASE a = b
    BY <1>8, <2>1, <2>2 DEF Unable, Reopen, HalfWay, Session!Work, Session!Enabled, Session!Leave
  <2>3. CASE a # b
    BY <1>8, <2>1, <2>3 DEF Unable, Reopen, Session!Leave
  <2>4. QED
    BY <2>2, <2>3
<1>9. CASE CleanUp
  BY <1>9 DEF CleanUp, Last, Session!Close, Session!Fail
<1>10. CASE Crash
  BY <1>10 DEF Crash, First, HalfWay, Session!Fail
<1>11. QED
  BY <1>1, <1>2, <1>3, <1>4, <1>5, <1>6, <1>7, <1>8, <1>9, <1>10 DEF Next, Main

(* Of each arm the brakes are opened while it is enabled or rebooted only,  *)
(* stay open in the menu, and are not touched once its clean-up is over.    *)
THEOREM ImplementsSessions == Spec => KeepsSessions
<1>1. Init => Left!Init /\ Right!Init
  BY DEF Init, Left!Init, Right!Init, Left!Positions, Right!Positions, SessionState
<1>2. IInv /\ [Next]_vars => [Left!Next]_(Left!session) /\ [Right!Next]_(Right!session)
  <2> SUFFICES ASSUME IInv, [Next]_vars
               PROVE  [Left!Next]_(Left!session) /\ [Right!Next]_(Right!session)
    OBVIOUS
  <2>1. SessionStep(0) /\ SessionStep(1)
    BY SessionSteps
  <2>2. QED
    BY <2>1 DEF SessionStep, Session!Next, Session!Positions, Session!Work, Session!Enabled, Session!Reboot,
       Session!Leave, Session!Close, Session!Fail,
       Left!session, Left!Next, Left!Positions, Left!Work, Left!Enabled, Left!Reboot, Left!Leave, Left!Close, Left!Fail,
       Right!session, Right!Next, Right!Positions, Right!Work, Right!Enabled, Right!Reboot, Right!Leave, Right!Close,
       Right!Fail
<1>3. QED
  BY <1>1, <1>2, Invariance, PTL DEF Spec, KeepsSessions, Left!Spec, Right!Spec
=============================================================================
