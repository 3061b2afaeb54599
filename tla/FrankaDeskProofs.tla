-------------------------- MODULE FrankaDeskProofs --------------------------
(***************************************************************************)
(* Theorems about FrankaDesk, for any number of clients of either kind.     *)
(***************************************************************************)
EXTENDS FrankaDesk, TLAPS

(* The ranges of the variables but for what TypeOK says of pending.         *)
Ranges ==
  /\ active \in Clients \cup {Nobody}
  /\ pending \in SUBSET Clients
  /\ brakes \in {"open", "closed"}
  /\ fci \in BOOLEAN
  /\ loggedIn \in [Clients -> BOOLEAN]
  /\ token \in [Clients -> BOOLEAN]
  /\ polls \in [Clients -> 0 .. MaxPolls - 1]
  /\ phase \in [Clients -> Phases]
  /\ pc \in [Clients -> Requests \cup {"off", "menu", "gone"}]

(* Which requests each phase makes.                                         *)
Places(c) ==
  /\ pc[c] \in {"off", "login"} => phase[c] = "setup" /\ ~loggedIn[c]
  /\ pc[c] \in {"request", "poll"} => phase[c] \in {"setup", "try", "reboot"}
  /\ pc[c] \in {"unlock", "home", "activate"} => phase[c] \in {"setup", "reboot"}
  /\ pc[c] = "menu" => phase[c] = "try"
  /\ pc[c] \in {"deactivate", "lock"} => phase[c] = "reboot"
  /\ pc[c] = "close" => phase[c] \in {"giveUp", "atexit"}
  /\ pc[c] \in {"release", "logout"} => phase[c] \in {"giveUp", "finally", "atexit"}
  /\ phase[c] = "finally" => c \in Cli

(* What a client knows of its claim.  It can have one it does not know of   *)
(* when the answer to its first request was lost, and then it does nothing  *)
(* but fail to close the brakes.                                            *)
Unclaimed(c) == c \notin pending /\ active # c

Claims(c) ==
  /\ ~loggedIn[c] => ~token[c] /\ Unclaimed(c)
  /\ phase[c] \in {"try", "reboot"} => token[c] = loggedIn[c]
  /\ phase[c] = "giveUp" /\ pc[c] \in {"close", "release"} => token[c] /\ loggedIn[c]
  /\ pc[c] = "poll" => token[c]
  /\ pc[c] = "logout" => ~token[c] /\ Unclaimed(c)
  /\ pc[c] = "request" /\ ~token[c] => Unclaimed(c)
  /\ c \in pending => active # c /\ phase[c] \in {"setup", "atexit"} /\ pc[c] \notin {"home", "activate", "release"}

(* What the client in control has made of the arm.                          *)
Arm(c) ==
  active = c =>
    /\ pc[c] = "release" => brakes = "closed" \/ phase[c] = "finally"
    /\ pc[c] \in {"home", "activate"} => brakes = "open"
    /\ phase[c] = "try" => brakes = "open" /\ fci

ClientInv(c) == Places(c) /\ Claims(c) /\ Arm(c)

IInv == Ranges /\ OpenUnderToken /\ \A c \in Clients : ClientInv(c)

LEMMA InitIInv == Init => IInv
<1> SUFFICES ASSUME Init PROVE IInv
  OBVIOUS
<1> USE ClientsAssumption, PollsAssumption
<1>1. Ranges
  <2>1. fci \in BOOLEAN
    BY Zenon DEF Init
  <2>2. loggedIn \in [Clients -> BOOLEAN] /\ token \in [Clients -> BOOLEAN]
    BY DEF Init
  <2>3. QED
    BY <2>1, <2>2 DEF Init, Ranges, Phases
<1>2. OpenUnderToken
  BY DEF Init, OpenUnderToken
<1>3. ASSUME NEW c \in Clients PROVE ClientInv(c)
  <2>1. pc[c] = "off" /\ phase[c] = "setup" /\ loggedIn[c] = FALSE /\ token[c] = FALSE
    BY DEF Init
  <2>2. active # c /\ c \notin pending
    BY DEF Init
  <2>3. QED
    BY <2>1, <2>2 DEF ClientInv, Places, Claims, Arm, Unclaimed
<1>4. QED
  BY <1>1, <1>2, <1>3 DEF IInv

(* A step of one client leaves another one as it is, but for the control it *)
(* may lose; what Desk does for the one does not touch an arm that the other*)
(* has in its control.                                                      *)
Apart(c, d) ==
  /\ pc'[d] = pc[d] /\ phase'[d] = phase[d]
  /\ loggedIn'[d] = loggedIn[d] /\ token'[d] = token[d] /\ polls'[d] = polls[d]
  /\ d \in pending' => d \in pending
  /\ active' = d => active = d /\ brakes' = brakes /\ fci' = fci

LEMMA Bystander ==
  ASSUME NEW c \in Clients, NEW d \in Clients, ClientInv(d), Apart(c, d)
  PROVE  ClientInv(d)'
BY DEF ClientInv, Places, Claims, Arm, Unclaimed, Apart

(* The step of client c by the action it is.                                *)
LEMMA RangesStep == IInv /\ [Next]_vars => Ranges'
<1> SUFFICES ASSUME IInv, [Next]_vars PROVE Ranges'
  OBVIOUS
<1> USE ClientsAssumption, PollsAssumption
<1> USE DEF IInv, Ranges, Phases, Requests, Goto, desk
<1>1. ASSUME NEW c \in Clients, Refused(c) PROVE Ranges'
  BY <1>1 DEF Refused, Raise, ThenRelease, ThenLogout, CleanedUp
<1>2. ASSUME NEW c \in Clients, Start(c) \/ Reboot(c) \/ Kill(c) PROVE Ranges'
  BY <1>2 DEF Start, EnableRobot, Reboot, Kill
<1>3. ASSUME NEW c \in Clients, Login(c) PROVE Ranges'
  BY <1>1, <1>3 DEF Login
<1>4. ASSUME NEW c \in Clients, RequestToken(c) PROVE Ranges'
  <2>1. CASE token[c]
    BY <1>1, <1>4, <2>1 DEF RequestToken
  <2>2. CASE Refused(c)
    BY <1>1, <2>2
  <2>3. CASE ~token[c] /\ ~Refused(c)
    <3>1. active' \in Clients \cup {Nobody} /\ pending' \in SUBSET Clients
      BY <1>4, <2>3 DEF RequestToken, GrantToken
    <3>2. polls' \in [Clients -> 0 .. MaxPolls - 1]
      BY <1>4, <2>3 DEF RequestToken
    <3>3. token' = token \/ token' = [token EXCEPT ![c] = TRUE]
      BY <1>4, <2>3 DEF RequestToken
    <3>4. token' \in [Clients -> BOOLEAN]
      BY <3>3
    <3>5. UNCHANGED <<brakes, fci, loggedIn>>
      BY <1>4, <2>3 DEF RequestToken
    <3>6. phase' \in [Clients -> Phases] /\ pc' \in [Clients -> Requests \cup {"off", "menu", "gone"}]
      BY <1>4, <2>3 DEF RequestToken, Raise, ThenRelease, ThenLogout, CleanedUp
    <3>7. QED
      BY <3>1, <3>2, <3>4, <3>5, <3>6
  <2>4. QED
    BY <2>1, <2>2, <2>3
<1>5. ASSUME NEW c \in Clients, PollActive(c) \/ PollOther(c) \/ PollFails(c) PROVE Ranges'
  BY <1>1, <1>5 DEF PollActive, PollOther, PollFails, Raise, ThenRelease, ThenLogout, CleanedUp
<1>6. ASSUME NEW c \in Clients, Unlock(c) \/ HomeGripper(c) PROVE Ranges'
  BY <1>1, <1>6 DEF Unlock, HomeGripper, Raise, ThenRelease, ThenLogout, CleanedUp
<1>7. ASSUME NEW c \in Clients, ActivateFci(c) \/ DeactivateFci(c) PROVE Ranges'
  BY <1>1, <1>7 DEF ActivateFci, DeactivateFci, Raise, ThenRelease, ThenLogout, CleanedUp
<1>8. ASSUME NEW c \in Clients, Lock(c) \/ Close(c) PROVE Ranges'
  BY <1>1, <1>8 DEF Lock, Close, EnableRobot, Raise, ThenRelease, ThenLogout, CleanedUp
<1>9. ASSUME NEW c \in Clients, ReleaseToken(c) \/ Logout(c) PROVE Ranges'
  BY <1>1, <1>9 DEF ReleaseToken, DropToken, Logout, Raise, ThenRelease, ThenLogout, CleanedUp
<1>10. ASSUME NEW c \in Clients, Quit(c) \/ PressButton(c) PROVE Ranges'
  BY <1>1, <1>10 DEF Quit, PressButton
<1>11. CASE UNCHANGED vars
  BY <1>11 DEF vars
<1>12. QED
  BY <1>2, <1>3, <1>4, <1>5, <1>6, <1>7, <1>8, <1>9, <1>10, <1>11 DEF Next, Step

ClientStep(c) == Start(c) \/ Step(c) \/ Reboot(c) \/ Quit(c) \/ Kill(c) \/ PressButton(c)

LEMMA OthersApart ==
  ASSUME IInv, NEW c \in Clients, NEW d \in Clients, d # c, ClientStep(c)
  PROVE  Apart(c, d)
<1> USE ClientsAssumption DEF IInv, Ranges, Goto, Apart, desk, InControl, Refused, Raise, ThenRelease, ThenLogout, CleanedUp
<1>1. CASE Start(c)
  BY <1>1 DEF Start, EnableRobot
<1>2. CASE Login(c)
  BY <1>2 DEF Login
<1>3. CASE RequestToken(c)
  BY <1>3 DEF RequestToken, GrantToken
<1>4. CASE PollActive(c)
  BY <1>4 DEF PollActive
<1>5. CASE PollOther(c)
  BY <1>5 DEF PollOther
<1>6. CASE PollFails(c)
  BY <1>6 DEF PollFails
<1>7. CASE Unlock(c)
  BY <1>7 DEF Unlock
<1>8. CASE HomeGripper(c)
  BY <1>8 DEF HomeGripper
<1>9. CASE ActivateFci(c)
  BY <1>9 DEF ActivateFci
<1>10. CASE Reboot(c)
  BY <1>10 DEF Reboot
<1>11. CASE DeactivateFci(c)
  <2>1. CASE Refused(c)
    BY <2>1
  <2>2. CASE ~Refused(c)
    <3>1. active' = c /\ UNCHANGED <<pending, loggedIn, token, polls>>
      BY <1>11, <2>2 DEF DeactivateFci
    <3>2. pc'[d] = pc[d] /\ phase'[d] = phase[d]
      BY <1>11, <2>2 DEF DeactivateFci
    <3>3. QED
      BY <3>1, <3>2
  <2>3. QED
    BY <2>1, <2>2
<1>12. CASE Lock(c)
  BY <1>12 DEF Lock, EnableRobot
<1>13. CASE Quit(c)
  BY <1>13 DEF Quit
<1>14. CASE Close(c)
  BY <1>14 DEF Close
<1>15. CASE ReleaseToken(c)
  BY <1>15 DEF ReleaseToken, DropToken
<1>16. CASE Logout(c)
  BY <1>16 DEF Logout
<1>17. CASE Kill(c)
  BY <1>17 DEF Kill
<1>18. CASE PressButton(c)
  BY <1>18 DEF PressButton
<1>19. QED
  BY <1>1, <1>2, <1>3, <1>4, <1>5, <1>6, <1>7, <1>8, <1>9, <1>10, <1>11, <1>12, <1>13, <1>14, <1>15, <1>16, <1>17, <1>18 DEF ClientStep, Step

LEMMA OwnStep ==
  ASSUME IInv, NEW c \in Clients, ClientStep(c)
  PROVE  ClientInv(c)'
<1> ClientInv(c)
  BY DEF IInv
<1> USE ClientsAssumption DEF IInv, Ranges, Goto, desk, InControl, Refused, Raise, ThenRelease, ThenLogout, CleanedUp
<1> USE DEF ClientInv, Places, Claims, Arm, Unclaimed
<1>1. CASE Start(c)
  BY <1>1 DEF Start, EnableRobot
<1>2. CASE Login(c)
  BY <1>2 DEF Login
<1>3. CASE RequestToken(c)
  BY <1>3 DEF RequestToken, GrantToken
<1>4. CASE PollActive(c)
  BY <1>4 DEF PollActive
<1>5. CASE PollOther(c)
  <2>1. CASE UNCHANGED <<phase, pc>>
    BY <1>5, <2>1 DEF PollOther
  <2>2. CASE phase[c] = "try" /\ Goto(c, "giveUp", "close")
    BY <1>5, <2>2 DEF PollOther
  <2>3. CASE phase[c] # "try" /\ Raise(c)
    BY <1>5, <2>3 DEF PollOther
  <2>4. QED
    BY <1>5, <2>1, <2>2, <2>3 DEF PollOther
<1>6. CASE PollFails(c)
  BY <1>6 DEF PollFails
<1>7. CASE Unlock(c)
  BY <1>7 DEF Unlock
<1>8. CASE HomeGripper(c)
  BY <1>8 DEF HomeGripper
<1>9. CASE ActivateFci(c)
  BY <1>9 DEF ActivateFci
<1>10. CASE Reboot(c)
  BY <1>10 DEF Reboot
<1>11. CASE DeactivateFci(c)
  BY <1>11 DEF DeactivateFci
<1>12. CASE Lock(c)
  <2>1. CASE Refused(c)
    BY <1>12, <2>1 DEF Lock
  <2>2. CASE ~Refused(c) /\ EnableRobot(c, phase[c])
    BY <1>12, <2>2 DEF Lock, EnableRobot
  <2>3. CASE ~Refused(c) /\ Raise(c)
    BY <1>12, <2>3 DEF Lock
  <2>4. QED
    BY <1>12, <2>1, <2>2, <2>3 DEF Lock
<1>13. CASE Quit(c)
  BY <1>13 DEF Quit
<1>14. CASE Close(c)
  BY <1>14 DEF Close
<1>15. CASE ReleaseToken(c)
  BY <1>15 DEF ReleaseToken, DropToken
<1>16. CASE Logout(c)
  <2>1. CASE Refused(c)
    BY <1>16, <2>1 DEF Logout
  <2>2. CASE ~Refused(c)
    <3>1. UNCHANGED <<active, pending, brakes, fci, token>> /\ loggedIn'[c] = FALSE
      BY <1>16, <2>2 DEF Logout
    <3>2. \/ phase'[c] = "try" /\ pc'[c] = "request"
          \/ phase'[c] = "atexit" /\ pc'[c] \in {"close", "gone"}
      BY <1>16, <2>2 DEF Logout
    <3>3. ~token[c] /\ Unclaimed(c)
      BY <1>16 DEF Logout
    <3>4. QED
      BY <3>1, <3>2, <3>3
  <2>3. QED
    BY <2>1, <2>2
<1>17. CASE Kill(c)
  BY <1>17 DEF Kill
<1>18. CASE PressButton(c)
  <2>1. /\ UNCHANGED <<brakes, loggedIn, token, phase, pc>>
        /\ active' = c /\ pending' = pending \ {c}
    BY <1>18 DEF PressButton
  <2>2. phase[c] \in {"setup", "atexit"} /\ pc[c] \notin {"home", "activate", "release"}
    BY <1>18 DEF PressButton
  <2>3. loggedIn[c] /\ pc[c] \notin {"off", "login", "logout"} /\ (pc[c] = "request" => token[c])
    BY <1>18 DEF PressButton
  <2>4. QED
    BY <2>1, <2>2, <2>3
<1>19. QED
  BY <1>1, <1>2, <1>3, <1>4, <1>5, <1>6, <1>7, <1>8, <1>9, <1>10, <1>11, <1>12, <1>13, <1>14, <1>15, <1>16, <1>17, <1>18 DEF ClientStep, Step

(* The brakes are opened by a client in control, and the control is given   *)
(* back by one that has closed them or is in its finally clause, which it   *)
(* leaves for its clean-up only.                                            *)
LEMMA OpenStep ==
  ASSUME IInv, NEW c \in Clients, ClientStep(c)
  PROVE  OpenUnderToken'
<1> USE ClientsAssumption DEF IInv, Ranges, Goto, desk, InControl, OpenUnderToken
<1> DEFINE Escaped(d) == d \in Cli /\ phase[d] \in {"finally", "atexit"}
<1>1. ClientInv(c)
  BY DEF IInv
<1>2. ASSUME NEW d \in Clients, Escaped(d) PROVE Escaped(d)'
  <2>1. CASE d # c
    BY <1>2, <2>1, OthersApart DEF Apart
  <2>2. CASE d = c
    <3>1. c \in Cli /\ phase'[c] \in {"finally", "atexit"}
      BY <1>1, <1>2, <2>2 DEF ClientStep, Step, Start, Login, RequestToken, PollActive,
         PollOther, PollFails, Unlock, HomeGripper, ActivateFci, Reboot, DeactivateFci,
         Lock, Quit, Close, ReleaseToken, Logout, Kill, PressButton, ClientInv, Places,
         Refused, Raise, ThenRelease, ThenLogout, CleanedUp
    <3>2. QED
      BY <2>2, <3>1
  <2>3. QED
    BY <2>1, <2>2
<1>3. CASE \E d \in Cli : phase[d] \in {"finally", "atexit"}
  BY <1>2, <1>3
<1>4. CASE ~ \E d \in Cli : phase[d] \in {"finally", "atexit"}
  <2>1. brakes = "open" => active # Nobody
    BY <1>4
  <2>2. CASE ReleaseToken(c)
    <3>1. CASE active # c
      BY <2>1, <2>2, <3>1 DEF ReleaseToken, DropToken, Refused
    <3>2. CASE active = c
      <4>1. brakes = "closed"
        BY <1>1, <1>4, <2>2, <3>2 DEF ReleaseToken, ClientInv, Arm, Places
      <4>2. QED
        BY <2>2, <4>1 DEF ReleaseToken, Refused
    <3>3. QED
      BY <3>1, <3>2
  <2>3. CASE Unlock(c) \/ Lock(c) \/ Close(c)
    BY <2>1, <2>3 DEF Unlock, Lock, Close, Refused
  <2>4. CASE RequestToken(c) \/ PressButton(c)
    BY <2>1, <2>4 DEF RequestToken, GrantToken, PressButton, Refused
  <2>5. CASE Start(c) \/ Login(c) \/ PollActive(c) \/ PollOther(c) \/ PollFails(c)
    BY <2>1, <2>5 DEF Start, Login, PollActive, PollOther, PollFails, Refused
  <2>6. CASE HomeGripper(c) \/ ActivateFci(c) \/ Reboot(c) \/ DeactivateFci(c)
    BY <2>1, <2>6 DEF HomeGripper, ActivateFci, Reboot, DeactivateFci, Refused
  <2>7. CASE Quit(c) \/ Logout(c) \/ Kill(c)
    BY <2>1, <2>7 DEF Quit, Logout, Kill, Refused
  <2>8. QED
    BY <2>2, <2>3, <2>4, <2>5, <2>6, <2>7 DEF ClientStep, Step
<1>5. QED
  BY <1>3, <1>4

LEMMA StepIInv == IInv /\ [Next]_vars => IInv'
<1> SUFFICES ASSUME IInv, [Next]_vars PROVE IInv'
  OBVIOUS
<1>1. Ranges'
  BY RangesStep
<1>2. ASSUME NEW c \in Clients, ClientStep(c) PROVE IInv'
  <2>1. OpenUnderToken'
    BY <1>2, OpenStep
  <2>2. ASSUME NEW d \in Clients PROVE ClientInv(d)'
    <3>1. CASE d = c
      BY <1>2, <3>1, OwnStep
    <3>2. CASE d # c
      BY <1>2, <3>2, OthersApart, Bystander DEF IInv
    <3>3. QED
      BY <3>1, <3>2
  <2>3. QED
    BY <1>1, <2>1, <2>2 DEF IInv
<1>3. CASE UNCHANGED vars
  <2>1. OpenUnderToken'
    BY <1>3 DEF vars, IInv, OpenUnderToken
  <2>2. ASSUME NEW d \in Clients PROVE ClientInv(d)'
    BY <1>3 DEF vars, IInv, ClientInv, Places, Claims, Arm, Unclaimed
  <2>3. QED
    BY <1>1, <2>1, <2>2 DEF IInv
<1>4. QED
  BY <1>2, <1>3 DEF Next, ClientStep

LEMMA Invariance == Spec => []IInv
  BY InitIInv, StepIInv, PTL DEF Spec

(* Every variable stays in its range, and nobody waits for a control it has.*)
THEOREM TypeCorrect == Spec => []TypeOK
<1>1. IInv => TypeOK
  BY DEF IInv, Ranges, TypeOK, ClientInv, Claims
<1>2. QED
  BY <1>1, Invariance, PTL

(* _cleanup() closes the brakes before it gives the token back, so no       *)
(* refusal, lost answer, take-over or death of a program leaves an open arm *)
(* under nobody's control; only main()'s finally clause does.               *)
THEOREM OpenArmIsControlled == Spec => []OpenUnderToken
<1>1. IInv => OpenUnderToken
  BY DEF IInv
<1>2. QED
  BY <1>1, Invariance, PTL

(* Without main() of franka_desk.py, what relock=True promises holds.       *)
THEOREM LaunchedArmIsRelocked == ASSUME Cli = {} PROVE Spec => []RelockedOnExit
<1>1. IInv => RelockedOnExit
  BY DEF IInv, OpenUnderToken, RelockedOnExit
<1>2. QED
  BY <1>1, Invariance, PTL

(* enable_robot() and reboot_sys() end in the menu with the arm enabled, or *)
(* with the control lost.                                                   *)
THEOREM MenuMeansReady == Spec => []ReadyInMenu
<1>1. IInv => ReadyInMenu
  BY DEF IInv, ClientInv, Places, Arm, ReadyInMenu
<1>2. QED
  BY <1>1, Invariance, PTL

(* A client logs out only when Desk has taken its token back.               *)
THEOREM LogoutLeavesNoClaim == Spec => []NoClaimAfterLogout
<1>1. IInv => NoClaimAfterLogout
  BY DEF IInv, ClientInv, Claims, Unclaimed, NoClaimAfterLogout
<1>2. QED
  BY <1>1, Invariance, PTL

(***************************************************************************)
(* launch_interface.py keeps a DeskSession, as long as no other client gets *)
(* the control: others may run and ask for it.  SessionInv says that it is  *)
(* in control itself whenever it offers or reboots the arm, although it may *)
(* take nobody's token for its own (PollActive).                            *)
(***************************************************************************)
SessionInv(c) ==
  /\ phase[c] \in {"setup", "try", "reboot", "atexit"}
  /\ phase[c] = "try" => pc[c] \in {"menu", "gone"}
  /\ phase[c] \in {"try", "reboot"} => active = c

SessionStep(c) == Session(c)!Next \/ UNCHANGED <<SessionState(c), brakes>>

(* The others change nothing of the session.                                *)
LEMMA OthersOutside ==
  ASSUME IInv, NEW c \in Clients, NEW d \in Clients, d # c, Unrivalled(c), Unrivalled(c)',
         SessionInv(c), ClientStep(d)
  PROVE  SessionInv(c)' /\ SessionStep(c)
<1> USE ClientsAssumption DEF IInv, Ranges
<1>1. Apart(d, c)
  BY OthersApart
<1>2. UNCHANGED <<active, brakes>>
  <2> USE DEF Unrivalled, Refused, InControl, desk
  <2>1. CASE RequestToken(d) \/ ReleaseToken(d)
    BY <2>1 DEF RequestToken, GrantToken, ReleaseToken, DropToken
  <2>2. CASE Unlock(d) \/ Lock(d) \/ Close(d)
    BY <2>2 DEF Unlock, Lock, Close
  <2>3. CASE Start(d) \/ Login(d) \/ PollActive(d) \/ PollOther(d) \/ PollFails(d)
    BY <2>3 DEF Start, Login, PollActive, PollOther, PollFails
  <2>4. CASE HomeGripper(d) \/ ActivateFci(d) \/ Reboot(d) \/ DeactivateFci(d)
    BY <2>4 DEF HomeGripper, ActivateFci, Reboot, DeactivateFci
  <2>5. CASE Quit(d) \/ Logout(d) \/ Kill(d) \/ PressButton(d)
    BY <2>5 DEF Quit, Logout, Kill, PressButton
  <2>6. QED
    BY <2>1, <2>2, <2>3, <2>4, <2>5 DEF ClientStep, Step
<1>3. QED
  BY <1>1, <1>2 DEF Apart, SessionInv, SessionStep, SessionState

LEMMA OwnSession ==
  ASSUME IInv, NEW c \in Clients \ Cli, Unrivalled(c), Unrivalled(c)', SessionInv(c), ClientStep(c)
  PROVE  SessionInv(c)' /\ SessionStep(c)
<1>0. ClientInv(c)
  BY DEF IInv
<1> USE <1>0, ClientsAssumption DEF IInv, Ranges, Goto, desk, InControl, Unrivalled, ClientInv, Places, SessionInv
<1> DEFINE To(ph, place) == phase'[c] = ph /\ pc'[c] = place
           Closes == brakes' \in {brakes, "closed"}
           Works == brakes' \in {"open", "closed"}
(* The kinds of step there are.                                             *)
<1>1. ASSUME phase[c] \in {"setup", "reboot"}, pc[c] # "gone",
             phase'[c] = phase[c], pc'[c] \notin {"menu", "gone", "release", "logout"},
             Works, phase[c] = "setup" \/ active' = active
      PROVE  SessionInv(c)' /\ SessionStep(c)
  BY <1>1 DEF SessionStep, SessionState, Session!Next, Session!Positions, Session!Work
<1>2. ASSUME phase[c] \in {"setup", "reboot"}, pc[c] \notin {"gone", "menu", "release", "logout"},
             To("try", "menu"), brakes' = "open", active' = c
      PROVE  SessionInv(c)' /\ SessionStep(c)
  BY <1>2 DEF SessionStep, SessionState, Session!Next, Session!Enabled
<1>3. ASSUME pc[c] \notin {"off", "gone", "close", "release", "logout"}, phase[c] # "atexit",
             To("atexit", "close"), Works, pc[c] = "menu" => brakes' = brakes
      PROVE  SessionInv(c)' /\ SessionStep(c)
  BY <1>3 DEF SessionStep, SessionState, Session!Next, Session!Positions, Session!Leave
<1>4. ASSUME phase[c] = "atexit", phase'[c] = "atexit", pc'[c] \in {"release", "logout", "gone"},
             Closes, pc[c] # "close" => pc[c] \in {"release", "logout"} /\ brakes' = brakes
      PROVE  SessionInv(c)' /\ SessionStep(c)
  BY <1>4 DEF SessionStep, SessionState, Session!Next, Session!Close, Session!Fail
<1>5. ASSUME pc'[c] = "gone", UNCHANGED <<phase, brakes, active>>
      PROVE  SessionInv(c)' /\ SessionStep(c)
  BY <1>5 DEF SessionStep, SessionState, Session!Next, Session!Fail
<1>6. Raise(c) => \/ phase[c] # "atexit" /\ To("atexit", "close")
                  \/ phase[c] = "atexit" /\ To("atexit", "gone")
  BY DEF Raise
(* Which of them each action is.                                            *)
<1> USE DEF Refused
<1>7. CASE Start(c)
  BY <1>1, <1>7 DEF Start, EnableRobot
<1>8. CASE Login(c)
  BY <1>1, <1>3, <1>6, <1>8 DEF Login
<1>9. CASE RequestToken(c)
  <2>1. phase[c] \in {"setup", "reboot"} /\ brakes' = brakes
    BY <1>9 DEF RequestToken
  <2>2. phase[c] = "reboot" => token[c]
    BY <1>9, <2>1 DEF RequestToken, Claims, Unclaimed
  <2>3. Raise(c) => phase'[c] = "atexit" /\ pc'[c] = "close"
    BY <1>6, <2>1
  <2>4. CASE token[c]
    BY <1>1, <1>3, <1>9, <2>1, <2>3, <2>4 DEF RequestToken
  <2>5. CASE ~token[c]
    <3>1. (phase'[c] = "setup" /\ pc'[c] = "poll") \/ Raise(c)
      BY <1>9, <2>1, <2>2, <2>5 DEF RequestToken
    <3>2. QED
      BY <1>1, <1>3, <1>9, <2>1, <2>2, <2>3, <2>5, <3>1 DEF RequestToken
  <2>6. QED
    BY <2>4, <2>5
<1>10. CASE PollActive(c) \/ PollOther(c) \/ PollFails(c)
  BY <1>1, <1>3, <1>6, <1>10 DEF PollActive, PollOther, PollFails
<1>11. CASE Unlock(c) \/ HomeGripper(c)
  BY <1>1, <1>3, <1>6, <1>11 DEF Unlock, HomeGripper
<1>12. CASE ActivateFci(c)
  BY <1>2, <1>3, <1>6, <1>12 DEF ActivateFci, Arm
<1>13. CASE DeactivateFci(c) \/ Lock(c)
  BY <1>1, <1>3, <1>6, <1>13 DEF DeactivateFci, Lock, EnableRobot
<1>14. CASE Reboot(c)
  BY <1>14 DEF Reboot, SessionStep, SessionState, Session!Next, Session!Reboot
<1>15. CASE Quit(c)
  BY <1>3, <1>6, <1>15 DEF Quit
<1>16. CASE Close(c)
  BY <1>4, <1>6, <1>16 DEF Close, ThenRelease, ThenLogout, CleanedUp
<1>17. CASE ReleaseToken(c) \/ Logout(c)
  BY <1>4, <1>6, <1>17 DEF ReleaseToken, Logout, ThenLogout, CleanedUp
<1>18. CASE Kill(c)
  BY <1>5, <1>18 DEF Kill
<1>19. CASE PressButton(c)
  BY <1>19 DEF PressButton, SessionStep, SessionState, Claims
<1>20. QED
  BY <1>7, <1>8, <1>9, <1>10, <1>11, <1>12, <1>13, <1>14, <1>15, <1>16, <1>17, <1>18, <1>19 DEF ClientStep, Step

(* Whatever is refused, lost or interrupted, and whoever waits for the      *)
(* control: the brakes of an arm in the menu stay open, a session that is   *)
(* over touches them no more, and one that leaves never opens them.         *)
THEOREM LauncherKeepsSession ==
  ASSUME NEW c \in Clients \ Cli
  PROVE  Spec /\ []Unrivalled(c) => Session(c)!Spec
<1>1. Init => SessionInv(c) /\ Session(c)!Init
  BY DEF Init, SessionInv, SessionState, Session!Init, Session!Positions
<1>2. IInv /\ Unrivalled(c) /\ Unrivalled(c)' /\ SessionInv(c) /\ [Next]_vars
        => SessionInv(c)' /\ SessionStep(c)
  <2>1. CASE UNCHANGED vars
    BY <2>1 DEF vars, SessionInv, SessionStep, SessionState
  <2>2. QED
    BY <2>1, OwnSession, OthersOutside, ClientsAssumption DEF Next, ClientStep
<1>3. SessionStep(c) => [Session(c)!Next]_(Session(c)!session)
  BY DEF SessionStep, Session!session
<1>4. QED
  BY <1>1, <1>2, <1>3, Invariance, PTL DEF Spec, Session!Spec

(***************************************************************************)
(* How far a client is from the menu or its end.  Every request it makes    *)
(* brings it closer, whatever Desk answers, so an attempt makes at most     *)
(* 2 * MaxPolls + 18 of them: this is the part of EveryAttemptEnds that     *)
(* needs no fairness.                                                       *)
(***************************************************************************)
Leaving(c, nearest) ==
  CASE pc[c] = "close" -> nearest + 2
    [] pc[c] = "release" -> nearest + 1
    [] OTHER -> nearest

Enabling(c) ==
  CASE pc[c] = "activate" -> 0
    [] pc[c] = "home" -> 1
    [] pc[c] = "unlock" -> 2
    [] pc[c] = "poll" -> 2 + MaxPolls - polls[c]
    [] pc[c] = "request" -> 3 + MaxPolls
    [] pc[c] = "login" -> 4 + MaxPolls
    [] pc[c] = "lock" -> 5 + MaxPolls
    [] pc[c] = "deactivate" -> 6 + MaxPolls
    [] OTHER -> 7 + MaxPolls

Trying(c) ==
  CASE pc[c] = "request" /\ ~loggedIn[c] -> 0
    [] pc[c] = "poll" -> 4 + MaxPolls - polls[c]
    [] pc[c] = "request" /\ loggedIn[c] -> 5 + MaxPolls
    [] OTHER -> 4

Distance(c) ==
  IF pc[c] = "gone" THEN 0
  ELSE CASE phase[c] = "atexit" -> Leaving(c, 1)
         [] phase[c] = "finally" -> Leaving(c, 4)
         [] phase[c] = "try" -> 6 + Trying(c)
         [] phase[c] = "giveUp" -> Leaving(c, 7)
         [] OTHER -> 12 + MaxPolls + Enabling(c)

(* Only reboot_sys() takes a client back.                                   *)
ClosesIn(c) ==
  /\ Step(c) => Distance(c)' < Distance(c)
  /\ Distance(c)' > Distance(c) => Reboot(c)

LEMMA DistanceInNat ==
  ASSUME Ranges, NEW c \in Clients
  PROVE  Distance(c) \in 0 .. 2 * MaxPolls + 19
<1> USE PollsAssumption DEF Ranges
<1>1. polls[c] \in 0 .. MaxPolls - 1
  OBVIOUS
<1>2. Enabling(c) \in 0 .. MaxPolls + 7 /\ Trying(c) \in 0 .. MaxPolls + 5
  BY <1>1 DEF Enabling, Trying
<1>3. \A n \in 0 .. 7 : Leaving(c, n) \in 0 .. 9
  BY DEF Leaving
<1>4. QED
  BY <1>2, <1>3 DEF Distance, Phases

(* An exception leaves for a phase nearer to the end.                       *)
LEMMA RaiseCloses ==
  ASSUME Ranges, NEW c \in Clients, Places(c), pc[c] \in Requests \cup {"menu"},
         Raise(c)
  PROVE  Distance(c)' < Distance(c)
<1> USE ClientsAssumption, PollsAssumption DEF Ranges, Goto
<1>1. CASE phase[c] = "atexit"
  BY <1>1 DEF Raise, Distance, Leaving, Requests, Places
<1>2. CASE phase[c] = "finally"
  BY <1>2 DEF Raise, Distance, Leaving, Requests, Places
<1>3. CASE phase[c] \in {"setup", "try", "reboot", "giveUp"}
  <2>1. \/ phase'[c] = "atexit" /\ pc'[c] = "close"
        \/ phase'[c] = "finally" /\ pc'[c] \in {"release", "logout"}
    BY <1>3 DEF Raise, ThenRelease, ThenLogout, CleanedUp
  <2>2. Distance(c)' \in 0 .. 5
    BY <2>1 DEF Distance, Leaving
  <2>3. Distance(c) >= 6
    BY <1>3 DEF Distance, Leaving, Enabling, Trying, Requests
  <2>4. QED
    BY <2>2, <2>3, DistanceInNat
<1>4. QED
  BY <1>1, <1>2, <1>3 DEF Phases

(* The clean-ups go down from one request to the next, and so do the phases *)
(* they lead to; giveUp comes back to try, where nobody is logged in.       *)
LEMMA CleanUpCloses ==
  ASSUME Ranges, NEW c \in Clients, phase[c] \in {"giveUp", "finally", "atexit"},
         phase[c] = "giveUp" => loggedIn[c] \/ pc[c] = "logout",
         \/ pc[c] = "close" /\ ThenRelease(c, phase[c]) /\ loggedIn' = loggedIn
         \/ pc[c] = "release" /\ ThenLogout(c, phase[c]) /\ loggedIn' = loggedIn
         \/ pc[c] = "logout" /\ CleanedUp(c, phase[c]) /\ loggedIn'[c] = FALSE
  PROVE  Distance(c)' < Distance(c)
<1> USE ClientsAssumption, PollsAssumption DEF Ranges, Goto
<1>1. CASE phase[c] = "atexit"
  <2>1. phase'[c] = "atexit"
    BY <1>1 DEF ThenRelease, ThenLogout, CleanedUp
  <2>2. \/ pc[c] = "close" /\ pc'[c] \in {"release", "logout", "gone"}
        \/ pc[c] = "release" /\ pc'[c] \in {"logout", "gone"}
        \/ pc[c] = "logout" /\ pc'[c] = "gone"
    BY <1>1 DEF ThenRelease, ThenLogout, CleanedUp
  <2>3. QED
    BY <1>1, <2>1, <2>2 DEF Distance, Leaving
<1>2. CASE phase[c] = "finally"
  <2>1. \/ pc[c] = "close" /\ phase'[c] = "finally" /\ pc'[c] \in {"release", "logout"}
        \/ pc[c] = "release" /\ phase'[c] = "finally" /\ pc'[c] = "logout"
        \/ phase'[c] = "atexit" /\ pc'[c] = "close"
    BY <1>2 DEF ThenRelease, ThenLogout, CleanedUp
  <2>2. QED
    BY <1>2, <2>1 DEF Distance, Leaving
<1>3. CASE phase[c] = "giveUp"
  <2>1. \/ pc[c] = "close" /\ phase'[c] = "giveUp" /\ pc'[c] \in {"release", "logout"}
        \/ pc[c] = "release" /\ phase'[c] = "giveUp" /\ pc'[c] = "logout"
        \/ pc[c] = "logout" /\ phase'[c] = "try" /\ pc'[c] = "request" /\ loggedIn'[c] = FALSE
    <3>1. CASE pc[c] = "logout"
      BY <1>3, <3>1 DEF CleanedUp
    <3>2. CASE pc[c] # "logout"
      <4>1. loggedIn[c]
        BY <1>3, <3>2
      <4>2. QED
        BY <1>3, <3>2, <4>1 DEF ThenRelease, ThenLogout
    <3>3. QED
      BY <3>1, <3>2
  <2>2. QED
    <3>1. CASE pc[c] = "logout"
      BY <1>3, <2>1, <3>1 DEF Distance, Leaving, Trying
    <3>2. CASE pc[c] # "logout"
      BY <1>3, <2>1, <3>2 DEF Distance, Leaving
    <3>3. QED
      BY <3>1, <3>2
<1>4. QED
  BY <1>1, <1>2, <1>3

LEMMA StepCloses ==
  ASSUME IInv, NEW c \in Clients, Step(c)
  PROVE  Distance(c)' < Distance(c)
<1>0. Ranges /\ ClientInv(c)
  BY DEF IInv
<1> USE <1>0, ClientsAssumption, PollsAssumption DEF ClientInv, Places
<1> DEFINE Closer == Distance(c)' < Distance(c)
<1>1. ASSUME pc[c] \in Requests, Raise(c) PROVE Closer
  BY <1>1, RaiseCloses
<1>2. ASSUME pc[c] \in Requests, Refused(c) PROVE Closer
  BY <1>1, <1>2 DEF Refused
<1> SUFFICES Closer
  OBVIOUS
<1> HIDE DEF Closer
(* The next request of the same phase.                                      *)
<1>3. ASSUME phase[c] \in {"setup", "reboot"}, phase'[c] = phase[c],
             Enabling(c) \in Nat, Enabling(c)' \in Nat, Enabling(c)' < Enabling(c),
             pc[c] # "gone", pc'[c] # "gone"
      PROVE  Closer
  BY <1>3 DEF Distance, Closer
<1> USE DEF Ranges, Goto, Requests
<1>4. CASE Login(c)
  <2>1. CASE Refused(c)
    BY <1>2, <1>4, <2>1 DEF Login
  <2>2. CASE ~Refused(c)
    BY <1>3, <1>4, <2>2 DEF Login, Enabling
  <2>3. QED
    BY <2>1, <2>2
<1>5. CASE RequestToken(c)
  <2>1. CASE Raise(c)
    BY <1>1, <1>5, <2>1 DEF RequestToken
  <2>2. CASE ~Raise(c)
    <3>1. pc[c] = "request" /\ phase'[c] = phase[c] /\ pc'[c] = "poll" /\ polls'[c] = 0
      BY <1>5, <2>2 DEF RequestToken, Refused
    <3>2. CASE phase[c] = "try"
      BY <1>5, <2>2, <3>1, <3>2 DEF RequestToken, Refused, Claims, Distance, Trying, Closer
    <3>3. CASE phase[c] \in {"setup", "reboot"}
      BY <1>3, <3>1, <3>3 DEF Enabling
    <3>4. QED
      BY <3>1, <3>2, <3>3
  <2>3. QED
    BY <2>1, <2>2
<1>6. CASE PollActive(c)
  <2>1. CASE phase[c] = "try"
    BY <1>6, <2>1 DEF PollActive, Distance, Trying, Closer
  <2>2. CASE phase[c] \in {"setup", "reboot"}
    BY <1>3, <1>6, <2>2 DEF PollActive, Enabling
  <2>3. QED
    BY <1>6, <2>1, <2>2 DEF PollActive
<1>7. CASE PollOther(c)
  <2>1. CASE Raise(c)
    BY <1>1, <1>7, <2>1 DEF PollOther
  <2>2. CASE phase[c] = "try" /\ Goto(c, "giveUp", "close")
    BY <1>7, <2>2 DEF PollOther, Distance, Trying, Leaving, Closer
  <2>3. CASE UNCHANGED <<phase, pc>>
    <3>1. pc[c] = "poll" /\ pc'[c] = "poll" /\ phase'[c] = phase[c]
      BY <1>7, <2>3 DEF PollOther
    <3>2. CASE Raise(c)
      BY <2>1, <3>2
    <3>3. CASE ~Raise(c)
      <4>1. polls[c] \in 0 .. MaxPolls - 1 /\ polls'[c] = polls[c] + 1
        BY <1>7, <2>3, <3>1, <3>3 DEF PollOther
      <4>2. polls'[c] \in 0 .. MaxPolls - 1
        BY <1>7, <3>1, <3>3, <4>1 DEF PollOther
      <4>3. QED
        BY <3>1, <4>1, <4>2 DEF Distance, Trying, Enabling, Closer
    <3>4. QED
      BY <3>2, <3>3
  <2>4. QED
    BY <1>7, <2>1, <2>2, <2>3 DEF PollOther
<1>8. CASE PollFails(c)
  BY <1>2, <1>8 DEF PollFails
<1>9. CASE Unlock(c) \/ HomeGripper(c) \/ DeactivateFci(c) \/ Lock(c)
  <2>1. pc[c] \in Requests
    BY <1>9 DEF Unlock, HomeGripper, DeactivateFci, Lock
  <2>2. CASE Raise(c)
    BY <1>1, <2>1, <2>2
  <2>3. CASE ~Raise(c)
    <3>1. phase'[c] = phase[c] /\ phase[c] \in {"setup", "reboot"}
      BY <1>9, <2>3 DEF Unlock, HomeGripper, DeactivateFci, Lock, EnableRobot, Refused
    <3>2. \/ pc[c] = "unlock" /\ pc'[c] = "home"
          \/ pc[c] = "home" /\ pc'[c] = "activate"
          \/ pc[c] = "deactivate" /\ pc'[c] = "lock"
          \/ pc[c] = "lock" /\ pc'[c] \in {"request", "login"}
      BY <1>9, <2>3 DEF Unlock, HomeGripper, DeactivateFci, Lock, EnableRobot, Refused
    <3>3. QED
      BY <1>3, <3>1, <3>2 DEF Enabling
  <2>4. QED
    BY <2>2, <2>3
<1>10. CASE ActivateFci(c)
  <2>1. CASE Raise(c)
    BY <1>1, <1>10, <2>1 DEF ActivateFci
  <2>2. CASE ~Raise(c)
    <3>1. phase'[c] = "try" /\ pc'[c] \in {"request", "menu"}
      BY <1>10, <2>2 DEF ActivateFci, Refused
    <3>2. QED
      BY <1>10, <3>1 DEF ActivateFci, Distance, Trying, Enabling, Closer
  <2>3. QED
    BY <2>1, <2>2
<1>11. CASE Close(c) \/ ReleaseToken(c) \/ Logout(c)
  <2>1. pc[c] \in Requests
    BY <1>11 DEF Close, ReleaseToken, Logout
  <2>2. CASE Raise(c)
    BY <1>1, <2>1, <2>2
  <2>3. CASE ~Raise(c)
    <3>1. \/ pc[c] = "close" /\ ThenRelease(c, phase[c]) /\ loggedIn' = loggedIn
          \/ pc[c] = "release" /\ ThenLogout(c, phase[c]) /\ loggedIn' = loggedIn
          \/ pc[c] = "logout" /\ CleanedUp(c, phase[c]) /\ loggedIn'[c] = FALSE
      BY <1>11, <2>3 DEF Close, ReleaseToken, Logout, Refused
    <3>2. phase[c] = "giveUp" => loggedIn[c] \/ pc[c] = "logout"
      BY <3>1 DEF Claims
    <3>3. QED
      BY <3>1, <3>2, CleanUpCloses DEF Closer
  <2>4. QED
    BY <2>2, <2>3
<1>12. QED
  BY <1>4, <1>5, <1>6, <1>7, <1>8, <1>9, <1>10, <1>11 DEF Step, Closer

(* enable_robot(), reboot_sys(), the menu's way out and the clean-ups end   *)
(* after boundedly many requests, whatever Desk answers to them and whoever *)
(* takes the control meanwhile; nothing but a reboot starts again.          *)
THEOREM AttemptsAreBounded ==
  Spec => /\ [](\A c \in Clients : Distance(c) \in 0 .. 2 * MaxPolls + 19)
          /\ [][\A c \in Clients : ClosesIn(c)]_vars
<1>1. IInv => \A c \in Clients : Distance(c) \in 0 .. 2 * MaxPolls + 19
  BY DistanceInNat DEF IInv
<1> DEFINE D == \A c \in Clients : Distance(c) \in 0 .. 2 * MaxPolls + 19
<1>2. IInv /\ D /\ D' /\ [Next]_vars => [\A c \in Clients : ClosesIn(c)]_vars
  <2> SUFFICES ASSUME IInv, D, D', Next, NEW c \in Clients PROVE ClosesIn(c)
    OBVIOUS
  <2>1. Distance(c) \in Nat /\ Distance(c)' \in Nat
    BY PollsAssumption
  <2>2. Step(c) => Distance(c)' < Distance(c)
    BY StepCloses
  <2>3. PICK d \in Clients : ClientStep(d)
    BY DEF Next, ClientStep
  <2>4. CASE d # c
    <3>1. Distance(c)' = Distance(c)
      BY <2>3, <2>4, OthersApart DEF Apart, Distance, Leaving, Trying, Enabling
    <3>2. QED
      BY <2>1, <2>2, <3>1 DEF ClosesIn
  <2>5. CASE d = c
    <3>1. Ranges /\ Places(c)
      BY DEF IInv, ClientInv
    <3>2. CASE Quit(c)
      <4>1. Distance(c)' < Distance(c)
        BY <3>1, <3>2, RaiseCloses DEF Quit, Refused, Requests
      <4>2. QED
        BY <2>1, <2>2, <4>1 DEF ClosesIn
    <3>3. CASE Start(c)
      BY <2>1, <2>2, <3>1, <3>3, PollsAssumption DEF Start, EnableRobot, Goto, Places, Ranges, Distance, Enabling, ClosesIn
    <3>4. CASE Kill(c)
      BY <2>1, <2>2, <3>1, <3>4 DEF Kill, Goto, Ranges, Distance, ClosesIn
    <3>5. CASE PressButton(c)
      <4>1. Distance(c)' = Distance(c)
        BY <3>5 DEF PressButton, Distance, Leaving, Trying, Enabling
      <4>2. QED
        BY <2>1, <2>2, <4>1 DEF ClosesIn
    <3>6. QED
      BY <2>1, <2>2, <2>3, <2>5, <3>2, <3>3, <3>4, <3>5 DEF ClientStep, ClosesIn
  <2>6. QED
    BY <2>4, <2>5
<1>3. QED
  BY <1>1, <1>2, Invariance, StepIInv, PTL DEF Spec
=============================================================================
