----------------------------- MODULE FrankaDesk -----------------------------
(***************************************************************************)
(* scripts/utils/franka_desk.py: programs that ask one arm's Desk for its   *)
(* control token, open the brakes and activate the FCI, and undo it at exit.*)
(*                                                                          *)
(* A client is one run of one program, with one FrankaLockUnlock object:    *)
(* main() of franka_desk.py for the clients in Cli, launch_interface.py for *)
(* the others.  phase is where the program is:                              *)
(*   setup    enable_robot() for the first time                             *)
(*   try      the menu, and what comes before it in main()'s loop           *)
(*   reboot   reboot_sys()                                                  *)
(*   giveUp   the _cleanup() of main()'s loop                               *)
(*   finally  main()'s finally clause                                       *)
(*   atexit   the _cleanup() registered with atexit                         *)
(* and pc the request it makes next.                                        *)
(*                                                                          *)
(* Desk is external.  It can refuse any request, and the client sees an     *)
(* exception too when Desk did what was asked but the answer is lost.  A    *)
(* token is named after the client that asked for it, which asks once.      *)
(***************************************************************************)
EXTENDS Naturals

CONSTANTS
  Clients,   \* the runs of the programs
  Cli,       \* those of franka_desk.py's own main()
  MaxPolls,  \* 20 in the code
  Nobody     \* no active token

ASSUME ClientsAssumption == Cli \subseteq Clients /\ Nobody \notin Clients
ASSUME PollsAssumption == MaxPolls \in Nat \ {0}

VARIABLES
  active,    \* Desk: the client whose token is active
  pending,   \* Desk: tokens that wait for the button on the robot
  brakes,    \* Desk: "open" or "closed"
  fci,       \* Desk: the FCI is active
  loggedIn,  \* _logged_in
  token,     \* _token and _token_id are not None
  polls,     \* iterations done of the loops over range(20)
  phase,
  pc

desk == <<active, pending, brakes, fci>>
vars == <<active, pending, brakes, fci, loggedIn, token, polls, phase, pc>>

Init ==
  /\ active = Nobody /\ pending = {} /\ brakes = "closed" /\ fci = FALSE
  /\ loggedIn = [c \in Clients |-> FALSE]
  /\ token = [c \in Clients |-> FALSE]
  /\ polls = [c \in Clients |-> 0]
  /\ phase = [c \in Clients |-> "setup"]
  /\ pc = [c \in Clients |-> "off"]

Goto(c, ph, next) ==
  /\ phase' = [phase EXCEPT ![c] = ph]
  /\ pc' = [pc EXCEPT ![c] = next]

-----------------------------------------------------------------------------
(* The ways out.                                                            *)

(* The end of a clean-up in phase ph.                                       *)
CleanedUp(c, ph) ==
  \/ ph = "giveUp" /\ Goto(c, "try", "request")
  \/ ph = "finally" /\ Goto(c, "atexit", "close")
  \/ ph = "atexit" /\ Goto(c, "atexit", "gone")

(* Log out, if the client is logged in.                                     *)
ThenLogout(c, ph) ==
  \/ loggedIn[c] /\ Goto(c, ph, "logout")
  \/ ~loggedIn[c] /\ CleanedUp(c, ph)

(* Give the token back, if there is one, and then log out.                  *)
ThenRelease(c, ph) ==
  \/ token[c] /\ Goto(c, ph, "release")
  \/ ~token[c] /\ ThenLogout(c, ph)

(* An exception, a return from the menu or ctrl-C: what runs next.  It cuts *)
(* a clean-up short.                                                        *)
Raise(c) ==
  \/ phase[c] = "atexit" /\ Goto(c, "atexit", "gone")
  \/ c \in Cli /\ phase[c] \in {"try", "reboot", "giveUp"} /\ ThenRelease(c, "finally")
  \/ /\ phase[c] \in {"setup", "finally"} \/ (c \notin Cli /\ phase[c] # "atexit")
     /\ Goto(c, "atexit", "close")

(* A request that Desk does not carry out.                                  *)
Refused(c) == Raise(c) /\ UNCHANGED <<desk, loggedIn, token, polls>>

(* Desk carries out a request that comes with the active token.             *)
InControl(c) == loggedIn[c] /\ token[c] /\ active = c

-----------------------------------------------------------------------------
(* enable_robot()                                                           *)

EnableRobot(c, ph) == Goto(c, ph, IF loggedIn[c] THEN "request" ELSE "login")

Start(c) ==
  /\ pc[c] = "off"
  /\ EnableRobot(c, "setup")
  /\ UNCHANGED <<desk, loggedIn, token, polls>>

(* A login whose answer is lost leaves the client as one that was refused.  *)
Login(c) ==
  /\ pc[c] = "login"
  /\ \/ Refused(c)
     \/ /\ loggedIn' = [loggedIn EXCEPT ![c] = TRUE]
        /\ Goto(c, phase[c], "request")
        /\ UNCHANGED <<desk, token, polls>>

(* Desk grants a claim at once only when nobody else has one.               *)
GrantToken(c) ==
  \/ active = Nobody /\ active' = c /\ UNCHANGED pending
  \/ pending' = pending \cup {c} /\ UNCHANGED active

(* _request_token()                                                         *)
RequestToken(c) ==
  /\ pc[c] = "request"
  /\ \/ /\ token[c]
        /\ Goto(c, phase[c], "poll")
        /\ polls' = [polls EXCEPT ![c] = 0]
        /\ UNCHANGED <<desk, loggedIn, token>>
     \/ ~token[c] /\ Refused(c)
     \/ /\ ~token[c] /\ loggedIn[c]
        /\ GrantToken(c)
        /\ \/ token' = [token EXCEPT ![c] = TRUE] /\ Goto(c, phase[c], "poll")
           \/ Raise(c) /\ UNCHANGED token
        /\ polls' = [polls EXCEPT ![c] = 0]
        /\ UNCHANGED <<brakes, fci, loggedIn>>

(* _is_active_token() is TRUE too when nobody has an active token.          *)
PollActive(c) ==
  /\ pc[c] = "poll" /\ active \in {Nobody, c}
  /\ Goto(c, phase[c], IF phase[c] = "try" THEN "menu" ELSE "unlock")
  /\ UNCHANGED <<desk, loggedIn, token, polls>>

(* Mutant: one poll too many.                                               *)
PollOnceMore(c) ==
  /\ pc[c] = "poll" /\ active \notin {Nobody, c}
  /\ \/ /\ polls[c] < MaxPolls
        /\ polls' = [polls EXCEPT ![c] = @ + 1]
        /\ UNCHANGED <<phase, pc>>
     \/ /\ polls[c] = MaxPolls
        /\ Raise(c)
        /\ UNCHANGED polls
  /\ UNCHANGED <<desk, loggedIn, token>>

(* Mutant: after the last poll the first one is tried again.                *)
PollForever(c) ==
  /\ pc[c] = "poll" /\ active \notin {Nobody, c}
  /\ polls' = [polls EXCEPT ![c] = (@ + 1) % MaxPolls]
  /\ UNCHANGED <<desk, loggedIn, token, phase, pc>>

(* Somebody else has it: main()'s loop cleans up after the last poll, and   *)
(* enable_robot() raises.                                                   *)
PollOther(c) ==
  /\ pc[c] = "poll" /\ active \notin {Nobody, c}
  /\ \/ /\ polls[c] + 1 < MaxPolls
        /\ polls' = [polls EXCEPT ![c] = @ + 1]
        /\ UNCHANGED <<phase, pc>>
     \/ /\ polls[c] + 1 = MaxPolls
        /\ \/ phase[c] = "try" /\ Goto(c, "giveUp", "close")
           \/ phase[c] # "try" /\ Raise(c)
        /\ UNCHANGED polls
  /\ UNCHANGED <<desk, loggedIn, token>>

PollFails(c) == pc[c] = "poll" /\ Refused(c)

Unlock(c) ==
  /\ pc[c] = "unlock"
  /\ \/ Refused(c)
     \/ /\ InControl(c)
        /\ brakes' = "open"
        /\ Goto(c, phase[c], "home") \/ Raise(c)
        /\ UNCHANGED <<active, pending, fci, loggedIn, token, polls>>

HomeGripper(c) ==
  /\ pc[c] = "home"
  /\ \/ Refused(c)
     \/ /\ InControl(c)
        /\ Goto(c, phase[c], "activate")
        /\ UNCHANGED <<desk, loggedIn, token, polls>>

(* The last step of enable_robot(): main() asks for its token once more.    *)
ActivateFci(c) ==
  /\ pc[c] = "activate"
  /\ \/ Refused(c)
     \/ /\ InControl(c)
        /\ fci' = TRUE
        /\ \/ Goto(c, "try", IF c \in Cli /\ phase[c] = "setup" THEN "request" ELSE "menu")
           \/ Raise(c)
        /\ UNCHANGED <<active, pending, brakes, loggedIn, token, polls>>

-----------------------------------------------------------------------------
(* The menu: reboot_sys(), which is unable_robot() and enable_robot().      *)

Reboot(c) ==
  /\ pc[c] = "menu"
  /\ Goto(c, "reboot", "deactivate")
  /\ UNCHANGED <<desk, loggedIn, token, polls>>

(* _deactivate_fci() goes on after a 404 or 405, with the FCI still active. *)
DeactivateFci(c) ==
  /\ pc[c] = "deactivate"
  /\ \/ Refused(c)
     \/ /\ InControl(c)
        /\ fci' \in {fci, FALSE}
        /\ Goto(c, phase[c], "lock") \/ Raise(c)
        /\ UNCHANGED <<active, pending, brakes, loggedIn, token, polls>>

(* Mutant: the reboot ends without enable_robot().                          *)
LockOnly(c) ==
  /\ pc[c] = "lock"
  /\ \/ Refused(c)
     \/ /\ InControl(c)
        /\ brakes' = "closed"
        /\ Goto(c, "try", "request") \/ Raise(c)
        /\ UNCHANGED <<active, pending, fci, loggedIn, token, polls>>

Lock(c) ==
  /\ pc[c] = "lock"
  /\ \/ Refused(c)
     \/ /\ InControl(c)
        /\ brakes' = "closed"
        /\ EnableRobot(c, phase[c]) \/ Raise(c)
        /\ UNCHANGED <<active, pending, fci, loggedIn, token, polls>>

(* 'q', ctrl-C at the prompt, and ctrl-C while it waits for the button.     *)
Quit(c) == pc[c] \in {"menu", "poll"} /\ Refused(c)

-----------------------------------------------------------------------------
(* _cleanup(), and the finally clause of main() from "release" on.          *)

(* Mutant: every step of the clean-up is tried, whatever becomes of the     *)
(* others.                                                                  *)
CloseOrNot(c) ==
  /\ pc[c] = "close"
  /\ \/ brakes' = brakes
     \/ InControl(c) /\ brakes' = "closed"
  /\ ThenRelease(c, phase[c])
  /\ UNCHANGED <<active, pending, fci, loggedIn, token, polls>>

Close(c) ==
  /\ pc[c] = "close"
  /\ \/ Refused(c)
     \/ /\ InControl(c)
        /\ brakes' = "closed"
        /\ ThenRelease(c, phase[c]) \/ Raise(c)
        /\ UNCHANGED <<active, pending, fci, loggedIn, token, polls>>

(* Releasing the active token disables the FCI.                             *)
DropToken(c) ==
  /\ active' = IF active = c THEN Nobody ELSE active
  /\ fci' = (fci /\ active # c)
  /\ pending' = pending \ {c}

(* Mutant: the token is forgotten whatever the answer.                      *)
ForgetToken(c) ==
  /\ pc[c] = "release"
  /\ DropToken(c) \/ UNCHANGED <<active, pending, fci>>
  /\ token' = [token EXCEPT ![c] = FALSE]
  /\ ThenLogout(c, phase[c])
  /\ UNCHANGED <<brakes, loggedIn, polls>>

ReleaseToken(c) ==
  /\ pc[c] = "release"
  /\ \/ Refused(c)
     \/ /\ loggedIn[c]
        /\ DropToken(c)
        /\ \/ token' = [token EXCEPT ![c] = FALSE] /\ ThenLogout(c, phase[c])
           \/ Raise(c) /\ UNCHANGED token
        /\ UNCHANGED <<brakes, loggedIn, polls>>

Logout(c) ==
  /\ pc[c] = "logout"
  /\ \/ Refused(c)
     \/ /\ loggedIn' = [loggedIn EXCEPT ![c] = FALSE]
        /\ CleanedUp(c, phase[c])
        /\ UNCHANGED <<desk, token, polls>>

-----------------------------------------------------------------------------
(* What happens to the programs and to Desk.                                *)

(* A process that dies runs no handler.                                     *)
Kill(c) ==
  /\ pc[c] \notin {"off", "gone"}
  /\ Goto(c, phase[c], "gone")
  /\ UNCHANGED <<desk, loggedIn, token, polls>>

(* The button on the robot hands the control over, from whoever has it.     *)
PressButton(c) ==
  /\ c \in pending
  /\ active' = c
  /\ pending' = pending \ {c}
  /\ fci' \in {fci, FALSE}
  /\ UNCHANGED <<brakes, loggedIn, token, polls, phase, pc>>

Step(c) ==
  \/ Login(c) \/ RequestToken(c) \/ PollActive(c) \/ PollOther(c) \/ PollFails(c)
  \/ Unlock(c) \/ HomeGripper(c) \/ ActivateFci(c)
  \/ DeactivateFci(c) \/ Lock(c)
  \/ Close(c) \/ ReleaseToken(c) \/ Logout(c)

Next ==
  \E c \in Clients :
    Start(c) \/ Step(c) \/ Reboot(c) \/ Quit(c) \/ Kill(c) \/ PressButton(c)

Spec == Init /\ [][Next]_vars

(* The programs run and every request returns; nobody has to start, use or  *)
(* quit a program, or to press the button.                                  *)
FairSpec == Spec /\ \A c \in Clients : WF_vars(Step(c))

-----------------------------------------------------------------------------
Phases == {"setup", "try", "reboot", "giveUp", "finally", "atexit"}
Requests == {"login", "request", "poll", "unlock", "home", "activate",
             "deactivate", "lock", "close", "release", "logout"}

(* Every variable stays in its range: the loops never poll more than        *)
(* MaxPolls times, and a client is in control or waits for it, never both.  *)
TypeOK ==
  /\ active \in Clients \cup {Nobody}
  /\ pending \in SUBSET (Clients \ {active})
  /\ brakes \in {"open", "closed"}
  /\ fci \in BOOLEAN
  /\ loggedIn \in [Clients -> BOOLEAN]
  /\ token \in [Clients -> BOOLEAN]
  /\ polls \in [Clients -> 0 .. MaxPolls - 1]
  /\ phase \in [Clients -> Phases]
  /\ pc \in [Clients -> Requests \cup {"off", "menu", "gone"}]

(* An arm whose brakes are open is under somebody's control: whichever      *)
(* request fails or loses its answer, whoever takes over and whenever a     *)
(* program is killed, the token is not given back before the brakes are     *)
(* closed.  Only main()'s finally clause gives back an open arm.            *)
OpenUnderToken ==
  brakes = "open" =>
    active # Nobody \/ \E c \in Cli : phase[c] \in {"finally", "atexit"}

(* What relock=True and the comment "so Desk cleanup can relock on exit"    *)
(* (launch_interface.py) say of every program, main()'s included.           *)
RelockedOnExit == brakes = "open" => active # Nobody

(* What a client that nobody takes the control from does to the brakes.     *)
Unrivalled(c) == active \in {c, Nobody}
SessionState(c) ==
  IF pc[c] \in {"gone", "release", "logout"} THEN "gone"
  ELSE IF phase[c] = "atexit" THEN "leaving"
  ELSE IF pc[c] = "menu" THEN "ready"
  ELSE "unready"
Session(c) == INSTANCE DeskSession WITH state <- SessionState(c)

(* A program that offers its menu and still has the active token has an arm *)
(* that is ready: enable_robot() left none of its steps to somebody else's  *)
(* request, and a reboot ends as it began.                                  *)
ReadyInMenu == \A c \in Clients : pc[c] = "menu" /\ active = c => brakes = "open" /\ fci

(* A client that is not logged in has left no claim behind at Desk, also    *)
(* not one that would come into force when the button is pressed later.     *)
NoClaimAfterLogout == \A c \in Clients : ~loggedIn[c] => c \notin pending \cup {active}

(* Every attempt to enable, reboot or leave the arm comes to an end.        *)
EveryAttemptEnds ==
  \A c \in Clients : pc[c] \in Requests ~> pc[c] \in {"menu", "gone"}
=============================================================================
