------------------------- MODULE CommandModeSwitch -------------------------
(***************************************************************************)
(* FrankaMultiHardwareInterface: the arms behind one ros2_control hardware  *)
(* component, and how a controller switch reaches them.                     *)
(*                                                                          *)
(*   manager  the controller manager's service thread: asks the hardware to *)
(*            prepare a switch, and drops the switch if that fails          *)
(*   rt       the ros2_control thread: per cycle it updates the active      *)
(*            controllers, performs a prepared switch and calls write()     *)
(*                                                                          *)
(* The controller manager is external: its guards are in Request and        *)
(* Performed.  What an arm does in a loop is FrankaRobot's subject; here    *)
(* loop[a] is the mode the arm's loop was last started in, and the commands *)
(* are told apart only by who wrote them.                                   *)
(*                                                                          *)
(* An interface is named <arm>_joint<i>/<word> or <arm>_ee_cartesian_...,   *)
(* and controllers claim whole groups of them: the 7 joints of an arm for   *)
(* one word, its 16 pose elements or its 6 twist elements.  A group is a    *)
(* pair <<arm, mode>>.  The code counts interfaces; a number of groups of   *)
(* one word has the 7, 16 or 6 elements of a group only if it is that       *)
(* group, hence Single below.                                               *)
(***************************************************************************)
EXTENDS Integers

CONSTANTS
  N,            \* the arms are 1..N, in the order of the map arms_
  Controllers,  \* the controllers that are loaded
  Claims,       \* the groups each of them claims
  Faulty,       \* the controllers that may write a command that is not finite
  Within        \* <<a, b>>: the name of arm a occurs in the interfaces of b

Arms == 1 .. N
Joint == {"JointTorque", "JointPosition", "JointVelocity"}
Cartesian == {"CartesianPose", "CartesianVelocity"}
Kinds == Joint \cup Cartesian
None == "None"
Zero == "zero"
NaN == "nan"
Commands == Controllers \cup {Zero, NaN}

ASSUME ArmsAssumption == N \in Nat \ {0}
ASSUME ClaimsAssumption == Claims \in [Controllers -> SUBSET (Arms \X Kinds)]
ASSUME FaultyAssumption == Faulty \subseteq Controllers
ASSUME WithinAssumption == Within \subseteq Arms \X Arms /\ \A a \in Arms : <<a, a>> \in Within
ASSUME CommandsAssumption == Zero \notin Controllers /\ NaN \notin Controllers

VARIABLES
  enabled,    \* the hardware component is ACTIVE
  failed,     \* write() has answered ERROR and the component is finalised
  running,    \* the active controllers
  pending,    \* a switch is prepared and not yet performed
  stopping,   \* the controllers the pending switch deactivates
  starting,   \* the controllers the pending switch activates
  phase,      \* rt: "update" or "write"
  mode,       \* ArmContainer::control_mode_
  switch,     \* ArmContainer::switch_cm_
  loop,       \* the mode the arm's loop was last started in
  hasError,   \* Robot::hasError()
  hwCmd,      \* the hw_commands_* arrays: who wrote them
  robotCmd    \* the commands of Robot, as last copied by Robot::write()

manager == <<running, pending, stopping, starting>>
arms == <<mode, switch, loop>>
cmds == <<hwCmd, robotCmd>>
vars == <<enabled, failed, manager, phase, arms, hasError, cmds>>

(* The first three strings of an interface name that the code looks for.    *)
Word(k) == CASE k = "JointTorque" -> "effort"
             [] k \in {"JointPosition", "CartesianPose"} -> "position"
             [] OTHER -> "velocity"

Groups(C) == UNION {Claims[c] : c \in C}
OfArm(a, G) == {g \in G : <<a, g[1]>> \in Within}
KindsOf(G) == {g[2] : g \in G}
Single(G) == \E g \in G : G = {g}
OneWord(G) == \A g, h \in G : Word(g[2]) = Word(h[2])

(* check_command_mode_type: 0, 1 or 2; what it answers -1 to is Mixed.      *)
Mixed(A) == ~(KindsOf(A) \subseteq Joint) /\ ~(KindsOf(A) \subseteq Cartesian)

Init ==
  /\ enabled = FALSE /\ failed = FALSE
  /\ running = {} /\ pending = FALSE /\ stopping = {} /\ starting = {}
  /\ phase = "update"
  /\ mode = [a \in Arms |-> None]
  /\ switch = [a \in Arms |-> FALSE]
  /\ loop = [a \in Arms |-> None]
  /\ hasError \in [Arms -> BOOLEAN]
  /\ hwCmd = [a \in Arms |-> [k \in Kinds |-> Zero]]
  /\ robotCmd = hwCmd

-----------------------------------------------------------------------------
(* prepare_command_mode_switch().  Both loops run over the arms in order    *)
(* and return ERROR at the first arm that is refused; the arms before it    *)
(* keep what the loop did to them.                                          *)

(* The word is tested over all the interfaces of the request, and the size  *)
(* too when the arm's are Cartesian.                                        *)
StopRefused(a, G) ==
  LET A == OfArm(a, G)
  IN  A # {} /\ ( \/ Mixed(A)
                  \/ ~OneWord(G)
                  \/ ~Single(IF KindsOf(A) \subseteq Joint THEN A ELSE G) )

(* Mutant: a controller may start over one that runs.                       *)
StartRefusedAnyMode(a, G, m) ==
  LET A == OfArm(a, G)
  IN  A # {} /\ (Mixed(A) \/ ~OneWord(G) \/ ~Single(A))

StartRefused(a, G, m) ==
  LET A == OfArm(a, G)
  IN  A # {} /\ ( \/ Mixed(A)
                  \/ ~OneWord(G)
                  \/ m # None     \* "without stopping it first is not supported"
                  \/ ~Single(A) )

Stopped(G) ==
  {a \in Arms : OfArm(a, G) # {} /\ \A b \in Arms : b <= a => ~StopRefused(b, G)}
StopAccepted(G) == \A a \in Arms : ~StopRefused(a, G)

ModeAfterStop(G) == LET off == Stopped(G)
                    IN  [a \in Arms |-> IF a \in off THEN None ELSE mode[a]]

(* Efforts and velocities are set to zero, positions never are.             *)
CommandsAfterStop(G) ==
  LET off == Stopped(G)
  IN  [a \in Arms |->
         IF a \notin off THEN hwCmd[a]
         ELSE [k \in Kinds |-> IF k \in KindsOf(OfArm(a, G)) /\ Word(k) # "position"
                                 THEN Zero ELSE hwCmd[a][k]]]

Started(G, m) ==
  {a \in Arms : OfArm(a, G) # {} /\ \A b \in Arms : b <= a => ~StartRefused(b, G, m[b])}
StartAccepted(G, m) == \A a \in Arms : ~StartRefused(a, G, m[a])

Accepted(S, T) ==
  StopAccepted(Groups(S)) /\ StartAccepted(Groups(T), ModeAfterStop(Groups(S)))

Prepare(S, T) ==
  LET off  == Stopped(Groups(S))
      m    == ModeAfterStop(Groups(S))
      on   == IF StopAccepted(Groups(S)) THEN Started(Groups(T), m) ELSE {}
  IN  /\ mode' = [a \in Arms |-> IF a \in on
                                   THEN CHOOSE k \in KindsOf(OfArm(a, Groups(T))) : TRUE
                                   ELSE m[a]]
      /\ switch' = [a \in Arms |-> switch[a] \/ a \in off \cup on]
      /\ hwCmd' = CommandsAfterStop(Groups(S))

(* The controller manager (external): only active controllers are stopped,  *)
(* only inactive ones or ones it is stopping are started, and no interface  *)
(* is claimed twice.                                                        *)
Exclusive(C) == \A c, d \in C : c # d => Claims[c] \cap Claims[d] = {}

Request(S, T) ==
  /\ enabled /\ ~failed /\ ~pending
  /\ S \cup T # {}
  /\ S \subseteq running /\ T \cap running \subseteq S
  /\ Exclusive((running \ S) \cup T)

Switch(S, T) ==
  /\ Request(S, T)
  /\ Prepare(S, T)
  /\ pending' = Accepted(S, T)
  /\ stopping' = IF pending' THEN S ELSE {}
  /\ starting' = IF pending' THEN T ELSE {}
  /\ UNCHANGED <<enabled, failed, running, phase, loop, hasError, robotCmd>>

-----------------------------------------------------------------------------
(* rt.  The manager performs a switch before or after it has updated the    *)
(* controllers of the cycle.                                                *)

(* The active controllers write their commands, some of them not finite.    *)
(* The Cartesian command interfaces were exported from a copy of the        *)
(* container that no longer exists: what is written to them reaches none of *)
(* the arrays.                                                              *)
Update ==
  /\ enabled /\ ~failed /\ phase = "update"
  /\ \E bad \in SUBSET (running \cap Faulty) :
       hwCmd' = [a \in Arms |-> [k \in Kinds |->
                   LET owners == {c \in running : k \in Joint /\ <<a, k>> \in Claims[c]}
                   IN  IF owners = {} THEN hwCmd[a][k]
                       ELSE IF owners \cap bad # {} THEN NaN
                       ELSE CHOOSE c \in owners : TRUE]]
  /\ phase' = "write"
  /\ UNCHANGED <<enabled, failed, manager, arms, hasError, robotCmd>>

(* perform_command_mode_switch(): stopRobot() and initialize*() on every    *)
(* arm whose switch_cm_ is set; the manager then deactivates and activates  *)
(* the controllers (external).                                              *)
Perform ==
  /\ enabled /\ ~failed /\ pending
  /\ loop' = [a \in Arms |-> IF switch[a] THEN mode[a] ELSE loop[a]]
  /\ switch' = [a \in Arms |-> FALSE]
  /\ running' = (running \ stopping) \cup starting
  /\ pending' = FALSE /\ stopping' = {} /\ starting' = {}
  /\ UNCHANGED <<enabled, failed, phase, mode, hasError, cmds>>

Finite(a) == \A k \in Kinds : hwCmd[a][k] # NaN

(* Mutant: what is not finite is not looked for.                            *)
PassedUnchecked(a) == ~hasError[a]

Passed(a) == Finite(a) /\ ~hasError[a]

(* Mutant: only the first arm is written to.                                *)
WriteFirstArm ==
  /\ enabled /\ ~failed /\ phase = "write"
  /\ robotCmd' = [a \in Arms |-> IF a = 1 /\ Passed(a) THEN hwCmd[a] ELSE robotCmd[a]]
  /\ failed' = ~Finite(1)
  /\ phase' = "update"
  /\ UNCHANGED <<enabled, manager, arms, hasError, hwCmd>>

(* write(): an arm with a command that is not finite ends the call with     *)
(* ERROR, an arm in error ends it with OK; the arms after it get nothing.   *)
Write ==
  /\ enabled /\ ~failed /\ phase = "write"
  /\ robotCmd' = [a \in Arms |-> IF \A b \in 1 .. a : Passed(b) THEN hwCmd[a] ELSE robotCmd[a]]
  /\ failed' = \E a \in Arms : ~Finite(a) /\ \A b \in 1 .. (a - 1) : Passed(b)
  /\ phase' = "update"
  /\ UNCHANGED <<enabled, manager, arms, hasError, hwCmd>>

(* on_activate().                                                           *)
Activate ==
  /\ ~enabled /\ ~failed
  /\ enabled' = TRUE
  /\ mode' = [a \in Arms |-> None]
  /\ loop' = [a \in Arms |-> None]
  /\ hwCmd' = [a \in Arms |-> [hwCmd[a] EXCEPT !["JointTorque"] = Zero]]
  /\ UNCHANGED <<failed, manager, phase, switch, hasError, robotCmd>>

(* on_deactivate() stops the loops; it sets control_mode_ in a copy of the  *)
(* container.  The component is deactivated between two cycles and with no  *)
(* controller active (external).                                            *)
Deactivate ==
  /\ enabled /\ ~failed /\ ~pending /\ running = {} /\ phase = "update"
  /\ enabled' = FALSE
  /\ UNCHANGED <<failed, manager, phase, arms, hasError, cmds>>

(* has_error_ of an arm is set by its loop and cleared by its recovery.     *)
Fault(a) ==
  /\ ~failed
  /\ hasError' = [hasError EXCEPT ![a] = ~@]
  /\ UNCHANGED <<enabled, failed, manager, phase, arms, cmds>>

Next ==
  \/ \E S \in SUBSET running, T \in SUBSET Controllers : Switch(S, T)
  \/ Update \/ Perform \/ Write
  \/ Activate \/ Deactivate
  \/ \E a \in Arms : Fault(a)

Spec == Init /\ [][Next]_vars

(* The cycle goes on; nothing is assumed of the operator or of the arms.    *)
FairSpec == Spec /\ WF_vars(Update) /\ WF_vars(Write)

-----------------------------------------------------------------------------
(* Every variable is in its range; no arm is ever given a command that is   *)
(* not finite.                                                              *)
TypeOK ==
  /\ enabled \in BOOLEAN /\ failed \in BOOLEAN /\ pending \in BOOLEAN
  /\ running \subseteq Controllers
  /\ stopping \subseteq Controllers /\ starting \subseteq Controllers
  /\ phase \in {"update", "write"}
  /\ mode \in [Arms -> Kinds \cup {None}]
  /\ loop \in [Arms -> Kinds \cup {None}]
  /\ switch \in [Arms -> BOOLEAN] /\ hasError \in [Arms -> BOOLEAN]
  /\ hwCmd \in [Arms -> [Kinds -> Commands]]
  /\ robotCmd \in [Arms -> [Kinds -> Commands \ {NaN}]]

(* The controllers active once the pending switch, if any, is performed,    *)
(* and the modes they want of an arm.                                       *)
Target == (running \ stopping) \cup starting
Wanted(a, C) == {k \in Kinds : <<a, k>> \in Groups(C)}

InSync ==
  \A a \in Arms :
    /\ Wanted(a, Target) = {mode[a]} \ {None}
    /\ \A k, l \in Wanted(a, running) : k = l
    /\ switch[a] => pending
    /\ ~switch[a] => loop[a] = mode[a]

(* Every arm is in the one mode its controllers want, or about to be, until *)
(* a request is refused: an accepted switch, whatever it stops and starts   *)
(* on however many arms, keeps the modes and the controllers in step, and   *)
(* never are controllers of two modes active on one arm.                    *)
Refusal == \E S \in SUBSET running, T \in SUBSET Controllers : Switch(S, T) /\ ~Accepted(S, T)
OnlyRefusalDisturbs == [][InSync => InSync' \/ Refusal]_vars

(* The command of an active joint controller reaches its arm, unless a      *)
(* controller writes one that is not finite, an arm up to this one, in the  *)
(* order of the map, is in error, or a refused request has reset arms.      *)
HealthyArmObeys ==
  \A c \in Controllers : \A g \in Claims[c] \cap (Arms \X Joint) :
    (enabled /\ c \in running) ~>
      ( \/ robotCmd[g[1]][g[2]] = c
        \/ failed \/ c \notin running \/ c \in stopping
        \/ ~InSync
        \/ \E a \in 1 .. g[1] : hasError[a] )

(* "Only allow new controller to be started if the current control mode is  *)
(* NONE": never are controllers of two modes active on one arm.             *)
OneModePerArm == \A a \in Arms : \A k, l \in Wanted(a, running) : k = l
=============================================================================
