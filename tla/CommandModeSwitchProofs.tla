---------------------- MODULE CommandModeSwitchProofs ----------------------
(***************************************************************************)
(* Theorems about CommandModeSwitch, for every number of arms and every set *)
(* of controllers.                                                          *)
(***************************************************************************)
EXTENDS CommandModeSwitch, TLAPS

(* What an arm is told by a prepared switch stays within the five modes.    *)
LEMMA PrepareTypeOK ==
  ASSUME TypeOK, NEW S \in SUBSET Controllers, NEW T \in SUBSET Controllers, Prepare(S, T)
  PROVE  /\ mode' \in [Arms -> Kinds \cup {None}]
         /\ switch' \in [Arms -> BOOLEAN]
         /\ hwCmd' \in [Arms -> [Kinds -> Commands]]
<1> DEFINE m == ModeAfterStop(Groups(S))
           on == IF StopAccepted(Groups(S)) THEN Started(Groups(T), m) ELSE {}
           off == Stopped(Groups(S))
<1>1. ASSUME NEW a \in Arms, OfArm(a, Groups(T)) # {}
      PROVE  (CHOOSE k \in KindsOf(OfArm(a, Groups(T))) : TRUE) \in Kinds
  <2>1. Groups(T) \subseteq Arms \X Kinds
    BY ClaimsAssumption DEF Groups
  <2>2. KindsOf(OfArm(a, Groups(T))) \subseteq Kinds /\ KindsOf(OfArm(a, Groups(T))) # {}
    BY <1>1, <2>1 DEF KindsOf, OfArm
  <2>3. QED
    BY <2>2
<1>2. \A a \in on : a \in Arms /\ OfArm(a, Groups(T)) # {}
  BY DEF Started
<1>3. m \in [Arms -> Kinds \cup {None}]
  BY DEF ModeAfterStop, TypeOK
<1>4. mode' \in [Arms -> Kinds \cup {None}]
  BY <1>1, <1>2, <1>3, Zenon DEF Prepare
<1>5. switch' \in [Arms -> BOOLEAN]
  BY DEF Prepare
<1>6. hwCmd' \in [Arms -> [Kinds -> Commands]]
  BY DEF Prepare, CommandsAfterStop, TypeOK, Commands
<1>7. QED
  BY <1>4, <1>5, <1>6

LEMMA InitTypeOK == Init => TypeOK
<1> SUFFICES ASSUME Init PROVE TypeOK
  OBVIOUS
<1>1. enabled \in BOOLEAN /\ failed \in BOOLEAN /\ pending \in BOOLEAN
  BY Zenon DEF Init
<1>2. switch \in [Arms -> BOOLEAN] /\ mode \in [Arms -> Kinds \cup {None}]
      /\ loop \in [Arms -> Kinds \cup {None}]
  BY Zenon DEF Init
<1>3. Zero \in Commands \ {NaN}
  BY CommandsAssumption DEF Commands, Zero, NaN
<1>4. hwCmd \in [Arms -> [Kinds -> Commands]] /\ robotCmd \in [Arms -> [Kinds -> Commands \ {NaN}]]
  BY <1>3 DEF Init
<1>5. QED
  BY <1>1, <1>2, <1>4 DEF Init, TypeOK

LEMMA TypeStep == TypeOK /\ [Next]_vars => TypeOK'
<1> SUFFICES ASSUME TypeOK, [Next]_vars PROVE TypeOK'
  OBVIOUS
<1> USE DEF TypeOK, manager, arms, cmds
<1>1. ASSUME NEW S \in SUBSET running, NEW T \in SUBSET Controllers, Switch(S, T) PROVE TypeOK'
  <2>1. S \in SUBSET Controllers
    OBVIOUS
  <2>2. /\ mode' \in [Arms -> Kinds \cup {None}]
        /\ switch' \in [Arms -> BOOLEAN]
        /\ hwCmd' \in [Arms -> [Kinds -> Commands]]
    BY <1>1, <2>1, PrepareTypeOK DEF Switch
  <2>3. pending' \in BOOLEAN
    BY <1>1 DEF Switch, Accepted, StopAccepted, StartAccepted
  <2>4. QED
    BY <1>1, <2>1, <2>2, <2>3 DEF Switch
<1>2. CASE Update
  <2>1. ASSUME NEW a \in Arms, NEW k \in Kinds PROVE hwCmd'[a][k] \in Commands
    <3> DEFINE owners == {c \in running : k \in Joint /\ <<a, k>> \in Claims[c]}
    <3>1. owners # {} => (CHOOSE c \in owners : TRUE) \in Commands
      BY DEF Commands
    <3>2. hwCmd[a][k] \in Commands /\ NaN \in Commands
      BY DEF Commands
    <3>3. PICK bad \in SUBSET (running \cap Faulty) :
            hwCmd' = [x \in Arms |-> [y \in Kinds |->
                        LET os == {c \in running : y \in Joint /\ <<x, y>> \in Claims[c]}
                        IN  IF os = {} THEN hwCmd[x][y]
                            ELSE IF os \cap bad # {} THEN NaN
                            ELSE CHOOSE c \in os : TRUE]]
      BY <1>2 DEF Update
    <3>4. hwCmd'[a][k] = IF owners = {} THEN hwCmd[a][k]
                         ELSE IF owners \cap bad # {} THEN NaN
                         ELSE CHOOSE c \in owners : TRUE
      BY <3>3, Zenon
    <3>5. QED
      BY <3>1, <3>2, <3>4
  <2>2. hwCmd' \in [Arms -> [Kinds -> Commands]]
    BY <1>2, <2>1 DEF Update
  <2>3. QED
    BY <1>2, <2>2 DEF Update
<1>3. CASE Perform
  <2>1. pending' \in BOOLEAN /\ switch' \in [Arms -> BOOLEAN]
    BY <1>3, Zenon DEF Perform
  <2>2. QED
    BY <1>3, <2>1 DEF Perform
<1>4. CASE Write
  <2>1. ASSUME NEW a \in Arms, Passed(a) PROVE hwCmd[a] \in [Kinds -> Commands \ {NaN}]
    BY <2>1 DEF Passed, Finite
  <2>2. ASSUME NEW a \in Arms, \A b \in 1 .. a : Passed(b) PROVE Passed(a)
    BY <2>2 DEF Arms
  <2>3. robotCmd' \in [Arms -> [Kinds -> Commands \ {NaN}]]
    BY <1>4, <2>1, <2>2 DEF Write
  <2>4. failed' \in BOOLEAN
    BY <1>4 DEF Write
  <2>5. QED
    BY <1>4, <2>3, <2>4 DEF Write
<1>5. CASE Activate
  <2>1. enabled' \in BOOLEAN
    BY <1>5, Zenon DEF Activate
  <2>2. mode' \in [Arms -> Kinds \cup {None}] /\ loop' \in [Arms -> Kinds \cup {None}]
    BY <1>5 DEF Activate
  <2>3. hwCmd' \in [Arms -> [Kinds -> Commands]]
    BY <1>5 DEF Activate, Commands
  <2>4. QED
    BY <1>5, <2>1, <2>2, <2>3 DEF Activate
<1>6. CASE Deactivate
  <2>1. enabled' \in BOOLEAN
    BY <1>6, Zenon DEF Deactivate
  <2>2. QED
    BY <1>6, <2>1 DEF Deactivate
<1>7. ASSUME NEW a \in Arms, Fault(a) PROVE TypeOK'
  BY <1>7 DEF Fault
<1>8. CASE UNCHANGED vars
  BY <1>8 DEF vars
<1>9. QED
  BY <1>1, <1>2, <1>3, <1>4, <1>5, <1>6, <1>7, <1>8 DEF Next

(* Every variable stays in its range, and Robot is never given a command    *)
(* that is not finite.                                                      *)
THEOREM TypeCorrect == Spec => []TypeOK
  BY InitTypeOK, TypeStep, PTL DEF Spec

(***************************************************************************)
(* Only a refused request puts an arm out of step with its controllers.     *)
(*                                                                          *)
(* What the argument needs of the controller manager is ManagerInv: no      *)
(* interface is claimed twice, also by the controllers of a switch that is  *)
(* still pending.  A group that is stopped is then stopped by the only      *)
(* controller that had it, which leaves the arm wanting nothing (StopLeaves)*)
(* as control_mode_ says; a group that is started is the only one its arm   *)
(* is asked for, and the arm was in ControlMode::None.  No arm's name may   *)
(* occur in the interfaces of another arm.                                  *)
(***************************************************************************)
NamesAreDistinct == Within = {<<a, a>> : a \in Arms}

ManagerInv ==
  /\ ~pending => stopping = {} /\ starting = {}
  /\ ~enabled => ~pending /\ running = {}
  /\ Exclusive(Target)

LEMMA ManagerStep == TypeOK /\ ManagerInv /\ [Next]_vars => ManagerInv'
<1> SUFFICES ASSUME TypeOK, ManagerInv, [Next]_vars PROVE ManagerInv'
  OBVIOUS
<1> USE DEF TypeOK, ManagerInv, Target, Exclusive, manager
<1>1. ASSUME NEW S \in SUBSET running, NEW T \in SUBSET Controllers, Switch(S, T) PROVE ManagerInv'
  BY <1>1 DEF Switch, Request
<1>2. CASE Perform
  BY <1>2 DEF Perform
<1>3. CASE Update
  BY <1>3 DEF Update
<1>4. CASE Write
  BY <1>4 DEF Write
<1>5. CASE Activate
  <2>1. enabled'
    BY <1>5 DEF Activate
  <2>2. QED
    BY <1>5, <2>1 DEF Activate
<1>6. CASE Deactivate
  BY <1>6 DEF Deactivate
<1>7. ASSUME NEW a \in Arms, Fault(a) PROVE ManagerInv'
  BY <1>7 DEF Fault
<1>8. CASE UNCHANGED vars
  BY <1>8 DEF vars
<1>9. QED
  BY <1>1, <1>2, <1>3, <1>4, <1>5, <1>6, <1>7, <1>8 DEF Next

(* The groups of an arm, when its name occurs in no other arm's.            *)
LEMMA OwnGroups ==
  ASSUME NamesAreDistinct, NEW C \in SUBSET Controllers, NEW a \in Arms
  PROVE  /\ OfArm(a, Groups(C)) = {<<a, k>> : k \in Wanted(a, C)}
         /\ KindsOf(OfArm(a, Groups(C))) = Wanted(a, C)
         /\ Wanted(a, C) \subseteq Kinds
<1>1. Groups(C) \subseteq Arms \X Kinds
  BY ClaimsAssumption DEF Groups
<1>2. ASSUME NEW k, <<a, k>> \in Groups(C) PROVE k \in Wanted(a, C)
  BY <1>1, <1>2 DEF Wanted
<1>3. OfArm(a, Groups(C)) = {<<a, k>> : k \in Wanted(a, C)}
  <2>1. ASSUME NEW g \in OfArm(a, Groups(C)) PROVE g \in {<<a, k>> : k \in Wanted(a, C)}
    <3>1. PICK b \in Arms, k \in Kinds : g = <<b, k>>
      BY <1>1 DEF OfArm
    <3>2. <<a, b>> \in Within
      BY <3>1 DEF OfArm
    <3>3. b = a
      BY <3>2 DEF NamesAreDistinct
    <3>4. k \in Wanted(a, C)
      BY <1>2, <3>1, <3>3 DEF OfArm
    <3>5. QED
      BY <3>1, <3>3, <3>4
  <2>2. ASSUME NEW k \in Wanted(a, C) PROVE <<a, k>> \in OfArm(a, Groups(C))
    BY WithinAssumption DEF OfArm, Wanted
  <2>3. QED
    BY <2>1, <2>2
<1>4. KindsOf(OfArm(a, Groups(C))) = Wanted(a, C)
  <2>1. \A k \in Wanted(a, C) : <<a, k>>[2] = k
    OBVIOUS
  <2>2. KindsOf(OfArm(a, Groups(C))) = {g[2] : g \in {<<a, k>> : k \in Wanted(a, C)}}
    BY <1>3 DEF KindsOf
  <2>3. QED
    BY <2>1, <2>2
<1>5. QED
  BY <1>3, <1>4 DEF Wanted

(* Once the stop part of a request is accepted, control_mode_ is what the   *)
(* controllers that stay active want.                                       *)
LEMMA StopLeaves ==
  ASSUME NamesAreDistinct, TypeOK, ManagerInv, InSync, ~pending,
         NEW S \in SUBSET running, StopAccepted(Groups(S)), NEW a \in Arms
  PROVE  Wanted(a, running \ S) = {ModeAfterStop(Groups(S))[a]} \ {None}
<1> DEFINE A == OfArm(a, Groups(S))
<1>1. S \in SUBSET Controllers /\ running \in SUBSET Controllers
  BY DEF TypeOK
<1>2. Wanted(a, running) = {mode[a]} \ {None} /\ Exclusive(running)
  BY DEF InSync, ManagerInv, Target
<1>3. A = {<<a, k>> : k \in Wanted(a, S)}
  BY <1>1, OwnGroups
<1>4. a \in Stopped(Groups(S)) <=> A # {}
  BY DEF Stopped, StopAccepted
<1>5. CASE A = {}
  <2>1. Wanted(a, S) = {}
    BY <1>3, <1>5
  <2>2. Wanted(a, running \ S) = Wanted(a, running)
    BY <2>1 DEF Wanted, Groups
  <2>3. QED
    BY <1>2, <1>4, <1>5, <2>2 DEF ModeAfterStop
<1>6. CASE A # {}
  <2>1. PICK k \in Kinds, c \in S : <<a, k>> \in Claims[c]
    BY <1>3, <1>6 DEF Wanted, Groups
  <2>2. k \in Wanted(a, running)
    BY <2>1 DEF Wanted, Groups
  <2>3. Wanted(a, running) = {k}
    BY <1>2, <2>2
  <2>4. ASSUME NEW l \in Wanted(a, running \ S) PROVE FALSE
    <3>1. PICK d \in running \ S : <<a, l>> \in Claims[d]
      BY <2>4 DEF Wanted, Groups
    <3>2. l = k
      BY <2>3, <2>4, <3>1 DEF Wanted, Groups
    <3>3. c # d /\ c \in running
      BY <2>1, <3>1
    <3>4. QED
      BY <1>2, <2>1, <3>1, <3>2, <3>3 DEF Exclusive
  <2>5. ModeAfterStop(Groups(S))[a] = None
    BY <1>4, <1>6 DEF ModeAfterStop
  <2>6. QED
    BY <2>4, <2>5
<1>7. QED
  BY <1>5, <1>6

LEMMA AcceptedKeepsSync ==
  ASSUME NamesAreDistinct, TypeOK, ManagerInv, InSync,
         NEW S \in SUBSET running, NEW T \in SUBSET Controllers, Switch(S, T), Accepted(S, T)
  PROVE  InSync'
<1> DEFINE m == ModeAfterStop(Groups(S))
           off == Stopped(Groups(S))
           on == Started(Groups(T), m)
<1>1. ~pending /\ pending' /\ Target' = (running \ S) \cup T /\ loop' = loop
  BY DEF Switch, Request, Target
<1>2. StopAccepted(Groups(S)) /\ StartAccepted(Groups(T), m)
  BY DEF Accepted
<1>3. /\ mode' = [a \in Arms |-> IF a \in on
                                   THEN CHOOSE k \in KindsOf(OfArm(a, Groups(T))) : TRUE ELSE m[a]]
      /\ switch' = [a \in Arms |-> switch[a] \/ a \in off \cup on]
  BY <1>2 DEF Switch, Prepare
<1>4. ASSUME NEW a \in Arms
      PROVE  /\ Wanted(a, Target') = {mode'[a]} \ {None}
             /\ ~switch'[a] => loop'[a] = mode'[a]
  <2> DEFINE B == OfArm(a, Groups(T))
  <2>1. Wanted(a, running \ S) = {m[a]} \ {None}
    BY <1>1, <1>2, StopLeaves
  <2>2. Wanted(a, Target') = Wanted(a, running \ S) \cup Wanted(a, T)
    BY <1>1 DEF Wanted, Groups
  <2>3. B = {<<a, k>> : k \in Wanted(a, T)} /\ KindsOf(B) = Wanted(a, T) /\ Wanted(a, T) \subseteq Kinds
    BY OwnGroups
  <2>4. a \in on <=> B # {}
    BY <1>2 DEF Started, StartAccepted
  <2>5. CASE B = {}
    <3>1. mode'[a] = m[a] /\ Wanted(a, T) = {}
      BY <1>3, <2>3, <2>4, <2>5
    <3>2. ASSUME ~switch'[a] PROVE loop'[a] = mode'[a]
      <4>1. a \notin off /\ ~switch[a]
        BY <1>3, <3>2
      <4>2. m[a] = mode[a] /\ loop[a] = mode[a]
        BY <4>1 DEF ModeAfterStop, InSync
      <4>3. QED
        BY <1>1, <3>1, <4>2
    <3>3. QED
      BY <2>1, <2>2, <3>1, <3>2
  <2>6. CASE B # {}
    <3>1. m[a] = None /\ Single(B)
      BY <1>2, <2>6 DEF StartAccepted, StartRefused
    <3>2. PICK k \in Kinds : Wanted(a, T) = {k}
      BY <2>3, <2>6, <3>1 DEF Single, KindsOf
    <3>3. mode'[a] = k
      BY <1>3, <2>3, <2>4, <2>6, <3>2
    <3>4. k # None
      BY <3>2 DEF Kinds, Joint, Cartesian, None
    <3>5. switch'[a]
      BY <1>3, <2>4, <2>6
    <3>6. QED
      BY <2>1, <2>2, <3>1, <3>2, <3>3, <3>4, <3>5
  <2>7. QED
    BY <2>5, <2>6
<1>5. \A a \in Arms : Wanted(a, Target)' = Wanted(a, Target') /\ Wanted(a, running)' = Wanted(a, running)
  BY DEF Wanted, Groups, Switch
<1>6. QED
  BY <1>1, <1>4, <1>5 DEF InSync

LEMMA SyncStep ==
  ASSUME NamesAreDistinct, TypeOK, ManagerInv, [Next]_vars, InSync
  PROVE  InSync' \/ Refusal
<1> USE DEF TypeOK, InSync, Target, Wanted, Groups, manager, arms
<1>1. ASSUME NEW S \in SUBSET running, NEW T \in SUBSET Controllers, Switch(S, T)
      PROVE  InSync' \/ Refusal
  BY <1>1, AcceptedKeepsSync DEF Refusal
<1>2. CASE Perform
  <2>1. Target' = Target
    BY <1>2 DEF Perform
  <2>2. \A a \in Arms : ~switch'[a] /\ loop'[a] = mode'[a] /\ mode'[a] = mode[a]
    BY <1>2 DEF Perform
  <2>3. running' = Target
    BY <1>2 DEF Perform
  <2>4. QED
    BY <2>1, <2>2, <2>3
<1>3. CASE Activate
  <2>1. Target' = {} /\ Target = {} /\ ~pending
    BY <1>3 DEF Activate, ManagerInv
  <2>2. \A a \in Arms : ~switch'[a] /\ loop'[a] = None /\ mode'[a] = None
    BY <1>3, <2>1 DEF Activate
  <2>3. running' = {}
    BY <1>3 DEF Activate, ManagerInv
  <2>4. QED
    BY <2>1, <2>2, <2>3
<1>4. CASE Update \/ Write \/ Deactivate \/ UNCHANGED vars
  <2>1. UNCHANGED <<manager, arms>>
    BY <1>4 DEF Update, Write, Deactivate, vars
  <2>2. QED
    BY <2>1
<1>5. ASSUME NEW a \in Arms, Fault(a) PROVE InSync'
  BY <1>5 DEF Fault
<1>6. QED
  BY <1>1, <1>2, <1>3, <1>4, <1>5 DEF Next

(* With arm names of which none occurs in another, only a refused request   *)
(* puts an arm out of step with its controllers.                            *)
THEOREM AcceptedSwitchesStayInSync ==
  ASSUME NamesAreDistinct
  PROVE  Spec => OnlyRefusalDisturbs
<1>1. Init => ManagerInv
  BY DEF Init, ManagerInv, Target, Exclusive
<1>2. TypeOK /\ ManagerInv /\ [Next]_vars => [InSync => InSync' \/ Refusal]_vars
  BY SyncStep
<1>3. QED
  BY <1>1, <1>2, ManagerStep, TypeCorrect, PTL DEF Spec, OnlyRefusalDisturbs

(* As long as no request is refused, never are controllers of two modes     *)
(* active on one arm: what wedge shows takes a refusal.                     *)
THEOREM WedgeTakesRefusal ==
  ASSUME NamesAreDistinct
  PROVE  Spec /\ [][~Refusal]_vars => []OneModePerArm
<1>1. Init => InSync
  BY DEF Init, InSync, Wanted, Target, Groups
<1>2. InSync => OneModePerArm
  BY DEF InSync, OneModePerArm
<1>3. TypeOK /\ InSync /\ UNCHANGED vars => InSync'
  BY DEF InSync, Target, Wanted, Groups, vars, manager, arms
<1>4. TypeOK /\ InSync /\ [InSync => InSync' \/ Refusal]_vars /\ [~Refusal]_vars => InSync'
  BY <1>3, Zenon
<1>5. QED
  BY <1>1, <1>2, <1>4, AcceptedSwitchesStayInSync, TypeCorrect, PTL DEF Spec, OnlyRefusalDisturbs
=============================================================================
