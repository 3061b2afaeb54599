------------------------ MODULE MCCommandModeSwitch ------------------------
(* An instance of CommandModeSwitch for TLC.                                *)
EXTENDS CommandModeSwitch

CONSTANTS velocity1, twist1, effort2

(* Arm 1 has a joint and a Cartesian controller of one word, arm 2 a joint  *)
(* controller of another; no arm's name occurs in the other's.              *)
TwoArms == 2
ThreeControllers == {velocity1, twist1, effort2}
ThreeClaims ==
  [c \in ThreeControllers |->
     CASE c = velocity1 -> {<<1, "JointVelocity">>}
       [] c = twist1    -> {<<1, "CartesianVelocity">>}
       [] c = effort2   -> {<<2, "JointTorque">>}]
FaultyControllers == {velocity1, effort2}
DistinctNames == {<<a, a>> : a \in 1 .. TwoArms}
=============================================================================
