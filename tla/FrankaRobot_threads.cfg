CONSTANTS
  ControlModes = {JointTorque}
  None = None
  Garbage = Garbage
  Recovery = TRUE
  CallsFail = TRUE
SPECIFICATION Spec
INVARIANTS
  TypeOK
  CheckedStateIsStable
  NoOtherDeadlock
CHECK_DEADLOCK FALSE
