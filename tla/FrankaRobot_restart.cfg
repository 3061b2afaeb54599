CONSTANTS
  ControlModes = {JointTorque}
  None = None
  Garbage = Garbage
  Recovery = TRUE
  CallsFail = FALSE
SPECIFICATION Spec
PROPERTIES
  RecoveryRestartsLoop
CHECK_DEADLOCK FALSE
