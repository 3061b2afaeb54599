CONSTANTS
  ControlModes = {JointTorque}
  None = None
  Garbage = Garbage
  Recovery = TRUE
  CallsFail = FALSE
SPECIFICATION Spec
INVARIANTS
  StoppedMeansNoLoop
CHECK_DEADLOCK FALSE
