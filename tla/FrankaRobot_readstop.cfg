CONSTANTS
  ControlModes = {JointTorque}
  None = None
  Garbage = Garbage
  Recovery = FALSE
  CallsFail = FALSE
SPECIFICATION FairSpec
PROPERTIES
  StopRobotEnds
CHECK_DEADLOCK FALSE
