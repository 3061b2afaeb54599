CONSTANTS
  ControlModes = {JointTorque}
  None = None
  Garbage = Garbage
  Recovery = FALSE
  CallsFail = FALSE
SPECIFICATION FairSpec
INVARIANTS
  StoppedMeansNoLoop
  CommandedLoop
PROPERTIES
  KeepsControlLoop
  SwitchStopEnds
  ReflexIsFlagged
CHECK_DEADLOCK FALSE
