CONSTANTS
  Setups <- MCSetups
SPECIFICATION Spec
INVARIANTS
  TypeOK
  EveryArmRelocked
PROPERTIES
  StopBeforeBrakes
  EveryLaunchConfirmed
  KeepsSessions
  ConfirmedArmIsLaunched
  LaunchesEnd
  LeavingEnds
CHECK_DEADLOCK FALSE
