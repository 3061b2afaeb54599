CONSTANTS
  Launches <- MCLaunches
  Mortal <- MCMortal
  Patience = 1
SPECIFICATION Spec
INVARIANTS
  TypeOK
  ThresholdsKept
PROPERTIES
  ShutdownEndsAll
  AdapterSettles
  DeadArmShown
  ReflexShown
  FreeArmShown
