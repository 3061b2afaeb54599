CONSTANTS
  velocity1 = velocity1
  twist1 = twist1
  effort2 = effort2
  N <- TwoArms
  Controllers <- ThreeControllers
  Claims <- ThreeClaims
  Faulty <- FaultyControllers
  Within <- DistinctNames
SPECIFICATION FairSpec
INVARIANTS
  TypeOK
PROPERTIES
  OnlyRefusalDisturbs
  HealthyArmObeys
CHECK_DEADLOCK FALSE
