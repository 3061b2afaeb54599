CONSTANTS
  Goals = {move, moveit}
  Moveit = {moveit}
  MaxWidth = 1
  Nobody = Nobody
SPECIFICATION FairSpec
INVARIANTS
  TypeOK
  ResultMeansRest
PROPERTIES
  KeepsLifecycle
  EveryGoalEnds
CHECK_DEADLOCK FALSE
