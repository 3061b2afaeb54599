CONSTANTS
  Threads = {t1, t2}
  Objects = {4, 8}
SPECIFICATION Spec
INVARIANTS
  TypeOK
  StateFollowsGoals
  HeldCommandObeyed
PROPERTIES
  PressReopens
  FailureEndsNode
