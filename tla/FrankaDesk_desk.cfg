CONSTANTS
  Clients = {launch, cli}
  Cli = {cli}
  MaxPolls = 2
  Nobody = Nobody
SPECIFICATION FairSpec
INVARIANTS
  TypeOK
  OpenUnderToken
  ReadyInMenu
  NoClaimAfterLogout
PROPERTIES
  EveryAttemptEnds
CHECK_DEADLOCK FALSE
