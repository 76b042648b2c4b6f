SPECIFICATION Spec
CONSTANTS
  Retries = 2
  MaxTip = 2
  LastPool = 2
  Hosts = {0, 1}
  Daemons = {0, 1}
  Configs <- MCConfigs
INVARIANTS
  FirstPoolPreferred
  FirstPoolHoldsOne
  GoneIsSilent
PROPERTIES
  ImplementsChoice
  Recovers
  ClientsRemoved
  BackupsReleased
  FollowsChain
CHECK_DEADLOCK FALSE
