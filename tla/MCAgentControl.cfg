SPECIFICATION FairSpec
CONSTANTS
  judge = judge
  theJudge = theJudge
  Agent <- MCAgent
  Role <- MCRole
  RoleOf <- MCRoleOf
  Target <- MCTarget
  Shutdown = TRUE
  MaxWork = 1
  MaxCommand = 2
  MaxAsk = 1
  MaxCrash = 1
INVARIANTS NothingLeftBehind
PROPERTIES WorkIsTaken Supervised
CHECK_DEADLOCK FALSE
