SPECIFICATION Spec
CONSTANTS
  tester = tester
  tester1 = tester1
  tester2 = tester2
  Agent <- MCAgent
  Role <- MCRole
  RoleOf <- MCRoleOf
  Target <- MCTarget
  Shutdown = FALSE
  MaxWork = 2
  MaxCommand = 1
  MaxAsk = 1
  MaxCrash = 1
INVARIANTS TypeOK DispatchedOnce
PROPERTIES WaitingWorkIsKept
SYMMETRY Replica
CHECK_DEADLOCK FALSE
