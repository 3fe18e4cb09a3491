SPECIFICATION Spec
CONSTANTS
  None = None
  MaxSessions = 2
  MaxAttempts = 1
  MaxCalls = 2
  MaxEvents = 1
  MaxReloads = 1
CHECK_DEADLOCK FALSE
INVARIANT Inv
INVARIANT GuardedRoutes
PROPERTY ImplementsTab
PROPERTY RestoreEnds
