SPECIFICATION Spec
CONSTANTS
  Clients = {r1, r2}
  Queries = {q1, q2}
  Selections <- Changing
  MaxSessions = 1
  Idle = 1
  MaxAge = 2
  PageSize = 1
  EndOfTime = 3
  MaxHandles = 2
  None = None
SYMMETRY ClientSymmetry
PROPERTIES ServedReferencesResolve
CHECK_DEADLOCK FALSE
