SPECIFICATION ReportingSpec
CONSTANTS
  Clients = {r1, r2}
  Queries = {q1, q2}
  Selections <- Changing
  MaxSessions = 1
  Idle = 1
  MaxAge = 2
  PageSize = 1
  EndOfTime = 3
  MaxHandles = 2
  None = None
  Reports = {p1, p2, p3}
  Exports = {x1, x2}
  MaxReports = 2
  MaxExports = 1
  Writers = {w1, w2}
  Old = old
  Output = output
  Readers = {b1}
  Stored = {s1, s2}
  MaxTurns = 2
  MaxRecords = 5
  MaxCommits = 3
SYMMETRY ClientSymmetry
INVARIANTS ListsAreWhole PermitsAreKept StreamedIsThere OutputIsWhole DoneIsDurable ReadsAreCoherent
PROPERTIES RefusedWithCause
CHECK_DEADLOCK FALSE
