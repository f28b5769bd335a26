SPECIFICATION Spec
CONSTANTS
  Reports = {p1, p2, p3}
  Exports = {x1, x2}
  MaxReports = 2
  MaxExports = 1
SYMMETRY RequestSymmetry
INVARIANTS TemporariesRemoved
CHECK_DEADLOCK FALSE
