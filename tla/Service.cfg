SPECIFICATION ServiceSpec
CONSTANTS
  Checks = {k1, k2}
  c1 = c1
  c2 = c2
  Commands = {c1, c2}
  Plans <- Pairs
  MaxAttempts = 2
  Absent = absent
INVARIANTS ReadyWasTrue NothingOutlivesServe SuccessWasAsked
  UploadedOnce OutcomesAreTrue
PROPERTIES EveryCheckAnswered EverySlotComesBack EveryServeEnds EveryUploadEnds
CHECK_DEADLOCK FALSE
