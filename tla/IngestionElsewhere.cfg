SPECIFICATION ElsewhereSpec
CONSTANTS
  Dialect = "postgresql"
  t3 = t3
  Ingests = {t1, t2, t3}
  Requests <- EveryRequest
  Conversations <- MCConversations
  Machines <- MCMachines
  Keys = {"k"}
  None = None
CONSTRAINTS OneSetting LastCallIsBatch
PROPERTIES CommittedRowsStand BatchesDecideOnce
CHECK_DEADLOCK FALSE
