SPECIFICATION WriterSpec
CONSTANTS
  Dialect = "postgresql"
  Ingests = {t1, t2, t3}
  Requests <- CrossLabelRequests
  Conversations <- MCConversations
  Machines <- MCMachines
  Keys = {"k"}
  None = None
PROPERTIES RankNeverFalls
CHECK_DEADLOCK FALSE
