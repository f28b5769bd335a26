SPECIFICATION ScopedSpec
CONSTANTS
  Dialect = "postgresql"
  Ingests = {t1, t2, t3}
  Requests <- WriterRequests
  Conversations <- MCConversations
  Machines <- MCMachines
  Keys = {"k"}
  None = None
INVARIANTS EvidenceStands WholeCopies AcknowledgedIsStored OneRunPerKey GraphOfOneSnapshot
PROPERTIES ImplementsStore
CHECK_DEADLOCK FALSE
