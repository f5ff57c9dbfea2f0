SPECIFICATION Spec
CONSTANTS
  UInt32Range = 8
  Orders = {"o1"}
  Qty = {1}
  Sessions = {0, 1}
  Workers = {0}
  WorkerCount = 1
  FirstWorker = 0
  BdxSession = 1
  HasNewPassword = FALSE
  OrderQueueBound = 2
  ResponseQueueBound = 2
  BdxQueueBound = 4
  MaxStale = 0
  ClientActs = {"NEW", "MOD", "CXL"}
  Disturbed = {0}
  MaxDrops = 1
CHECK_DEADLOCK FALSE
INVARIANTS
  TypeOK
  RequestIsInOnePlace
  AckNamesTheOrder
  CanceledIsGone
  WorkersKeepOrder
