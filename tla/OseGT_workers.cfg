SPECIFICATION Spec
CONSTANTS
  UInt32Range = 8
  Orders = {"o1"}
  Qty = {1}
  Sessions = {0, 1, 2}
  Workers = {0, 1}
  WorkerCount = 2
  FirstWorker = 0
  BdxSession = 2
  HasNewPassword = FALSE
  OrderQueueBound = 2
  ResponseQueueBound = 2
  BdxQueueBound = 4
  MaxStale = 0
  ClientActs = {"NEW"}
  Disturbed = {0}
  MaxDrops = 1
CHECK_DEADLOCK FALSE
INVARIANTS
  StoppedIsQuiet
