SPECIFICATION Spec
CONSTANTS
  UInt32Range = 8
  Orders = {"o1"}
  Qty = {2}
  Sessions = {0, 1}
  Workers = {0}
  WorkerCount = 1
  FirstWorker = 0
  BdxSession = 1
  HasNewPassword = FALSE
  OrderQueueBound = 2
  ResponseQueueBound = 2
  BdxQueueBound = 8
  MaxStale = 1
  ClientActs = {"NEW", "MOD"}
  Disturbed = {1}
  MaxDrops = 1
CHECK_DEADLOCK FALSE
INVARIANTS
  DeferredHasTrade
  FillsAddUp
