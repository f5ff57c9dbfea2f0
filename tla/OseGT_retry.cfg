SPECIFICATION Spec
CONSTANTS
  UInt32Range = 8
  Orders = {"o1"}
  Qty = {1}
  Sessions = {0, 1}
  Workers = {0}
  WorkerCount = 1
  FirstWorker = 0
  BdxSession = 1
  HasNewPassword = TRUE
  OrderQueueBound = 2
  ResponseQueueBound = 2
  BdxQueueBound = 4
  MaxStale = 0
  ClientActs = {"NEW"}
  Disturbed = {0}
  MaxDrops = 2
CHECK_DEADLOCK FALSE
INVARIANTS
  ResentOnlyAfterLoss
  DeadOrderNeverLived
  ReadyMeansAccepted
  ConnectedMeansReady
  LeakPerDeath
  LoggedInHasHandle
