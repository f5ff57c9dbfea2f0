SPECIFICATION Spec
CONSTANTS
  UInt32Range = 8
  Quantities = {0, 1, 2}
  MaxItems = 4
CHECK_DEADLOCK FALSE
INVARIANTS
  TradesReported
  EchoesSilent
  EndsNotFills
