SPECIFICATION FairSpec
CONSTANTS
  Item = {a, b}
  NoItem = NoItem
  Torn = Torn
  Capacity = 4
INVARIANTS
  TypeOK
  SlotsAreOwned
PROPERTIES
  ImplementsFifo
  DeliversAll
