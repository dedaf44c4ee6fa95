\* Adjustments, archiving, deletion and orders overlap.
SPECIFICATION Spec
CONSTANTS
  s1 = s1
  s2 = s2
  milk = milk
  bread = bread
  north = north
  south = south
  o1 = o1
  Slots = {s1, s2}
  Products = {milk, bread}
  Locations = {north, south}
  Settable = {"ACTIVE", "ARCHIVED"}
  Orders = {o1}
  Deltas <- OneUnit
  Threshold <- LowAtOne
  MaxInt = 1
  MaxLedger = 1
  NoRow = NoRow
SYMMETRY Interchangeable
INVARIANTS
  TypeOK
  StockNotNegative
  StockIsLedger
  NoOrphans
  OrgKeepsLocation
  LowStockAgrees
PROPERTIES
  StockKeepsLocation
  OrderKeepsLocation
CHECK_DEADLOCK FALSE
