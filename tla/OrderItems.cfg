\* Item requests overlap with one another, with confirmation and with price changes.
SPECIFICATION Spec
CONSTANTS
  s1 = s1
  s2 = s2
  milk = milk
  bread = bread
  Slots = {s1, s2}
  Products = {milk, bread}
  Prices = {1, 2}
  Lines <- TwoLines
  MaxItems = 3
  MaxInt = 6
SYMMETRY Interchangeable
INVARIANTS
  TypeOK
  TotalsMatchItems
CHECK_DEADLOCK FALSE
