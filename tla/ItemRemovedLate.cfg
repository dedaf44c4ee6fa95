\* One request at a time: an item leaves an order that is confirmed already.
SPECIFICATION Spec
CONSTANTS
  s1 = s1
  s2 = s2
  milk = milk
  bread = bread
  Slots = {s1}
  Products = {milk, bread}
  Prices = {1, 2}
  Lines <- TwoLines
  MaxItems = 2
  MaxInt = 6
INVARIANT PaymentAmountIsTotal
CHECK_DEADLOCK FALSE
