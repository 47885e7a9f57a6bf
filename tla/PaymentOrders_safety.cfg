\* A listed and an unlisted product, two requests, two objects per product.
CONSTANTS
  Products = {p1, p2}
  Listed = {p1}
  BasePrice <- MCBasePrice
  Prices = {0, 11}
  Amounts = {0, 9}
  Calls = {c1, c2}
  MaxMade = 2
SPECIFICATION Spec
INVARIANTS
  TypeOK
  ShownIsCharged
  OrdersMatchAnswers
  GatewaysAgreeUntilEdited
CHECK_DEADLOCK FALSE
