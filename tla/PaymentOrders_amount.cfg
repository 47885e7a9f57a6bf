\* A listed product requested from Razorpay without an amount.
CONSTANTS
  Products = {p1}
  Listed = {p1}
  BasePrice <- MCBasePrice
  Prices = {0, 11}
  Amounts = {0, 9}
  Calls = {c1}
  MaxMade = 2
SPECIFICATION Spec
CHECK_DEADLOCK FALSE
PROPERTY MissingAmountUsesDefault
