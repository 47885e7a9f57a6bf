\* Two orders, two callers who repeat their call, two broken connections.
CONSTANTS
  Orders = {o1, o2}
  Callers = {c1, c2}
  Amounts = {0, 1}
  OrderAmount <- MCOrderAmount
  MaxCalls = 2
  MaxFaults = 2
SPECIFICATION Spec
INVARIANTS
  TypeOK
  RefundsPerCaller
  AnswersTellTheTruth
  RefundsExplained
CHECK_DEADLOCK FALSE
