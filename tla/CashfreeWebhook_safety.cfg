\* Two orders, two URLs, one failure and one crash, a lagging status API; the refinement of the ledger.
CONSTANTS
  Orders = {o1, o2}
  NEndpoints = 2
  MaxAttempts = 1
  MaxFaults = 1
  MaxCrashes = 1
  StatusMayLag = TRUE
SPECIFICATION Spec
SYMMETRY OrderSymmetry
INVARIANTS
  TypeOK
  ConfirmedOnlyPaid
  DeliveryAccounting
  MissingMailsExplained
PROPERTY KeepsLedger
CHECK_DEADLOCK FALSE
