\* One order at three URLs, one unsuccessful attempt, two failures, one crash, any mix of bodies,
\* with or without an address; the refinement of the ledger and the confirmation.  (RazorpayCheckout has two.)
CONSTANTS
  Orders = {o1}
  NEndpoints = 3
  MaxAttempts = 1
  MaxFaults = 2
  MaxCrashes = 1
SPECIFICATION FairSpec
CHECK_DEADLOCK FALSE
INVARIANTS
  TypeOK
  NoticesAccounted
  MissingMailsExplained
PROPERTIES
  KeepsLedger
  CapturedEventuallyConfirmed
