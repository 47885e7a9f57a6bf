\* The three URLs of the dashboard, two unsuccessful attempts, two failures (status requests that hang
\* among them), two crashes, a lagging status API: a paid order is confirmed or the lack of it explained.
CONSTANTS
  Orders = {o1}
  NEndpoints = 3
  MaxAttempts = 2
  MaxFaults = 2
  MaxCrashes = 2
  StatusMayLag = TRUE
SPECIFICATION FairSpec
CHECK_DEADLOCK FALSE
PROPERTY PaidEventuallyConfirmed
