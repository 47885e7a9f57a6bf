\* One order, one URL, nothing fails: the reply precedes the processing.
CONSTANTS
  Orders = {o1}
  NEndpoints = 1
  MaxAttempts = 0
  MaxFaults = 0
  MaxCrashes = 0
  StatusMayLag = FALSE
SPECIFICATION Spec
CHECK_DEADLOCK FALSE
INVARIANT ReplyMeansProcessed
