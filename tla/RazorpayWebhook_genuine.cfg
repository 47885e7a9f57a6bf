\* A genuine event whose body is not what JSON.stringify prints.
CONSTANTS
  Orders = {o1}
  NEndpoints = 1
  MaxAttempts = 0
  MaxFaults = 0
  MaxCrashes = 0
SPECIFICATION Spec
CHECK_DEADLOCK FALSE
INVARIANT GenuineEventsAccepted
