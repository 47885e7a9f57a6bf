\* Two orders the customer may end up paying; one failed request and one crash.  (Failures of the
\* pipeline itself are in RazorpayWebhook_safety.)
SPECIFICATION Spec
CONSTANTS
  Orders = {o1, o2}
  NEndpoints = 1
  MaxAttempts = 1
  MaxFaults = 0
  MaxCrashes = 1
  MaxFailures = 1
  NoOrder = NoOrder
SYMMETRY Symmetry
INVARIANTS TypeOK ChargesExplained ClaimsAreTrue
CHECK_DEADLOCK FALSE
