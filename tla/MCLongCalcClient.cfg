CONSTANTS
  Requests = {1, 2}
  MaxCancels = 1
SPECIFICATION Spec
CHECK_DEADLOCK FALSE
INVARIANT ErrorsReported
