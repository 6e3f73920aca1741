CONSTANTS
  Ids = {1, 2}
  Indexes = {ix1, ix2}
SPECIFICATION Spec
INVARIANT UntouchedOnError
CHECK_DEADLOCK FALSE
