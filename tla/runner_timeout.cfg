\* A call that times out while its process lives.
SPECIFICATION Safety
CONSTANTS
  Kinds = {"call"}
  MaxCalls = 3
  MaxStarts = 1
CHECK_DEADLOCK FALSE
INVARIANT TimeoutTearsDown
