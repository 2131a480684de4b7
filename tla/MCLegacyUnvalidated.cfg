CONSTANTS
  Writer = {"w1"}
  Formats <- Legacy
  Nobody = "nobody"
SPECIFICATION Spec
INVARIANT DestinationIsOldOrValidated
CHECK_DEADLOCK FALSE
