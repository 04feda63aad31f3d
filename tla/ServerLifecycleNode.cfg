SPECIFICATION Spec
CONSTANTS
  Call = {c1, c2}
  MaxLeaderships = 1
INVARIANT NodeThereWhenApplied
CHECK_DEADLOCK FALSE
