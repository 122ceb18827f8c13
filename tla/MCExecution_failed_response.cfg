\* A response the agent refuses is recorded as responded and cannot be repeated.
SPECIFICATION Spec
CONSTANTS
  Interactions = {i1, i2}
  UserCalls = {u1, u2}
  None = None
SYMMETRY NameSymmetry
INVARIANT FailedResponseCanBeRetried
CHECK_DEADLOCK FALSE
