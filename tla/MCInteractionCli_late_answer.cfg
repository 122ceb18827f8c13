\* An answer entered after the timeout ends a run that goes on.
SPECIFICATION CliSpec
CONSTANTS
  Interactions = {i1}
  UserCalls <- LoopCalls
  None = None
INVARIANT TimeoutIsTolerated
CHECK_DEADLOCK FALSE
