\* Two executes, two interactions, responses and timeouts, a fair interpreter.  The
\* liveness properties exclude symmetry.
SPECIFICATION FairSpec
CONSTANTS
  Executes = {e1, e2}
  Ids = {i1, i2}
  Answers = {"value", "abort"}
  None = None
INVARIANTS AckIsDelivered OneExecuteAtATime NextRequestIsNotBusy
PROPERTIES CancelIsNotLost AckUnblocks CancelUnblocks
CHECK_DEADLOCK FALSE
