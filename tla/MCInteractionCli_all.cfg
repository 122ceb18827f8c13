\* Two interactions whose loops share the response file, the terminal and the run.
SPECIFICATION CliSpec
CONSTANTS
  Interactions = {i1, i2}
  UserCalls <- LoopCalls
  None = None
SYMMETRY InteractionSymmetry
INVARIANTS DeferredHasTimer RuntimeOwnsTimeouts
PROPERTIES GivesUpWithReason
CHECK_DEADLOCK FALSE
