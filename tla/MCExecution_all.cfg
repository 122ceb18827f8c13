\* Two interactions, two concurrent calls of the user, a fair event loop.  The
\* liveness properties exclude symmetry.
SPECIFICATION FairSpec
CONSTANTS
  Interactions = {i1, i2}
  UserCalls = {u1, u2}
  None = None
INVARIANTS PendingHasOpenRow TimerBelongsToPending TerminalSettlementIsClean
           OneWinner ClaimIsReleased
PROPERTIES OutcomeIsFinal ExitSettles TimedInteractionEnds
CHECK_DEADLOCK FALSE
