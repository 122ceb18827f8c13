\* Two submissions, two executions with an interaction each (and any rejected), two responses at a time.
SPECIFICATION Spec
CONSTANTS
  Tasks = {t1, t2}
  Runs = {r1, r2}
  Answers = {a1, a2}
  MaxAsks = 1
  MaxCancels = 1
  None = None
SYMMETRY SlotSymmetry
INVARIANTS AgentIsUnderControl ScreenIsBacked
CHECK_DEADLOCK FALSE
