\* Every input and definition, any order of events, replies, timers and exits.
SPECIFICATION FairSpec
CONSTANTS
  Inputs <- AllInputs
  Defs <- AllDefs
  MaxEvents = 3
  MaxAsks = 2
CONSTRAINT SecondRequest
INVARIANTS NothingRunsUnapproved PassedReportIsTrue AnswerIsGiven  AgentIsClosed
PROPERTY EndsAfterExit
CHECK_DEADLOCK FALSE
