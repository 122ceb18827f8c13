\* Every input and definition; the executions are kept small.
SPECIFICATION Spec
CONSTANTS
  Inputs <- AllInputs
  Defs <- AllDefs
  MaxEvents = 1
  MaxAsks = 1
INVARIANT FailureIsReported
CHECK_DEADLOCK FALSE
