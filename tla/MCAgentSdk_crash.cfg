\* The end of an execute overtakes a response, and the server dies of it.
SPECIFICATION Spec
CONSTANTS
  Executes = {e1}
  Ids = {i1}
  Answers = {"value", "abort"}
  None = None
INVARIANT RequestsGetAnswers
CHECK_DEADLOCK FALSE
