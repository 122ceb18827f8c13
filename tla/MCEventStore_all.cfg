\* Two processes share the database, interleave inside their ingests and end anywhere.
SPECIFICATION Spec
CONSTANTS
  Runs = {r1, r2}
  SeqNumbers = {1, 2}
  EventTypes = {"log", "interaction.required", "action.succeeded", "action.failed"}
  MaxRows = 2
SYMMETRY RunSymmetry
INVARIANTS JudgementStaysTrue StatusAgreesWithLog ReplayOrderIsAcceptanceOrder
           TerminalEventIsLast
PROPERTIES ForeignIngestsDoNotTouchRun ImplementsRunLog
CHECK_DEADLOCK FALSE
