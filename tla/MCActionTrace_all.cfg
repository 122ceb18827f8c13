\* One run with one interaction over a schema of two fields, and one reader at a time.
SPECIFICATION Spec
CONSTANTS
  EventTypes = {"log", "action.failed"}
  Fields = {f1, f2}
  MaxEvents = 3
  MaxAsks = 1
SYMMETRY FieldSymmetry
CONSTRAINT ReaderOrRedaction
INVARIANTS EndedHasTerminalEvent TraceBeginsReplay MarkedFieldsAreRedacted
           RedactedPathsAreExact AgentGetsOriginal
CHECK_DEADLOCK FALSE
