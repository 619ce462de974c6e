SPECIFICATION Spec
CONSTANTS
  Callers <- Activities
  Processes = {"gateway", "executor"}
  ProcessOf <- InProcess
  Budget = 2
  Sources = {"chat", "scheduled", "silent"}
  None = None
  MaxChars = 1
  x = x
  y = y
  Chunks = {x, y}
SYMMETRY ChunkSymmetry
INVARIANT TypeOK
INVARIANT ChatSettles
INVARIANT OneMessage
INVARIANT RecordsHold
INVARIANT OutputShown
INVARIANT OneExpiryIsSurvived
INVARIANT MediaTold
PROPERTY LateOutputWasInFlight
CHECK_DEADLOCK FALSE
