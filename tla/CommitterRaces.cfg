\* Retryable send errors and idle timeouts: reconnections overlap old listeners.
CONSTANTS
  Goroutines = {g1, g2}
  Streams = {s1, s2, s3}
  None = None
  SendErrors = {"retryable"}
  IdleTimeouts = TRUE
  MaxFaults = 1
  MaxOffset = 1
  MaxResets = 0
SPECIFICATION Spec
SYMMETRY Symmetry
INVARIANT AckedBeforeCommitted
