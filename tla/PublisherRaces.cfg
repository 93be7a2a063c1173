\* Retryable send errors and idle timeouts: reconnections overlap old listeners.
CONSTANTS
  Goroutines = {g1, g2}
  Streams = {s1, s2, s3}
  None = None
  SendErrors = {"retryable"}
  IdleTimeouts = TRUE
  NumMessages = 2
  BufferedByteLimit = 2
  MaxRequest = 2
  MaxFaults = 1
SPECIFICATION Spec
SYMMETRY Symmetry
INVARIANTS ResultOnce BufferAccounting
