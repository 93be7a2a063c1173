\* Retryable SendMsg errors and idle timeouts: an old listener can overlap with a
\* new stream.
CONSTANTS
  Goroutines = {g1, g2}
  Streams = {s1, s2, s3}
  None = None
  SendErrors = {"retryable"}
  IdleTimeouts = TRUE
  MaxOutstandingMessages = 2
  MaxOffset = 2
  SeekTargets = {0}
  MaxResets = 0
  MaxFaults = 1
SPECIFICATION Spec
INVARIANT QueueNeverFull
PROPERTY EveryMessageOnce
SYMMETRY Symmetry
CHECK_DEADLOCK FALSE
