\* No fault at all: the user publishes two messages and calls Stop.
CONSTANTS
  Goroutines = {g1}
  Streams = {s1}
  None = None
  SendErrors = {}
  IdleTimeouts = FALSE
  NumMessages = 2
  BufferedByteLimit = 2
  MaxRequest = 2
  MaxFaults = 0
SPECIFICATION Spec
INVARIANT NoSilentLoss
