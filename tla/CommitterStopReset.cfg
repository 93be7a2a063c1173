\* A seek that races with Stop; nothing fails.
CONSTANTS
  Goroutines = {g1}
  Streams = {s1, s2}
  None = None
  SendErrors = {}
  IdleTimeouts = FALSE
  MaxFaults = 0
  MaxOffset = 0
  MaxResets = 1
SPECIFICATION FairSpec
PROPERTY ShutdownCompletes
