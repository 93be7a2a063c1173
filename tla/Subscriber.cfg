\* The server may end streams and signal a seek; SendMsg may report io.EOF or a
\* permanent error.  Four messages pass a window of three.
CONSTANTS
  Goroutines = {g1}
  Streams = {s1, s2}
  None = None
  SendErrors = {"eof", "permanent"}
  IdleTimeouts = FALSE
  MaxOutstandingMessages = 3
  MaxOffset = 3
  SeekTargets = {0}
  MaxResets = 1
  MaxFaults = 1
SPECIFICATION FairSpec
INVARIANTS TypeOK WindowBalance ServerTokensAgree ResponsesAccepted
PROPERTIES EveryMessageOnce EverythingDelivered
CHECK_DEADLOCK FALSE
