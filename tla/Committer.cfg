\* The server may end streams; SendMsg may report io.EOF or a permanent error;
\* the subscription may be seeked once.
CONSTANTS
  Goroutines = {g1}
  Streams = {s1, s2}
  None = None
  SendErrors = {"eof", "permanent"}
  IdleTimeouts = FALSE
  MaxFaults = 1
  MaxOffset = 1
  MaxResets = 1
SPECIFICATION FairSpec
INVARIANTS TypeOK AckedBeforeCommitted TrackedOnlyAcked ConfirmedIsCommitted
PROPERTIES CursorAdvances FinalCommit StopCompletes ResetReturns
