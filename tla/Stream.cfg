\* Every fault at once: send errors, idle timeouts, server errors, a cancelled
\* context.  Two goroutines let a reconnection overlap an old listener.
CONSTANTS
  Goroutines = {g1, g2}
  Streams = {s1, s2}
  None = None
  SendErrors = {"eof", "retryable", "permanent"}
  IdleTimeouts = TRUE
SPECIFICATION FairSpec
INVARIANTS TypeOK OneReconnecting NeverStranded NoStreamLeak
PROPERTIES TerminatedIsForever ReconnectResolves TerminationCleansUp
