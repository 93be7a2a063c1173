\* The idle timer may expire while the server ends the stream.
CONSTANTS
  Goroutines = {g1, g2}
  Streams = {s1, s2, s3}
  None = None
  SendErrors = {}
  IdleTimeouts = TRUE
SPECIFICATION Spec
SYMMETRY Symmetry
INVARIANT TerminationHasCause
