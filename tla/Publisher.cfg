\* The server may end streams; SendMsg may report io.EOF or a permanent error.
\* Three messages overflow the buffer of two.
CONSTANTS
  Goroutines = {g1}
  Streams = {s1, s2}
  None = None
  SendErrors = {"eof", "permanent"}
  IdleTimeouts = FALSE
  NumMessages = 3
  BufferedByteLimit = 2
  MaxRequest = 2
  MaxFaults = 1
SPECIFICATION FairSpec
INVARIANTS TypeOK ResultOnce OffsetsTruthful OrderedLog BufferAccounting
PROPERTY ShutdownCompletes
