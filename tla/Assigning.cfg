\* One partition that is assigned, taken away and assigned again; or an idle
\* timeout, after which two assignments are handled at the same time.
CONSTANTS
  Partitions = {p1}
  Listeners = {l1, l2}
  MaxGenerations = 2
  MaxAssignments = 3
  MaxOverlapping = 2
  Services <- MCServices
SPECIFICATION FairSpec
INVARIANTS TypeOK TerminatedTogether OneSubscriberPerPartition
PROPERTIES AckAfterStop Settles
CHECK_DEADLOCK FALSE
